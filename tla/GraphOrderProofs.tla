-------------------------- MODULE GraphOrderProofs --------------------------
(* Theorems about what the messages of a stream become, for any messages, *)
(* sessions and bounds: that an acknowledged one was handled, that totals  *)
(* are complete, and that one consumer stores a session in order.          *)
EXTENDS GraphMessagesProofs, WellFoundedInduction

-----------------------------------------------------------------------------
(* Numbers and sets of entries *)

\* The order of the numbers is well founded.
LEMMA LessWellFounded ==
    \E R : IsWellFoundedOn(R, Nat) /\ \A k, n \in Nat : k < n => <<k, n>> \in R
<1>1. IsWellFoundedOn(OpToRel(<, Nat), Nat)
  BY NatLessThanWellFounded
<1>2. \A k, n \in Nat : k < n => <<k, n>> \in OpToRel(<, Nat)
  BY DEF OpToRel
<1> QED
  BY <1>1, <1>2

\* Some of a set of numbers is the least.
LEMMA Least ==
    ASSUME NEW T \in SUBSET Nat, T # {}
    PROVE  \E n \in T : \A k \in T : n <= k
<1>1. PICK R : IsWellFoundedOn(R, Nat) /\ \A k, n \in Nat : k < n => <<k, n>> \in R
  BY LessWellFounded
<1>2. IsWellFoundedOn(R, Nat) /\ T \subseteq Nat
  BY <1>1
<1>3. PICK n \in T : \A k \in T : ~(<<k, n>> \in R)
  BY <1>2, WFMin, Zenon
<1>4. \A k \in T : ~(k < n)
  BY <1>1, <1>3
<1> QED
  BY <1>3, <1>4

\* Of the entries of a message one is the first: _parse loses no message.
LEMMA NoneParsedAway ==
    ASSUME NEW S \in SUBSET Entry
    PROVE  MessagesOf(Unrepeated(S)) = MessagesOf(S)
<1>1. MessagesOf(Unrepeated(S)) \subseteq MessagesOf(S)
  BY DEF MessagesOf, Unrepeated
<1>2. ASSUME NEW e \in S
      PROVE  \E f \in Unrepeated(S) : f.msg = e.msg
  <2> DEFINE ids == {f.id : f \in {g \in S : g.msg = e.msg}}
  <2>1. ids \in SUBSET Nat /\ ids # {}
    BY DEF Entry
  <2>2. PICK n \in ids : \A k \in ids : n <= k
    BY <2>1, Least
  <2>3. PICK f \in S : f.msg = e.msg /\ f.id = n
    BY <2>2
  <2>4. \A g \in S : g.msg = f.msg => f.id <= g.id
    BY <2>2, <2>3
  <2> QED
    BY <2>3, <2>4 DEF Unrepeated
<1>3. \A m \in MessagesOf(S) : m \in MessagesOf(Unrepeated(S))
  BY <1>2 DEF MessagesOf
<1> QED
  BY <1>1, <1>3

\* The oldest entry of a finite set has none before it.
LEMMA OldestOne ==
    ASSUME NEW S \in SUBSET Entry, IsFiniteSet(S), NEW e \in Oldest(1, S), NEW f \in S
    PROVE  e \in S /\ e.id <= f.id
<1> DEFINE before == {g \in S : g.id < e.id}
<1>1. e \in S /\ Cardinality(before) < 1
  BY DEF Oldest
<1>2. IsFiniteSet(before) /\ Cardinality(before) \in Nat
  BY FS_Subset, FS_CardinalityType
<1>3. before = {}
  <2> HIDE DEF before
  <2> QED
    BY <1>1, <1>2, FS_EmptySet
<1>4. ~(f.id < e.id)
  BY <1>3
<1> QED
  BY <1>1, <1>4 DEF Entry

\* What a function makes of a finite set is finite, and no more.
LEMMA FiniteImage ==
    ASSUME NEW S, IsFiniteSet(S), NEW f, NEW T, f \in [S -> T], \A t \in T : \E x \in S : f[x] = t
    PROVE  IsFiniteSet(T) /\ Cardinality(T) <= Cardinality(S)
<1>1. f \in Surjection(S, T)
  BY DEF Surjection
<1> QED
  BY <1>1, FS_Surjection

-----------------------------------------------------------------------------
(* What the steps do to a batch *)

\* Nothing but Redis and the consumer's own state changes.
Outside == UNCHANGED <<kind, rowVars, hashVars, handlerVars, ghostVars>>

\* Between two batches.
Waits == Outside /\ pc \notin Busy /\ pc' \notin Busy /\ UNCHANGED batchVars

\* The batch is forgotten, whatever was done of it.
Stops == NoBatch /\ pc' \in {"asleep", "joining"}

\* A delivery becomes the batch.
Handles ==
    /\ Outside
    /\ \E S \in SUBSET Entry, isolate \in BOOLEAN, resume \in {"takingOver", "owning", "checking"} :
          Handle(S, isolate, resume)

\* A message stored alone is given up.
GivesUp ==
    /\ pc \in {"inserting", "counting", "totalling", "subgraphing"} /\ mode # "whole" /\ GiveUp
    /\ UNCHANGED <<kind, rowVars, hashVars, handlerVars, told, acked, streamVars, groupVars, me, renamed>>

\* A batch that cannot be stored whole is stored one message at a time.
GoesAlone ==
    /\ Outside /\ UNCHANGED <<claimed, streamVars, groupVars, me, renamed, back, periodic>>
    /\ pc = "counting" /\ mode = "whole"
    /\ mode' = "alone" /\ todo' = WellFormed(claimed) /\ work' = {} /\ pc' = "next"

\* The steps of a delivery and of the waits around it.
LEMMA DeliverySteps ==
    ASSUME GraphTypeOK, GraphAssumption,
           \/ Join \/ TakeOver \/ NothingToTakeOver \/ ReviewConsumers \/ ClaimOwn \/ Started
           \/ ReadNew \/ NothingToRead \/ CheckNotDue \/ CheckDue \/ StartOver
    PROVE  UNCHANGED streamVars /\ (Waits \/ (Outside /\ Stops) \/ Handles)
<1> USE DEF Outside, Waits, Stops, Busy, rowVars, hashVars, handlerVars, ghostVars
<1>r. Raise => Stops
  BY DEF Raise
<1>1. CASE Join \/ NothingToTakeOver \/ Started \/ NothingToRead \/ CheckNotDue \/ CheckDue \/ StartOver
  BY <1>1 DEF Join, NothingToTakeOver, Started, NothingToRead, CheckNotDue, CheckDue, StartOver,
     Goto, batchVars
<1>2. CASE TakeOver
  <2> DEFINE kept == Claimed(Surviving(Oldest(BatchSize, Idle)))
             S == {EntryOf(p) : p \in kept}
  <2>1. /\ Outside /\ UNCHANGED streamVars /\ pc = "takingOver"
        /\ \/ Goto("takingOver")
           \/ Handle(S, FALSE, "takingOver")
           \/ Raise
    BY <1>2 DEF TakeOver, ThenOrLost
  <2>2. S \in SUBSET Entry
    <3>1. Oldest(BatchSize, Idle) \in SUBSET PendingEntry
      BY OldestSubset DEF Idle, GraphTypeOK
    <3> QED
      BY <3>1, ClaimedType DEF GraphTypeOK
  <2> HIDE DEF S
  <2> QED
    BY <1>r, <2>1, <2>2 DEF Handles, Goto
<1>3. CASE ReviewConsumers
  BY <1>3, <1>r DEF ReviewConsumers, ThenOrLost
<1>4. CASE ClaimOwn
  <2> DEFINE kept == Claimed(Surviving(Oldest(BatchSize, Own)))
             often == \E p \in Oldest(BatchSize, Own) : p.times >= IsolateAfter
             S == {EntryOf(p) : p \in kept}
  <2>1. /\ Outside /\ UNCHANGED streamVars /\ pc = "owning"
        /\ \/ Goto("owning")
           \/ Handle(S, often, "owning")
           \/ Raise
    BY <1>4 DEF ClaimOwn, ThenOrLost
  <2>2. S \in SUBSET Entry /\ often \in BOOLEAN
    <3>1. Oldest(BatchSize, Own) \in SUBSET PendingEntry
      BY OldestSubset DEF Own, GraphTypeOK
    <3> QED
      BY <3>1, ClaimedType DEF GraphTypeOK
  <2> HIDE DEF S, often
  <2> QED
    BY <1>r, <2>1, <2>2 DEF Handles, Goto
<1>5. CASE ReadNew
  <2> DEFINE S == Oldest(BatchSize, Unread)
  <2>1. /\ Outside /\ UNCHANGED streamVars /\ pc = "reading"
        /\ Handle(S, FALSE, "checking") \/ Raise
    BY <1>5 DEF ReadNew, ThenOrLost
  <2>2. S \in SUBSET Entry
    BY OldestSubset DEF Unread, GraphTypeOK
  <2> HIDE DEF S
  <2> QED
    BY <1>r, <2>1, <2>2 DEF Handles
<1> QED
  BY <1>1, <1>2, <1>3, <1>4, <1>5

\* Every step, by what it does to the batch.
LEMMA BatchSteps ==
    ASSUME GraphTypeOK, GraphAssumption, [GraphNext]_graphVars
    PROVE  \/ \E m \in Messages, twice \in BOOLEAN : Send(m, twice)
           \/ \E s \in Sessions : StatusRead(s) \/ DeleteSession(s)
           \/ \E s \in Sessions, st \in {"open", "finished"} : StatusWrite(s, st)
           \/ Outside /\ UNCHANGED processVars
           \/ Waits
           \/ Outside /\ Stops
           \/ Handles
           \/ StoreNext \/ Insert \/ Count \/ StoreTotals \/ MakeSubgraphs \/ SubgraphsGivenUp
           \/ Announce \/ Acknowledge \/ GoesAlone \/ GivesUp
<1>r. Raise => Stops
  BY DEF Raise, Stops
<1>1. CASE CountRaises
  <2>1. CASE mode = "whole"
    BY <1>1, <2>1 DEF CountRaises, GoesAlone, Outside, ghostVars
  <2>2. CASE mode # "whole"
    BY <1>1, <2>2 DEF CountRaises, GivesUp, GiveUp, NextStep
  <2> QED
    BY <2>1, <2>2
<1>2. CASE PoisonFails \/ DatabaseFails
  <2>1. /\ UNCHANGED <<kind, streamVars, groupVars, rowVars, hashVars, handlerVars, told, acked>>
        /\ pc \in {"inserting", "totalling", "subgraphing"}
        /\ \/ mode = "isolating" /\ GiveUp
           \/ Raise /\ UNCHANGED dropped
    BY <1>2 DEF PoisonFails, DatabaseFails, StatementFails
  <2>2. CASE mode = "isolating" /\ GiveUp
    BY <2>1, <2>2 DEF GivesUp, GiveUp, NextStep
  <2>3. CASE Raise /\ UNCHANGED dropped
    BY <1>r, <2>1, <2>3 DEF Outside, ghostVars
  <2> QED
    BY <2>1, <2>2, <2>3
<1>3. CASE RedisFails
  BY <1>3, <1>r DEF RedisFails, Outside
<1>4. CASE GoIdle
  BY <1>4 DEF GoIdle, Outside
<1>5. CASE \E name \in Names : Restart(name)
  BY <1>5 DEF Restart, Outside, Stops
<1>6. CASE UNCHANGED graphVars
  BY <1>6 DEF graphVars, Outside
<1>7. CASE \/ Join \/ TakeOver \/ NothingToTakeOver \/ ReviewConsumers \/ ClaimOwn \/ Started
           \/ ReadNew \/ NothingToRead \/ CheckNotDue \/ CheckDue \/ StartOver
  BY <1>7, DeliverySteps
<1> QED
  BY GraphActions, <1>1, <1>2, <1>3, <1>4, <1>5, <1>6, <1>7, Zenon DEF Consumer

-----------------------------------------------------------------------------
(* An acknowledged message was handled *)

\* Everything a message asks for.
Done(m) == place[m] # 0 /\ m \in told /\ (m \in Metered => m \in counted)

Settled(m) == Excused(m) \/ Done(m)

Storing == {"inserting", "counting", "totalling", "subgraphing", "announcing"}

\* What of the batch is still to be handled, or is being handled.
InHand == MessagesOf(todo) \cup (IF pc \in Storing THEN MessagesOf(work) ELSE {})

\* No message of the batch is overlooked.
BatchCovered == pc \in Busy => \A m \in MessagesOf(claimed) : Settled(m) \/ m \in InHand

\* Of a whole batch, or of one that is acknowledged, none is left to be stored alone.
NoneLeft == (pc \in Busy /\ mode = "whole") \/ pc = "acking" => todo = {}

\* Only a batch in hand is claimed.
Resting == pc \notin Busy => claimed = {}

\* What is no graph message is not handled.
WorkFit == \A e \in work \cup todo : kind[e.msg] # "malformed"

\* What was acknowledged was handled.
AckedSettled == \A m \in acked : Settled(m)

\* How the batch in hand, what is pending for it and what is acknowledged cohere.
SettledInv == BatchCovered /\ NoneLeft /\ Resting /\ WorkFit /\ AckedSettled

\* What is kept, counted and told stays so, or the session is gone.
LEMMA WhatIsDoneStays ==
    ASSUME LogInv, [GraphNext]_graphVars
    PROVE  /\ kind' = kind
           /\ told \subseteq told' /\ counted \subseteq counted' /\ dropped \subseteq dropped'
           /\ \A s \in Sessions : status[s] = "deleted" => status'[s] = "deleted"
           /\ \A m \in Messages : place[m] # 0 =>
                 place'[m] = place[m] \/ status'[SessionOf[m]] = "deleted"
<1> DEFINE Goal == /\ kind' = kind
                   /\ told \subseteq told' /\ counted \subseteq counted' /\ dropped \subseteq dropped'
                   /\ \A s \in Sessions : status[s] = "deleted" => status'[s] = "deleted"
                   /\ \A m \in Messages : place[m] # 0 =>
                         place'[m] = place[m] \/ status'[SessionOf[m]] = "deleted"
<1> SUFFICES Goal
  OBVIOUS
<1> USE GraphAssumption DEF GraphAssumption
<1>t. GraphTypeOK
  BY DEF LogInv
<1>s. ASSUME UNCHANGED <<kind, rowVars, hashVars, ghostVars>>
      PROVE  Goal
  BY <1>s DEF rowVars, hashVars, ghostVars
<1>1. CASE \/ (Outside /\ UNCHANGED processVars) \/ Waits \/ (Outside /\ Stops) \/ Handles
           \/ GoesAlone
  BY <1>1, <1>s DEF Outside, Waits, Handles, GoesAlone
<1>2. CASE \E m \in Messages, twice \in BOOLEAN : Send(m, twice)
  BY <1>2, <1>s DEF Send
<1>3. CASE \E s \in Sessions : StatusRead(s)
  BY <1>3 DEF StatusRead, rowVars, hashVars, ghostVars
<1>4. CASE \E s \in Sessions : DeleteSession(s)
  BY <1>4, <1>t DEF DeleteSession, GraphTypeOK, hashVars, ghostVars
<1>5. CASE \E s \in Sessions, st \in {"open", "finished"} : StatusWrite(s, st)
  <2>1. PICK s \in Sessions, st \in {"open", "finished"} : StatusWrite(s, st)
    BY <1>5
  <2>2. status[s] # "deleted"
    BY <2>1 DEF StatusWrite, LogInv, HeldExists
  <2> QED
    BY <1>t, <2>1, <2>2 DEF StatusWrite, GraphTypeOK, hashVars, ghostVars
<1>6. CASE StoreNext \/ Acknowledge
  <2>1. UNCHANGED <<kind, rowVars, hashVars, told, dropped>>
    BY <1>6 DEF StoreNext, Acknowledge, ghostVars
  <2> QED
    BY <2>1 DEF rowVars, hashVars
<1>7. CASE Insert
  <2>1. UNCHANGED <<kind, status, counted, told, dropped>>
    BY <1>7 DEF Insert, hashVars, ghostVars
  <2>2. \A m \in Messages : place[m] # 0 => place'[m] = place[m]
    BY <1>7 DEF Insert
  <2> QED
    BY <2>1, <2>2
<1>8. CASE Count
  <2>1. UNCHANGED <<kind, place, status, told, dropped>>
    BY <1>8 DEF Count, rowVars, ghostVars
  <2>2. counted \subseteq counted'
    BY <1>8 DEF Count
  <2> QED
    BY <2>1, <2>2
<1>a. CASE StoreTotals \/ MakeSubgraphs
  BY <1>a DEF StoreTotals, MakeSubgraphs, hashVars, ghostVars
<1>b. CASE SubgraphsGivenUp
  BY <1>b DEF SubgraphsGivenUp, rowVars, hashVars
<1>c. CASE Announce
  BY <1>c DEF Announce, rowVars, hashVars
<1>9. CASE GivesUp
  BY <1>9 DEF GivesUp, GiveUp, rowVars, hashVars
<1> HIDE DEF Goal
<1> QED
  BY <1>t, <1>1, <1>2, <1>3, <1>4, <1>5, <1>6, <1>7, <1>8, <1>a, <1>b, <1>c, <1>9, BatchSteps,
     Zenon

\* What is settled stays settled.
LEMMA SettledStays ==
    ASSUME LogInv, [GraphNext]_graphVars, NEW m \in Messages, Settled(m)
    PROVE  Settled(m)'
<1>1. /\ kind' = kind
      /\ told \subseteq told' /\ counted \subseteq counted' /\ dropped \subseteq dropped'
      /\ status[SessionOf[m]] = "deleted" => status'[SessionOf[m]] = "deleted"
      /\ place[m] # 0 => place'[m] = place[m] \/ status'[SessionOf[m]] = "deleted"
  BY GraphAssumption, WhatIsDoneStays DEF GraphAssumption
<1> QED
  BY <1>1 DEF Settled, Excused, Done, Metered

\* Nothing is delivered or acknowledged at first.
LEMMA SettledInit == GraphInit => SettledInv
BY DEF GraphInit, SettledInv, BatchCovered, NoneLeft, Resting, WorkFit, AckedSettled, Busy

\* Every step keeps the batch covered.
LEMMA SettledStep ==
    ASSUME LogInv, SettledInv, [GraphNext]_graphVars
    PROVE  SettledInv'
<1> DEFINE Goal == SettledInv'
<1>t. GraphTypeOK /\ GraphTypeOK' /\ GraphAssumption
  BY GraphAssumption, GraphStepType DEF LogInv
<1>m. MessagesOf(claimed) \subseteq Messages /\ MessagesOf(claimed)' \subseteq Messages
  BY <1>t, MessagesOfEntries DEF GraphTypeOK
<1>k. kind' = kind
  BY WhatIsDoneStays
<1>s. \A m \in Messages : Settled(m) => Settled(m)'
  BY SettledStays
<1>a. acked' = acked => AckedSettled'
  BY <1>s, <1>t DEF SettledInv, AckedSettled, GraphTypeOK
<1>1. ASSUME UNCHANGED <<batchVars, acked>>, UNCHANGED pc \/ (pc \notin Busy /\ pc' \notin Busy)
      PROVE  Goal
  BY <1>1, <1>a, <1>k, <1>m, <1>s
  DEF SettledInv, BatchCovered, NoneLeft, Resting, WorkFit, InHand, MessagesOf, batchVars, Busy
<1>2. ASSUME \/ \E m \in Messages, twice \in BOOLEAN : Send(m, twice)
             \/ \E s \in Sessions : StatusRead(s) \/ DeleteSession(s)
             \/ \E s \in Sessions, st \in {"open", "finished"} : StatusWrite(s, st)
             \/ Outside /\ UNCHANGED processVars
             \/ Waits
      PROVE  Goal
  <2>1. UNCHANGED <<batchVars, acked>> /\ (UNCHANGED pc \/ (pc \notin Busy /\ pc' \notin Busy))
    BY <1>2 DEF Send, StatusRead, DeleteSession, StatusWrite, Outside, Waits, processVars, ghostVars
  <2> QED
    BY <1>1, <2>1
<1>3. ASSUME Stops, UNCHANGED acked
      PROVE  Goal
  BY <1>3, <1>a DEF Stops, NoBatch, SettledInv, BatchCovered, NoneLeft, Resting, WorkFit, Busy
<1>4. CASE Handles
  <2>1. PICK S \in SUBSET Entry, isolate \in BOOLEAN, resume \in {"takingOver", "owning", "checking"} :
           Handle(S, isolate, resume)
    BY <1>4 DEF Handles
  <2>2. WellFormed(S) \in SUBSET Entry
    BY DEF WellFormed
  <2>3. MessagesOf(WellFormed(S)) \subseteq InHand'
    <3>1. CASE isolate
      BY <2>1, <3>1 DEF Handle, InHand, MessagesOf
    <3>2. CASE ~isolate
      <4>1. work' = Unrepeated(WellFormed(S)) /\ pc' = "inserting"
        BY <2>1, <3>2 DEF Handle
      <4>2. MessagesOf(work)' = MessagesOf(WellFormed(S))
        BY <2>2, <4>1, NoneParsedAway DEF MessagesOf
      <4> QED
        BY <4>1, <4>2 DEF InHand, Storing
    <3> QED
      BY <3>1, <3>2
  <2>4. \A m \in MessagesOf(S) : m \in MessagesOf(WellFormed(S)) \/ Excused(m)'
    BY <1>k DEF MessagesOf, WellFormed, Excused
  <2>5. BatchCovered'
    <3>1. MessagesOf(claimed)' = MessagesOf(S)
      BY <2>1 DEF Handle, MessagesOf
    <3> QED
      BY <2>3, <2>4, <3>1 DEF BatchCovered, Settled
  <2>6. NoneLeft' /\ Resting'
    BY <2>1 DEF Handle, NoneLeft, Resting, Busy
  <2>7. WorkFit'
    <3>1. \A e \in WellFormed(S) : kind'[e.msg] # "malformed"
      BY <1>k DEF WellFormed
    <3>2. (work \cup todo)' \subseteq WellFormed(S)
      BY <2>1 DEF Handle, Unrepeated
    <3> QED
      BY <3>1, <3>2 DEF WorkFit
  <2>8. AckedSettled'
    BY <1>4, <1>a DEF Handles, Outside, ghostVars
  <2> QED
    BY <2>5, <2>6, <2>7, <2>8 DEF SettledInv
<1>5. CASE StoreNext
  <2>1. pc = "next" /\ UNCHANGED <<claimed, mode, acked>> /\ pc \in Busy
    BY <1>5 DEF StoreNext, Goto, batchVars, ghostVars, Busy
  <2>2. CASE todo = {}
    <3>1. pc' = "acking" /\ UNCHANGED <<todo, work>>
      BY <1>5, <2>2 DEF StoreNext, Goto, batchVars
    <3>2. InHand = {}
      BY <2>1, <2>2 DEF InHand, Storing, MessagesOf
    <3> QED
      BY <1>a, <1>k, <1>m, <1>s, <2>1, <2>2, <3>1, <3>2
      DEF SettledInv, BatchCovered, NoneLeft, Resting, WorkFit, Busy, MessagesOf
  <2>3. CASE todo # {}
    <3>1. /\ work' = Oldest(1, todo) /\ todo' = todo \ work' /\ pc' = "inserting"
      BY <1>5, <2>3 DEF StoreNext
    <3>2. work' \subseteq todo /\ todo = todo' \cup work'
      BY <3>1, OldestSubset
    <3>3. InHand \subseteq InHand'
      BY <2>1, <3>1, <3>2 DEF InHand, Storing, MessagesOf
    <3>4. NoneLeft'
      BY <2>1, <2>3, <3>1 DEF SettledInv, NoneLeft
    <3> QED
      BY <1>a, <1>k, <1>m, <1>s, <2>1, <3>1, <3>2, <3>3, <3>4
      DEF SettledInv, BatchCovered, Resting, WorkFit, Busy, MessagesOf
  <2> QED
    BY <2>2, <2>3
<1>6. CASE Insert
  <2>1. /\ pc = "inserting" /\ pc' = "counting" /\ work' = Accepted(work)
        /\ UNCHANGED <<claimed, todo, mode, acked, status>>
    BY <1>6 DEF Insert, NextStep, ghostVars
  <2>2. \A m \in MessagesOf(work) : m \in MessagesOf(work') \/ Excused(m)'
    BY <1>k, <2>1 DEF MessagesOf, Accepted, Excused
  <2>3. InHand' = MessagesOf(todo) \cup MessagesOf(work') /\ InHand = MessagesOf(todo) \cup MessagesOf(work)
    BY <2>1 DEF InHand, Storing, MessagesOf
  <2>4. BatchCovered'
    BY <1>m, <1>s, <2>1, <2>2, <2>3 DEF SettledInv, BatchCovered, Busy, Settled, MessagesOf
  <2>5. NoneLeft' /\ Resting' /\ WorkFit'
    BY <1>k, <2>1 DEF SettledInv, NoneLeft, Resting, WorkFit, Busy, Accepted
  <2> QED
    BY <1>a, <2>1, <2>4, <2>5 DEF SettledInv
<1>7. ASSUME pc \in Storing, pc' \in Storing, UNCHANGED <<claimed, todo, mode, work, acked>>
      PROVE  Goal
  BY <1>7, <1>a, <1>k, <1>m, <1>s
  DEF SettledInv, BatchCovered, NoneLeft, Resting, WorkFit, InHand, MessagesOf, Busy, Storing
<1>8. CASE Count \/ StoreTotals \/ MakeSubgraphs \/ SubgraphsGivenUp
  <2>1. /\ pc \in Storing /\ UNCHANGED acked
        /\ \/ pc' \in Storing /\ UNCHANGED <<claimed, todo, mode, work>>
           \/ Stops
    BY <1>8 DEF Count, StoreTotals, MakeSubgraphs, SubgraphsGivenUp, ThenOrLost, NextStep, Raise,
       Stops, Storing, ghostVars
  <2> QED
    BY <1>3, <1>7, <2>1
<1>9. CASE Announce
  <2>1. /\ pc = "announcing" /\ told' = told \cup MessagesOf(work) /\ UNCHANGED <<acked, place, status>>
        /\ \/ /\ pc' = IF mode = "whole" THEN "acking" ELSE "next"
              /\ UNCHANGED <<claimed, todo, mode, work>>
           \/ Stops
    BY <1>9 DEF Announce, ThenOrLost, NextStep, Raise, Stops, rowVars
  <2>2. CASE Stops
    BY <1>3, <2>1, <2>2
  <2>3. CASE /\ pc' = IF mode = "whole" THEN "acking" ELSE "next"
             /\ UNCHANGED <<claimed, todo, mode, work>>
    <3>1. \A m \in MessagesOf(work) : Settled(m)'
      <4>1. MessagesOf(work) \subseteq Kept /\ MessagesOf(work) \cap Metered \subseteq counted
        BY <2>1 DEF LogInv, WorkIsKept, WorkIsCounted
      <4>2. counted' = counted /\ Metered' = Metered
        BY <1>9, <1>k DEF Announce, hashVars, Metered
      <4> QED
        BY <2>1, <4>1, <4>2 DEF Kept, Settled, Done, Excused
    <3>2. InHand = MessagesOf(todo) \cup MessagesOf(work) /\ MessagesOf(todo) \subseteq InHand'
      BY <2>1, <2>3 DEF InHand, Storing, MessagesOf
    <3>3. BatchCovered'
      BY <1>m, <1>s, <2>1, <2>3, <3>1, <3>2 DEF SettledInv, BatchCovered, Busy, MessagesOf
    <3>4. NoneLeft' /\ Resting' /\ WorkFit'
      BY <1>k, <2>1, <2>3 DEF SettledInv, NoneLeft, Resting, WorkFit, Busy
    <3> QED
      BY <1>a, <2>1, <3>3, <3>4 DEF SettledInv
  <2> QED
    BY <2>1, <2>2, <2>3
<1>10. CASE Acknowledge
  <2>1. /\ pc = "acking" /\ acked' = acked \cup MessagesOf(claimed)
        /\ NoBatch /\ pc' \notin Busy
    BY <1>10, <1>t DEF Acknowledge, ThenOrLost, Raise, GraphTypeOK, Busy
  <2>2. \A m \in MessagesOf(claimed) : Settled(m)
    <3>1. todo = {}
      BY <2>1 DEF SettledInv, NoneLeft
    <3>2. InHand = {}
      BY <2>1, <3>1 DEF InHand, Storing, MessagesOf
    <3> QED
      BY <2>1, <3>2 DEF SettledInv, BatchCovered, Busy
  <2>3. AckedSettled'
    BY <1>m, <1>s, <1>t, <2>1, <2>2 DEF SettledInv, AckedSettled, GraphTypeOK
  <2> QED
    BY <2>1, <2>3 DEF NoBatch, SettledInv, BatchCovered, NoneLeft, Resting, WorkFit, Busy
<1>11. CASE GoesAlone
  <2>1. /\ pc' = "next" /\ mode' = "alone" /\ todo' = WellFormed(claimed) /\ work' = {}
        /\ UNCHANGED <<claimed, acked>>
    BY <1>11 DEF GoesAlone, Outside, ghostVars
  <2>2. \A m \in MessagesOf(claimed) : m \in MessagesOf(todo') \/ Excused(m)'
    BY <1>k, <2>1 DEF MessagesOf, WellFormed, Excused
  <2>3. BatchCovered'
    BY <2>1, <2>2 DEF BatchCovered, InHand, Settled, MessagesOf
  <2>4. NoneLeft' /\ Resting' /\ WorkFit'
    BY <1>k, <2>1 DEF NoneLeft, Resting, WorkFit, Busy, WellFormed
  <2> QED
    BY <1>a, <2>1, <2>3, <2>4 DEF SettledInv
<1>12. CASE GivesUp
  <2>1. /\ pc \in Storing /\ mode # "whole" /\ pc' = "next"
        /\ dropped' = dropped \cup MessagesOf(work) /\ work' = {}
        /\ UNCHANGED <<claimed, todo, mode, acked>>
    BY <1>12 DEF GivesUp, GiveUp, NextStep, Storing
  <2>2. \A m \in MessagesOf(work) : Excused(m)'
    BY <2>1 DEF Excused
  <2>3. InHand = MessagesOf(todo) \cup MessagesOf(work) /\ InHand' = MessagesOf(todo)
    BY <2>1 DEF InHand, Storing, MessagesOf
  <2>4. BatchCovered'
    BY <1>m, <1>s, <2>1, <2>2, <2>3 DEF SettledInv, BatchCovered, Busy, Storing, Settled, MessagesOf
  <2>5. NoneLeft' /\ Resting' /\ WorkFit'
    BY <1>k, <2>1 DEF SettledInv, NoneLeft, Resting, WorkFit, Busy
  <2> QED
    BY <1>a, <2>1, <2>4, <2>5 DEF SettledInv
<1>13. CASE Outside /\ Stops
  BY <1>3, <1>13 DEF Outside, ghostVars
<1> QED
  BY <1>t, <1>2, <1>4, <1>5, <1>6, <1>8, <1>9, <1>10, <1>11, <1>12, <1>13, BatchSteps, Zenon

\* The invariant of the consumer's batches.
THEOREM BatchesInductive == GraphSpec => [](LogInv /\ SettledInv)
<1>1. LogInv /\ SettledInv /\ [GraphNext]_graphVars => (LogInv /\ SettledInv)'
  BY LogInvStep, SettledStep
<1> QED
  BY <1>1, LogInvInit, SettledInit, PTL DEF GraphSpec

\* An entry that is acknowledged, and so gone from Redis, was handled: the message has
\* its row, its usage is counted and the live views were told, unless it was dropped
\* with an error (graph_message_stream_consumer.py:3-5).
THEOREM AcknowledgedAreDone == GraphSpec => []AcknowledgedIsDone
<1>1. LogInv /\ SettledInv => AcknowledgedIsDone
  BY DEF SettledInv, AckedSettled, Settled, Done, AcknowledgedIsDone
<1> QED
  BY <1>1, BatchesInductive, PTL
-----------------------------------------------------------------------------
(* Where entries are *)

\* Handed to the consumer and not acknowledged.
Delivered == claimed \cup {EntryOf(p) : p \in pending}

\* Whence the rows are.
Rows == {[id |-> place[m], msg |-> m] : m \in Stored}

\* Entries that were added and still matter.
Seen == stream \cup Delivered \cup Rows

\* Entries of a stream have ids in the order of their messages.
OnlySent == \A e \in Seen : e.msg \in sent /\ e.id <= lastId

InSequence ==
    \A e, f \in Seen : SessionOf[e.msg] = SessionOf[f.msg] /\ e.msg < f.msg => e.id < f.id

\* A session's messages come in order, and none after graph_end.
EmittedInOrder ==
    \A m \in sent, n \in Messages :
        SessionOf[n] = SessionOf[m] /\ n < m => n \in sent /\ kind[n] # "end"

\* The group is past what it delivered, and never past the stream.
Bounded == lastDelivered <= lastId /\ \A e \in Delivered : e.id <= lastDelivered

\* What was added is finite at any time.
FiniteAll == IsFiniteSet(stream) /\ IsFiniteSet(Delivered)

\* How messages, entries and what was delivered of them cohere.
DeliveryInv == OnlySent /\ InSequence /\ EmittedInOrder /\ Bounded /\ FiniteAll

\* Nothing is added: what is delivered was delivered or unread, and rows are of the batch.
Flows ==
    /\ UNCHANGED <<kind, sent, lastId>>
    /\ stream' \subseteq stream
    /\ Delivered' \subseteq Delivered \cup {e \in Unread : e.id <= lastDelivered'}
    /\ lastDelivered' = lastDelivered \/ \E e \in Unread : lastDelivered' = e.id
    /\ Rows' \subseteq Rows \cup claimed

\* A claim delivers the entries it claims.
LEMMA ClaimedEntries ==
    ASSUME NEW P \in SUBSET PendingEntry
    PROVE  {EntryOf(p) : p \in Claimed(P)} = {EntryOf(p) : p \in P}
<1> DEFINE claim(p) == [p EXCEPT !.owner = me, !.times = IF @ < IsolateAfter THEN @ + 1 ELSE @,
                                 !.idle = FALSE]
<1>1. \A p \in PendingEntry : EntryOf(claim(p)) = EntryOf(p)
  BY DEF PendingEntry, EntryOf
<1>2. Claimed(P) = {claim(p) : p \in P}
  BY DEF Claimed
<1> HIDE DEF claim
<1> QED
  BY <1>1, <1>2

\* Idle or not, an entry is the same.
LEMMA IdleEntry == \A p \in PendingEntry : EntryOf([p EXCEPT !.idle = TRUE]) = EntryOf(p)
BY DEF PendingEntry, EntryOf

\* Rows that go are no new ones.
LEMMA RowsGo ==
    ASSUME GraphTypeOK, GraphTypeOK', \A m \in Messages : place'[m] \in {place[m], 0}
    PROVE  Rows' \subseteq Rows
<1>1. \A m \in Stored' : m \in Stored /\ place'[m] = place[m]
  BY DEF Stored
<1> QED
  BY <1>1 DEF Rows

\* Steps that deliver nothing.
LEMMA LeavesDeliveries ==
    ASSUME GraphTypeOK, GraphTypeOK', UNCHANGED <<kind, sent, lastId, lastDelivered>>,
           stream' \subseteq stream, pending' \subseteq pending, claimed' \subseteq claimed,
           \A m \in Messages : place'[m] \in {place[m], 0}
    PROVE  Flows
<1>1. Rows' \subseteq Rows
  BY RowsGo
<1>2. Delivered' \subseteq Delivered
  BY DEF Delivered
<1> QED
  BY <1>1, <1>2 DEF Flows

\* Every step but crew's adds nothing.
LEMMA FlowSteps ==
    ASSUME GraphTypeOK, [GraphNext]_graphVars
    PROVE  (\E m \in Messages, twice \in BOOLEAN : Send(m, twice)) \/ Flows
<1>t. GraphTypeOK' /\ GraphAssumption
  BY GraphAssumption, GraphStepType
<1>r. Raise => claimed' \subseteq claimed
  BY DEF Raise, NoBatch
<1>q. ASSUME UNCHANGED <<kind, sent, lastId, lastDelivered, stream, place>>,
             pending' \subseteq pending, claimed' \subseteq claimed
      PROVE  Flows
  BY <1>q, <1>t, LeavesDeliveries
<1>1. CASE \/ \E s \in Sessions : StatusRead(s)
           \/ \E s \in Sessions, st \in {"open", "finished"} : StatusWrite(s, st)
  BY <1>1, <1>q DEF StatusRead, StatusWrite, streamVars, groupVars, processVars, batchVars, rowVars
<1>2. CASE \E s \in Sessions : DeleteSession(s)
  <2>1. PICK s \in Sessions : DeleteSession(s)
    BY <1>2
  <2>2. UNCHANGED <<kind, sent, lastId, lastDelivered, stream, pending, claimed>>
    BY <2>1 DEF DeleteSession, streamVars, groupVars, processVars, batchVars
  <2>3. \A m \in Messages : place'[m] \in {place[m], 0}
    BY <2>1 DEF DeleteSession
  <2> QED
    BY <1>t, <2>2, <2>3, LeavesDeliveries
<1>3. CASE Join \/ NothingToTakeOver \/ Started \/ NothingToRead \/ CheckNotDue \/ CheckDue \/ StoreNext
  BY <1>3, <1>q
  DEF Join, NothingToTakeOver, Started, NothingToRead, CheckNotDue, CheckDue, StoreNext, Goto,
      streamVars, groupVars, batchVars, rowVars
<1>4. CASE ReviewConsumers
  <2>1. pending' \subseteq pending /\ UNCHANGED <<kind, sent, lastId, lastDelivered, stream, place>>
    BY <1>4 DEF ReviewConsumers, streamVars, rowVars
  <2>2. claimed' \subseteq claimed
    BY <1>4, <1>r DEF ReviewConsumers, ThenOrLost, batchVars
  <2> QED
    BY <1>q, <2>1, <2>2
<1>5. CASE Count \/ StoreTotals \/ MakeSubgraphs \/ SubgraphsGivenUp \/ Announce
  <2>1. UNCHANGED <<kind, sent, lastId, lastDelivered, stream, pending, place>>
    BY <1>5 DEF Count, StoreTotals, MakeSubgraphs, SubgraphsGivenUp, Announce, streamVars, groupVars,
       rowVars
  <2>2. claimed' \subseteq claimed
    BY <1>5, <1>r DEF Count, StoreTotals, MakeSubgraphs, SubgraphsGivenUp, Announce, ThenOrLost, NextStep
  <2> QED
    BY <1>q, <2>1, <2>2
<1>6. CASE CountRaises \/ PoisonFails \/ RedisFails \/ DatabaseFails
  <2>1. UNCHANGED <<kind, sent, lastId, lastDelivered, stream, pending, place>>
    BY <1>6 DEF CountRaises, PoisonFails, RedisFails, DatabaseFails, streamVars, groupVars, rowVars
  <2>2. claimed' \subseteq claimed
    BY <1>6, <1>r DEF CountRaises, PoisonFails, RedisFails, DatabaseFails, StatementFails, GiveUp, NextStep
  <2> QED
    BY <1>q, <2>1, <2>2
<1>7. CASE Acknowledge
  <2>1. UNCHANGED <<kind, sent, lastId, lastDelivered, place>>
    BY <1>7 DEF Acknowledge, rowVars
  <2>2. stream' \subseteq stream /\ pending' \subseteq pending /\ claimed' \subseteq claimed
    BY <1>7, <1>r DEF Acknowledge, ThenOrLost, NoBatch
  <2> QED
    BY <1>t, <2>1, <2>2, LeavesDeliveries
<1>8. CASE \E name \in Names : Restart(name)
  BY <1>8, <1>q DEF Restart, NoBatch, streamVars, groupVars, rowVars
<1>9. CASE UNCHANGED graphVars
  BY <1>9, <1>q DEF graphVars, streamVars, groupVars, processVars, batchVars, rowVars
<1>10. ASSUME UNCHANGED <<kind, sent, lastId, lastDelivered, stream, place>>,
              {EntryOf(p) : p \in pending'} \subseteq {EntryOf(p) : p \in pending},
              claimed' \subseteq Delivered
       PROVE  Flows
  <2>1. Delivered' \subseteq Delivered
    BY <1>10 DEF Delivered
  <2>2. Rows' \subseteq Rows
    BY <1>10, <1>t, RowsGo
  <2> QED
    BY <1>10, <2>1, <2>2 DEF Flows
<1>11. CASE GoIdle \/ StartOver
  <2>1. UNCHANGED <<kind, sent, lastId, lastDelivered, stream, place, claimed>>
    BY <1>11 DEF GoIdle, StartOver, streamVars, processVars, batchVars, rowVars
  <2>2. \A p \in pending' : \E o \in pending : EntryOf(p) = EntryOf(o)
    <3>1. \A p \in pending : EntryOf([p EXCEPT !.idle = TRUE]) = EntryOf(p)
      BY IdleEntry DEF GraphTypeOK
    <3> QED
      BY <1>11, <3>1 DEF GoIdle, StartOver
  <2> QED
    BY <1>10, <2>1, <2>2 DEF Delivered
<1>12. ASSUME NEW P \in SUBSET pending,
              pending' = (pending \ P) \cup Claimed(Surviving(P)),
              UNCHANGED <<kind, sent, lastId, lastDelivered, stream, place>>,
              claimed' \subseteq claimed \cup {EntryOf(p) : p \in Claimed(Surviving(P))}
       PROVE  Flows
  <2>1. {EntryOf(p) : p \in Claimed(Surviving(P))} \subseteq {EntryOf(p) : p \in P}
    <3>1. Surviving(P) \in SUBSET PendingEntry /\ Surviving(P) \subseteq P
      BY <1>12 DEF Surviving, GraphTypeOK
    <3> QED
      BY <3>1, ClaimedEntries
  <2>2. {EntryOf(p) : p \in pending'} \subseteq {EntryOf(p) : p \in pending}
    BY <1>12, <2>1
  <2> QED
    BY <1>10, <1>12, <2>1, <2>2 DEF Delivered
<1>13. CASE TakeOver
  <2> DEFINE P == Oldest(BatchSize, Idle)
             kept == Claimed(Surviving(P))
  <2>1. P \in SUBSET pending
    BY OldestSubset DEF Idle
  <2>2. pending' = (pending \ P) \cup kept /\ UNCHANGED <<kind, sent, lastId, lastDelivered, stream, place>>
    BY <1>13 DEF TakeOver, streamVars, rowVars
  <2>3. claimed' \subseteq claimed \cup {EntryOf(p) : p \in kept}
    <3>1. Goto("takingOver") \/ Handle({EntryOf(p) : p \in kept}, FALSE, "takingOver") \/ Raise
      BY <1>13 DEF TakeOver, ThenOrLost
    <3> HIDE DEF kept
    <3> QED
      BY <1>r, <3>1 DEF Goto, batchVars, Handle
  <2> HIDE DEF P
  <2> QED
    BY <1>12, <2>1, <2>2, <2>3
<1>14. CASE ClaimOwn
  <2> DEFINE P == Oldest(BatchSize, Own)
             kept == Claimed(Surviving(P))
             often == \E p \in P : p.times >= IsolateAfter
  <2>1. P \in SUBSET pending
    BY OldestSubset DEF Own
  <2>2. pending' = (pending \ P) \cup kept /\ UNCHANGED <<kind, sent, lastId, lastDelivered, stream, place>>
    BY <1>14 DEF ClaimOwn, streamVars, rowVars
  <2>3. claimed' \subseteq claimed \cup {EntryOf(p) : p \in kept}
    <3>1. Goto("owning") \/ Handle({EntryOf(p) : p \in kept}, often, "owning") \/ Raise
      BY <1>14 DEF ClaimOwn, ThenOrLost
    <3> HIDE DEF kept, often
    <3> QED
      BY <1>r, <3>1 DEF Goto, batchVars, Handle
  <2> HIDE DEF P
  <2> QED
    BY <1>12, <2>1, <2>2, <2>3
<1>15. CASE ReadNew
  <2> DEFINE batch == Oldest(BatchSize, Unread)
             fresh == {[id |-> e.id, msg |-> e.msg, owner |-> me, times |-> 1, idle |-> FALSE] : e \in batch}
  <2>1. batch \subseteq Unread /\ batch \subseteq Entry
    BY OldestSubset DEF Unread, GraphTypeOK
  <2>2. /\ pending' = pending \cup fresh /\ UNCHANGED <<kind, sent, lastId, stream, place>>
        /\ lastDelivered' \in {e.id : e \in batch} /\ \A e \in batch : e.id <= lastDelivered'
    BY <1>15 DEF ReadNew, streamVars, rowVars
  <2>3. claimed' \subseteq claimed \cup batch
    <3>1. Handle(batch, FALSE, "checking") \/ Raise
      BY <1>15 DEF ReadNew, ThenOrLost
    <3> HIDE DEF batch
    <3> QED
      BY <1>r, <3>1 DEF Handle
  <2>4. {EntryOf(p) : p \in fresh} \subseteq batch
    <3>1. \A e \in Entry :
             EntryOf([id |-> e.id, msg |-> e.msg, owner |-> me, times |-> 1, idle |-> FALSE]) = e
      BY DEF Entry, EntryOf
    <3> QED
      BY <2>1, <3>1
  <2>5. Rows' \subseteq Rows
    BY <1>t, <2>2, RowsGo
  <2> HIDE DEF batch, fresh
  <2>6. Delivered' \subseteq Delivered \cup batch
    BY <2>2, <2>3, <2>4 DEF Delivered
  <2>7. Delivered' \subseteq Delivered \cup {e \in Unread : e.id <= lastDelivered'}
    BY <2>1, <2>2, <2>6
  <2> QED
    BY <2>1, <2>2, <2>5, <2>7 DEF Flows
<1>16. CASE Insert
  <2>1. UNCHANGED <<kind, sent, lastId, lastDelivered, stream, pending, claimed>>
    BY <1>16 DEF Insert, NextStep, streamVars, groupVars
  <2>2. work' \subseteq claimed /\ \A m \in Messages :
           place'[m] = IF place[m] = 0 /\ m \in MessagesOf(work') THEN (CHOOSE e \in work' : e.msg = m).id
                       ELSE place[m]
    BY <1>16 DEF Insert, Accepted, GraphTypeOK
  <2>3. ASSUME NEW m \in Stored'
        PROVE  [id |-> place'[m], msg |-> m] \in Rows \cup claimed
    <3>1. m \in Messages /\ place'[m] # 0
      BY DEF Stored
    <3>2. CASE place[m] = 0 /\ m \in MessagesOf(work')
      <4>1. \E e \in work' : e.msg = m
        BY <3>2 DEF MessagesOf
      <4>2. PICK e \in work' : e.msg = m /\ place'[m] = e.id
        BY <2>2, <3>1, <3>2, <4>1
      <4>3. e \in Entry /\ e \in claimed
        BY <2>2 DEF GraphTypeOK
      <4>4. [id |-> place'[m], msg |-> m] = e
        BY <4>2, <4>3 DEF Entry
      <4> QED
        BY <4>3, <4>4
    <3>3. CASE ~(place[m] = 0 /\ m \in MessagesOf(work'))
      BY <2>2, <3>1, <3>3 DEF Rows, Stored
    <3> QED
      BY <3>2, <3>3
  <2>4. Rows' \subseteq Rows \cup claimed
    BY <2>3 DEF Rows
  <2>5. Delivered' = Delivered
    BY <2>1 DEF Delivered
  <2> QED
    BY <2>1, <2>4, <2>5 DEF Flows
<1> QED
  BY GraphActions, <1>1, <1>2, <1>3, <1>4, <1>5, <1>6, <1>7, <1>8, <1>9, <1>11, <1>13, <1>14, <1>15,
     <1>16, Zenon DEF Consumer

\* Entries are entries wherever they are.
LEMMA SeenType ==
    ASSUME GraphTypeOK
    PROVE  /\ Delivered \subseteq Entry /\ Unread \subseteq Entry /\ Seen \subseteq Entry
           /\ claimed \subseteq Delivered /\ Unread \subseteq stream
<1>1. \A p \in PendingEntry : EntryOf(p) \in Entry
  BY DEF PendingEntry, EntryOf, Entry
<1>2. Delivered \subseteq Entry
  BY <1>1 DEF GraphTypeOK, Delivered
<1>3. \A m \in Stored : [id |-> place[m], msg |-> m] \in Entry
  BY DEF GraphTypeOK, Stored, Entry
<1> QED
  BY <1>2, <1>3 DEF GraphTypeOK, Unread, Seen, Rows, Delivered

\* Nothing is delivered at first.
LEMMA DeliveryInit == GraphInit => DeliveryInv
<1> SUFFICES ASSUME GraphInit
             PROVE  DeliveryInv
  OBVIOUS
<1>1. stream = {} /\ Delivered = {} /\ Rows = {} /\ sent = {} /\ lastDelivered = 0 /\ lastId = 0
  BY DEF GraphInit, Delivered, Rows, Stored
<1>2. IsFiniteSet({})
  BY FS_EmptySet
<1> QED
  BY <1>1, <1>2 DEF DeliveryInv, OnlySent, InSequence, EmittedInOrder, Bounded, FiniteAll, Seen

\* Every step keeps the entries in order.
LEMMA DeliveryStep ==
    ASSUME GraphTypeOK, DeliveryInv, [GraphNext]_graphVars
    PROVE  DeliveryInv'
<1>t. GraphTypeOK' /\ GraphAssumption
  BY GraphAssumption, GraphStepType
<1>e. /\ Delivered \subseteq Entry /\ Unread \subseteq Entry /\ Seen \subseteq Entry
      /\ claimed \subseteq Delivered /\ Unread \subseteq stream
  BY SeenType
<1>n. lastId \in Nat /\ lastDelivered \in Nat /\ lastDelivered' \in Nat /\ \A e \in Entry : e.id \in Nat
  BY <1>t DEF GraphTypeOK, Entry
<1>1. CASE Flows
  <2>1. Seen' \subseteq Seen /\ UNCHANGED <<kind, sent, lastId>>
    BY <1>1, <1>e DEF Flows, Seen
  <2>2. OnlySent' /\ InSequence' /\ EmittedInOrder'
    BY <2>1 DEF DeliveryInv, OnlySent, InSequence, EmittedInOrder
  <2>3. lastDelivered <= lastDelivered' /\ lastDelivered' <= lastId
    <3>1. \A e \in Unread : lastDelivered < e.id /\ e.id <= lastId
      BY <1>e, <1>n DEF Unread, DeliveryInv, OnlySent, Seen
    <3> QED
      BY <1>1, <1>e, <1>n, <3>1 DEF Flows, DeliveryInv, Bounded
  <2>4. \A e \in Delivered' : e.id <= lastDelivered'
    BY <1>1, <1>e, <1>n, <2>3 DEF Flows, DeliveryInv, Bounded
  <2>5. IsFiniteSet(stream') /\ IsFiniteSet(Delivered')
    <3>1. IsFiniteSet(Delivered \cup stream)
      BY FS_Union DEF DeliveryInv, FiniteAll
    <3>2. Delivered' \subseteq Delivered \cup stream /\ stream' \subseteq stream
      BY <1>1, <1>e DEF Flows
    <3>3. IsFiniteSet(stream)
      BY DEF DeliveryInv, FiniteAll
    <3> QED
      BY <3>1, <3>2, <3>3, FS_Subset
  <2> QED
    BY <2>1, <2>2, <2>3, <2>4, <2>5 DEF DeliveryInv, Bounded, FiniteAll
<1>2. ASSUME NEW m \in Messages, NEW twice \in BOOLEAN, Send(m, twice)
      PROVE  DeliveryInv'
  <2> DEFINE added == IF twice THEN {lastId + 1, lastId + 2} ELSE {lastId + 1}
             new == [id : added, msg : {m}]
  <2>1. /\ stream' \subseteq stream \cup new /\ sent' = sent \cup {m} /\ m \notin sent
        /\ lastId' = lastId + Cardinality(added)
        /\ UNCHANGED <<kind, lastDelivered, pending, claimed, place>>
    BY <1>2 DEF Send, groupVars, processVars, batchVars, rowVars
  <2>2. \A n \in Messages : SessionOf[n] = SessionOf[m] /\ n < m => n \in sent /\ kind[n] # "end"
    BY <1>2 DEF Send, OfSession
  <2>3. Cardinality({lastId + 1}) = 1 /\ Cardinality({lastId + 1, lastId + 2}) = 2
    <3>1. lastId + 1 \in Nat /\ lastId + 1 + 1 = lastId + 2
      BY <1>n
    <3> QED
      BY <3>1, AddedIds
  <2>4. lastId <= lastId' /\ lastId' \in Nat /\ \A e \in new :
           e.msg = m /\ e.id \in Nat /\ lastId < e.id /\ e.id <= lastId'
    <3>1. lastId' = IF twice THEN lastId + 2 ELSE lastId + 1
      BY <2>1, <2>3
    <3>2. \A e \in new : e.msg = m /\ e.id \in added
      OBVIOUS
    <3>3. \A i \in added : i \in Nat /\ lastId < i /\ i <= lastId'
      BY <1>n, <3>1
    <3> QED
      BY <1>n, <3>1, <3>2, <3>3
  <2>5. IsFiniteSet(new)
    <3>1. new \subseteq {[id |-> lastId + 1, msg |-> m]} \cup {[id |-> lastId + 2, msg |-> m]}
      OBVIOUS
    <3>2. IsFiniteSet({[id |-> lastId + 1, msg |-> m]} \cup {[id |-> lastId + 2, msg |-> m]})
      BY FS_Singleton, FS_Union
    <3> QED
      BY <3>1, <3>2, FS_Subset
  <2> HIDE DEF new, added
  <2>6. Delivered' = Delivered /\ Rows' = Rows
    BY <2>1 DEF Delivered, Rows, Stored
  <2>7. Seen' \subseteq Seen \cup new
    BY <2>1, <2>6 DEF Seen
  <2>8. OnlySent'
    <3>1. ASSUME NEW e \in Seen'
          PROVE  e.msg \in sent' /\ e.id <= lastId'
      <4>1. CASE e \in new
        BY <2>1, <2>4, <4>1
      <4>2. CASE e \in Seen
        BY <1>e, <1>n, <2>1, <2>4, <4>2 DEF DeliveryInv, OnlySent
      <4> QED
        BY <2>7, <4>1, <4>2
    <3> QED
      BY <3>1 DEF OnlySent
  <2>9. InSequence'
    <3>1. ASSUME NEW e \in Seen', NEW f \in Seen', SessionOf[e.msg] = SessionOf[f.msg], e.msg < f.msg
          PROVE  e.id < f.id
      <4>m. m \in Nat
        BY <1>t DEF GraphAssumption
      <4>1. CASE e \in Seen /\ f \in Seen
        BY <3>1, <4>1 DEF DeliveryInv, InSequence
      <4>2. CASE e \in Seen /\ f \in new
        <5>1. e.id \in Nat /\ e.id <= lastId /\ f.id \in Nat /\ lastId < f.id
          BY <1>e, <1>n, <2>4, <4>2 DEF DeliveryInv, OnlySent
        <5> QED
          BY <1>n, <5>1
      <4>3. CASE e \in new /\ f \in Seen
        <5>1. f.msg \in sent /\ e.msg = m
          BY <2>4, <4>3 DEF DeliveryInv, OnlySent
        <5> QED
          BY <2>1, <3>1, <5>1 DEF DeliveryInv, EmittedInOrder
      <4>4. CASE e \in new /\ f \in new
        <5>1. e.msg = m /\ f.msg = m
          BY <2>4, <4>4
        <5> QED
          BY <3>1, <4>m, <5>1
      <4> QED
        BY <2>7, <4>1, <4>2, <4>3, <4>4
    <3> QED
      BY <3>1 DEF InSequence
  <2>10. EmittedInOrder'
    BY <2>1, <2>2 DEF DeliveryInv, EmittedInOrder
  <2>11. Bounded'
    BY <1>n, <2>1, <2>4, <2>6 DEF DeliveryInv, Bounded
  <2>12. FiniteAll'
    <3>1. IsFiniteSet(stream \cup new)
      BY <2>5, FS_Union DEF DeliveryInv, FiniteAll
    <3> QED
      BY <2>1, <2>6, <3>1, FS_Subset DEF DeliveryInv, FiniteAll
  <2> QED
    BY <2>8, <2>9, <2>10, <2>11, <2>12 DEF DeliveryInv
<1> QED
  BY <1>1, <1>2, FlowSteps

-----------------------------------------------------------------------------
(* Totals are complete *)

\* The batch has a message whose session's total it has still to look after.
Ahead(m) ==
    \/ m \in MessagesOf(todo)
    \/ pc \in {"inserting", "counting", "totalling"} /\ m \in MessagesOf(work)

\* A message the consumer is done with, in this batch or an earlier one.
Past(m) == m \in acked \/ (pc \in Busy /\ m \in MessagesOf(claimed) /\ ~Ahead(m))

\* The total of a finished session has a message, or the status handler is about to
\* write one that has it.
InTotal(m) ==
    IF handling = SessionOf[m] THEN readTotal[m] = charged[m]
    ELSE status[SessionOf[m]] = "finished" => total[m] = charged[m]

\* Only a usage crew sent is counted.
CountedAreSent == counted \subseteq Metered \cap sent

\* No total holds more of a usage than the hash.
NoneTooMany == \A m \in Messages : total[m] <= charged[m] /\ readTotal[m] <= charged[m]

\* A counted usage the consumer is done with is in the total of its finished session,
\* or on its way there.
PastInTotal == \A m \in counted : Past(m) => m \in dropped \/ InTotal(m)

\* How the hash, the rows and what the status handler read cohere.
TotalInv == CountedAreSent /\ NoneTooMany /\ PastInTotal

\* Nothing is counted at first.
LEMMA TotalInit == GraphInit => TotalInv
<1> SUFFICES ASSUME GraphInit
             PROVE  TotalInv
  OBVIOUS
<1>1. \A m \in Messages : total[m] = 0 /\ readTotal[m] = 0 /\ charged[m] = 0
  BY DEF GraphInit
<1>2. counted = {}
  BY DEF GraphInit
<1> QED
  BY <1>1, <1>2 DEF TotalInv, CountedAreSent, NoneTooMany, PastInTotal

\* What is counted was sent.
LEMMA CountedStaySent ==
    ASSUME LogInv, DeliveryInv, CountedAreSent, [GraphNext]_graphVars
    PROVE  CountedAreSent'
<1>t. GraphTypeOK
  BY DEF LogInv
<1>1. kind' = kind /\ Metered' = Metered
  BY WhatIsDoneStays DEF Metered
<1>2. sent \subseteq sent'
  BY <1>t, FlowSteps DEF Send, Flows
<1>3. MessagesOf(work) \subseteq sent
  BY <1>t, SeenType DEF GraphTypeOK, DeliveryInv, OnlySent, Seen, MessagesOf
<1>4. counted' \subseteq counted \cup (MessagesOf(work) \cap Metered)
  <2>1. CASE Count
    BY <2>1 DEF Count, Uncounted
  <2>2. CASE counted' = counted
    BY <2>2
  <2>3. counted' = counted \/ Count
    <3>0. GraphAssumption
      BY GraphAssumption
    <3>1. CASE \/ (Outside /\ UNCHANGED processVars) \/ Waits \/ (Outside /\ Stops) \/ Handles
               \/ GoesAlone \/ GivesUp
      BY <3>1 DEF Outside, Waits, Handles, GoesAlone, GivesUp, hashVars
    <3>2. CASE \/ \E m \in Messages, twice \in BOOLEAN : Send(m, twice)
               \/ \E s \in Sessions : StatusRead(s) \/ DeleteSession(s)
               \/ \E s \in Sessions, st \in {"open", "finished"} : StatusWrite(s, st)
      BY <3>2 DEF Send, StatusRead, DeleteSession, StatusWrite, hashVars
    <3>3. CASE \/ StoreNext \/ Insert \/ StoreTotals \/ MakeSubgraphs \/ SubgraphsGivenUp
               \/ Announce \/ Acknowledge
      BY <3>3 DEF StoreNext, Insert, StoreTotals, MakeSubgraphs, SubgraphsGivenUp, Announce,
         Acknowledge, hashVars
    <3> QED
      BY <1>t, <3>0, <3>1, <3>2, <3>3, BatchSteps, Zenon
  <2> QED
    BY <2>1, <2>2, <2>3
<1> QED
  BY <1>1, <1>2, <1>3, <1>4 DEF CountedAreSent

\* A batch is not past a message before it looked after its total.
LEMMA PastBefore ==
    ASSUME LogInv, SettledInv, [GraphNext]_graphVars, NEW m \in Metered, Past(m)', m \notin dropped',
           \/ \E n \in Messages, twice \in BOOLEAN : Send(n, twice)
           \/ \E s \in Sessions : StatusRead(s) \/ DeleteSession(s)
           \/ \E s \in Sessions, st \in {"open", "finished"} : StatusWrite(s, st)
           \/ Outside /\ UNCHANGED processVars
           \/ Waits
           \/ Outside /\ Stops
           \/ Handles
           \/ StoreNext \/ MakeSubgraphs \/ SubgraphsGivenUp
           \/ Announce \/ Acknowledge \/ GoesAlone \/ GivesUp
    PROVE  Past(m)
<1>k. m \in Messages /\ kind[m] # "malformed" /\ UNCHANGED kind
  BY WhatIsDoneStays DEF Metered
<1>1. ASSUME UNCHANGED <<batchVars, acked>>, UNCHANGED pc \/ pc' \notin Busy
      PROVE  Past(m)
  BY <1>1 DEF Past, Ahead, MessagesOf, batchVars
<1>2. CASE \/ \E n \in Messages, twice \in BOOLEAN : Send(n, twice)
           \/ \E s \in Sessions : StatusRead(s) \/ DeleteSession(s)
           \/ \E s \in Sessions, st \in {"open", "finished"} : StatusWrite(s, st)
           \/ Outside /\ UNCHANGED processVars
           \/ Waits
  <2>1. UNCHANGED <<batchVars, acked>> /\ (UNCHANGED pc \/ pc' \notin Busy)
    BY <1>2 DEF Send, StatusRead, DeleteSession, StatusWrite, Outside, Waits, processVars, ghostVars
  <2> QED
    BY <1>1, <2>1
<1>3. CASE Outside /\ Stops
  BY <1>3 DEF Past, Outside, Stops, NoBatch, ghostVars, Busy
<1>4. CASE Handles
  <2>1. PICK S \in SUBSET Entry, isolate \in BOOLEAN, resume \in {"takingOver", "owning", "checking"} :
           Handle(S, isolate, resume)
    BY <1>4 DEF Handles
  <2>2. UNCHANGED acked
    BY <1>4 DEF Handles, Outside, ghostVars
  <2>3. ASSUME m \in MessagesOf(claimed')
        PROVE  Ahead(m)'
    <3>1. WellFormed(S) \in SUBSET Entry /\ m \in MessagesOf(WellFormed(S))
      BY <1>k, <2>1, <2>3 DEF Handle, WellFormed, MessagesOf
    <3>2. CASE isolate
      BY <2>1, <3>1, <3>2 DEF Handle, Ahead, MessagesOf
    <3>3. CASE ~isolate
      <4>1. work' = Unrepeated(WellFormed(S)) /\ pc' = "inserting"
        BY <2>1, <3>3 DEF Handle
      <4>2. m \in MessagesOf(work')
        BY <3>1, <4>1, NoneParsedAway
      <4> QED
        BY <4>1, <4>2 DEF Ahead, MessagesOf
    <3> QED
      BY <3>2, <3>3
  <2>4. m \in acked'
    BY <2>3 DEF Past, MessagesOf
  <2> QED
    BY <2>2, <2>4 DEF Past
<1>5. CASE StoreNext
  <2>1. pc = "next" /\ UNCHANGED <<claimed, acked>>
    BY <1>5 DEF StoreNext, Goto, batchVars, ghostVars
  <2>2. ASSUME m \in MessagesOf(todo)
        PROVE  Ahead(m)'
    <3>1. todo # {}
      BY <2>2 DEF MessagesOf
    <3>2. work' = Oldest(1, todo) /\ todo' = todo \ work' /\ pc' = "inserting"
      BY <1>5, <3>1 DEF StoreNext
    <3> QED
      BY <2>2, <3>2 DEF Ahead, MessagesOf
  <2> QED
    BY <2>1, <2>2 DEF Past, Ahead, MessagesOf, Busy
<1>6. CASE \/ MakeSubgraphs \/ SubgraphsGivenUp
  <2>1. pc = "subgraphing" /\ pc' = "announcing" /\ UNCHANGED <<claimed, todo, acked>>
    BY <1>6 DEF MakeSubgraphs, SubgraphsGivenUp, NextStep, ghostVars
  <2> QED
    BY <2>1 DEF Past, Ahead, MessagesOf, Busy
<1>7. CASE Announce
  <2>1. pc = "announcing" /\ UNCHANGED acked
    BY <1>7 DEF Announce
  <2>2. (pc' \in {"acking", "next"} /\ UNCHANGED <<claimed, todo>>) \/ pc' = "asleep"
    BY <1>7 DEF Announce, ThenOrLost, NextStep, Raise
  <2> QED
    BY <2>1, <2>2 DEF Past, Ahead, MessagesOf, Busy
<1>8. CASE Acknowledge
  <2>1. pc = "acking" /\ acked' = acked \cup MessagesOf(claimed) /\ claimed' = {}
    BY <1>8 DEF Acknowledge, ThenOrLost, Raise, NoBatch
  <2>2. todo = {}
    BY <2>1 DEF SettledInv, NoneLeft
  <2>3. m \in acked \cup MessagesOf(claimed)
    BY <2>1 DEF Past, MessagesOf
  <2> QED
    BY <2>1, <2>2, <2>3 DEF Past, Ahead, MessagesOf, Busy
<1>9. CASE GoesAlone
  <2>1. pc' = "next" /\ todo' = WellFormed(claimed) /\ UNCHANGED <<claimed, acked>>
    BY <1>9 DEF GoesAlone, Outside, ghostVars
  <2>2. m \in MessagesOf(claimed) => m \in MessagesOf(todo')
    BY <1>k, <2>1 DEF WellFormed, MessagesOf
  <2> QED
    BY <2>1, <2>2 DEF Past, Ahead, MessagesOf
<1>10. CASE GivesUp
  <2>1. /\ pc \in Busy /\ pc' = "next" /\ UNCHANGED <<claimed, todo, acked>>
        /\ dropped' = dropped \cup MessagesOf(work)
    BY <1>10 DEF GivesUp, GiveUp, NextStep, Busy
  <2> QED
    BY <2>1 DEF Past, Ahead, MessagesOf, Busy
<1> QED
  BY <1>2, <1>3, <1>4, <1>5, <1>6, <1>7, <1>8, <1>9, <1>10

\* A step that touches no row of a session, no count and no total the status handler
\* has read.
Untouched == UNCHANGED <<status, total, charged, counted, handling, readTotal>>

\* The steps that leave them alone.
LEMMA UntouchedSteps ==
    ASSUME \/ \E m \in Messages, twice \in BOOLEAN : Send(m, twice)
           \/ Outside /\ UNCHANGED processVars
           \/ Waits
           \/ Outside /\ Stops
           \/ Handles
           \/ StoreNext \/ Insert \/ MakeSubgraphs \/ SubgraphsGivenUp
           \/ Announce \/ Acknowledge \/ GoesAlone \/ GivesUp
    PROVE  Untouched
<1> USE DEF Untouched, rowVars, hashVars, handlerVars
<1>1. CASE \E m \in Messages, twice \in BOOLEAN : Send(m, twice)
  BY <1>1 DEF Send
<1>2. CASE (Outside /\ UNCHANGED processVars) \/ Waits \/ (Outside /\ Stops) \/ Handles \/ GoesAlone
  BY <1>2 DEF Outside, Waits, Handles, GoesAlone
<1>3. CASE StoreNext \/ Insert \/ MakeSubgraphs \/ SubgraphsGivenUp
  BY <1>3 DEF StoreNext, Insert, MakeSubgraphs, SubgraphsGivenUp
<1>4. CASE Announce \/ Acknowledge \/ GivesUp
  BY <1>4 DEF Announce, Acknowledge, GivesUp
<1> QED
  BY <1>1, <1>2, <1>3, <1>4

\* Every step keeps what it is past in the totals.
LEMMA TotalStep ==
    ASSUME LogInv, SettledInv, DeliveryInv, TotalInv, [GraphNext]_graphVars
    PROVE  TotalInv'
<1> DEFINE Goal == NoneTooMany' /\ PastInTotal'
<1>c. CountedAreSent'
  BY CountedStaySent DEF TotalInv
<1> SUFFICES Goal
  BY <1>c DEF TotalInv
<1>t. /\ GraphTypeOK /\ GraphTypeOK' /\ GraphAssumption
      /\ \A m \in Messages : SessionOf[m] \in Sessions /\ SessionOf[m] # NoSession
  BY GraphAssumption, GraphStepType DEF LogInv, GraphAssumption
<1>n. /\ \A m \in Messages : /\ charged[m] \in Nat /\ charged'[m] \in Nat /\ total[m] \in Nat
                             /\ readTotal[m] \in Nat
      /\ NoneTooMany
  BY <1>t DEF TotalInv, GraphTypeOK
<1>m. /\ counted \subseteq Metered /\ Metered \subseteq Messages /\ counted \subseteq Messages
      /\ dropped \subseteq dropped' /\ kind' = kind
  BY WhatIsDoneStays DEF TotalInv, CountedAreSent, Metered
<1>p. \A m \in counted : Past(m) => m \in dropped \/ InTotal(m)
  BY DEF TotalInv, PastInTotal
<1>h. \A m \in Messages : status[SessionOf[m]] = "deleted" => InTotal(m)
  BY <1>t DEF LogInv, HeldExists, InTotal
<1>1. ASSUME Untouched, \A m \in counted : Past(m)' => Past(m) \/ m \in dropped' \/ InTotal(m)
      PROVE  Goal
  BY <1>1, <1>m, <1>n, <1>p DEF Untouched, NoneTooMany, PastInTotal, InTotal
<1>2. CASE \/ \E m \in Messages, twice \in BOOLEAN : Send(m, twice)
           \/ Outside /\ UNCHANGED processVars
           \/ Waits
           \/ Outside /\ Stops
           \/ Handles
           \/ StoreNext \/ MakeSubgraphs \/ SubgraphsGivenUp
           \/ Announce \/ Acknowledge \/ GoesAlone \/ GivesUp
  <2>1. Untouched
    BY <1>2, UntouchedSteps
  <2>2. \A m \in counted : Past(m)' => Past(m) \/ m \in dropped'
    BY <1>2, <1>m, PastBefore
  <2> QED
    BY <1>1, <2>1, <2>2
<1>3. CASE Insert
  <2>1. Untouched
    BY <1>3, UntouchedSteps
  <2>2. /\ pc = "inserting" /\ pc' = "counting" /\ work' = Accepted(work)
        /\ UNCHANGED <<claimed, todo, acked>>
    BY <1>3 DEF Insert, NextStep, ghostVars
  <2>3. ASSUME NEW m \in counted, Past(m)'
        PROVE  Past(m) \/ InTotal(m)
    <3>1. CASE status[SessionOf[m]] = "deleted"
      BY <1>h, <1>m, <3>1
    <3>2. CASE status[SessionOf[m]] # "deleted"
      <4>1. kind[m] # "rejected"
        BY <1>m DEF Metered
      <4>2. m \in MessagesOf(work) => m \in MessagesOf(work')
        BY <2>2, <3>2, <4>1 DEF Accepted, MessagesOf
      <4> QED
        BY <2>2, <2>3, <4>2 DEF Past, Ahead, MessagesOf, Busy
    <3> QED
      BY <3>1, <3>2
  <2> QED
    BY <1>1, <2>1, <2>3
<1>4. ASSUME NEW s \in Sessions, StatusRead(s)
      PROVE  Goal
  <2>1. /\ handling = NoSession /\ handling' = s /\ UNCHANGED <<status, total, charged, counted, dropped>>
        /\ \A m \in Messages : readTotal'[m] = IF SessionOf[m] = s THEN charged[m] ELSE 0
    BY <1>4 DEF StatusRead, rowVars, hashVars, ghostVars
  <2>2. \A m \in counted : Past(m)' => Past(m) \/ m \in dropped'
    BY <1>4, <1>m, PastBefore
  <2>3. \A m \in counted : InTotal(m) => InTotal(m)'
    BY <1>m, <1>t, <2>1 DEF InTotal
  <2> QED
    BY <1>m, <1>n, <1>p, <2>1, <2>2, <2>3 DEF NoneTooMany, PastInTotal
<1>5. ASSUME NEW s \in Sessions, NEW st \in {"open", "finished"}, StatusWrite(s, st)
      PROVE  Goal
  <2>1. /\ handling = s /\ handling' = NoSession /\ UNCHANGED <<charged, counted, dropped>>
        /\ status' = [status EXCEPT ![s] = st]
        /\ \A m \in Messages : total'[m] = IF SessionOf[m] = s THEN readTotal[m] ELSE total[m]
        /\ \A m \in Messages : readTotal'[m] = 0
    BY <1>5 DEF StatusWrite, hashVars, ghostVars
  <2>2. \A m \in counted : Past(m)' => Past(m) \/ m \in dropped'
    BY <1>5, <1>m, PastBefore
  <2>3. \A m \in counted : InTotal(m) => InTotal(m)'
    BY <1>m, <1>t, <2>1 DEF InTotal, GraphTypeOK
  <2> QED
    BY <1>m, <1>n, <1>p, <2>1, <2>2, <2>3 DEF NoneTooMany, PastInTotal
<1>6. ASSUME NEW s \in Sessions, DeleteSession(s)
      PROVE  Goal
  <2>1. /\ handling # s /\ status' = [status EXCEPT ![s] = "deleted"]
        /\ UNCHANGED <<total, charged, counted, handling, readTotal, dropped>>
    BY <1>6 DEF DeleteSession, hashVars, handlerVars, ghostVars
  <2>2. \A m \in counted : Past(m)' => Past(m) \/ m \in dropped'
    BY <1>6, <1>m, PastBefore
  <2>3. \A m \in counted : InTotal(m) => InTotal(m)'
    BY <1>m, <1>t, <2>1 DEF InTotal, GraphTypeOK
  <2> QED
    BY <1>m, <1>n, <1>p, <2>1, <2>2, <2>3 DEF NoneTooMany, PastInTotal
<1>7. CASE Count
  <2>1. /\ pc = "counting" /\ counted' = counted \cup Uncounted
        /\ \A m \in Messages : charged'[m] = IF m \in Uncounted THEN charged[m] + 1 ELSE charged[m]
        /\ UNCHANGED <<status, total, handling, readTotal, acked, dropped>>
    BY <1>7 DEF Count, rowVars, handlerVars, ghostVars
  <2>2. (pc' = "totalling" /\ UNCHANGED <<claimed, todo, work>>) \/ pc' = "asleep"
    BY <1>7 DEF Count, ThenOrLost, NextStep, Raise
  <2>3. Uncounted \subseteq MessagesOf(work) \cap Metered /\ Uncounted \cap counted = {}
    BY DEF Uncounted
  <2>4. NoneTooMany'
    BY <1>n, <2>1 DEF NoneTooMany
  <2>5. ASSUME NEW m \in counted, Past(m)'
        PROVE  m \in dropped' \/ InTotal(m)'
    <3>1. Past(m)
      BY <2>1, <2>2, <2>5 DEF Past, Ahead, MessagesOf, Busy
    <3>2. charged'[m] = charged[m]
      BY <1>m, <2>1, <2>3
    <3> QED
      BY <1>p, <2>1, <3>1, <3>2 DEF InTotal
  <2>6. ASSUME NEW m \in Uncounted, Past(m)'
        PROVE  m \in dropped' \/ InTotal(m)'
    <3>1. m \in acked
      BY <2>1, <2>2, <2>3, <2>6 DEF Past, Ahead, MessagesOf, Busy
    <3>2. m \notin counted /\ m \in Metered /\ kind[m] \notin {"malformed", "rejected"}
      BY <2>3 DEF Metered
    <3>3. status[SessionOf[m]] = "deleted" \/ m \in dropped
      BY <3>1, <3>2 DEF SettledInv, AckedSettled, Settled, Done, Excused
    <3>4. status[SessionOf[m]] = "deleted" => handling # SessionOf[m]
      BY <1>m, <1>t, <3>2 DEF LogInv, HeldExists
    <3> QED
      BY <2>1, <3>3, <3>4 DEF InTotal
  <2> QED
    BY <2>1, <2>4, <2>5, <2>6 DEF PastInTotal
<1>8. CASE StoreTotals
  <2>1. /\ pc = "totalling" /\ pc' = "subgraphing" /\ handling \notin Candidates
        /\ UNCHANGED <<status, charged, counted, handling, readTotal, acked, dropped, claimed, todo>>
        /\ \A m \in Messages : total'[m] = IF SessionOf[m] \in Refreshed THEN charged[m] ELSE total[m]
    BY <1>8 DEF StoreTotals, RowsFree, NextStep, hashVars, handlerVars, ghostVars
  <2>2. NoneTooMany'
    BY <1>n, <2>1 DEF NoneTooMany
  <2>3. ASSUME NEW m \in counted, Past(m)', m \notin dropped
        PROVE  InTotal(m)'
    <3>1. CASE m \in MessagesOf(work)
      <4>1. handling # SessionOf[m]
        BY <2>1, <3>1 DEF Candidates
      <4>2. status[SessionOf[m]] = "finished" => SessionOf[m] \in Refreshed
        BY <1>m, <1>t, <3>1 DEF Refreshed
      <4> QED
        BY <1>m, <2>1, <4>1, <4>2 DEF InTotal
    <3>2. CASE m \notin MessagesOf(work)
      <4>1. Past(m)
        BY <2>1, <2>3, <3>2 DEF Past, Ahead, MessagesOf, Busy
      <4>2. InTotal(m)
        BY <1>p, <2>3, <4>1
      <4> QED
        BY <1>m, <2>1, <4>2 DEF InTotal
    <3> QED
      BY <3>1, <3>2
  <2> QED
    BY <2>1, <2>2, <2>3 DEF PastInTotal
<1>9. ASSUME NEW s \in Sessions, StatusRead(s) \/ DeleteSession(s)
      PROVE  Goal
  BY <1>4, <1>6, <1>9
<1> HIDE DEF Goal
<1> QED
  BY <1>t, <1>2, <1>3, <1>5, <1>7, <1>8, <1>9, BatchSteps, Zenon

\* The invariant of the totals.
THEOREM TotalsInductive == GraphSpec => [](LogInv /\ SettledInv /\ DeliveryInv /\ TotalInv)
<1>1. /\ LogInv /\ SettledInv /\ DeliveryInv /\ TotalInv /\ [GraphNext]_graphVars
      => (LogInv /\ SettledInv /\ DeliveryInv /\ TotalInv)'
  BY LogInvStep, SettledStep, DeliveryStep, TotalStep DEF LogInv
<1> QED
  BY <1>1, LogInvInit, SettledInit, DeliveryInit, TotalInit, PTL DEF GraphSpec

\* A finished session whose messages were all handled, and none dropped, has their
\* whole usage in its row, whichever of the status handler and the consumer came last
\* (graph_message_store.py:258-260).
THEOREM TotalsAreComplete == GraphSpec => []TotalComplete
<1>1. ASSUME LogInv, TotalInv
      PROVE  TotalComplete
  <2> SUFFICES ASSUME NEW s \in Sessions, status[s] = "finished", handling # s,
                      OfSession(s) \cap sent \subseteq acked, OfSession(s) \cap dropped = {},
                      NEW m \in OfSession(s)
               PROVE  total[m] = charged[m]
    BY DEF TotalComplete
  <2>1. m \in Messages /\ SessionOf[m] = s
    BY DEF OfSession
  <2>2. CASE m \in counted
    <3>1. Past(m) /\ m \notin dropped
      BY <1>1, <2>1, <2>2 DEF TotalInv, CountedAreSent, Past
    <3> QED
      BY <1>1, <2>1, <2>2, <3>1 DEF TotalInv, PastInTotal, InTotal
  <2>3. CASE m \notin counted
    <3>1. charged[m] = 0 /\ total[m] \in Nat /\ total[m] <= charged[m]
      BY <1>1, <2>1, <2>3 DEF LogInv, CountedOnce, GraphTypeOK, TotalInv, NoneTooMany
    <3> QED
      BY <3>1
  <2> QED
    BY <2>2, <2>3
<1> QED
  BY <1>1, TotalsInductive, PTL

-----------------------------------------------------------------------------
(* One consumer under one name has at most one batch pending *)

\* A set of entries that one delivery of n can hold.
Fits(n, S) == \A e \in S : Cardinality({f \in S : f.id < e.id}) < n

\* One consumer under one name has one batch pending, all its own, which grows idle as
\* a whole, and nothing pending when it reads new entries.
OneBatch ==
    ~renamed =>
        /\ IsFiniteSet(pending) /\ Fits(BatchSize, pending)
        /\ \A p \in pending : p.owner = me
        /\ \A p, q \in pending : p.idle = q.idle
        /\ pc \in {"reading", "checking"} => pending = {}
        /\ periodic /\ pc \in {"takingOver", "reviewing"} => pending = {}
        /\ pc \in Busy => \A p \in pending : EntryOf(p) \in claimed

\* What fits is the oldest of itself.
LEMMA FittingIsOldest ==
    ASSUME NEW n \in Nat, NEW S, Fits(n, S)
    PROVE  Oldest(n, S) = S
BY DEF Fits, Oldest

\* Less of it fits.
LEMMA FitsSubset ==
    ASSUME NEW n \in Nat, NEW S, IsFiniteSet(S), NEW T \in SUBSET S, Fits(n, S)
    PROVE  IsFiniteSet(T) /\ Fits(n, T)
<1>1. IsFiniteSet(T)
  BY FS_Subset
<1>2. ASSUME NEW e \in T
      PROVE  Cardinality({f \in T : f.id < e.id}) < n
  <2> DEFINE A == {f \in T : f.id < e.id}
             B == {f \in S : f.id < e.id}
  <2>1. IsFiniteSet(B) /\ A \in SUBSET B
    BY FS_Subset
  <2>2. Cardinality(B) < n
    BY DEF Fits
  <2> HIDE DEF A, B
  <2>3. Cardinality(A) <= Cardinality(B) /\ Cardinality(A) \in Nat /\ Cardinality(B) \in Nat
    BY <2>1, FS_Subset, FS_CardinalityType
  <2>4. Cardinality(A) < n
    BY <2>2, <2>3
  <2> QED
    BY <2>4 DEF A
<1> QED
  BY <1>1, <1>2 DEF Fits

\* The n oldest fit.
LEMMA OldestFits ==
    ASSUME NEW n \in Nat, NEW S, IsFiniteSet(S)
    PROVE  IsFiniteSet(Oldest(n, S)) /\ Fits(n, Oldest(n, S))
<1> DEFINE T == Oldest(n, S)
<1>1. IsFiniteSet(T) /\ T \subseteq S
  BY OldestSubset, FS_Subset
<1>2. ASSUME NEW e \in T
      PROVE  Cardinality({f \in T : f.id < e.id}) < n
  <2> DEFINE A == {f \in T : f.id < e.id}
             B == {f \in S : f.id < e.id}
  <2>1. IsFiniteSet(B) /\ A \in SUBSET B
    BY <1>1, FS_Subset
  <2>2. Cardinality(B) < n
    BY DEF Oldest
  <2> HIDE DEF A, B, T
  <2>3. Cardinality(A) <= Cardinality(B) /\ Cardinality(A) \in Nat /\ Cardinality(B) \in Nat
    BY <2>1, FS_Subset, FS_CardinalityType
  <2>4. Cardinality(A) < n
    BY <2>2, <2>3
  <2> QED
    BY <2>4 DEF A
<1> QED
  BY <1>1, <1>2 DEF Fits

\* Entries delivered again, or become idle, still fit.
LEMMA FitsImage ==
    ASSUME NEW n \in Nat, NEW S, IsFiniteSet(S), Fits(n, S), NEW T, NEW f \in [S -> T],
           \A t \in T : \E x \in S : f[x] = t, \A x \in S : f[x].id = x.id
    PROVE  IsFiniteSet(T) /\ Fits(n, T)
<1>1. IsFiniteSet(T)
  BY FiniteImage
<1>2. ASSUME NEW e \in T
      PROVE  Cardinality({u \in T : u.id < e.id}) < n
  <2>1. PICK x \in S : f[x] = e
    OBVIOUS
  <2> DEFINE A == {u \in T : u.id < e.id}
             B == {y \in S : y.id < x.id}
             h == [y \in B |-> f[y]]
  <2>2. IsFiniteSet(B) /\ Cardinality(B) < n
    BY FS_Subset DEF Fits
  <2>3. h \in [B -> A]
    BY <2>1
  <2>4. \A t \in A : \E y \in B : h[y] = t
    BY <2>1
  <2> HIDE DEF A, B, h
  <2>5. IsFiniteSet(A) /\ Cardinality(A) <= Cardinality(B)
    BY <2>2, <2>3, <2>4, FiniteImage
  <2>6. Cardinality(A) \in Nat /\ Cardinality(B) \in Nat
    BY <2>2, <2>5, FS_CardinalityType
  <2>7. Cardinality(A) < n
    BY <2>2, <2>5, <2>6
  <2> QED
    BY <2>7 DEF A
<1> QED
  BY <1>1, <1>2 DEF Fits

\* A claim of entries that fit leaves entries that fit, all of this consumer and fresh.
LEMMA ClaimedFit ==
    ASSUME NEW n \in Nat, NEW P \in SUBSET PendingEntry, IsFiniteSet(P), Fits(n, P)
    PROVE  /\ IsFiniteSet(Claimed(P)) /\ Fits(n, Claimed(P))
           /\ \A p \in Claimed(P) : p.owner = me /\ p.idle = FALSE
<1> DEFINE claim(p) == [p EXCEPT !.owner = me, !.times = IF @ < IsolateAfter THEN @ + 1 ELSE @,
                                 !.idle = FALSE]
           f == [p \in P |-> claim(p)]
<1>1. \A p \in PendingEntry : claim(p).id = p.id /\ claim(p).owner = me /\ claim(p).idle = FALSE
  BY DEF PendingEntry
<1>2. Claimed(P) = {claim(p) : p \in P}
  BY DEF Claimed
<1> HIDE DEF claim
<1>3. /\ f \in [P -> Claimed(P)]
      /\ \A t \in Claimed(P) : \E x \in P : f[x] = t
      /\ \A x \in P : f[x].id = x.id
  BY <1>1, <1>2
<1> HIDE DEF f
<1>4. IsFiniteSet(Claimed(P)) /\ Fits(n, Claimed(P))
  BY <1>3, FitsImage
<1> QED
  BY <1>1, <1>2, <1>4

\* A consumer that was never renamed still has its name.
LEMMA SameConsumer ==
    ASSUME GraphTypeOK, [GraphNext]_graphVars, ~renamed'
    PROVE  ~renamed /\ me' = me
<1>r. Raise => UNCHANGED <<me, renamed>>
  BY DEF Raise
<1>h. \A S, resume : \A isolate \in BOOLEAN : Handle(S, isolate, resume) => UNCHANGED <<me, renamed>>
  BY DEF Handle
<1>1. CASE \E name \in Names : Restart(name)
  BY <1>1 DEF Restart, GraphTypeOK
<1>2. CASE \/ \E m \in Messages, twice \in BOOLEAN : Send(m, twice)
           \/ \E s \in Sessions : StatusRead(s)
           \/ \E s \in Sessions, st \in {"open", "finished"} : StatusWrite(s, st)
           \/ \E s \in Sessions : DeleteSession(s)
           \/ GoIdle \/ UNCHANGED graphVars
  <2>1. UNCHANGED processVars
    BY <1>2 DEF Send, StatusRead, StatusWrite, DeleteSession, GoIdle, graphVars
  <2> QED
    BY <2>1 DEF processVars
<1>3. CASE \/ Join \/ NothingToTakeOver \/ Started \/ NothingToRead \/ CheckNotDue \/ CheckDue
           \/ StartOver \/ StoreNext
  BY <1>3 DEF Join, NothingToTakeOver, Started, NothingToRead, CheckNotDue, CheckDue, StartOver,
     StoreNext, Goto
<1>4. CASE ReviewConsumers
  BY <1>4, <1>r DEF ReviewConsumers, ThenOrLost
<1>a. CASE TakeOver
  <2> DEFINE S == {EntryOf(p) : p \in Claimed(Surviving(Oldest(BatchSize, Idle)))}
  <2>1. Goto("takingOver") \/ Handle(S, FALSE, "takingOver") \/ Raise
    BY <1>a DEF TakeOver, ThenOrLost
  <2> HIDE DEF S
  <2> QED
    BY <1>r, <2>1 DEF Goto, Handle
<1>b. CASE ReadNew
  <2>1. Handle(Oldest(BatchSize, Unread), FALSE, "checking") \/ Raise
    BY <1>b DEF ReadNew, ThenOrLost
  <2> QED
    BY <1>r, <2>1 DEF Handle
<1>5. CASE ClaimOwn
  <2> DEFINE S == {EntryOf(p) : p \in Claimed(Surviving(Oldest(BatchSize, Own)))}
             often == \E p \in Oldest(BatchSize, Own) : p.times >= IsolateAfter
  <2>1. Goto("owning") \/ Handle(S, often, "owning") \/ Raise
    BY <1>5 DEF ClaimOwn, ThenOrLost
  <2>2. often \in BOOLEAN
    OBVIOUS
  <2> HIDE DEF S, often
  <2> QED
    BY <1>r, <1>h, <2>1, <2>2 DEF Goto
<1>6. CASE Insert \/ StoreTotals \/ MakeSubgraphs \/ SubgraphsGivenUp \/ Count \/ Announce
  BY <1>6, <1>r DEF Insert, StoreTotals, MakeSubgraphs, SubgraphsGivenUp, Count, Announce, ThenOrLost,
     NextStep
<1>7. CASE Acknowledge \/ CountRaises
  BY <1>7, <1>r DEF Acknowledge, ThenOrLost, CountRaises, GiveUp, NextStep
<1>8. CASE PoisonFails \/ RedisFails \/ DatabaseFails
  BY <1>8, <1>r DEF PoisonFails, RedisFails, DatabaseFails, StatementFails, GiveUp, NextStep
<1> QED
  BY GraphActions, <1>1, <1>2, <1>3, <1>4, <1>a, <1>b, <1>5, <1>6, <1>7, <1>8, Zenon DEF Consumer

\* Nothing is pending at first.
LEMMA OneBatchInit == GraphInit => OneBatch
<1> SUFFICES ASSUME GraphInit
             PROVE  OneBatch
  OBVIOUS
<1>1. pending = {} /\ IsFiniteSet(pending)
  BY FS_EmptySet DEF GraphInit
<1> QED
  BY <1>1 DEF OneBatch, Fits

\* A claim of everything that is pending leaves one batch of it.
LEMMA ClaimLeavesOneBatch ==
    ASSUME GraphTypeOK, ~renamed, OneBatch, me' = me,
           pending' = Claimed(Surviving(pending)),
           \/ pc' \in {"takingOver", "owning"} /\ pending' = {}
           \/ claimed' = {EntryOf(p) : p \in pending'} /\ pc' \in Busy
           \/ pc' = "asleep"
    PROVE  OneBatch'
<1>1. /\ Surviving(pending) \in SUBSET pending /\ Surviving(pending) \in SUBSET PendingEntry
      /\ BatchSize \in Nat
  BY GraphAssumption DEF Surviving, GraphTypeOK, GraphAssumption
<1>2. IsFiniteSet(Surviving(pending)) /\ Fits(BatchSize, Surviving(pending))
  BY <1>1, FitsSubset DEF OneBatch
<1>3. /\ IsFiniteSet(pending') /\ Fits(BatchSize, pending')
      /\ \A p \in pending' : p.owner = me /\ p.idle = FALSE
  BY <1>1, <1>2, ClaimedFit
<1>4. /\ pc' \notin {"reading", "checking"}
      /\ pc' \in {"takingOver", "reviewing"} => pending' = {}
      /\ pc' \in Busy => \A p \in pending' : EntryOf(p) \in claimed'
  BY DEF Busy
<1> QED
  BY <1>3, <1>4 DEF OneBatch, Fits

\* Every step keeps one batch at most.
LEMMA OneBatchStep ==
    ASSUME GraphTypeOK, DeliveryInv, OneBatch, [GraphNext]_graphVars
    PROVE  OneBatch'
<1> SUFFICES ASSUME ~renamed'
             PROVE  OneBatch'
  BY DEF OneBatch
<1>t. GraphTypeOK' /\ GraphAssumption /\ BatchSize \in Nat
  BY GraphAssumption, GraphStepType DEF GraphAssumption
<1>s. ~renamed /\ me' = me
  BY SameConsumer
<1>b. /\ IsFiniteSet(pending) /\ Fits(BatchSize, pending)
      /\ \A p \in pending : p.owner = me
      /\ \A p, q \in pending : p.idle = q.idle
      /\ pc \in {"reading", "checking"} => pending = {}
      /\ periodic /\ pc \in {"takingOver", "reviewing"} => pending = {}
      /\ pc \in Busy => \A p \in pending : EntryOf(p) \in claimed
  BY <1>s DEF OneBatch
<1>o. Oldest(BatchSize, pending) = pending
  BY <1>b, <1>t, FittingIsOldest
<1>r. Raise => pc' = "asleep"
  BY DEF Raise
<1>k. ASSUME pending' \subseteq pending,
             pc' \in {"reading", "checking"} => pending' = {},
             periodic' /\ pc' \in {"takingOver", "reviewing"} => pending' = {},
             pc' \in Busy => \A p \in pending' : EntryOf(p) \in claimed'
      PROVE  OneBatch'
  <2>1. IsFiniteSet(pending') /\ Fits(BatchSize, pending')
    BY <1>b, <1>k, <1>t, FitsSubset
  <2> QED
    BY <1>b, <1>k, <1>s, <2>1 DEF OneBatch, Fits
<1>1. CASE \/ \E m \in Messages, twice \in BOOLEAN : Send(m, twice)
           \/ \E s \in Sessions : StatusRead(s)
           \/ \E s \in Sessions, st \in {"open", "finished"} : StatusWrite(s, st)
           \/ \E s \in Sessions : DeleteSession(s)
           \/ UNCHANGED graphVars
  <2>1. UNCHANGED <<groupVars, processVars>>
    BY <1>1 DEF Send, StatusRead, StatusWrite, DeleteSession, graphVars
  <2>2. UNCHANGED <<pending, pc, periodic, claimed>>
    BY <2>1 DEF groupVars, processVars, batchVars
  <2> QED
    BY <1>b, <1>k, <2>2
<1>2. CASE Join
  BY <1>2, <1>k DEF Join, groupVars, Busy
<1>3. CASE NothingToTakeOver
  <2>1. pc = "takingOver" /\ pc' = "reviewing" /\ UNCHANGED <<pending, periodic>>
    BY <1>3 DEF NothingToTakeOver, Goto, groupVars
  <2> QED
    BY <1>b, <1>k, <2>1 DEF Busy
<1>4. CASE ReviewConsumers
  <2>1. pc = "reviewing" /\ pending' \subseteq pending
    BY <1>4 DEF ReviewConsumers
  <2>2. \/ (pc' = "reading" /\ periodic) \/ pc' = "owning" \/ pc' = "asleep"
    BY <1>4, <1>r DEF ReviewConsumers, ThenOrLost
  <2> QED
    BY <1>b, <1>k, <2>1, <2>2 DEF Busy
<1>5. CASE Started
  <2>1. pc' = "reading" /\ pending' = pending /\ pending = {}
    BY <1>5, <1>b DEF Started, Own, groupVars
  <2> QED
    BY <1>k, <2>1 DEF Busy
<1>6. CASE NothingToRead \/ CheckNotDue \/ CheckDue
  <2>1. pc \in {"reading", "checking"} /\ pending' = pending /\ pc' \in {"reading", "checking", "takingOver"}
    BY <1>6 DEF NothingToRead, CheckNotDue, CheckDue, Goto, groupVars
  <2> QED
    BY <1>b, <1>k, <2>1 DEF Busy
<1>7. ASSUME pc \in Busy, UNCHANGED pending, (pc' \in Busy /\ UNCHANGED claimed) \/ pc' = "asleep"
      PROVE  OneBatch'
  BY <1>7, <1>b, <1>k DEF Busy
<1>8. CASE StoreNext \/ Insert \/ Count \/ StoreTotals \/ MakeSubgraphs \/ SubgraphsGivenUp \/ Announce
  <2>1. pc \in Busy /\ UNCHANGED pending
    BY <1>8 DEF StoreNext, Insert, Count, StoreTotals, MakeSubgraphs, SubgraphsGivenUp, Announce,
       groupVars, Busy
  <2>2. CASE StoreNext
    BY <1>7, <2>1, <2>2 DEF StoreNext, Goto, batchVars, Busy
  <2>3. CASE Insert \/ Count \/ StoreTotals \/ MakeSubgraphs \/ SubgraphsGivenUp \/ Announce
    <3>1. (pc' \in Busy /\ UNCHANGED claimed) \/ pc' = "asleep"
      BY <1>r, <2>3 DEF Insert, Count, StoreTotals, MakeSubgraphs, SubgraphsGivenUp, Announce,
         ThenOrLost, NextStep, Busy
    <3> QED
      BY <1>7, <2>1, <3>1
  <2> QED
    BY <1>8, <2>2, <2>3
<1>9. CASE CountRaises \/ PoisonFails \/ DatabaseFails
  <2>1. pc \in Busy /\ UNCHANGED pending
    BY <1>9 DEF CountRaises, PoisonFails, DatabaseFails, groupVars, Busy
  <2>2. (pc' \in Busy /\ UNCHANGED claimed) \/ pc' = "asleep"
    BY <1>9, <1>r DEF CountRaises, PoisonFails, DatabaseFails, StatementFails, GiveUp, NextStep, Busy
  <2> QED
    BY <1>7, <2>1, <2>2
<1>10. CASE Acknowledge
  <2>1. pending' = {}
    BY <1>10, <1>b DEF Acknowledge, Busy
  <2> QED
    BY <1>k, <2>1
<1>11. CASE RedisFails \/ \E name \in Names : Restart(name)
  <2>1. UNCHANGED pending /\ pc' \in {"asleep", "joining"}
    BY <1>11, <1>r DEF RedisFails, Restart, groupVars
  <2> QED
    BY <1>k, <2>1 DEF Busy
<1>12. CASE GoIdle
  <2>1. pc \in {"asleep", "reading"} /\ {p \in pending : ~p.idle /\ (pc = "asleep" => p.owner # me)} # {}
    BY <1>12 DEF GoIdle
  <2> QED
    BY <1>b, <2>1
<1>13. CASE StartOver
  <2>1. pc' = "joining"
    BY <1>13 DEF StartOver
  <2>2. CASE pending' = pending
    BY <1>k, <2>1, <2>2 DEF Busy
  <2>3. CASE pending' = {[p EXCEPT !.idle = TRUE] : p \in pending}
    <3> DEFINE f == [p \in pending |-> [p EXCEPT !.idle = TRUE]]
    <3>1. \A p \in pending : /\ [p EXCEPT !.idle = TRUE].id = p.id
                             /\ [p EXCEPT !.idle = TRUE].owner = p.owner
                             /\ [p EXCEPT !.idle = TRUE].idle = TRUE
      BY DEF GraphTypeOK, PendingEntry
    <3>2. /\ f \in [pending -> pending']
          /\ \A t \in pending' : \E x \in pending : f[x] = t
          /\ \A x \in pending : f[x].id = x.id
      BY <2>3, <3>1
    <3> HIDE DEF f
    <3>3. IsFiniteSet(pending') /\ Fits(BatchSize, pending')
      BY <1>b, <1>t, <3>2, FitsImage
    <3>4. \A p \in pending' : p.owner = me /\ p.idle = TRUE
      BY <1>b, <2>3, <3>1
    <3> QED
      BY <1>s, <2>1, <3>3, <3>4 DEF OneBatch, Fits, Busy
  <2> QED
    BY <1>13, <2>2, <2>3 DEF StartOver
<1>14. CASE TakeOver
  <2> DEFINE kept == Claimed(Surviving(Oldest(BatchSize, Idle)))
             S == {EntryOf(p) : p \in kept}
  <2>1. Idle = pending
    BY <1>14, <1>b DEF TakeOver, Idle, GraphTypeOK, PendingEntry
  <2>2. pending' = kept /\ kept = Claimed(Surviving(pending))
    BY <1>14, <1>o, <2>1 DEF TakeOver
  <2>3. \/ kept = {} /\ Goto("takingOver")
        \/ Handle(S, FALSE, "takingOver")
        \/ Raise
    BY <1>14 DEF TakeOver, ThenOrLost
  <2>4. S = {EntryOf(p) : p \in pending'}
    BY <2>2
  <2> HIDE DEF kept, S
  <2>5. \/ pc' \in {"takingOver", "owning"} /\ pending' = {}
        \/ claimed' = {EntryOf(p) : p \in pending'} /\ pc' \in Busy
        \/ pc' = "asleep"
    BY <1>r, <2>2, <2>3, <2>4 DEF Goto, Handle, Busy
  <2> QED
    BY <1>s, <2>2, <2>5, ClaimLeavesOneBatch
<1>15. CASE ClaimOwn
  <2> DEFINE kept == Claimed(Surviving(Oldest(BatchSize, Own)))
             S == {EntryOf(p) : p \in kept}
             often == \E p \in Oldest(BatchSize, Own) : p.times >= IsolateAfter
  <2>1. Own = pending
    BY <1>b DEF Own
  <2>2. pending' = kept /\ kept = Claimed(Surviving(pending))
    BY <1>15, <1>o, <2>1 DEF ClaimOwn
  <2>3. \/ kept = {} /\ Goto("owning")
        \/ Handle(S, often, "owning")
        \/ Raise
    BY <1>15 DEF ClaimOwn, ThenOrLost
  <2>4. S = {EntryOf(p) : p \in pending'}
    BY <2>2
  <2> HIDE DEF kept, S, often
  <2>5. \/ pc' \in {"takingOver", "owning"} /\ pending' = {}
        \/ claimed' = {EntryOf(p) : p \in pending'} /\ pc' \in Busy
        \/ pc' = "asleep"
    BY <1>r, <2>2, <2>3, <2>4 DEF Goto, Handle, Busy
  <2> QED
    BY <1>s, <2>2, <2>5, ClaimLeavesOneBatch
<1>16. CASE ReadNew
  <2> DEFINE batch == Oldest(BatchSize, Unread)
             fresh(e) == [id |-> e.id, msg |-> e.msg, owner |-> me, times |-> 1, idle |-> FALSE]
             f == [e \in batch |-> fresh(e)]
  <2>1. pending' = {fresh(e) : e \in batch}
    BY <1>16, <1>b DEF ReadNew
  <2>2. (claimed' = batch /\ pc' = "inserting") \/ pc' = "asleep"
    <3>1. Handle(batch, FALSE, "checking") \/ Raise
      BY <1>16 DEF ReadNew, ThenOrLost
    <3> HIDE DEF batch
    <3> QED
      BY <1>r, <3>1 DEF Handle
  <2>3. IsFiniteSet(batch) /\ Fits(BatchSize, batch) /\ batch \subseteq Entry
    <3>1. IsFiniteSet(Unread) /\ Unread \subseteq Entry
      BY FS_Subset, SeenType DEF DeliveryInv, FiniteAll
    <3> QED
      BY <1>t, <3>1, OldestFits, OldestSubset
  <2>4. \A e \in Entry : fresh(e).id = e.id /\ fresh(e).owner = me /\ fresh(e).idle = FALSE /\ EntryOf(fresh(e)) = e
    BY DEF Entry, EntryOf
  <2> HIDE DEF batch, fresh
  <2>5. /\ f \in [batch -> pending']
        /\ \A t \in pending' : \E x \in batch : f[x] = t
        /\ \A x \in batch : f[x].id = x.id
    BY <2>1, <2>3, <2>4
  <2>6. /\ \A p \in pending' : p.owner = me /\ p.idle = FALSE
        /\ \A p \in pending' : EntryOf(p) \in batch
    BY <2>1, <2>3, <2>4
  <2> HIDE DEF f
  <2>7. IsFiniteSet(pending') /\ Fits(BatchSize, pending')
    <3>1. IsFiniteSet(batch) /\ Fits(BatchSize, batch) /\ BatchSize \in Nat
      BY <1>t, <2>3
    <3> QED
      BY <2>5, <3>1, FitsImage, Zenon
  <2> QED
    BY <1>s, <2>2, <2>6, <2>7 DEF OneBatch, Fits, Busy
<1> QED
  BY GraphActions, <1>1, <1>2, <1>3, <1>4, <1>5, <1>6, <1>8, <1>9, <1>10, <1>11, <1>12, <1>13, <1>14,
     <1>15, <1>16, Zenon DEF Consumer

-----------------------------------------------------------------------------
(* A session's messages are stored in order *)

\* Entries that may still be stored.
Live == Delivered \cup Unread

\* What is being stored alone is the oldest of what is left.
WorkOldest == \A w \in work, t \in todo : w.id <= t.id

\* No entry waits behind a stored message of its session, unless it was given up.
NoneBehind ==
    ~renamed => \A m \in Stored, e \in Live :
                    SessionOf[e.msg] = SessionOf[m] /\ e.msg < m => place[e.msg] # 0 \/ Excused(e.msg)

\* The invariant of the order: all of the above, and that nothing is overtaken.
OrderInv ==
    LogInv /\ SettledInv /\ DeliveryInv /\ OneBatch /\ WorkOldest /\ NoneBehind

\* Every step keeps the oldest first.
LEMMA WorkOldestStep ==
    ASSUME GraphTypeOK, DeliveryInv, WorkOldest, [GraphNext]_graphVars
    PROVE  WorkOldest'
<1>t. GraphTypeOK /\ GraphAssumption
  BY GraphAssumption
<1>1. ASSUME work' \subseteq work, todo' \subseteq todo
      PROVE  WorkOldest'
  BY <1>1 DEF WorkOldest
<1>2. ASSUME work' = {} \/ todo' = {}
      PROVE  WorkOldest'
  BY <1>2 DEF WorkOldest
<1>3. CASE \/ \E m \in Messages, twice \in BOOLEAN : Send(m, twice)
           \/ \E s \in Sessions : StatusRead(s) \/ DeleteSession(s)
           \/ \E s \in Sessions, st \in {"open", "finished"} : StatusWrite(s, st)
           \/ Outside /\ UNCHANGED processVars
           \/ Waits
  <2>1. UNCHANGED batchVars
    BY <1>3 DEF Send, StatusRead, DeleteSession, StatusWrite, Waits, processVars
  <2> QED
    BY <1>1, <2>1 DEF batchVars
<1>4. CASE (Outside /\ Stops) \/ Acknowledge \/ GoesAlone \/ GivesUp
  <2>1. work' = {}
    BY <1>4 DEF Stops, NoBatch, Acknowledge, ThenOrLost, Raise, GoesAlone, GivesUp, GiveUp
  <2> QED
    BY <1>2, <2>1
<1>5. CASE Handles
  <2>1. work' = {} \/ todo' = {}
    BY <1>5 DEF Handles, Handle
  <2> QED
    BY <1>2, <2>1
<1>6. CASE Insert \/ StoreTotals \/ MakeSubgraphs \/ SubgraphsGivenUp
  <2>1. work' \subseteq work /\ todo' = todo
    BY <1>6 DEF Insert, Accepted, StoreTotals, MakeSubgraphs, SubgraphsGivenUp, NextStep
  <2> QED
    BY <1>1, <2>1
<1>7. CASE Count \/ Announce
  <2>1. UNCHANGED <<work, todo>> \/ work' = {}
    BY <1>7 DEF Count, Announce, ThenOrLost, NextStep, Raise, NoBatch
  <2> QED
    BY <1>1, <1>2, <2>1
<1>8. CASE StoreNext
  <2>1. CASE todo = {}
    BY <1>1, <1>8, <2>1 DEF StoreNext, Goto, batchVars
  <2>2. CASE todo # {}
    <3>1. work' = Oldest(1, todo) /\ todo' = todo \ work'
      BY <1>8, <2>2 DEF StoreNext
    <3>2. todo \in SUBSET Entry /\ IsFiniteSet(todo)
      BY FS_Subset DEF GraphTypeOK, DeliveryInv, FiniteAll, Delivered
    <3>3. \A w \in Oldest(1, todo), t \in todo : w.id <= t.id
      BY <3>2, OldestOne
    <3> QED
      BY <3>1, <3>3 DEF WorkOldest
  <2> QED
    BY <2>1, <2>2
<1> QED
  BY <1>t, <1>3, <1>4, <1>5, <1>6, <1>7, <1>8, BatchSteps, Zenon

\* Only an insert stores.
LEMMA OnlyInsertStores ==
    ASSUME GraphTypeOK, [GraphNext]_graphVars
    PROVE  Insert \/ \A m \in Messages : place'[m] \in {place[m], 0}
<1>t. GraphTypeOK /\ GraphAssumption
  BY GraphAssumption
<1>1. ASSUME UNCHANGED place
      PROVE  \A m \in Messages : place'[m] \in {place[m], 0}
  BY <1>1
<1>2. CASE \/ \E m \in Messages, twice \in BOOLEAN : Send(m, twice)
           \/ \E s \in Sessions, st \in {"open", "finished"} : StatusWrite(s, st)
           \/ Outside /\ UNCHANGED processVars
           \/ Waits
           \/ Outside /\ Stops
           \/ Handles
           \/ GoesAlone
  <2>1. UNCHANGED place
    BY <1>2 DEF Send, StatusWrite, Outside, Waits, Handles, GoesAlone, rowVars
  <2> QED
    BY <1>1, <2>1
<1>3. CASE \E s \in Sessions : StatusRead(s) \/ DeleteSession(s)
  BY <1>3 DEF StatusRead, DeleteSession, rowVars
<1>4. CASE \/ StoreNext \/ Count \/ StoreTotals \/ MakeSubgraphs \/ SubgraphsGivenUp
           \/ Announce \/ Acknowledge \/ GivesUp
  <2>1. UNCHANGED place
    BY <1>4 DEF StoreNext, Count, StoreTotals, MakeSubgraphs, SubgraphsGivenUp, Announce, Acknowledge,
       GivesUp, rowVars
  <2> QED
    BY <1>1, <2>1
<1> QED
  BY <1>t, <1>2, <1>3, <1>4, BatchSteps, Zenon

\* What an insert stores was accepted, and all that was accepted is then stored.
LEMMA InsertStores ==
    ASSUME GraphTypeOK, Insert
    PROVE  /\ work' = Accepted(work) /\ work' \subseteq claimed
           /\ UNCHANGED <<kind, status, dropped, told, pending, stream, lastDelivered, claimed, renamed>>
           /\ \A m \in MessagesOf(work') : place'[m] # 0
           /\ \A m \in Messages : place[m] # 0 => place'[m] = place[m]
           /\ \A m \in Messages : place'[m] # 0 =>
                 place[m] # 0 \/ \E w \in work' : w.msg = m /\ w.id = place'[m]
<1>1. /\ work' = Accepted(work)
      /\ UNCHANGED <<kind, status, dropped, told, pending, stream, lastDelivered, claimed, renamed>>
  BY DEF Insert, NextStep, streamVars, groupVars, ghostVars
<1>2. work' \subseteq claimed /\ work' \subseteq Entry
  BY <1>1 DEF Accepted, GraphTypeOK
<1>3. MessagesOf(work') \subseteq Messages
  BY <1>2, MessagesOfEntries
<1>4. \A m \in Messages :
         place'[m] = IF place[m] = 0 /\ m \in MessagesOf(work') THEN (CHOOSE e \in work' : e.msg = m).id
                     ELSE place[m]
  BY DEF Insert
<1>5. ASSUME NEW m \in MessagesOf(work')
      PROVE  \E w \in work' : w.msg = m /\ w.id = (CHOOSE e \in work' : e.msg = m).id /\ w.id # 0
  <2>1. \E e \in work' : e.msg = m
    BY DEF MessagesOf
  <2>2. (CHOOSE e \in work' : e.msg = m) \in work' /\ (CHOOSE e \in work' : e.msg = m).msg = m
    BY <2>1
  <2> QED
    BY <1>2, <2>2 DEF Entry
<1>6. \A m \in MessagesOf(work') : place'[m] # 0
  BY <1>3, <1>4, <1>5
<1> QED
  BY <1>1, <1>2, <1>4, <1>5, <1>6

\* What lives on lived.
LEMMA LiveSteps ==
    ASSUME GraphTypeOK, GraphTypeOK', Flows
    PROVE  Live' \subseteq Live
<1>1. lastDelivered <= lastDelivered' /\ lastDelivered' \in Nat /\ lastDelivered \in Nat
  BY SeenType DEF Flows, Unread, GraphTypeOK, Entry
<1>2. Unread' \subseteq Unread
  BY <1>1 DEF Flows, Unread, GraphTypeOK, Entry
<1> QED
  BY <1>2 DEF Flows, Live

\* When an entry is stored, what was emitted before it is stored or excused.
LEMMA OlderAreStored ==
    ASSUME OrderInv, ~renamed, Insert, NEW w \in work', NEW e \in Live,
           SessionOf[e.msg] = SessionOf[w.msg], e.msg < w.msg
    PROVE  place'[e.msg] # 0 \/ Excused(e.msg)
<1>t. GraphTypeOK
  BY DEF OrderInv, LogInv
<1>1. /\ work' = Accepted(work) /\ work' \subseteq claimed
      /\ \A m \in MessagesOf(work') : place'[m] # 0
      /\ \A m \in Messages : place[m] # 0 => place'[m] = place[m]
  BY <1>t, InsertStores
<1>2. /\ w \in Delivered /\ w \in Seen /\ e \in Seen /\ w \in Entry /\ e \in Entry
      /\ e.id \in Nat /\ w.id \in Nat /\ e.msg \in Messages
  BY <1>t, <1>1, SeenType DEF Live, Seen, Entry
<1>3. e.id < w.id
  BY <1>2 DEF OrderInv, DeliveryInv, InSequence
<1>4. e \notin Unread
  BY <1>2, <1>3, <1>t DEF OrderInv, DeliveryInv, Bounded, Unread, GraphTypeOK
<1>5. e \in claimed
  <2>1. pc \in Busy
    BY DEF Insert, Busy
  <2> QED
    BY <1>4, <2>1 DEF Live, Delivered, OrderInv, OneBatch
<1>6. Settled(e.msg) \/ e.msg \in InHand
  BY <1>5 DEF OrderInv, SettledInv, BatchCovered, MessagesOf, Insert, Busy
<1>7. CASE Settled(e.msg)
  BY <1>1, <1>2, <1>7 DEF Settled, Done
<1>8. CASE e.msg \in MessagesOf(todo)
  <2>1. PICK t \in todo : t.msg = e.msg
    BY <1>8 DEF MessagesOf
  <2>2. w \in work
    BY <1>1 DEF Accepted
  <2>3. w.id <= t.id
    BY <2>2 DEF OrderInv, WorkOldest
  <2>4. t \in Seen /\ t \in Entry
    BY <1>t, SeenType DEF GraphTypeOK, Seen
  <2>5. t.id < w.id
    BY <1>2, <2>1, <2>4 DEF OrderInv, DeliveryInv, InSequence
  <2> QED
    BY <1>2, <2>3, <2>4, <2>5 DEF Entry
<1>9. CASE e.msg \in MessagesOf(work)
  BY <1>1, <1>9 DEF Accepted, MessagesOf, Excused
<1> QED
  BY <1>6, <1>7, <1>8, <1>9 DEF InHand

\* Every step leaves none behind.
LEMMA NoneBehindStep ==
    ASSUME OrderInv, [GraphNext]_graphVars
    PROVE  NoneBehind'
<1> SUFFICES ASSUME ~renamed', NEW m \in Stored', NEW e \in Live',
                    SessionOf[e.msg] = SessionOf[m], e.msg < m
             PROVE  (place[e.msg] # 0 \/ Excused(e.msg))'
  BY DEF NoneBehind
<1>t. GraphTypeOK /\ GraphTypeOK' /\ GraphAssumption
  BY GraphAssumption, GraphStepType DEF OrderInv, LogInv
<1>s. ~renamed
  BY <1>t, SameConsumer
<1>m. m \in Messages /\ place'[m] # 0
  BY DEF Stored
<1>k. ASSUME NEW n \in Messages, place[n] # 0 \/ Excused(n)
      PROVE  (place[n] # 0 \/ Excused(n))'
  <2>1. /\ kind' = kind /\ dropped \subseteq dropped' /\ SessionOf[n] \in Sessions
        /\ status[SessionOf[n]] = "deleted" => status'[SessionOf[n]] = "deleted"
        /\ place[n] # 0 => place'[n] = place[n] \/ status'[SessionOf[n]] = "deleted"
    BY <1>t, WhatIsDoneStays DEF OrderInv, GraphAssumption
  <2> QED
    BY <1>k, <2>1 DEF Excused
<1>1. ASSUME m \in Stored, e \in Live
      PROVE  (place[e.msg] # 0 \/ Excused(e.msg))'
  <2>1. e.msg \in Messages
    BY <1>1, <1>t, SeenType DEF Live, Entry
  <2> QED
    BY <1>1, <1>k, <1>s, <2>1 DEF OrderInv, NoneBehind
<1>2. CASE Insert
  <2>1. Live' = Live
    BY <1>2, <1>t, InsertStores DEF Live, Delivered, Unread
  <2>2. CASE place[m] # 0
    BY <1>1, <1>m, <2>1, <2>2 DEF Stored
  <2>3. CASE place[m] = 0
    <3>1. PICK w \in work' : w.msg = m
      BY <1>2, <1>m, <1>t, <2>3, InsertStores
    <3>2. place'[e.msg] # 0 \/ Excused(e.msg)
      BY <1>2, <1>s, <2>1, <3>1, OlderAreStored
    <3> QED
      BY <1>2, <1>t, <3>2, InsertStores DEF Excused
  <2> QED
    BY <2>2, <2>3
<1>3. CASE ~Insert
  <2>1. m \in Stored
    BY <1>3, <1>m, <1>t, OnlyInsertStores DEF Stored
  <2>2. CASE Flows
    BY <1>1, <1>t, <2>1, <2>2, LiveSteps
  <2>3. ASSUME NEW n \in Messages, NEW twice \in BOOLEAN, Send(n, twice)
        PROVE  (place[e.msg] # 0 \/ Excused(e.msg))'
    <3>1. e \in Live \/ e.msg = n
      <4>1. UNCHANGED <<claimed, pending, lastDelivered>>
        BY <2>3 DEF Send, groupVars, processVars, batchVars
      <4>2. \A f \in stream' : f \in stream \/ f.msg = n
        BY <2>3 DEF Send
      <4> QED
        BY <4>1, <4>2 DEF Live, Delivered, Unread
    <3>2. e.msg # n
      <4>1. m \in sent
        <5> DEFINE row == [id |-> place[m], msg |-> m]
        <5>1. row \in Seen /\ row.msg = m
          BY <2>1 DEF Seen, Rows
        <5> HIDE DEF row
        <5> QED
          BY <5>1 DEF OrderInv, DeliveryInv, OnlySent
      <4> QED
        BY <2>3, <4>1 DEF Send, OrderInv, DeliveryInv, EmittedInOrder
    <3> QED
      BY <1>1, <2>1, <3>1, <3>2
  <2> QED
    BY <1>t, <2>2, <2>3, FlowSteps
<1> QED
  BY <1>2, <1>3

\* The invariant of the order holds at first, and every step keeps it.
LEMMA OrderInit == GraphInit => OrderInv
<1> SUFFICES ASSUME GraphInit
             PROVE  OrderInv
  OBVIOUS
<1>1. WorkOldest /\ NoneBehind
  BY DEF GraphInit, WorkOldest, NoneBehind, Stored
<1> QED
  BY <1>1, LogInvInit, SettledInit, DeliveryInit, OneBatchInit DEF OrderInv

\* Every step keeps the invariant of the order.
LEMMA OrderStep ==
    ASSUME OrderInv, [GraphNext]_graphVars
    PROVE  OrderInv'
<1>1. GraphTypeOK /\ LogInv /\ SettledInv /\ DeliveryInv /\ OneBatch /\ WorkOldest
  BY DEF OrderInv, LogInv
<1>2. LogInv' /\ SettledInv' /\ DeliveryInv' /\ OneBatch' /\ WorkOldest'
  BY <1>1, LogInvStep, SettledStep, DeliveryStep, OneBatchStep, WorkOldestStep
<1> QED
  BY <1>2, NoneBehindStep DEF OrderInv

\* The invariant of the order.
THEOREM OrderInductive == GraphSpec => []OrderInv
BY OrderInit, OrderStep, PTL DEF GraphSpec

\* One consumer under one name stores a session's messages in the order crew added
\* them, through any failures, restarts and redeliveries, but for those it had given up
\* (graph_message_stream_consumer.py:7-14).
THEOREM MessagesAreInOrder == GraphSpec => StoredInOrder
<1>1. ASSUME OrderInv, [GraphNext]_graphVars, NEW m \in Messages, NEW n \in Messages,
             SessionOf[m] = SessionOf[n], place[m] # 0, place[n] = 0, place'[n] # 0,
             ~renamed, n \notin dropped
      PROVE  place[m] < place'[n]
  <2>t. GraphTypeOK /\ GraphAssumption
    BY <1>1, GraphAssumption DEF OrderInv, LogInv
  <2>1. Insert
    BY <1>1, <2>t, OnlyInsertStores
  <2>2. PICK w \in work' : w.msg = n /\ w.id = place'[n]
    BY <1>1, <2>1, <2>t, InsertStores
  <2>3. work' = Accepted(work) /\ work' \subseteq claimed
    BY <2>1, <2>t, InsertStores
  <2>4. w \in Live /\ w \in Seen
    BY <2>3 DEF Live, Delivered, Seen
  <2>5. ~Excused(n)
    <3>1. w \in work /\ kind[n] # "rejected" /\ status[SessionOf[n]] # "deleted"
      BY <2>2, <2>3 DEF Accepted
    <3>2. kind[n] # "malformed"
      BY <1>1, <2>2, <3>1 DEF OrderInv, SettledInv, WorkFit
    <3> QED
      BY <1>1, <3>1, <3>2 DEF Excused
  <2>6. ~(n < m)
    <3>1. m \in Stored
      BY <1>1 DEF Stored
    <3> QED
      BY <1>1, <2>2, <2>4, <2>5, <3>1 DEF OrderInv, NoneBehind
  <2>7. m < n
    <3>1. m \in Nat /\ n \in Nat /\ m # n
      BY <1>1, <2>t DEF GraphAssumption
    <3> QED
      BY <2>6, <3>1
  <2>8. [id |-> place[m], msg |-> m] \in Seen
    BY <1>1 DEF Seen, Rows, Stored
  <2> QED
    BY <1>1, <2>2, <2>4, <2>7, <2>8 DEF OrderInv, DeliveryInv, InSequence
<1>2. OrderInv /\ [GraphNext]_graphVars =>
         [\A m, n \in Messages :
             (/\ SessionOf[m] = SessionOf[n]
              /\ place[m] # 0
              /\ place[n] = 0 /\ place'[n] # 0
              /\ ~renamed /\ n \notin dropped)
             => place[m] < place'[n]]_graphVars
  BY <1>1
<1> QED
  BY <1>2, OrderInductive, PTL DEF GraphSpec, StoredInOrder

-----------------------------------------------------------------------------
(* Subgraph sessions are complete, and are there before graph_end is told *)

\* The messages whose announcement is made or is next.
ToTell == told \cup (IF pc = "announcing" THEN MessagesOf(work) ELSE {})

SpawnedOnce == \A s \in Sessions : spawned[s] \in {0, 1}

\* Subgraph sessions are of sessions whose end is stored.
EndIsStored ==
    \A s \in Sessions : spawned[s] > 0 /\ status[s] # "deleted" =>
        \E m \in OfSession(s) : kind[m] = "end" /\ place[m] # 0

ToldIsKept == told \subseteq Kept

\* Nothing that ran inside a subgraph is stored later.
AllCopied ==
    ~renamed => \A s \in Sessions, m \in Stored :
        SessionOf[m] = s /\ kind[m] = "inner" /\ spawned[s] > 0 =>
            status[s] = "deleted" \/ m \in dropped \/ m \in copied[s]

\* No start is stored after the end was told without the subgraph sessions.
SpawnedBeforeEnd ==
    ~renamed => \A m \in ToTell, n \in Stored :
        kind[m] = "end" /\ kind[n] = "start" /\ SessionOf[n] = SessionOf[m] =>
            Excused(m) \/ n \in dropped \/ spawned[SessionOf[m]] > 0

\* How the subgraph sessions follow the rows and what was told.
SubgraphInv == SpawnedOnce /\ EndIsStored /\ ToldIsKept /\ AllCopied /\ SpawnedBeforeEnd

\* There are no subgraph sessions at first.
LEMMA SubgraphInit == GraphInit => SubgraphInv
<1> SUFFICES ASSUME GraphInit
             PROVE  SubgraphInv
  OBVIOUS
<1>1. told = {} /\ pc = "joining" /\ \A s \in Sessions : spawned[s] = 0
  BY DEF GraphInit
<1> QED
  BY <1>1 DEF SubgraphInv, SpawnedOnce, EndIsStored, ToldIsKept, AllCopied, SpawnedBeforeEnd, ToTell

\* What the database accepts is excused only if it was given up before.
LEMMA AcceptedIsFit ==
    ASSUME OrderInv, Insert, NEW w \in work', Excused(w.msg)
    PROVE  w.msg \in dropped
<1>1. w \in work /\ kind[w.msg] # "rejected" /\ status[SessionOf[w.msg]] # "deleted"
  BY DEF Insert, Accepted
<1>2. kind[w.msg] # "malformed"
  BY <1>1 DEF OrderInv, SettledInv, WorkFit
<1> QED
  BY <1>1, <1>2 DEF Excused

\* After a session's end only what was given up is stored.
LEMMA NothingAfterEnd ==
    ASSUME OrderInv, Insert, ~renamed, NEW m \in Messages, NEW n \in Messages,
           kind[m] = "end", place[m] # 0, SessionOf[n] = SessionOf[m], place[n] = 0, place'[n] # 0
    PROVE  n \in dropped
<1>t. GraphTypeOK /\ GraphAssumption
  BY GraphAssumption DEF OrderInv, LogInv
<1>1. PICK w \in work' : w.msg = n
  BY <1>t, InsertStores
<1>2. w \in claimed
  BY <1>t, InsertStores
<1>3. n \in sent /\ w \in Live
  BY <1>1, <1>2 DEF OrderInv, DeliveryInv, OnlySent, Seen, Live, Delivered
<1>4. ~(m < n)
  BY <1>3 DEF OrderInv, DeliveryInv, EmittedInOrder
<1>5. n < m
  <2>1. m \in Nat /\ n \in Nat /\ m # n
    BY <1>t DEF GraphAssumption
  <2> QED
    BY <1>4, <2>1
<1>6. m \in Stored
  BY DEF Stored
<1>7. Excused(n)
  BY <1>1, <1>3, <1>5, <1>6 DEF OrderInv, NoneBehind
<1> QED
  BY <1>1, <1>7, AcceptedIsFit

\* Steps that have no part in making or telling subgraph sessions.
Apart ==
    /\ UNCHANGED <<spawned, copied, told>>
    /\ pc' = "announcing" => UNCHANGED <<pc, work>>

\* A step makes subgraph sessions, gives them up, announces, or does none of these.
LEMMA ApartSteps ==
    ASSUME GraphTypeOK, [GraphNext]_graphVars
    PROVE  MakeSubgraphs \/ SubgraphsGivenUp \/ Announce \/ Apart
<1>t. GraphTypeOK /\ GraphAssumption
  BY GraphAssumption
<1> USE DEF Apart
<1>1. CASE \/ \E m \in Messages, twice \in BOOLEAN : Send(m, twice)
           \/ \E s \in Sessions : StatusRead(s) \/ DeleteSession(s)
           \/ \E s \in Sessions, st \in {"open", "finished"} : StatusWrite(s, st)
           \/ Outside /\ UNCHANGED processVars
  <2>1. UNCHANGED <<spawned, copied, told, processVars>>
    BY <1>1 DEF Send, StatusRead, DeleteSession, StatusWrite, Outside, rowVars, ghostVars
  <2>2. UNCHANGED <<pc, work>>
    BY <2>1 DEF processVars, batchVars
  <2> QED
    BY <2>1, <2>2
<1>2. CASE Waits \/ (Outside /\ Stops) \/ Handles \/ GoesAlone
  <2>1. UNCHANGED <<spawned, copied, told>>
    BY <1>2 DEF Outside, Waits, Handles, GoesAlone, rowVars, ghostVars
  <2>2. pc' # "announcing"
    BY <1>2 DEF Waits, Stops, Handles, Handle, GoesAlone, Busy
  <2> QED
    BY <2>1, <2>2
<1>3. CASE StoreNext \/ Insert \/ Count \/ StoreTotals \/ Acknowledge \/ GivesUp
  <2>1. UNCHANGED <<spawned, copied, told>>
    BY <1>3 DEF StoreNext, Insert, Count, StoreTotals, Acknowledge, GivesUp, rowVars, ghostVars
  <2>2. pc' # "announcing"
    BY <1>3, <1>t DEF StoreNext, Goto, Insert, Count, StoreTotals, Acknowledge, GivesUp, GiveUp, ThenOrLost,
       NextStep, Raise, GraphTypeOK
  <2> QED
    BY <2>1, <2>2
<1> QED
  BY <1>t, <1>1, <1>2, <1>3, BatchSteps, Zenon

\* Rows and sessions only go, and only insert adds a row: what holds of them stays.
LEMMA EndStays ==
    ASSUME GraphTypeOK, LogInv, EndIsStored, ToldIsKept, [GraphNext]_graphVars
    PROVE  /\ \A s \in Sessions : spawned[s] > 0 /\ status'[s] # "deleted" =>
                 \E m \in OfSession(s) : kind'[m] = "end" /\ place'[m] # 0
           /\ told \subseteq Kept'
<1>1. /\ kind' = kind
      /\ \A s \in Sessions : status[s] = "deleted" => status'[s] = "deleted"
      /\ \A m \in Messages : place[m] # 0 => place'[m] = place[m] \/ status'[SessionOf[m]] = "deleted"
  BY WhatIsDoneStays
<1>2. \A m \in Messages : SessionOf[m] \in Sessions
  BY GraphAssumption DEF GraphAssumption
<1>3. told \subseteq Kept'
  BY <1>1, <1>2 DEF ToldIsKept, Kept
<1> QED
  BY <1>1, <1>3 DEF EndIsStored, OfSession

\* Every step keeps the subgraph sessions complete.
LEMMA SubgraphStep ==
    ASSUME OrderInv, SubgraphInv, [GraphNext]_graphVars
    PROVE  SubgraphInv'
<1>t. GraphTypeOK /\ GraphTypeOK' /\ LogInv /\ GraphAssumption
  BY GraphAssumption, GraphStepType DEF OrderInv, LogInv
<1>k. /\ kind' = kind /\ dropped \subseteq dropped'
      /\ \A s \in Sessions : status[s] = "deleted" => status'[s] = "deleted"
      /\ \A m \in Messages : SessionOf[m] \in Sessions
  BY <1>t, WhatIsDoneStays DEF GraphAssumption
<1>e. /\ \A s \in Sessions : spawned[s] > 0 /\ status'[s] # "deleted" =>
            \E m \in OfSession(s) : kind'[m] = "end" /\ place'[m] # 0
      /\ told \subseteq Kept'
  BY <1>t, EndStays DEF SubgraphInv
<1>x. \A m \in Messages : Excused(m) => Excused(m)'
  BY <1>k DEF Excused
<1>s. ~renamed' => ~renamed
  BY <1>t, SameConsumer
<1>n. \A m \in Stored' : m \in Messages /\ SessionOf[m] \in Sessions
  BY <1>k DEF Stored
\* A row of a session whose end is stored was there before, or was given up.
<1>a. ASSUME ~renamed', NEW m \in Messages, NEW n \in Stored', kind[m] = "end",
             m \in Kept, SessionOf[n] = SessionOf[m]
      PROVE  n \in Stored \/ n \in dropped \/ status'[SessionOf[n]] = "deleted"
  <2>1. CASE place[m] # 0 /\ Insert /\ n \notin Stored
    <3>1. n \in Messages /\ place'[n] # 0 /\ place[n] = 0
      BY <2>1 DEF Stored
    <3> QED
      BY <1>a, <1>s, <2>1, <3>1, NothingAfterEnd
  <2>2. CASE ~Insert
    <3>1. n \in Stored
      BY <1>t, <2>2, OnlyInsertStores DEF Stored
    <3> QED
      BY <3>1
  <2>3. CASE place[m] = 0
    BY <1>a, <1>k, <2>3 DEF Kept
  <2> QED
    BY <2>1, <2>2, <2>3
<1>1. ASSUME UNCHANGED <<spawned, copied>>
      PROVE  SpawnedOnce' /\ EndIsStored' /\ AllCopied'
  <2>1. SpawnedOnce' /\ EndIsStored'
    BY <1>1, <1>e DEF SubgraphInv, SpawnedOnce, EndIsStored, OfSession
  <2>2. AllCopied'
    <3>1. ASSUME ~renamed', NEW s \in Sessions, NEW n \in Stored', SessionOf[n] = s, kind[n] = "inner",
                 spawned[s] > 0, status'[s] # "deleted", n \notin dropped'
          PROVE  n \in copied[s]
      <4>1. status[s] # "deleted" /\ n \notin dropped
        BY <1>k, <3>1
      <4>2. PICK m \in OfSession(s) : kind[m] = "end" /\ place[m] # 0
        BY <3>1, <4>1 DEF SubgraphInv, EndIsStored
      <4>3. n \in Stored
        BY <1>a, <3>1, <4>1, <4>2 DEF Kept, OfSession
      <4> QED
        BY <1>s, <3>1, <4>1, <4>3 DEF SubgraphInv, AllCopied
    <3> QED
      BY <1>1, <1>k, <3>1 DEF AllCopied
  <2> QED
    BY <2>1, <2>2
<1>2. ASSUME UNCHANGED <<spawned, copied>>, told' \subseteq Kept',
             \A m \in ToTell' : kind[m] = "end" => Excused(m)' \/ (m \in ToTell /\ m \in Kept)
      PROVE  SubgraphInv'
  <2>1. SpawnedBeforeEnd'
    <3>1. ASSUME ~renamed', NEW m \in ToTell', NEW n \in Stored', kind[m] = "end", kind[n] = "start",
                 SessionOf[n] = SessionOf[m], ~Excused(m)', n \notin dropped'
          PROVE  spawned[SessionOf[m]] > 0
      <4>1. m \in ToTell /\ m \in Kept /\ m \in Messages
        BY <1>2, <3>1 DEF Kept
      <4>2. n \in Stored
        BY <1>a, <1>k, <3>1, <4>1 DEF Excused
      <4> QED
        BY <1>k, <1>s, <1>x, <3>1, <4>1, <4>2 DEF SubgraphInv, SpawnedBeforeEnd
    <3> QED
      BY <1>2, <1>k, <3>1 DEF SpawnedBeforeEnd
  <2> QED
    BY <1>1, <1>2, <2>1 DEF SubgraphInv, ToldIsKept
<1>3. pc = "announcing" => MessagesOf(work) \subseteq Kept
  BY <1>t DEF LogInv, WorkIsKept
<1>4. ToTell \subseteq Kept
  BY <1>3 DEF ToTell, SubgraphInv, ToldIsKept
<1>5. CASE Apart
  <2>1. ToTell' \subseteq ToTell
    BY <1>5 DEF Apart, ToTell, MessagesOf
  <2> QED
    BY <1>2, <1>4, <1>5, <1>e, <2>1 DEF Apart
<1>6. CASE SubgraphsGivenUp
  <2>1. /\ UNCHANGED <<spawned, copied, told, work>>
        /\ dropped' = dropped \cup {m \in MessagesOf(work) : kind[m] = "end"}
    BY <1>6 DEF SubgraphsGivenUp, rowVars
  <2>2. \A m \in ToTell' : m \in told \/ m \in MessagesOf(work)
    BY <2>1 DEF ToTell, MessagesOf
  <2>3. \A m \in ToTell' : kind[m] = "end" => Excused(m)' \/ m \in told
    BY <2>1, <2>2 DEF Excused
  <2> QED
    BY <1>2, <1>4, <1>e, <2>1, <2>3 DEF ToTell
<1>7. CASE Announce
  <2>1. /\ UNCHANGED <<spawned, copied>> /\ told' = told \cup MessagesOf(work) /\ pc = "announcing"
        /\ UNCHANGED <<place, status>>
    BY <1>7 DEF Announce, rowVars
  <2>2. pc' # "announcing"
    BY <1>7 DEF Announce, ThenOrLost, NextStep, Raise
  <2>3. ToTell' \subseteq ToTell /\ told' \subseteq Kept'
    BY <1>3, <1>e, <2>1, <2>2 DEF ToTell, Kept
  <2> QED
    BY <1>2, <1>4, <2>1, <2>3
<1>8. CASE MakeSubgraphs
  <2>1. /\ pc = "subgraphing" /\ pc' = "announcing"
        /\ UNCHANGED <<work, kind, place, status, renamed, told, dropped>>
        /\ \A s \in Sessions : spawned'[s] = IF s \in Roots THEN spawned[s] + 1 ELSE spawned[s]
        /\ \A s \in Sessions : copied'[s] = IF s \in Roots THEN Inner(s) ELSE copied[s]
    BY <1>8 DEF MakeSubgraphs, NextStep, ghostVars
  <2>2. \A s \in Roots : s \in Sessions /\ spawned[s] = 0 /\ status[s] # "deleted" /\ s \in Ends(MessagesOf(work))
    BY <1>k, <1>t, MessagesOfEntries DEF Roots, Ends, GraphTypeOK
  <2>3. MessagesOf(work) \subseteq Kept
    BY <1>t, <2>1 DEF LogInv, WorkIsKept
  <2>4. Stored' = Stored /\ Kept' = Kept
    BY <2>1 DEF Stored, Kept
  <2>5. SpawnedOnce'
    BY <2>1, <2>2 DEF SubgraphInv, SpawnedOnce
  <2>6. EndIsStored'
    <3>1. ASSUME NEW s \in Roots
          PROVE  \E m \in OfSession(s) : kind[m] = "end" /\ place[m] # 0
      <4>1. PICK m \in MessagesOf(work) : kind[m] = "end" /\ SessionOf[m] = s
        BY <2>2 DEF Ends
      <4> QED
        BY <2>2, <2>3, <4>1 DEF Kept, OfSession
    <3> QED
      BY <2>1, <3>1 DEF SubgraphInv, EndIsStored, OfSession
  <2>7. ToldIsKept'
    BY <2>1, <2>4 DEF SubgraphInv, ToldIsKept
  <2>8. AllCopied'
    <3>1. \A m \in Stored : kind[m] = "inner" => m \in Inner(SessionOf[m])
      BY DEF Inner, OfSession, Stored
    <3> QED
      BY <2>1, <2>4, <3>1 DEF SubgraphInv, AllCopied
  <2>9. SpawnedBeforeEnd'
    <3>1. ASSUME ~renamed, NEW m \in ToTell', NEW n \in Stored, kind[m] = "end", kind[n] = "start",
                 SessionOf[n] = SessionOf[m], ~Excused(m), n \notin dropped
          PROVE  spawned'[SessionOf[m]] > 0
      <4>t. /\ n \in Messages /\ SessionOf[m] \in Sessions /\ spawned[SessionOf[m]] \in {0, 1}
            /\ n \in OfSession(SessionOf[m])
        BY <1>k, <3>1 DEF Stored, OfSession, SubgraphInv, SpawnedOnce
      <4>1. CASE m \in told
        <5>1. spawned[SessionOf[m]] > 0
          BY <3>1, <4>1 DEF SubgraphInv, SpawnedBeforeEnd, ToTell
        <5> QED
          BY <2>1, <4>t, <5>1
      <4>2. CASE m \in MessagesOf(work)
        <5>1. SessionOf[m] \in Ends(MessagesOf(work)) /\ status[SessionOf[m]] # "deleted"
          BY <3>1, <4>2 DEF Ends, Excused
        <5>2. SessionOf[m] \in Roots \/ spawned[SessionOf[m]] # 0
          BY <3>1, <4>t, <5>1 DEF Roots
        <5> QED
          BY <2>1, <4>t, <5>2
      <4> QED
        BY <2>1, <3>1, <4>1, <4>2 DEF ToTell, MessagesOf
    <3> QED
      BY <2>1, <2>4, <3>1 DEF SpawnedBeforeEnd, Excused
  <2> QED
    BY <2>5, <2>6, <2>7, <2>8, <2>9 DEF SubgraphInv
<1> QED
  BY <1>t, <1>5, <1>6, <1>7, <1>8, ApartSteps

\* The invariant of the subgraph sessions.
THEOREM SubgraphsInductive == GraphSpec => [](OrderInv /\ SubgraphInv)
<1>1. OrderInv /\ SubgraphInv /\ [GraphNext]_graphVars => (OrderInv /\ SubgraphInv)'
  BY OrderStep, SubgraphStep
<1> QED
  BY <1>1, OrderInit, SubgraphInit, PTL DEF GraphSpec

\* The subgraph sessions of a root are made at most once, and with one consumer under
\* one name they have every message that ran inside a subgraph and was not given up
\* (graph_message_store.py:325).
THEOREM SubgraphsAreComplete == GraphSpec => []SubgraphsComplete
<1>1. ASSUME OrderInv, SubgraphInv
      PROVE  SubgraphsComplete
  <2>1. \A s \in Sessions : spawned[s] <= 1
    BY <1>1 DEF SubgraphInv, SpawnedOnce
  <2>2. ASSUME NEW s \in Sessions, spawned[s] > 0, ~renamed, status[s] # "deleted"
        PROVE  {m \in OfSession(s) \cap Stored : kind[m] = "inner"} \ dropped \subseteq copied[s]
    BY <1>1, <2>2 DEF SubgraphInv, AllCopied, OfSession
  <2> QED
    BY <2>1, <2>2 DEF SubgraphsComplete
<1> QED
  BY <1>1, SubgraphsInductive, PTL

\* With one consumer under one name graph_end reaches the live views when the subgraph
\* sessions are there.
THEOREM EndIsTheLast == GraphSpec => []EndIsLast
<1>1. ASSUME OrderInv, SubgraphInv
      PROVE  EndIsLast
  <2> SUFFICES ASSUME NEW m \in told, kind[m] = "end", ~Excused(m), ~renamed,
                      NEW n \in (OfSession(SessionOf[m]) \cap Stored) \ dropped, kind[n] = "start"
               PROVE  spawned[SessionOf[m]] > 0
    BY DEF EndIsLast
  <2> QED
    BY <1>1 DEF SubgraphInv, SpawnedBeforeEnd, ToTell, OfSession
<1> QED
  BY <1>1, SubgraphsInductive, PTL
=============================================================================
