------------------------- MODULE GraphMessagesProofs -------------------------
(* Theorems about GraphMessages, for any messages, sessions and bounds. *)
EXTENDS GraphMessages, FiniteSetTheorems, TLAPS

-----------------------------------------------------------------------------
(* The steps of the stream's parties, one by one *)

\* Every step is one of the actions, or changes nothing.
LEMMA GraphActions ==
    ASSUME [GraphNext]_graphVars
    PROVE  \/ \E m \in Messages, twice \in BOOLEAN : Send(m, twice)
           \/ \E s \in Sessions : StatusRead(s)
           \/ \E s \in Sessions, st \in {"open", "finished"} : StatusWrite(s, st)
           \/ \E s \in Sessions : DeleteSession(s)
           \/ Consumer
           \/ SubgraphsGivenUp \/ RedisFails \/ DatabaseFails \/ GoIdle
           \/ \E name \in Names : Restart(name)
           \/ UNCHANGED graphVars
BY Zenon DEF GraphNext

\* One or two new ids.
LEMMA AddedIds ==
    ASSUME NEW n \in Nat
    PROVE  Cardinality({n}) = 1 /\ Cardinality({n, n + 1}) = 2
<1>1. IsFiniteSet({}) /\ Cardinality({}) = 0
  BY FS_EmptySet
<1>2. IsFiniteSet({n}) /\ Cardinality({n}) = 1
  BY FS_Singleton
<1>3. {n, n + 1} = {n} \cup {n + 1} /\ n + 1 \notin {n}
  OBVIOUS
<1>4. Cardinality({n} \cup {n + 1}) = Cardinality({n}) + 1
  BY <1>2, <1>3, FS_AddElement
<1> QED
  BY <1>2, <1>3, <1>4

\* Deliveries keep pending entries pending entries.
LEMMA ClaimedType ==
    ASSUME GraphAssumption, NEW P \in SUBSET PendingEntry, me \in Names
    PROVE  /\ Claimed(P) \subseteq PendingEntry
           /\ Claimed(Surviving(P)) \subseteq PendingEntry
           /\ {EntryOf(p) : p \in Claimed(Surviving(P))} \subseteq Entry
<1>1. ASSUME NEW Q \in SUBSET PendingEntry
      PROVE  Claimed(Q) \subseteq PendingEntry
  <2>1. ASSUME NEW p \in PendingEntry, NEW t \in Nat
        PROVE  [p EXCEPT !.owner = me, !.times = t, !.idle = FALSE] \in PendingEntry
    BY DEF PendingEntry
  <2>2. \A p \in PendingEntry : (IF p.times < IsolateAfter THEN p.times + 1 ELSE p.times) \in Nat
    BY DEF PendingEntry, GraphAssumption
  <2>3. ASSUME NEW q \in Claimed(Q)
        PROVE  q \in PendingEntry
    <3>1. PICK p \in Q : q = [p EXCEPT !.owner = me,
                                      !.times = IF p.times < IsolateAfter THEN p.times + 1 ELSE p.times,
                                      !.idle = FALSE]
      BY <2>3 DEF Claimed
    <3> QED
      BY <3>1, <2>1, <2>2
  <2> QED
    BY <2>3
<1>2. Surviving(P) \in SUBSET PendingEntry
  BY DEF Surviving
<1>3. \A p \in PendingEntry : EntryOf(p) \in Entry
  BY DEF PendingEntry, EntryOf, Entry
<1> QED
  BY <1>1, <1>2, <1>3

\* Entries are of messages.
LEMMA MessagesOfEntries == \A S \in SUBSET Entry : MessagesOf(S) \subseteq Messages
BY DEF MessagesOf, Entry

\* The oldest of a set are some of it.
LEMMA OldestSubset == \A n, S : Oldest(n, S) \subseteq S
BY DEF Oldest

-----------------------------------------------------------------------------
(* Type correctness *)

\* The initial state has every variable in its type.
LEMMA GraphInitType == GraphInit => GraphTypeOK
<1> SUFFICES ASSUME GraphInit
             PROVE  GraphTypeOK
  OBVIOUS
<1>1. kind \in [Messages -> Kinds] /\ me \in Names
  BY GraphAssumption DEF GraphAssumption, GraphInit
<1>2. /\ place \in [Messages -> Nat] /\ total \in [Messages -> Nat]
      /\ charged \in [Messages -> Nat] /\ readTotal \in [Messages -> Nat]
      /\ spawned \in [Sessions -> Nat]
      /\ status \in [Sessions -> {"open", "finished", "deleted"}]
      /\ copied \in [Sessions -> SUBSET Messages]
  BY DEF GraphInit
<1>3. renamed \in BOOLEAN /\ periodic \in BOOLEAN
  BY DEF GraphInit
<1> QED
  BY <1>1, <1>2, <1>3 DEF GraphInit, GraphTypeOK

\* What _handle makes of a delivery.
LEMMA HandleType ==
    ASSUME GraphTypeOK, NEW S \in SUBSET Entry, NEW isolate \in BOOLEAN,
           NEW resume \in {"takingOver", "owning", "checking"},
           Handle(S, isolate, resume)
    PROVE  /\ me' \in Names /\ renamed' \in BOOLEAN
           /\ pc' \in {"next", "inserting"}
           /\ back' \in {"takingOver", "owning", "checking"}
           /\ periodic' \in BOOLEAN
           /\ mode' \in {"whole", "alone", "isolating"}
           /\ claimed' \subseteq Entry /\ todo' \cup work' \subseteq claimed'
           /\ streak' \in Nat
BY DEF GraphTypeOK, Handle, WellFormed, Unrepeated

\* What a failure leaves.
LEMMA RaiseType ==
    ASSUME GraphTypeOK, Raise
    PROVE  /\ me' \in Names /\ renamed' \in BOOLEAN
           /\ pc' = "asleep"
           /\ back' \in {"takingOver", "owning", "checking"}
           /\ periodic' \in BOOLEAN
           /\ mode' \in {"whole", "alone", "isolating"}
           /\ claimed' \subseteq Entry /\ todo' \cup work' \subseteq claimed'
           /\ streak' \in Nat
<1>1. me' \in Names /\ pc' = "asleep"
  BY DEF GraphTypeOK, Raise
<1>2. renamed' \in BOOLEAN /\ periodic' \in BOOLEAN
  BY DEF GraphTypeOK, Raise
<1>3. streak' \in Nat
  BY DEF GraphTypeOK, Raise
<1> QED
  BY <1>1, <1>2, <1>3 DEF GraphTypeOK, Raise, NoBatch

\* What a message given up leaves.
LEMMA GiveUpType ==
    ASSUME GraphTypeOK, GiveUp
    PROVE  /\ dropped' \subseteq Messages
           /\ todo' \cup work' \subseteq claimed'
           /\ pc' = "next"
           /\ UNCHANGED <<me, renamed, back, periodic, mode, claimed, streak>>
<1>1. MessagesOf(work) \subseteq Messages
  BY DEF GraphTypeOK, MessagesOf, Entry
<1> QED
  BY <1>1 DEF GraphTypeOK, GiveUp, NextStep

\* What a failed statement leaves.
LEMMA StatementFailsType ==
    ASSUME GraphTypeOK, GiveUp \/ (Raise /\ UNCHANGED dropped)
    PROVE  /\ me' \in Names /\ renamed' \in BOOLEAN
           /\ pc' \in {"asleep", "next"}
           /\ back' \in {"takingOver", "owning", "checking"}
           /\ periodic' \in BOOLEAN
           /\ mode' \in {"whole", "alone", "isolating"}
           /\ claimed' \subseteq Entry /\ todo' \cup work' \subseteq claimed'
           /\ streak' \in Nat
           /\ dropped' \subseteq Messages
<1>1. CASE GiveUp
  BY <1>1, GiveUpType DEF GraphTypeOK
<1>2. CASE Raise /\ UNCHANGED dropped
  BY <1>2, RaiseType DEF GraphTypeOK
<1> QED
  BY <1>1, <1>2

\* Every step keeps every variable in its type.
LEMMA GraphStepType == GraphTypeOK /\ [GraphNext]_graphVars => GraphTypeOK'
<1> SUFFICES ASSUME GraphTypeOK, [GraphNext]_graphVars
             PROVE  GraphTypeOK'
  OBVIOUS
<1> USE GraphAssumption DEF GraphAssumption
<1>1. ASSUME NEW m \in Messages, NEW twice \in BOOLEAN, Send(m, twice)
      PROVE  GraphTypeOK'
  <2> DEFINE added == IF twice THEN {lastId + 1, lastId + 2} ELSE {lastId + 1}
  <2>1. Cardinality(added) \in {1, 2} /\ added \subseteq Nat \ {0}
    <3>1. lastId \in Nat /\ lastId + 1 \in Nat /\ lastId + 1 + 1 = lastId + 2
      BY DEF GraphTypeOK
    <3>2. Cardinality({lastId + 1}) = 1 /\ Cardinality({lastId + 1, lastId + 2}) = 2
      BY <3>1, AddedIds
    <3> QED
      BY <3>1, <3>2
  <2>2. lastId' = lastId + Cardinality(added) /\ sent' = sent \cup {m}
    BY <1>1 DEF Send
  <2>3. stream' \subseteq stream \cup [id : added, msg : {m}]
    BY <1>1 DEF Send
  <2>4. [id : added, msg : {m}] \subseteq Entry
    BY <2>1 DEF Entry
  <2>5. failures' \in Nat
    BY <1>1 DEF Send, Failure, GraphTypeOK
  <2> HIDE DEF added
  <2> QED
    <3>1. /\ UNCHANGED <<kind, groupVars, processVars, rowVars, hashVars, handlerVars, ghostVars>>
      BY <1>1 DEF Send
    <3>2. lastId' \in Nat /\ sent' \subseteq Messages /\ stream' \subseteq Entry
      BY <2>1, <2>2, <2>3, <2>4 DEF GraphTypeOK
    <3> QED
      BY <2>5, <3>1, <3>2
      DEF GraphTypeOK, groupVars, processVars, batchVars, rowVars, hashVars, handlerVars, ghostVars
<1>2. ASSUME NEW s \in Sessions, StatusRead(s)
      PROVE  GraphTypeOK'
  BY <1>2 DEF StatusRead, GraphTypeOK, Busy, streamVars, groupVars, processVars, batchVars, rowVars, hashVars, ghostVars
<1>3. ASSUME NEW s \in Sessions, NEW st \in {"open", "finished"}, StatusWrite(s, st)
      PROVE  GraphTypeOK'
  BY <1>3 DEF StatusWrite, GraphTypeOK, Busy, streamVars, groupVars, processVars, batchVars, hashVars, ghostVars
<1>4. ASSUME NEW s \in Sessions, DeleteSession(s)
      PROVE  GraphTypeOK'
  BY <1>4 DEF DeleteSession, Failure, GraphTypeOK, Busy, streamVars, groupVars, processVars, batchVars, hashVars, handlerVars, ghostVars
<1>5. CASE Consumer
  <2> USE DEF streamVars, groupVars, processVars, batchVars, rowVars, hashVars, handlerVars, ghostVars
  <2>1. CASE Join
    BY <2>1 DEF Join, GraphTypeOK, Busy
  <2>2. CASE TakeOver
    <3> DEFINE batch == Oldest(BatchSize, Idle)
               kept == Claimed(Surviving(batch))
               S == {EntryOf(p) : p \in kept}
    <3>1. batch \in SUBSET PendingEntry
      BY OldestSubset DEF Idle, GraphTypeOK
    <3>2. kept \subseteq PendingEntry /\ S \in SUBSET Entry
      BY <3>1, ClaimedType DEF GraphTypeOK
    <3>3. pending' \subseteq PendingEntry
      BY <2>2, <3>2 DEF TakeOver, GraphTypeOK
    <3>4. \/ Goto("takingOver") /\ UNCHANGED failures
          \/ Handle(S, FALSE, "takingOver") /\ UNCHANGED failures
          \/ Raise /\ Failure
      BY <2>2 DEF TakeOver, ThenOrLost
    <3>5. UNCHANGED <<kind, streamVars, lastDelivered, rowVars, hashVars, handlerVars, ghostVars>>
      BY <2>2 DEF TakeOver
    <3> HIDE DEF batch, kept, S
    <3>6. CASE Goto("takingOver") /\ UNCHANGED failures
      BY <3>3, <3>5, <3>6 DEF Goto, GraphTypeOK, Busy
    <3>7. CASE Handle(S, FALSE, "takingOver") /\ UNCHANGED failures
      BY <3>2, <3>3, <3>5, <3>7, HandleType DEF GraphTypeOK, Busy
    <3>8. CASE Raise /\ Failure
      BY <3>3, <3>5, <3>8, RaiseType DEF Failure, GraphTypeOK, Busy
    <3> QED
      BY <3>4, <3>6, <3>7, <3>8
  <2>3. CASE NothingToTakeOver
    BY <2>3 DEF NothingToTakeOver, Goto, GraphTypeOK, Busy
  <2>4. CASE ReviewConsumers
    <3>1. pending' \subseteq PendingEntry
      BY <2>4 DEF ReviewConsumers, GraphTypeOK
    <3>2. UNCHANGED <<kind, streamVars, lastDelivered, rowVars, hashVars, handlerVars, ghostVars>>
      BY <2>4 DEF ReviewConsumers
    <3>3. CASE /\ pc' \in {"reading", "owning"} /\ periodic' = FALSE
               /\ UNCHANGED <<me, renamed, back, batchVars, streak, failures>>
      BY <3>1, <3>2, <3>3 DEF GraphTypeOK
    <3>4. CASE Raise /\ Failure
      BY <3>1, <3>2, <3>4, RaiseType DEF Failure, GraphTypeOK
    <3> QED
      BY <2>4, <3>3, <3>4 DEF ReviewConsumers, ThenOrLost
  <2>5. CASE ClaimOwn
    <3> DEFINE batch == Oldest(BatchSize, Own)
               kept == Claimed(Surviving(batch))
               often == \E p \in batch : p.times >= IsolateAfter
               S == {EntryOf(p) : p \in kept}
    <3>1. batch \in SUBSET PendingEntry
      BY OldestSubset DEF Own, GraphTypeOK
    <3>2. kept \subseteq PendingEntry /\ S \in SUBSET Entry
      BY <3>1, ClaimedType DEF GraphTypeOK
    <3>3. pending' \subseteq PendingEntry
      BY <2>5, <3>2 DEF ClaimOwn, GraphTypeOK
    <3>4. \/ Goto("owning") /\ UNCHANGED failures
          \/ Handle(S, often, "owning") /\ UNCHANGED failures
          \/ Raise /\ Failure
      BY <2>5 DEF ClaimOwn, ThenOrLost
    <3>5. UNCHANGED <<kind, streamVars, lastDelivered, rowVars, hashVars, handlerVars, ghostVars>>
      BY <2>5 DEF ClaimOwn
    <3>o. often \in BOOLEAN
      OBVIOUS
    <3> HIDE DEF batch, kept, S, often
    <3>6. CASE Goto("owning") /\ UNCHANGED failures
      BY <3>3, <3>5, <3>6 DEF Goto, GraphTypeOK, Busy
    <3>7. CASE Handle(S, often, "owning") /\ UNCHANGED failures
      <4>1. "owning" \in {"takingOver", "owning", "checking"}
        OBVIOUS
      <4>2. /\ me' \in Names /\ renamed' \in BOOLEAN
            /\ pc' \in {"next", "inserting"}
            /\ back' \in {"takingOver", "owning", "checking"}
            /\ periodic' \in BOOLEAN
            /\ mode' \in {"whole", "alone", "isolating"}
            /\ claimed' \subseteq Entry /\ todo' \cup work' \subseteq claimed'
            /\ streak' \in Nat
        BY <3>2, <3>7, <3>o, <4>1, HandleType
      <4> QED
        BY <3>3, <3>5, <3>7, <4>2 DEF GraphTypeOK, Busy
    <3>8. CASE Raise /\ Failure
      BY <3>3, <3>5, <3>8, RaiseType DEF Failure, GraphTypeOK, Busy
    <3> QED
      BY <3>4, <3>6, <3>7, <3>8
  <2>6. CASE Started
    BY <2>6 DEF Started, GraphTypeOK, Busy
  <2>7. CASE ReadNew
    <3> DEFINE batch == Oldest(BatchSize, Unread)
    <3>1. batch \in SUBSET Entry
      BY OldestSubset DEF Unread, GraphTypeOK
    <3>2. lastDelivered' \in Nat
      BY <2>7, <3>1 DEF ReadNew, Entry
    <3>3. pending' \subseteq PendingEntry
      <4>1. \A e \in Entry : [id |-> e.id, msg |-> e.msg, owner |-> me, times |-> 1, idle |-> FALSE]
                              \in PendingEntry
        BY DEF GraphTypeOK, Entry, PendingEntry
      <4> QED
        BY <2>7, <3>1, <4>1 DEF ReadNew, GraphTypeOK
    <3>4. \/ Handle(batch, FALSE, "checking") /\ UNCHANGED failures
          \/ Raise /\ Failure
      BY <2>7 DEF ReadNew, ThenOrLost
    <3>5. UNCHANGED <<kind, streamVars, rowVars, hashVars, handlerVars, ghostVars>>
      BY <2>7 DEF ReadNew
    <3> HIDE DEF batch
    <3>6. CASE Handle(batch, FALSE, "checking") /\ UNCHANGED failures
      BY <3>1, <3>2, <3>3, <3>5, <3>6, HandleType DEF GraphTypeOK, Busy
    <3>7. CASE Raise /\ Failure
      BY <3>2, <3>3, <3>5, <3>7, RaiseType DEF Failure, GraphTypeOK, Busy
    <3> QED
      BY <3>4, <3>6, <3>7
  <2>8. CASE NothingToRead
    BY <2>8 DEF NothingToRead, Goto, GraphTypeOK, Busy
  <2>9. CASE CheckNotDue
    BY <2>9 DEF CheckNotDue, GraphTypeOK, Busy
  <2>10. CASE CheckDue
    BY <2>10 DEF CheckDue, GraphTypeOK, Busy
  <2>11. CASE StartOver
    <3>1. \A p \in PendingEntry : [p EXCEPT !.idle = TRUE] \in PendingEntry
      BY DEF PendingEntry
    <3>2. pending' \subseteq PendingEntry
      BY <2>11, <3>1 DEF StartOver, GraphTypeOK
    <3> QED
      BY <2>11, <3>2 DEF StartOver, GraphTypeOK
  <2>12. CASE StoreNext
    BY <2>12, OldestSubset DEF StoreNext, Goto, GraphTypeOK, Busy
  <2>13. CASE Insert
    <3>1. work' \subseteq work
      BY <2>13 DEF Insert, Accepted
    <3>2. place' \in [Messages -> Nat]
      <4>1. ASSUME NEW m \in Messages, m \in MessagesOf(work')
            PROVE  (CHOOSE e \in work' : e.msg = m).id \in Nat
        <5>1. \E e \in work' : e.msg = m
          BY <4>1 DEF MessagesOf
        <5>2. (CHOOSE e \in work' : e.msg = m) \in work'
          BY <5>1
        <5> QED
          BY <5>2, <3>1 DEF GraphTypeOK, Entry
      <4> QED
        BY <2>13, <4>1 DEF Insert, GraphTypeOK
    <3> QED
      BY <2>13, <3>1, <3>2 DEF Insert, NextStep, GraphTypeOK, Busy
  <2>14. CASE Count
    <3>1. charged' \in [Messages -> Nat] /\ counted' \subseteq Messages
      <4>1. Uncounted \subseteq Messages
        BY DEF Uncounted, Metered
      <4>2. \A m \in Messages : charged[m] \in Nat /\ charged[m] + 1 \in Nat
        BY DEF GraphTypeOK
      <4> QED
        BY <2>14, <4>1, <4>2 DEF Count, GraphTypeOK
    <3> QED
      BY <2>14, <3>1, RaiseType DEF Count, ThenOrLost, NextStep, Failure, GraphTypeOK, Busy
  <2>15. CASE StoreTotals
    BY <2>15 DEF StoreTotals, NextStep, GraphTypeOK, Busy
  <2>16. CASE MakeSubgraphs
    BY <2>16 DEF MakeSubgraphs, Inner, OfSession, NextStep, GraphTypeOK, Busy
  <2>17. CASE Announce
    <3>1. told' \subseteq Messages
      BY <2>17, MessagesOfEntries DEF Announce, GraphTypeOK
    <3> QED
      BY <2>17, <3>1, RaiseType DEF Announce, ThenOrLost, NextStep, Failure, GraphTypeOK, Busy
  <2>18. CASE Acknowledge
    <3>1. acked' \subseteq Messages
      BY <2>18, MessagesOfEntries DEF Acknowledge, GraphTypeOK
    <3>2. pending' \subseteq PendingEntry /\ stream' \subseteq Entry
      BY <2>18 DEF Acknowledge, GraphTypeOK
    <3>3. UNCHANGED <<kind, sent, lastId, lastDelivered, rowVars, hashVars, handlerVars, told, dropped>>
      BY <2>18 DEF Acknowledge
    <3>4. CASE /\ pc' = back /\ NoBatch
               /\ UNCHANGED <<me, renamed, periodic, streak, failures>>
      BY <3>1, <3>2, <3>3, <3>4 DEF NoBatch, GraphTypeOK
    <3>5. CASE Raise /\ Failure
      BY <3>1, <3>2, <3>3, <3>5, RaiseType DEF Failure, GraphTypeOK
    <3> QED
      BY <2>18, <3>4, <3>5 DEF Acknowledge, ThenOrLost
  <2>19. CASE CountRaises
    <3>1. CASE mode = "whole"
      BY <2>19, <3>1 DEF CountRaises, WellFormed, GraphTypeOK, Busy
    <3>2. CASE mode # "whole"
      BY <2>19, <3>2, GiveUpType DEF CountRaises, GraphTypeOK, Busy
    <3> QED
      BY <3>1, <3>2
  <2>20. CASE PoisonFails
    BY <2>20, StatementFailsType DEF PoisonFails, StatementFails, GraphTypeOK, Busy
  <2> QED
    BY <1>5, <2>1, <2>2, <2>3, <2>4, <2>5, <2>6, <2>7, <2>8, <2>9, <2>10, <2>11, <2>12, <2>13, <2>14,
       <2>15, <2>16, <2>17, <2>18, <2>19, <2>20 DEF Consumer
<1>6. CASE SubgraphsGivenUp
  <2>1. dropped' \subseteq Messages
    BY <1>6, MessagesOfEntries DEF SubgraphsGivenUp, GraphTypeOK
  <2> QED
    BY <1>6, <2>1 DEF SubgraphsGivenUp, Failure, NextStep, GraphTypeOK, Busy, streamVars, groupVars, rowVars, hashVars, handlerVars
<1>7. CASE RedisFails
  BY <1>7, RaiseType DEF RedisFails, Failure, GraphTypeOK, Busy, streamVars, groupVars, rowVars, hashVars, handlerVars, ghostVars
<1>8. CASE DatabaseFails
  BY <1>8, StatementFailsType
  DEF DatabaseFails, StatementFails, Failure, GraphTypeOK, Busy, streamVars, groupVars, rowVars, hashVars, handlerVars
<1>9. CASE GoIdle
  <2>1. \A p \in PendingEntry : [p EXCEPT !.idle = TRUE] \in PendingEntry
    BY DEF PendingEntry
  <2>2. pending' \subseteq PendingEntry
    BY <1>9, <2>1 DEF GoIdle, GraphTypeOK
  <2> QED
    BY <1>9, <2>2 DEF GoIdle, GraphTypeOK, Busy, streamVars, processVars, batchVars, rowVars, hashVars, handlerVars, ghostVars
<1>10. ASSUME NEW name \in Names, Restart(name)
       PROVE  GraphTypeOK'
  <2>1. renamed' \in BOOLEAN /\ periodic' \in BOOLEAN /\ me' \in Names
    BY <1>10 DEF Restart, GraphTypeOK
  <2> QED
    BY <1>10, <2>1 DEF Restart, Failure, NoBatch, GraphTypeOK, streamVars, groupVars, rowVars, hashVars, handlerVars, ghostVars
<1>11. CASE UNCHANGED graphVars
  BY <1>11 DEF graphVars, GraphTypeOK, Busy, streamVars, groupVars, processVars, batchVars, rowVars, hashVars, handlerVars, ghostVars
<1> QED
  BY GraphActions, <1>1, <1>2, <1>3, <1>4, <1>5, <1>6, <1>7, <1>8, <1>9, <1>10, <1>11

\* The variables of the stream, of its consumer and of the rows keep their types
\* in every behaviour.
THEOREM GraphTypeCorrect == GraphSpec => []GraphTypeOK
BY GraphInitType, GraphStepType, PTL DEF GraphSpec

-----------------------------------------------------------------------------
(* What is counted and told was stored: the log's steps *)

\* The status handler holds no row of a deleted session.
HeldExists == handling \in Sessions => status[handling] # "deleted"

\* What the consumer is handling after its insert is stored.
WorkIsKept ==
    pc \in {"counting", "totalling", "subgraphing", "announcing"} => MessagesOf(work) \subseteq Kept

\* ... and after its count, counted.
WorkIsCounted ==
    pc \in {"totalling", "subgraphing", "announcing"} => MessagesOf(work) \cap Metered \subseteq counted

LogInv == GraphTypeOK /\ CountedOnce /\ HeldExists /\ WorkIsKept /\ WorkIsCounted

\* A step that touches no row, no hash and no live view.
Quiet == UNCHANGED <<kind, place, status, charged, counted, told, handling>>

\* The consumer's other steps keep what it is handling, or have nothing in hand
\* that counts as inserted.
Idles ==
    \/ pc' \notin {"counting", "totalling", "subgraphing", "announcing"}
    \/ UNCHANGED <<pc, work>>

\* Of the consumer's steps, those of persist_batch move it on; the rest are quiet.
LEMMA QuietSteps ==
    ASSUME GraphTypeOK,
           \/ Join \/ TakeOver \/ NothingToTakeOver \/ ReviewConsumers \/ ClaimOwn \/ Started
           \/ ReadNew \/ NothingToRead \/ CheckNotDue \/ CheckDue \/ StartOver
           \/ StoreNext \/ Acknowledge \/ CountRaises \/ PoisonFails \/ RedisFails \/ DatabaseFails
           \/ GoIdle \/ (\E name \in Names : Restart(name))
           \/ (\E m \in Messages, twice \in BOOLEAN : Send(m, twice)) \/ UNCHANGED graphVars
    PROVE  Quiet /\ Idles
<1> USE DEF Quiet, Idles, rowVars, hashVars, handlerVars, ghostVars
<1>r. Raise => pc' = "asleep"
  BY DEF Raise
<1>h. \A S, resume : \A isolate \in BOOLEAN : Handle(S, isolate, resume) => pc' \in {"next", "inserting"}
  BY DEF Handle
<1>1. CASE Join \/ NothingToTakeOver \/ Started \/ NothingToRead \/ CheckNotDue \/ CheckDue \/ StartOver
  BY <1>1 DEF Join, NothingToTakeOver, Started, NothingToRead, CheckNotDue, CheckDue, StartOver, Goto
<1>2. CASE TakeOver
  BY <1>2, <1>r, <1>h DEF TakeOver, ThenOrLost, Goto
<1>3. CASE ReviewConsumers
  BY <1>3, <1>r DEF ReviewConsumers, ThenOrLost
<1>4. CASE ClaimOwn
  <2> DEFINE kept == Claimed(Surviving(Oldest(BatchSize, Own)))
             often == \E p \in Oldest(BatchSize, Own) : p.times >= IsolateAfter
  <2>1. \/ Goto("owning") \/ Handle({EntryOf(p) : p \in kept}, often, "owning") \/ Raise
    BY <1>4 DEF ClaimOwn, ThenOrLost
  <2>2. often \in BOOLEAN
    OBVIOUS
  <2>3. pc' \in {"owning", "next", "inserting", "asleep"}
    <3> HIDE DEF kept, often
    <3> QED
      BY <2>1, <2>2, <1>r, <1>h DEF Goto
  <2> QED
    BY <1>4, <2>3 DEF ClaimOwn
<1>5. CASE ReadNew
  BY <1>5, <1>r, <1>h DEF ReadNew, ThenOrLost
<1>6. CASE StoreNext
  BY <1>6 DEF StoreNext, Goto
<1>7. CASE Acknowledge
  BY <1>7, <1>r DEF Acknowledge, ThenOrLost, GraphTypeOK
<1>8. CASE CountRaises
  BY <1>8 DEF CountRaises, GiveUp, NextStep
<1>9. CASE PoisonFails
  BY <1>9, <1>r DEF PoisonFails, StatementFails, GiveUp, NextStep
<1>10. CASE RedisFails
  BY <1>10, <1>r DEF RedisFails
<1>11. CASE DatabaseFails
  BY <1>11, <1>r DEF DatabaseFails, StatementFails, GiveUp, NextStep
<1>12. CASE GoIdle
  BY <1>12 DEF GoIdle, processVars, batchVars
<1>13. CASE \E name \in Names : Restart(name)
  BY <1>13 DEF Restart
<1>14. CASE \E m \in Messages, twice \in BOOLEAN : Send(m, twice)
  BY <1>14 DEF Send, processVars, batchVars
<1>15. CASE UNCHANGED graphVars
  BY <1>15 DEF graphVars, processVars, batchVars
<1> QED
  BY <1>1, <1>2, <1>3, <1>4, <1>5, <1>6, <1>7, <1>8, <1>9, <1>10, <1>11, <1>12, <1>13, <1>14, <1>15

\* A quiet step keeps the invariant.
LEMMA QuietKeeps ==
    ASSUME LogInv, GraphTypeOK', Quiet, Idles
    PROVE  LogInv'
<1>1. Kept' = Kept /\ Metered' = Metered
  BY DEF Quiet, Kept, Metered
<1>2. CountedOnce' /\ HeldExists'
  BY DEF LogInv, CountedOnce, HeldExists, Quiet
<1>3. WorkIsKept' /\ WorkIsCounted'
  BY <1>1 DEF LogInv, WorkIsKept, WorkIsCounted, Idles, Quiet, MessagesOf
<1> QED
  BY <1>2, <1>3 DEF LogInv

\* A step of the rows keeps what was stored.
LEMMA RowSteps ==
    ASSUME LogInv,
           \/ \E s \in Sessions : StatusRead(s) \/ DeleteSession(s)
           \/ \E s \in Sessions, st \in {"open", "finished"} : StatusWrite(s, st)
    PROVE  /\ Kept \subseteq Kept'
           /\ HeldExists'
           /\ UNCHANGED <<kind, charged, counted, told, pc, work>>
<1> USE GraphAssumption DEF GraphAssumption, processVars, batchVars, hashVars, ghostVars, rowVars
<1>1. ASSUME NEW s \in Sessions, StatusRead(s)
      PROVE  /\ Kept \subseteq Kept' /\ HeldExists'
             /\ UNCHANGED <<kind, charged, counted, told, pc, work>>
  BY <1>1 DEF StatusRead, Kept, HeldExists
<1>2. ASSUME NEW s \in Sessions, DeleteSession(s)
      PROVE  /\ Kept \subseteq Kept' /\ HeldExists'
             /\ UNCHANGED <<kind, charged, counted, told, pc, work>>
  BY <1>2 DEF DeleteSession, Kept, HeldExists, LogInv, GraphTypeOK, handlerVars
<1>3. ASSUME NEW s \in Sessions, NEW st \in {"open", "finished"}, StatusWrite(s, st)
      PROVE  /\ Kept \subseteq Kept' /\ HeldExists'
             /\ UNCHANGED <<kind, charged, counted, told, pc, work>>
  <2>1. status[s] # "deleted"
    BY <1>3 DEF StatusWrite, LogInv, HeldExists
  <2>2. Kept \subseteq Kept'
    BY <1>3, <2>1 DEF StatusWrite, Kept, LogInv, GraphTypeOK
  <2> QED
    BY <1>3, <2>2 DEF StatusWrite, HeldExists
<1> QED
  BY <1>1, <1>2, <1>3

\* So do the steps of persist_batch, each of which leaves its batch fit for the next.
LEMMA StoringSteps ==
    ASSUME LogInv, Insert \/ Count \/ StoreTotals \/ MakeSubgraphs \/ SubgraphsGivenUp \/ Announce
    PROVE  /\ Kept \subseteq Kept'
           /\ UNCHANGED <<kind, status, handling>>
           /\ CountedOnce' /\ WorkIsKept' /\ WorkIsCounted'
           /\ \/ UNCHANGED <<charged, counted, told>>
              \/ /\ Uncounted \subseteq Kept \cap Metered /\ counted' = counted \cup Uncounted
                 /\ UNCHANGED <<place, told>>
              \/ /\ MessagesOf(work) \subseteq Kept /\ MessagesOf(work) \cap Metered \subseteq counted
                 /\ told' = told \cup MessagesOf(work)
                 /\ UNCHANGED <<place, charged, counted>>
<1> USE DEF rowVars, hashVars, handlerVars, ghostVars
<1>r. Raise => pc' = "asleep"
  BY DEF Raise
<1>1. CASE Insert
  <2>1. \A m \in Messages : m \in MessagesOf(work') => place'[m] # 0
    <3>1. ASSUME NEW m \in Messages, m \in MessagesOf(work')
          PROVE  (CHOOSE e \in work' : e.msg = m).id # 0
      <4>1. \E e \in work' : e.msg = m
        BY <3>1 DEF MessagesOf
      <4>2. (CHOOSE e \in work' : e.msg = m) \in work'
        BY <4>1
      <4>3. work' \subseteq Entry
        BY <1>1 DEF Insert, Accepted, LogInv, GraphTypeOK
      <4> QED
        BY <4>2, <4>3 DEF Entry
    <3> QED
      BY <1>1, <3>1 DEF Insert
  <2>2. MessagesOf(work') \subseteq Messages
    BY <1>1, MessagesOfEntries DEF Insert, Accepted, LogInv, GraphTypeOK
  <2>3. Kept \subseteq Kept'
    BY <1>1 DEF Insert, Kept, LogInv, GraphTypeOK
  <2>4. UNCHANGED <<kind, status, handling, charged, counted, told>> /\ pc' = "counting"
    BY <1>1 DEF Insert, NextStep
  <2>5. MessagesOf(work)' \subseteq Kept'
    BY <2>1, <2>2 DEF Kept, MessagesOf
  <2>6. CountedOnce'
    BY <2>4 DEF LogInv, CountedOnce
  <2> QED
    BY <2>3, <2>4, <2>5, <2>6 DEF WorkIsKept, WorkIsCounted
<1>2. CASE Count
  <2>1. UNCHANGED <<kind, place, status, handling, told>>
    BY <1>2 DEF Count
  <2>2. Kept' = Kept /\ Metered' = Metered
    BY <2>1 DEF Kept, Metered
  <2>3. pc = "counting" /\ MessagesOf(work) \subseteq Kept
    BY <1>2 DEF Count, LogInv, WorkIsKept
  <2>4. counted' = counted \cup Uncounted /\ Uncounted \cap counted = {} /\ Uncounted \subseteq Kept \cap Metered
    BY <1>2, <2>3 DEF Count, Uncounted
  <2>5. CountedOnce'
    <3>1. \A m \in Messages : charged'[m] = IF m \in Uncounted THEN charged[m] + 1 ELSE charged[m]
      BY <1>2 DEF Count
    <3> QED
      BY <2>4, <3>1 DEF LogInv, CountedOnce
  <2>6. \/ pc' = "totalling" /\ UNCHANGED work
        \/ pc' = "asleep"
    BY <1>2, <1>r DEF Count, ThenOrLost, NextStep
  <2>7. MessagesOf(work) \cap Metered \subseteq counted'
    BY <2>4 DEF Uncounted
  <2>8. WorkIsKept' /\ WorkIsCounted'
    BY <2>2, <2>3, <2>6, <2>7 DEF WorkIsKept, WorkIsCounted, MessagesOf
  <2> QED
    BY <2>1, <2>2, <2>4, <2>5, <2>8
<1>3. CASE StoreTotals \/ MakeSubgraphs \/ SubgraphsGivenUp
  <2>1. /\ UNCHANGED <<kind, place, status, handling, charged, counted, told, work>>
        /\ pc \in {"totalling", "subgraphing"} /\ pc' \in {"subgraphing", "announcing"}
    BY <1>3 DEF StoreTotals, MakeSubgraphs, SubgraphsGivenUp, NextStep
  <2> QED
    BY <2>1 DEF LogInv, CountedOnce, WorkIsKept, WorkIsCounted, Kept, Metered, MessagesOf
<1>4. CASE Announce
  <2>1. /\ UNCHANGED <<kind, place, status, handling, charged, counted>>
        /\ pc = "announcing" /\ told' = told \cup MessagesOf(work)
        /\ pc' \in {"acking", "next", "asleep"}
    BY <1>4, <1>r DEF Announce, ThenOrLost, NextStep
  <2> QED
    BY <2>1 DEF LogInv, CountedOnce, WorkIsKept, WorkIsCounted, Kept
<1> QED
  BY <1>1, <1>2, <1>3, <1>4

\* The invariant holds at first.
LEMMA LogInvInit == GraphInit => LogInv
<1> SUFFICES ASSUME GraphInit
             PROVE  LogInv
  OBVIOUS
<1>1. GraphTypeOK
  BY GraphInitType
<1>2. HeldExists
  BY GraphAssumption DEF GraphAssumption, GraphInit, HeldExists
<1>3. CountedOnce /\ WorkIsKept /\ WorkIsCounted
  BY DEF GraphInit, CountedOnce, WorkIsKept, WorkIsCounted
<1> QED
  BY <1>1, <1>2, <1>3 DEF LogInv

\* Every step keeps it, and is a step of the log or none.
LEMMA LogInvStep == LogInv /\ [GraphNext]_graphVars => LogInv' /\ [Log!Next]_(Log!logVars)
<1> SUFFICES ASSUME LogInv, [GraphNext]_graphVars
             PROVE  LogInv' /\ [Log!Next]_(Log!logVars)
  OBVIOUS
<1>t. GraphTypeOK /\ GraphTypeOK'
  BY GraphStepType DEF LogInv
<1>k. ASSUME Kept \subseteq Kept', UNCHANGED <<kind, counted, told>>
      PROVE  [Log!Next]_(Log!logVars)
  <2>1. Kept' \in SUBSET Messages /\ Kept' = Kept \cup Kept' /\ Metered' = Metered
    BY <1>k DEF Kept, Metered
  <2>2. Log!Keep(Kept')
    BY <1>k, <2>1 DEF Log!Keep
  <2> QED
    BY <2>1, <2>2 DEF Log!Next
<1>1. CASE Quiet /\ Idles
  <2>1. LogInv'
    BY <1>1, <1>t, QuietKeeps
  <2>2. Kept' = Kept /\ UNCHANGED <<kind, counted, told>>
    BY <1>1 DEF Quiet, Kept
  <2> QED
    BY <1>k, <2>1, <2>2
<1>2. CASE \/ \E s \in Sessions : StatusRead(s) \/ DeleteSession(s)
           \/ \E s \in Sessions, st \in {"open", "finished"} : StatusWrite(s, st)
  <2>1. /\ Kept \subseteq Kept' /\ HeldExists'
        /\ UNCHANGED <<kind, charged, counted, told, pc, work>>
    BY <1>2, RowSteps
  <2>2. CountedOnce' /\ WorkIsKept' /\ WorkIsCounted'
    BY <2>1 DEF LogInv, CountedOnce, WorkIsKept, WorkIsCounted, MessagesOf, Metered
  <2> QED
    BY <1>k, <1>t, <2>1, <2>2 DEF LogInv
<1>3. CASE Insert \/ Count \/ StoreTotals \/ MakeSubgraphs \/ SubgraphsGivenUp \/ Announce
  <2>1. /\ Kept \subseteq Kept'
        /\ UNCHANGED <<kind, status, handling>>
        /\ CountedOnce' /\ WorkIsKept' /\ WorkIsCounted'
    BY <1>3, StoringSteps
  <2>2. LogInv'
    BY <1>t, <2>1 DEF LogInv, HeldExists
  <2>3. Metered' = Metered
    BY <2>1 DEF Metered
  <2>4. CASE UNCHANGED <<charged, counted, told>>
    BY <1>k, <2>1, <2>2, <2>4
  <2>5. CASE /\ Uncounted \subseteq Kept \cap Metered /\ counted' = counted \cup Uncounted
             /\ UNCHANGED <<place, told>>
    <3>1. Kept' = Kept /\ Uncounted \in SUBSET Messages
      BY <2>1, <2>5 DEF Kept
    <3>2. Log!Charge(Uncounted)
      BY <2>3, <2>5, <3>1 DEF Log!Charge
    <3> QED
      BY <2>2, <3>1, <3>2 DEF Log!Next
  <2>6. CASE /\ MessagesOf(work) \subseteq Kept /\ MessagesOf(work) \cap Metered \subseteq counted
             /\ told' = told \cup MessagesOf(work)
             /\ UNCHANGED <<place, charged, counted>>
    <3>1. Kept' = Kept /\ MessagesOf(work) \in SUBSET Messages
      BY <2>1, <2>6 DEF Kept
    <3>2. Log!Tell(MessagesOf(work))
      BY <2>3, <2>6, <3>1 DEF Log!Tell
    <3> QED
      BY <2>2, <3>1, <3>2 DEF Log!Next
  <2> QED
    BY <1>3, <2>4, <2>5, <2>6, StoringSteps
<1> QED
  BY <1>t, <1>1, <1>2, <1>3, GraphActions, QuietSteps DEF Consumer

\* A message's usage is in its session's hash exactly as often as its uuid is in
\* the set of counted ones: never twice, whatever is redelivered.
THEOREM CountedOnceAlways == GraphSpec => []CountedOnce
<1>1. LogInv => CountedOnce
  BY DEF LogInv
<1> QED
  BY <1>1, LogInvInit, LogInvStep, PTL DEF GraphSpec

\* The consumer, crew and the status handler together implement the log: what is
\* charged was stored, and what the live views hear was stored and charged.
THEOREM GraphImplementsLog == GraphSpec => ImplementsLog
<1>1. GraphInit => Log!Init
  <2> SUFFICES ASSUME GraphInit
               PROVE  Log!Init
    OBVIOUS
  <2>1. Kept = {}
    BY GraphAssumption DEF GraphAssumption, GraphInit, Kept
  <2> QED
    BY <2>1 DEF GraphInit, Log!Init, Metered
<1> QED
  BY <1>1, LogInvInit, LogInvStep, PTL DEF GraphSpec, ImplementsLog, Log!Spec
=============================================================================
