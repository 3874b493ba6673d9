------------------------- MODULE AgentResultsProofs -------------------------
(* Theorems about what crew reads of a run's result stream, for any requests, *)
(* replicas, slots and bounds.                                               *)
EXTENDS AgentTasksProofs

-----------------------------------------------------------------------------
(* The inductive invariant *)

\* Nothing of the run is published before crew waits.
Silent(r) ==
    waiter[r] \in {"idle", "stored"} => results[r] = <<>> /\ seen[r] = 0 /\ heard[r] = 0

\* What crew has read while it waits were live events, and it has forwarded them.
ReadSoFar(r) ==
    waiter[r] = "waiting" =>
        heard[r] = seen[r] /\ \A i \in 1..seen[r] : results[r][i] = "live"

\* The answer is the last of the stream: its run has only to be acknowledged.
AnswerIsLast(r) ==
    waiter[r] # "done" =>
        /\ \A i \in 1..Len(results[r]) : results[r][i] \in Answers => i = Len(results[r])
        /\ Answered(r) => pc[<<r, 1>>] \in {"acking", "over"}

\* The request is in the stream once.
OneEntry(r) == pc[<<r, 2>>] = "unread" /\ ~Queued(<<r, 2>>)

\* Crew leaves with the last of the stream, and has forwarded the others.
LeavesWithAll(r) ==
    outcome[r] \in Answers =>
        /\ waiter[r] = "leaving" /\ heard[r] + 1 = Len(results[r])
        /\ results[r][Len(results[r])] \in Answers

Heard(r) == Silent(r) /\ ReadSoFar(r) /\ AnswerIsLast(r) /\ OneEntry(r) /\ LeavesWithAll(r)

\* What holds of the result stream of a request that no failure hit.
HeardInv == \A r \in Requests \ harmed : Heard(r)

-----------------------------------------------------------------------------
(* What the steps have in common *)

\* A step that leaves a request's stream and its reader alone, and does not take its
\* run back.
LEMMA Untouched ==
    ASSUME AgentTypeOK, NEW q \in Requests, Heard(q),
           waiter'[q] = waiter[q] \/ waiter'[q] = "done", outcome'[q] \in {outcome[q], "none"},
           outcome'[q] \in Answers => waiter'[q] = waiter[q],
           waiter'[q] # "done" => seen'[q] = seen[q] /\ heard'[q] = heard[q],
           waiter'[q] # "done" => results'[q] = results[q],
           pc[<<q, 1>>] \in {"acking", "over"} => pc'[<<q, 1>>] \in {"acking", "over"},
           pc'[<<q, 2>>] = pc[<<q, 2>>], Queued(<<q, 2>>)' => Queued(<<q, 2>>)
    PROVE  Heard(q)'
<1>1. CASE waiter'[q] = "done"
  <2>1. outcome'[q] \notin Answers
    BY <1>1 DEF Heard, LeavesWithAll, Answers
  <2> QED
    BY <1>1, <2>1 DEF Heard, Silent, ReadSoFar, AnswerIsLast, OneEntry, LeavesWithAll
<1>2. CASE waiter'[q] # "done"
  <2>1. /\ waiter'[q] = waiter[q] /\ seen'[q] = seen[q] /\ heard'[q] = heard[q]
        /\ results'[q] = results[q]
    BY <1>2
  <2>2. Answered(q)' => Answered(q)
    BY <2>1 DEF Answered
  <2>3. outcome'[q] \in Answers => outcome'[q] = outcome[q]
    BY DEF Answers
  <2> QED
    BY <2>1, <2>2, <2>3 DEF Heard, Silent, ReadSoFar, AnswerIsLast, OneEntry, LeavesWithAll
<1> QED
  BY <1>1, <1>2

\* A live event, or an answer with which the run goes to its acknowledgement.
LEMMA Published ==
    ASSUME AgentTypeOK, QueueInv, NEW q \in Requests, Heard(q), NEW type \in Answers \cup {"live"},
           waiter'[q] = waiter[q], outcome'[q] = outcome[q], seen'[q] = seen[q],
           heard'[q] = heard[q], results'[q] = Append(results[q], type),
           pc[<<q, 1>>] \in InFlight \ {"acking"}, type \in Answers => pc'[<<q, 1>>] = "acking",
           pc'[<<q, 2>>] = pc[<<q, 2>>], Queued(<<q, 2>>)' => Queued(<<q, 2>>)
    PROVE  Heard(q)'
<1>1. /\ results[q] \in Seq(Answers \cup {"live"}) /\ Len(results[q]) \in Nat
      /\ Len(results'[q]) = Len(results[q]) + 1
      /\ \A i \in 1..Len(results[q]) : results'[q][i] = results[q][i]
      /\ results'[q][Len(results[q]) + 1] = type
  BY DEF AgentTypeOK
<1>2. waiter[q] \notin {"idle", "stored"}
  <2>1. waiter[q] \in {"idle", "stored"} => pc[<<q, 1>>] = "unread"
    BY EntryFacts DEF QueueInv
  <2> QED
    BY <2>1 DEF InFlight, Answers
<1>3. waiter[q] # "done" => ~Answered(q)
  BY DEF Heard, AnswerIsLast, InFlight, Answers
<1>4. AnswerIsLast(q)'
  <2>1. ASSUME waiter'[q] # "done", NEW i \in 1..Len(results'[q]), results'[q][i] \in Answers
        PROVE  i = Len(results'[q]) /\ type \in Answers
    <3>1. i \notin 1..Len(results[q])
      BY <1>1, <1>3, <2>1 DEF Answered
    <3>2. i = Len(results[q]) + 1
      BY <1>1, <3>1
    <3> QED
      BY <1>1, <2>1, <3>2
  <2>2. waiter'[q] # "done" /\ Answered(q)' => type \in Answers
    BY <2>1 DEF Answered
  <2> QED
    BY <2>1, <2>2 DEF AnswerIsLast
<1>5. ReadSoFar(q)'
  <2>1. waiter[q] = "waiting" => seen[q] \in Nat /\ seen[q] <= Len(results[q])
    BY DEF AgentTypeOK
  <2> QED
    BY <1>1, <2>1 DEF Heard, ReadSoFar
<1>6. LeavesWithAll(q)'
  <2>1. outcome[q] \in Answers => waiter[q] # "done" /\ Answered(q)
    <3>1. ASSUME outcome[q] \in Answers
          PROVE  Len(results[q]) \in 1..Len(results[q]) /\ results[q][Len(results[q])] \in Answers
      BY <1>1, <3>1 DEF Heard, LeavesWithAll, AgentTypeOK
    <3> QED
      BY <3>1 DEF Answered, Heard, LeavesWithAll
  <2> QED
    BY <1>3, <2>1 DEF LeavesWithAll
<1> QED
  BY <1>2, <1>4, <1>5, <1>6 DEF Heard, Silent, OneEntry

\* Between two numbers there are as many as their difference.
LEMMA HowMany ==
    \A a, b \in Nat : a <= b => Cardinality(a + 1 .. b) = b - a
<1>1. ASSUME NEW a \in Nat, NEW b \in Nat, a <= b
      PROVE  Cardinality(a + 1 .. b) = b - a
  <2>1. Cardinality(a + 1 .. b) = IF a + 1 > b THEN 0 ELSE b - (a + 1) + 1
    BY FS_Interval
  <2> QED
    BY <1>1, <2>1
<1> QED
  BY <1>1

-----------------------------------------------------------------------------
(* The steps of crew *)

\* A read takes the events up to the answer, or all there are.
LEMMA ReadHeard ==
    ASSUME AgentAssumption, AgentInv, NEW r \in Requests, Heard(r), ReadResults(r)
    PROVE  Heard(r)'
<1>1. AgentTypeOK /\ waiter[r] = "waiting"
  BY DEF AgentInv, ReadResults
<1>2. PICK last \in New(r) :
         /\ \A i \in New(r) : i < last => results[r][i] = "live"
         /\ last = Len(results[r]) \/ results[r][last] \in Answers
         /\ seen' = [seen EXCEPT ![r] = last]
         /\ heard' = [heard EXCEPT ![r] =
                        @ + Cardinality({i \in New(r) : i <= last /\ results[r][i] = "live"})]
         /\ IF results[r][last] = "live" THEN UNCHANGED <<waiter, outcome>>
            ELSE /\ waiter' = [waiter EXCEPT ![r] = "leaving"]
                 /\ outcome' = [outcome EXCEPT ![r] = results[r][last]]
  BY Zenon DEF ReadResults
<1>3. UNCHANGED <<results, pc, queue>>
  BY DEF ReadResults, redisVars, runVars
<1>4. /\ seen[r] \in Nat /\ heard[r] \in Nat /\ Len(results[r]) \in Nat
      /\ last \in Nat /\ seen[r] + 1 <= last /\ last <= Len(results[r])
      /\ results[r][last] \in Answers \cup {"live"}
      /\ heard[r] = seen[r] /\ \A i \in 1..seen[r] : results[r][i] = "live"
  BY <1>1, <1>2 DEF AgentTypeOK, New, Heard, ReadSoFar
<1>5. \A i \in 1..last - 1 : results[r][i] = "live"
  BY <1>2, <1>4 DEF New
<1> DEFINE fresh == {i \in New(r) : i <= last /\ results[r][i] = "live"}
<1>6. seen'[r] = last /\ heard'[r] = heard[r] + Cardinality(fresh)
  BY <1>1, <1>2 DEF AgentTypeOK
<1>7. OneEntry(r)' /\ AnswerIsLast(r)' /\ Silent(r)'
  <2>1. waiter'[r] \in {"waiting", "leaving"}
    BY <1>1, <1>2 DEF AgentTypeOK
  <2> QED
    BY <1>1, <1>3, <2>1 DEF Heard, OneEntry, AnswerIsLast, Silent, Queued, Answered
<1>8. CASE results[r][last] = "live"
  <2>1. fresh = seen[r] + 1 .. last
    BY <1>4, <1>5, <1>8 DEF New
  <2>2. heard'[r] = last
    <3>1. Cardinality(seen[r] + 1 .. last) = last - seen[r]
      <4>1. seen[r] <= last
        BY <1>4
      <4> QED
        BY <1>4, <4>1, HowMany, Zenon
    <3> HIDE DEF fresh
    <3> QED
      BY <1>4, <1>6, <2>1, <3>1
  <2>3. \A i \in 1..last : results[r][i] = "live"
    BY <1>4, <1>5, <1>8
  <2>4. UNCHANGED <<waiter, outcome>>
    BY <1>2, <1>8
  <2>5. outcome[r] \notin Answers
    BY <1>1 DEF Heard, LeavesWithAll
  <2> QED
    BY <1>3, <1>6, <1>7, <2>2, <2>3, <2>4, <2>5 DEF Heard, ReadSoFar, LeavesWithAll
<1>9. CASE results[r][last] \in Answers
  <2>1. last = Len(results[r])
    BY <1>1, <1>4, <1>9 DEF Heard, AnswerIsLast
  <2>2. results[r][last] # "live"
    BY <1>9 DEF Answers
  <2>3. fresh = seen[r] + 1 .. last - 1
    <3>1. ASSUME NEW i \in fresh
          PROVE  i \in seen[r] + 1 .. last - 1
      BY <1>4, <2>2, <3>1 DEF New
    <3>2. ASSUME NEW i \in seen[r] + 1 .. last - 1
          PROVE  i \in fresh
      BY <1>4, <1>5, <3>2 DEF New
    <3> QED
      BY <3>1, <3>2
  <2>4. heard'[r] + 1 = last
    <3>1. Cardinality(seen[r] + 1 .. last - 1) = (last - 1) - seen[r]
      <4>1. last - 1 \in Nat /\ seen[r] <= last - 1
        BY <1>4
      <4> QED
        BY <1>4, <4>1, HowMany, Zenon
    <3>2. Cardinality(fresh) = (last - 1) - seen[r]
      BY <2>3, <3>1, Zenon
    <3> HIDE DEF fresh
    <3>3. heard'[r] = seen[r] + ((last - 1) - seen[r]) /\ seen[r] \in Nat /\ last \in Nat
      BY <1>4, <1>6, <3>2
    <3> QED
      BY <3>3
  <2>5. waiter'[r] = "leaving" /\ outcome'[r] = results[r][last]
    BY <1>1, <1>2, <2>2 DEF AgentTypeOK
  <2> QED
    BY <1>3, <1>7, <1>9, <2>1, <2>4, <2>5 DEF Heard, ReadSoFar, LeavesWithAll
<1> QED
  BY <1>4, <1>8, <1>9

-----------------------------------------------------------------------------
(* Every step *)

\* No stream has an entry at first.
LEMMA HeardInit ==
    ASSUME AgentInit
    PROVE  HeardInv
<1> SUFFICES ASSUME NEW r \in Requests
             PROVE  Heard(r)
  BY DEF HeardInv
<1>1. /\ waiter[r] = "idle" /\ results[r] = <<>> /\ seen[r] = 0 /\ heard[r] = 0
      /\ outcome[r] = "none" /\ pc[<<r, 2>>] = "unread" /\ queue = <<>>
  BY EntryFacts DEF AgentInit
<1>2. ~Queued(<<r, 2>>) /\ ~Answered(r)
  BY <1>1 DEF Queued, Answered
<1> QED
  BY <1>1, <1>2 DEF Heard, Silent, ReadSoFar, AnswerIsLast, OneEntry, LeavesWithAll, Answers

\* Every step keeps the invariant.
LEMMA HeardStep ==
    ASSUME AgentAssumption, AgentInv, HeardInv, [AgentNext]_agentVars
    PROVE  HeardInv'
<1> SUFFICES ASSUME NEW q \in Requests \ harmed'
             PROVE  Heard(q)'
  BY DEF HeardInv
<1>q. AgentTypeOK /\ QueueInv /\ <<q, 1>> \in Entries /\ <<q, 2>> \in Entries /\ <<q, 1>> # <<q, 2>>
  BY EntryFacts DEF AgentInv
<1>r. ASSUME NEW failed \in BOOLEAN, NEW R \in SUBSET Requests, Possibly(failed, R)
      PROVE  Heard(q) /\ (q \in R => ~failed)
  <2>1. harmed \subseteq harmed' /\ (failed => R \subseteq harmed')
    BY <1>q, <1>r, PossiblyType
  <2> QED
    BY <2>1 DEF HeardInv
<1>1. ASSUME NEW r \in Requests, NEW raises \in BOOLEAN, StoreRequest(r, raises)
      PROVE  Heard(q)'
  <2>1. /\ waiter[r] = "idle" /\ Possibly(raises, {r}) /\ {r} \in SUBSET Requests
        /\ IF raises THEN End(r) ELSE GoOn(r, "stored")
        /\ UNCHANGED <<queue, results, pc>>
    BY <1>1 DEF StoreRequest, runVars
  <2>2. Heard(q) /\ (q = r => ~raises)
    BY <1>r, <2>1
  <2>3. CASE q = r
    BY <1>q, <2>1, <2>2, <2>3 DEF GoOn, AgentTypeOK, Heard, Silent, ReadSoFar, AnswerIsLast,
       OneEntry, LeavesWithAll, Queued, Answered
  <2>4. CASE q # r
    <3>1. /\ waiter'[q] = waiter[q] /\ outcome'[q] = outcome[q]
          /\ seen'[q] = seen[q] /\ heard'[q] = heard[q]
      BY <1>q, <2>1, <2>4 DEF GoOn, End, AgentTypeOK
    <3> QED
      BY <1>q, <2>1, <2>2, <3>1, Untouched DEF Queued
  <2> QED
    BY <2>3, <2>4
<1>2. ASSUME NEW r \in Requests, NEW n \in 0..2, NEW raises \in BOOLEAN, Dispatch(r, n, raises)
      PROVE  Heard(q)'
  <2>1. /\ waiter[r] = "stored" /\ Possibly(raises \/ n # 1, {r}) /\ {r} \in SUBSET Requests
        /\ (raises \/ n # 1) \in BOOLEAN
        /\ IF raises THEN End(r) ELSE GoOn(r, "waiting")
        /\ queue \in Seq(Entries) /\ queue' = queue \o [i \in 1..n |-> <<r, i>>]
        /\ UNCHANGED <<results, pc>>
    BY <1>q, <1>2 DEF Dispatch, runVars, AgentTypeOK
  <2>2. Heard(q) /\ (q = r => ~raises /\ n = 1)
    BY <1>r, <2>1
  <2>3. Queued(<<q, 2>>)' => Queued(<<q, 2>>)
    <3>1. /\ Len(queue') = Len(queue) + n
          /\ \A i \in 1..Len(queue) : queue'[i] = queue[i]
          /\ \A i \in 1..n : queue'[Len(queue) + i] = <<r, i>>
      BY <2>1, QueueMore
    <3>2. ASSUME NEW i \in 1..Len(queue'), queue'[i] = <<q, 2>>
          PROVE  i \in 1..Len(queue)
      <4>1. CASE i \notin 1..Len(queue)
        <5>1. Len(queue) \in Nat /\ i - Len(queue) \in 1..n /\ i = Len(queue) + (i - Len(queue))
          BY <2>1, <3>1, <4>1
        <5>2. <<r, i - Len(queue)>> = <<q, 2>>
          BY <3>1, <3>2, <5>1
        <5> QED
          BY <2>2, <5>1, <5>2
      <4> QED
        BY <4>1
    <3> QED
      BY <3>1, <3>2 DEF Queued
  <2>4. CASE q = r
    <3>1. /\ waiter'[q] = "waiting" /\ outcome' = outcome /\ seen' = seen /\ heard' = heard
      BY <1>q, <2>1, <2>2, <2>4 DEF GoOn, AgentTypeOK
    <3>2. results'[q] = <<>> /\ seen[q] = 0 /\ heard[q] = 0 /\ outcome[q] \notin Answers
      BY <2>1, <2>2, <2>4 DEF Heard, Silent, LeavesWithAll
    <3> QED
      BY <2>1, <2>2, <2>3, <3>1, <3>2 DEF Heard, Silent, ReadSoFar, AnswerIsLast,
         OneEntry, LeavesWithAll, Answered
  <2>5. CASE q # r
    <3>1. /\ waiter'[q] = waiter[q] /\ outcome'[q] = outcome[q]
          /\ seen'[q] = seen[q] /\ heard'[q] = heard[q]
      BY <1>q, <2>1, <2>5 DEF GoOn, End, AgentTypeOK
    <3> QED
      BY <1>q, <2>1, <2>2, <2>3, <3>1, Untouched
  <2> QED
    BY <2>4, <2>5
<1>3. ASSUME NEW r \in Requests, NEW raises \in BOOLEAN, StopWaiting(r, raises)
      PROVE  Heard(q)'
  <2>1. /\ waiter[r] = "waiting" /\ Possibly(raises, {r}) /\ {r} \in SUBSET Requests
        /\ GoOn(r, "leaving") /\ UNCHANGED <<queue, results, pc>>
    BY <1>3 DEF StopWaiting, redisVars, runVars
  <2>2. Heard(q)
    BY <1>r, <2>1
  <2>3. CASE q = r
    BY <1>q, <2>1, <2>2, <2>3 DEF GoOn, AgentTypeOK, Heard, Silent, ReadSoFar, AnswerIsLast,
       OneEntry, LeavesWithAll, Queued, Answered
  <2>4. CASE q # r
    <3>1. /\ waiter'[q] = waiter[q] /\ outcome'[q] = outcome[q]
          /\ seen'[q] = seen[q] /\ heard'[q] = heard[q]
      BY <1>q, <2>1, <2>4 DEF GoOn, AgentTypeOK
    <3> QED
      BY <1>q, <2>1, <2>2, <3>1, Untouched DEF Queued
  <2> QED
    BY <2>3, <2>4
<1>4. ASSUME NEW r \in Requests, ReadResults(r)
      PROVE  Heard(q)'
  <2>1. UNCHANGED <<queue, results, pc, harmed>>
    BY <1>4 DEF ReadResults, redisVars, runVars
  <2>2. Heard(q)
    BY <2>1 DEF HeardInv
  <2>3. CASE q = r
    BY <1>4, <2>2, <2>3, ReadHeard
  <2>4. CASE q # r
    <3>1. /\ \E last \in New(r), n \in Nat :
               /\ seen' = [seen EXCEPT ![r] = last]
               /\ heard' = [heard EXCEPT ![r] = n]
          /\ \/ UNCHANGED <<waiter, outcome>>
             \/ \E a \in Answers \cup {"live"} : /\ waiter' = [waiter EXCEPT ![r] = "leaving"]
                                               /\ outcome' = [outcome EXCEPT ![r] = a]
      <4>1. PICK last \in New(r) :
               /\ seen' = [seen EXCEPT ![r] = last]
               /\ heard' = [heard EXCEPT ![r] =
                              @ + Cardinality({i \in New(r) : i <= last /\ results[r][i] = "live"})]
               /\ IF results[r][last] = "live" THEN UNCHANGED <<waiter, outcome>>
                  ELSE /\ waiter' = [waiter EXCEPT ![r] = "leaving"]
                       /\ outcome' = [outcome EXCEPT ![r] = results[r][last]]
        BY <1>4, Zenon DEF ReadResults
      <4> DEFINE fresh == {i \in New(r) : i <= last /\ results[r][i] = "live"}
      <4>2. Cardinality(fresh) \in Nat
        <5>1. IsFiniteSet(New(r))
          <6>1. seen[r] + 1 \in Int /\ Len(results[r]) \in Int
            BY <1>q DEF AgentTypeOK
          <6> QED
            BY <6>1, FS_Interval, Zenon DEF New
        <5>2. fresh \subseteq New(r)
          OBVIOUS
        <5> QED
          BY <5>1, <5>2, FS_Subset, FS_CardinalityType
      <4>3. heard[r] + Cardinality(fresh) \in Nat
        <5> HIDE DEF fresh
        <5> QED
          BY <1>q, <4>2 DEF AgentTypeOK
      <4>4. results[r][last] \in Answers \cup {"live"}
        <5>1. New(r) \subseteq 1..Len(results[r])
          BY <1>q DEF New, AgentTypeOK
        <5> QED
          BY <1>q, <5>1 DEF AgentTypeOK
      <4>5. heard' = [heard EXCEPT ![r] = heard[r] + Cardinality(fresh)]
        BY <4>1
      <4> HIDE DEF fresh
      <4> QED
        BY <4>1, <4>3, <4>4, <4>5
    <3>2. /\ waiter'[q] = waiter[q] /\ outcome'[q] = outcome[q]
          /\ seen'[q] = seen[q] /\ heard'[q] = heard[q]
      BY <1>q, <2>4, <3>1 DEF AgentTypeOK
    <3> QED
      BY <1>q, <2>1, <2>2, <3>2, Untouched DEF Queued
  <2> QED
    BY <2>3, <2>4
<1>5. ASSUME NEW r \in Requests, NEW raises \in BOOLEAN, Leave(r, raises)
      PROVE  Heard(q)'
  <2>1. /\ Possibly(raises, {r}) /\ {r} \in SUBSET Requests
        /\ End(r) /\ UNCHANGED <<queue, pc>>
        /\ UNCHANGED results \/ results' = [results EXCEPT ![r] = <<>>]
    BY <1>5 DEF Leave, runVars
  <2>2. Heard(q)
    BY <1>r, <2>1
  <2>3. /\ waiter'[r] = "done" /\ outcome'[r] = "none"
        /\ q # r => /\ waiter'[q] = waiter[q] /\ outcome'[q] = outcome[q]
                    /\ seen'[q] = seen[q] /\ heard'[q] = heard[q] /\ results'[q] = results[q]
    BY <1>q, <2>1 DEF End, AgentTypeOK
  <2> QED
    BY <1>q, <2>1, <2>2, <2>3, Untouched DEF Queued, Answers
<1>6. ASSUME NEW r \in Requests, KeyExpires(r)
      PROVE  Heard(q)'
  BY <1>q, <1>6, Untouched DEF KeyExpires, HeardInv, Queued, crewVars, runVars
<1>7. ASSUME NEW r \in Requests, ResultsExpire(r)
      PROVE  Heard(q)'
  <2>1. /\ UNCHANGED <<waiter, outcome, seen, heard, queue, pc, harmed>>
        /\ waiter[r] = "done" /\ results' = [results EXCEPT ![r] = <<>>]
    BY <1>7 DEF ResultsExpire, NobodyWaits, crewVars, runVars
  <2>2. waiter[q] # "done" => results'[q] = results[q]
    BY <1>q, <2>1 DEF AgentTypeOK
  <2> QED
    BY <1>q, <2>1, <2>2, Untouched DEF HeardInv, Queued
<1>8. CASE CrewDies
  <2>1. /\ waiter'[q] = waiter[q] \/ waiter'[q] = "done"
        /\ waiter'[q] \in {"idle", "done"} /\ outcome'[q] = "none"
        /\ seen'[q] = 0 /\ heard'[q] = 0
        /\ UNCHANGED <<queue, results, pc>> /\ Heard(q)
    BY <1>q, <1>8 DEF CrewDies, Failure, HeardInv, AgentTypeOK, redisVars, runVars
  <2>2. waiter'[q] = "idle" => seen[q] = 0 /\ heard[q] = 0
    BY <2>1 DEF Heard, Silent
  <2> QED
    BY <1>q, <2>1, <2>2, Untouched DEF Queued, Answers
<1>9. ASSUME NEW a \in Agents, NEW lost \in BOOLEAN, ReadRequests(a, lost)
      PROVE  Heard(q)'
  <2>1. PICK n \in 1..Len(queue) : Takes(n, a, lost)
    BY <1>q, <1>9, Taken
  <2>2. queue \in Seq(Entries)
    BY <1>q DEF AgentTypeOK
  <2> DEFINE read == {queue[i] : i \in 1..n}
             R == {RequestOf(e) : e \in read}
  <2>3. /\ read \subseteq Entries /\ Possibly(lost, R)
        /\ \A i \in 1..Len(queue') : n + i \in 1..Len(queue) /\ queue'[i] = queue[n + i]
        /\ \A e \in Entries : e \notin read => pc'[e] = pc[e]
        /\ UNCHANGED <<crewVars, results>>
    BY <2>1, Zenon DEF Takes
  <2>4. R \in SUBSET Requests
    BY <2>3, EntryFacts
  <2>5. \A e \in read : pc[e] = "unread" /\ Queued(e)
    BY <1>q, <2>2 DEF QueueInv, Queued
  <2> HIDE DEF R
  <2>6. Heard(q)
    BY <1>r, <2>3, <2>4
  <2>7. \A e \in Entries : Queued(e)' => Queued(e)
    BY <2>3 DEF Queued
  <2> HIDE DEF read
  <2>8. pc'[<<q, 2>>] = pc[<<q, 2>>]
    BY <1>q, <2>3, <2>5, <2>6 DEF Heard, OneEntry
  <2>9. pc[<<q, 1>>] \in {"acking", "over"} => pc'[<<q, 1>>] = pc[<<q, 1>>]
    BY <1>q, <2>3, <2>5
  <2> QED
    BY <1>q, <2>3, <2>6, <2>7, <2>8, <2>9, Untouched DEF crewVars
<1>10. ASSUME NEW e \in Entries, NEW fit \in BOOLEAN, Load(e, fit)
      PROVE  Heard(q)'
  <2>1. /\ UNCHANGED <<waiter, outcome, seen, heard, queue, results, harmed>>
        /\ pc[e] = "loading" /\ \E to \in InFlight : pc' = [pc EXCEPT ![e] = to]
    BY <1>10 DEF Load, At, GoTo, InFlight, crewVars, redisVars
  <2>2. Heard(q)
    BY <2>1 DEF HeardInv
  <2>3. e # <<q, 2>>
    BY <2>1, <2>2 DEF Heard, OneEntry
  <2> QED
    BY <1>q, <2>1, <2>2, <2>3, Untouched DEF Queued, AgentTypeOK
<1>11. ASSUME NEW e \in Entries, NEW blip \in BOOLEAN, Check(e, blip)
      PROVE  Heard(q)'
  <2>1. /\ UNCHANGED <<waiter, outcome, seen, heard, queue, results>>
        /\ Possibly(blip, {RequestOf(e)}) /\ {RequestOf(e)} \in SUBSET Requests
        /\ pc[e] = "running" /\ \E to \in InFlight : pc' = [pc EXCEPT ![e] = to]
    BY <1>11, EntryFacts DEF Check, At, GoTo, InFlight, crewVars, redisVars
  <2>2. Heard(q)
    BY <1>r, <2>1
  <2>3. e # <<q, 2>>
    BY <2>1, <2>2 DEF Heard, OneEntry
  <2> QED
    BY <1>q, <2>1, <2>2, <2>3, Untouched DEF Queued, AgentTypeOK
<1>12. ASSUME NEW e \in Entries, NEW next \in {"reporting"} \cup Answers, Call(e, next)
      PROVE  Heard(q)'
  <2>1. /\ UNCHANGED <<waiter, outcome, seen, heard, queue, results, harmed>>
        /\ pc[e] = "calling" /\ pc' = [pc EXCEPT ![e] = next]
    BY <1>12 DEF Call, At, GoTo, crewVars, redisVars
  <2>2. Heard(q)
    BY <2>1 DEF HeardInv
  <2>3. e # <<q, 2>>
    BY <2>1, <2>2 DEF Heard, OneEntry
  <2> QED
    BY <1>q, <2>1, <2>2, <2>3, Untouched DEF Queued, AgentTypeOK
<1>13. ASSUME NEW e \in Entries, NEW fails \in BOOLEAN, Report(e, fails)
      PROVE  Heard(q)'
  <2>1. /\ UNCHANGED <<waiter, outcome, seen, heard, queue>>
        /\ Possibly(fails, {RequestOf(e)}) /\ {RequestOf(e)} \in SUBSET Requests
        /\ pc[e] = "reporting" /\ pc' = [pc EXCEPT ![e] = "running"]
        /\ \/ results' = [results EXCEPT ![RequestOf(e)] = Append(@, "live")]
           \/ UNCHANGED results
    BY <1>13, EntryFacts DEF Report, At, GoTo, Publish, crewVars
  <2>2. Heard(q)
    BY <1>r, <2>1
  <2>3. e # <<q, 2>>
    BY <2>1, <2>2 DEF Heard, OneEntry
  <2>4. pc'[<<q, 2>>] = pc[<<q, 2>>]
    BY <1>q, <2>1, <2>3
  <2>5. CASE results'[q] = results[q]
    BY <1>q, <2>1, <2>2, <2>4, <2>5, Untouched DEF Queued, AgentTypeOK
  <2>6. CASE results'[q] # results[q]
    <3>1. RequestOf(e) = q /\ results'[q] = Append(results[q], "live")
      BY <1>q, <2>1, <2>6 DEF AgentTypeOK
    <3>2. e = <<q, 1>>
      BY <2>3, <3>1 DEF Entries, RequestOf
    <3>3. pc[<<q, 1>>] \in InFlight \ {"acking"}
      BY <2>1, <3>2 DEF InFlight
    <3>4. "live" \notin Answers /\ (Queued(<<q, 2>>)' => Queued(<<q, 2>>))
      BY <2>1 DEF Answers, Queued
    <3> QED
      BY <1>q, <2>1, <2>2, <2>4, <3>1, <3>3, <3>4, Published
  <2> QED
    BY <2>5, <2>6
<1>14. ASSUME NEW e \in Entries, NEW fails \in BOOLEAN, Answer(e, fails)
      PROVE  Heard(q)'
  <2>1. PICK type \in Answers :
           /\ pc[e] = type /\ Possibly(fails, {RequestOf(e)})
           /\ Publish(e, type) \/ (fails /\ UNCHANGED <<results, expiring>>)
           /\ pc' = [pc EXCEPT ![e] = IF fails /\ type = "result" THEN "error" ELSE "acking"]
           /\ UNCHANGED <<crewVars, queue>>
    BY <1>14, Zenon DEF Answer, At, GoTo
  <2>2. UNCHANGED <<waiter, outcome, seen, heard, queue>> /\ {RequestOf(e)} \in SUBSET Requests
    BY <2>1, EntryFacts DEF crewVars
  <2>3. Heard(q) /\ (RequestOf(e) = q => ~fails)
    BY <1>r, <2>1, <2>2
  <2>4. e # <<q, 2>>
    BY <2>1, <2>3 DEF Heard, OneEntry, Answers
  <2>5. pc'[<<q, 2>>] = pc[<<q, 2>>] /\ (Queued(<<q, 2>>)' => Queued(<<q, 2>>))
    BY <1>q, <2>1, <2>4 DEF Queued
  <2>6. CASE RequestOf(e) = q
    <3>1. e = <<q, 1>> /\ pc'[<<q, 1>>] = "acking" /\ results'[q] = Append(results[q], type)
      BY <1>q, <2>1, <2>3, <2>4, <2>6 DEF Entries, RequestOf, AgentTypeOK, Publish
    <3>2. pc[<<q, 1>>] \in InFlight \ {"acking"}
      BY <2>1, <3>1 DEF InFlight, Answers
    <3> QED
      BY <1>q, <2>2, <2>3, <2>5, <3>1, <3>2, Published
  <2>7. CASE RequestOf(e) # q
    <3>1. e # <<q, 1>> /\ results'[q] = results[q]
      BY <1>q, <2>1, <2>7, EntryFacts DEF AgentTypeOK, Publish
    <3>2. pc'[<<q, 1>>] = pc[<<q, 1>>]
      BY <1>q, <2>1, <3>1
    <3> QED
      BY <1>q, <2>2, <2>3, <2>5, <3>1, <3>2, Untouched
  <2> QED
    BY <2>6, <2>7
<1>15. ASSUME NEW e \in Entries, NEW fails \in BOOLEAN, Ack(e, fails)
      PROVE  Heard(q)'
  <2>1. /\ UNCHANGED <<waiter, outcome, seen, heard, queue, results>>
        /\ Possibly(fails, {RequestOf(e)}) /\ {RequestOf(e)} \in SUBSET Requests
        /\ pc[e] = "acking" /\ pc' = [pc EXCEPT ![e] = "over"]
    BY <1>15, EntryFacts DEF Ack, At, GoTo, crewVars
  <2>2. Heard(q)
    BY <1>r, <2>1
  <2>3. e # <<q, 2>>
    BY <2>1, <2>2 DEF Heard, OneEntry
  <2> QED
    BY <1>q, <2>1, <2>2, <2>3, Untouched DEF Queued, AgentTypeOK
<1>16. ASSUME NEW a \in Agents, AgentDies(a)
      PROVE  Heard(q)'
  <2>1. /\ harmed' = harmed \cup {RequestOf(e) : e \in RunsOf(a)}
        /\ pc' = [e \in Entries |-> IF e \in RunsOf(a) THEN "lost" ELSE pc[e]]
        /\ UNCHANGED <<waiter, outcome, seen, heard, queue, results>>
    BY <1>16 DEF AgentDies, Failure, crewVars, redisVars
  <2>2. Heard(q) /\ <<q, 1>> \notin RunsOf(a) /\ <<q, 2>> \notin RunsOf(a)
    BY <1>q, <2>1, EntryFacts DEF HeardInv
  <2>3. pc'[<<q, 1>>] = pc[<<q, 1>>] /\ pc'[<<q, 2>>] = pc[<<q, 2>>]
    BY <1>q, <2>1, <2>2
  <2> QED
    BY <1>q, <2>1, <2>2, <2>3, Untouched DEF Queued
<1>17. ASSUME NEW a \in Agents, AgentStops(a)
      PROVE  Heard(q)'
  BY <1>q, <1>17, Untouched DEF AgentStops, Failure, HeardInv, Queued, crewVars, redisVars, runVars
<1>18. CASE UNCHANGED agentVars
  BY <1>q, <1>18, Untouched DEF agentVars, HeardInv, Queued, crewVars, redisVars, runVars
<1> QED
  BY Zenon, AgentActions, <1>1, <1>2, <1>3, <1>4, <1>5, <1>6, <1>7, <1>8, <1>9, <1>10,
     <1>11, <1>12, <1>13, <1>14, <1>15, <1>16, <1>17, <1>18

-----------------------------------------------------------------------------
(* Theorems *)

\* The invariant that the proofs of this module rest on.
THEOREM ResultsInductive == AgentSpec => [](AgentInv /\ HeardInv)
<1>1. AgentInit => HeardInv
  BY HeardInit
<1>2. AgentInv /\ HeardInv /\ [AgentNext]_agentVars => HeardInv'
  BY AgentAssumption, HeardStep
<1> QED
  BY <1>1, <1>2, AgentInvariance, PTL DEF AgentSpec

\* However many events a run publishes, and however they arrive beside crew's reads:
\* crew that leaves with an answer has forwarded each live event once, unless a failure
\* hit the request (agent_task_service.py:174-215).
THEOREM EventsAreHeard == AgentSpec => []EventsAllHeard
<1>1. ASSUME AgentInv, NEW r \in Requests, Heard(r), outcome[r] \in Answers
      PROVE  heard[r] = Cardinality({i \in 1..Len(results[r]) : results[r][i] = "live"})
  <2>1. /\ heard[r] \in Nat /\ Len(results[r]) = heard[r] + 1
        /\ results[r] \in Seq(Answers \cup {"live"})
        /\ waiter[r] # "done" /\ results[r][Len(results[r])] \in Answers
    BY <1>1 DEF AgentInv, AgentTypeOK, Heard, LeavesWithAll
  <2>2. \A i \in 1..heard[r] : results[r][i] = "live"
    BY <1>1, <2>1 DEF Heard, AnswerIsLast
  <2>3. results[r][heard[r] + 1] # "live"
    BY <2>1 DEF Answers
  <2> DEFINE live == {i \in 1..Len(results[r]) : results[r][i] = "live"}
  <2>4. live = 0 + 1 .. heard[r]
    <3>1. ASSUME NEW i \in live
          PROVE  i \in 1..heard[r]
      BY <2>1, <2>3, <3>1
    <3>2. ASSUME NEW i \in 1..heard[r]
          PROVE  i \in live
      BY <2>1, <2>2, <3>2
    <3> QED
      BY <3>1, <3>2
  <2>5. Cardinality(0 + 1 .. heard[r]) = heard[r] - 0
    <3>1. 0 \in Nat /\ 0 <= heard[r]
      BY <2>1
    <3> QED
      BY <2>1, <3>1, HowMany, Zenon
  <2>6. Cardinality(live) = heard[r] - 0
    BY <2>4, <2>5, Zenon
  <2> HIDE DEF live
  <2>7. Cardinality(live) = heard[r]
    BY <2>1, <2>6
  <2> QED
    BY <2>7 DEF live
<1>2. AgentInv /\ HeardInv => EventsAllHeard
  BY <1>1 DEF HeardInv, EventsAllHeard
<1> QED
  BY <1>2, ResultsInductive, PTL
=============================================================================
