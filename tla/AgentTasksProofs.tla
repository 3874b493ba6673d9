-------------------------- MODULE AgentTasksProofs --------------------------
(* Theorems about AgentTasks, for any requests, replicas, slots and bounds. *)
EXTENDS AgentTasks, FiniteSetTheorems, SequenceTheorems, TLAPS

-----------------------------------------------------------------------------
(* Entries and the queue *)

LEMMA EntryFacts ==
    /\ \A e \in Entries : RequestOf(e) \in Requests
    /\ \A r \in Requests : /\ <<r, 1>> \in Entries /\ RequestOf(<<r, 1>>) = r
                           /\ <<r, 2>> \in Entries /\ RequestOf(<<r, 2>>) = r
BY DEF Entries, RequestOf

\* What XREADGROUP leaves is the rest of the queue.
LEMMA QueueRest ==
    ASSUME NEW q \in Seq(Entries), NEW n \in 0..Len(q), NEW rest, rest = SubSeq(q, n + 1, Len(q))
    PROVE  /\ rest \in Seq(Entries) /\ Len(rest) = Len(q) - n
           /\ \A i \in 1..Len(rest) : n + i \in 1..Len(q) /\ rest[i] = q[n + i]
OBVIOUS

\* What XADD leaves is the queue and the copies of the entry.
LEMMA QueueMore ==
    ASSUME NEW q \in Seq(Entries), NEW r \in Requests, NEW n \in 0..2,
           NEW more, more = q \o [i \in 1..n |-> <<r, i>>]
    PROVE  /\ more \in Seq(Entries) /\ Len(more) = Len(q) + n
           /\ \A i \in 1..Len(q) : more[i] = q[i]
           /\ \A i \in 1..n : more[Len(q) + i] = <<r, i>>
<1>1. [i \in 1..n |-> <<r, i>>] \in Seq(Entries) /\ Len([i \in 1..n |-> <<r, i>>]) = n
  BY DEF Entries
<1> QED
  BY <1>1

-----------------------------------------------------------------------------
(* The inductive invariant *)

\* An entry is queued once, and not yet read; nothing is read of a request that crew
\* has not dispatched.
QueueInv ==
    /\ \A i, j \in 1..Len(queue) : queue[i] = queue[j] => i = j
    /\ \A i \in 1..Len(queue) : pc[queue[i]] = "unread"
    /\ \A e \in Entries : waiter[RequestOf(e)] \in {"idle", "stored"} =>
          pc[e] = "unread" /\ ~Queued(e)

\* A run has a call left while it goes on.
CallsInv ==
    \A e \in Entries :
        /\ pc[e] = "unread" => calls[e] = 0
        /\ pc[e] \in {"loading", "running", "calling", "reporting"} => calls[e] < MaxCalls
        /\ strays[e] <= calls[e]

\* Calls without the key that failures allow.
Allowed(e) == IF RequestOf(e) \in harmed THEN failures ELSE 0

\* After a stray call the key is gone for good, so that the next check that succeeds is
\* the last.
StraysInv ==
    \A e \in Entries :
        /\ strays[e] > 0 => RequestOf(e) \notin key
        /\ strays[e] <= 1 + Allowed(e)
        /\ pc[e] = "calling" => strays[e] <= Allowed(e)

\* The one run of a request that no failure hit ends with an answer.
KeptInv ==
    \A r \in Requests \ harmed :
        /\ waiter[r] \in {"stored", "waiting"} => r \in key
        /\ waiter[r] = "waiting" =>
              \/ Answered(r)
              \/ Queued(<<r, 1>>)
              \/ pc[<<r, 1>>] \in InFlight \ {"acking"} /\ owner[<<r, 1>>] \in up

AgentInv == AgentTypeOK /\ QueueInv /\ CallsInv /\ StraysInv /\ KeptInv

\* Every step is one of the actions, or changes nothing.
LEMMA AgentActions ==
    ASSUME [AgentNext]_agentVars
    PROVE  \/ \E r \in Requests, raises \in BOOLEAN : StoreRequest(r, raises)
           \/ \E r \in Requests, n \in 0..2, raises \in BOOLEAN : Dispatch(r, n, raises)
           \/ \E r \in Requests, raises \in BOOLEAN : StopWaiting(r, raises)
           \/ \E r \in Requests : ReadResults(r)
           \/ \E r \in Requests, raises \in BOOLEAN : Leave(r, raises)
           \/ \E r \in Requests : KeyExpires(r)
           \/ \E r \in Requests : ResultsExpire(r)
           \/ CrewDies
           \/ \E a \in Agents, lost \in BOOLEAN : ReadRequests(a, lost)
           \/ \E e \in Entries, fit \in BOOLEAN : Load(e, fit)
           \/ \E e \in Entries, blip \in BOOLEAN : Check(e, blip)
           \/ \E e \in Entries, next \in {"reporting"} \cup Answers : Call(e, next)
           \/ \E e \in Entries, fails \in BOOLEAN : Report(e, fails)
           \/ \E e \in Entries, fails \in BOOLEAN : Answer(e, fails)
           \/ \E e \in Entries, fails \in BOOLEAN : Ack(e, fails)
           \/ \E a \in Agents : AgentDies(a)
           \/ \E a \in Agents : AgentStops(a)
           \/ UNCHANGED agentVars
BY Zenon DEF AgentNext, Waiter, Run

-----------------------------------------------------------------------------
(* What the steps have in common *)

LEMMA PossiblyType ==
    ASSUME AgentAssumption, AgentTypeOK, NEW failed \in BOOLEAN, NEW R \in SUBSET Requests,
           Possibly(failed, R)
    PROVE  /\ failures' \in 0..MaxFailures /\ harmed' \in SUBSET Requests
           /\ harmed \subseteq harmed' /\ failures <= failures'
           /\ failed => R \subseteq harmed' /\ failures' = failures + 1
           /\ ~failed => harmed' = harmed
BY DEF AgentAssumption, AgentTypeOK, Possibly, Failure

\* _dispatch ends, or goes on.
LEMMA CrewMoves ==
    ASSUME AgentTypeOK, NEW r \in Requests, NEW where \in {"stored", "waiting", "leaving"},
           End(r) \/ GoOn(r, where)
    PROVE  /\ waiter' \in [Requests -> {"idle", "stored", "waiting", "leaving", "done"}]
           /\ outcome' \in [Requests -> Answers \cup {"none"}]
           /\ seen' \in [Requests -> Nat] /\ heard' \in [Requests -> Nat]
           /\ \A q \in Requests \ {r} : waiter'[q] = waiter[q] /\ seen'[q] = seen[q]
           /\ \/ End(r) /\ waiter'[r] = "done"
              \/ GoOn(r, where) /\ waiter'[r] = where /\ seen'[r] = seen[r]
<1>1. CASE End(r)
  BY <1>1 DEF AgentTypeOK, End
<1>2. CASE GoOn(r, where)
  BY <1>2 DEF AgentTypeOK, GoOn
<1> QED
  BY <1>1, <1>2

\* A run goes on or is over; it stays in its replica's hands until then.
LEMMA RunMoves ==
    ASSUME AgentTypeOK, NEW e \in Entries,
           \/ \E b \in BOOLEAN : Load(e, b) \/ Check(e, b) \/ Report(e, b) \/ Answer(e, b) \/ Ack(e, b)
           \/ \E next \in {"reporting"} \cup Answers : Call(e, next)
    PROVE  /\ pc[e] \in InFlight
           /\ \E to \in InFlight \cup {"over"} : pc' = [pc EXCEPT ![e] = to]
           /\ UNCHANGED <<waiter, outcome, seen, heard, key, queue, up, stopping>>
<1> USE DEF GoTo, At, InFlight, Answers, crewVars, redisVars, replicaVars
<1>1. CASE \E b \in BOOLEAN : Load(e, b)
  BY <1>1 DEF Load
<1>2. CASE \E b \in BOOLEAN : Check(e, b)
  BY <1>2 DEF Check
<1>3. CASE \E b \in BOOLEAN : Report(e, b)
  BY <1>3 DEF Report
<1>4. CASE \E b \in BOOLEAN : Answer(e, b)
  BY <1>4 DEF Answer
<1>5. CASE \E b \in BOOLEAN : Ack(e, b)
  BY <1>5 DEF Ack
<1>6. CASE \E next \in {"reporting"} \cup Answers : Call(e, next)
  BY <1>6 DEF Call
<1> QED
  BY <1>1, <1>2, <1>3, <1>4, <1>5, <1>6

\* A publish, or none.
LEMMA Publishes ==
    ASSUME AgentTypeOK, NEW e \in Entries, NEW type \in Answers \cup {"live"},
           Publish(e, type) \/ UNCHANGED <<results, expiring>>
    PROVE  /\ results' \in [Requests -> Seq(Answers \cup {"live"})] /\ expiring' \in SUBSET Requests
           /\ \A r \in Requests :
                 /\ Len(results[r]) <= Len(results'[r])
                 /\ \A i \in 1..Len(results[r]) : results'[r][i] = results[r][i]
           /\ Publish(e, type) =>
                 LET r == RequestOf(e) IN
                 Len(results'[r]) \in 1..Len(results'[r]) /\ results'[r][Len(results'[r])] = type
<1>1. RequestOf(e) \in Requests
  BY EntryFacts
<1>2. CASE UNCHANGED <<results, expiring>> /\ ~Publish(e, type)
  BY <1>2 DEF AgentTypeOK
<1>3. CASE Publish(e, type)
  <2>1. results[RequestOf(e)] \in Seq(Answers \cup {"live"})
    BY <1>1 DEF AgentTypeOK
  <2>2. results' = [results EXCEPT ![RequestOf(e)] = Append(@, type)]
    BY <1>3 DEF Publish
  <2> QED
    BY <1>1, <1>3, <2>1, <2>2 DEF AgentTypeOK, Publish
<1> QED
  BY <1>2, <1>3

LEMMA Pair == IsFiniteSet({1, 2})
<1>1. IsFiniteSet({1})
  BY FS_Singleton
<1>2. {1, 2} = {1} \cup {2}
  OBVIOUS
<1> QED
  BY <1>1, <1>2, FS_AddElement

\* The first n entries of the queue are read.
Takes(n, a, lost) ==
    LET read == {queue[i] : i \in 1..n} IN
    /\ read \subseteq Entries
    /\ Possibly(lost, {RequestOf(e) : e \in read})
    /\ queue' \in Seq(Entries) /\ Len(queue') = Len(queue) - n
    /\ \A i \in 1..Len(queue') : n + i \in 1..Len(queue) /\ queue'[i] = queue[n + i]
    /\ \A e \in Entries : e \in read =>
          owner'[e] = a /\ pc'[e] = IF lost THEN "lost" ELSE "loading"
    /\ \A e \in Entries : e \notin read => owner'[e] = owner[e] /\ pc'[e] = pc[e]
    /\ owner' \in [Entries -> Agents \cup {NoAgent}]
    /\ pc' \in [Entries -> InFlight \cup {"unread", "over", "lost"}]
    /\ a \in up
    /\ UNCHANGED <<crewVars, key, results, expiring, calls, strays, replicaVars>>

\* What was taken from the queue are its first entries.
LEMMA Taken ==
    ASSUME AgentAssumption, AgentTypeOK, QueueInv, NEW a \in Agents, NEW lost \in BOOLEAN,
           ReadRequests(a, lost)
    PROVE  \E n \in 1..Len(queue) : Takes(n, a, lost)
<1>1. FreeSlots(a) \in Nat \ {0} /\ queue # <<>> /\ queue \in Seq(Entries)
  <2>1. FreeSlots(a) > 0 /\ queue # <<>> /\ queue \in Seq(Entries)
    BY DEF ReadRequests, AgentTypeOK
  <2>2. FreeSlots(a) \in Nat
    <3>1. IsFiniteSet({1, 2})
      BY Pair
    <3>2. IsFiniteSet(Entries)
      BY <3>1, FS_Product DEF Entries, AgentAssumption
    <3>3. RunsInHand(a) \subseteq Entries
      BY DEF RunsInHand, RunsOf
    <3>4. Cardinality(RunsInHand(a)) \in Nat
      BY <3>2, <3>3, FS_Subset, FS_CardinalityType
    <3> QED
      BY <3>4 DEF FreeSlots, AgentAssumption
  <2> QED
    BY <2>1, <2>2
<1> DEFINE n == IF Len(queue) < FreeSlots(a) THEN Len(queue) ELSE FreeSlots(a)
           read == {queue[i] : i \in 1..n}
<1>2. n \in 1..Len(queue) /\ n \in 0..Len(queue)
  BY <1>1
<1>3. read \subseteq Entries
  BY <1>1, <1>2
<1>4. /\ Possibly(lost, {RequestOf(e) : e \in read})
      /\ queue' = SubSeq(queue, n + 1, Len(queue))
      /\ owner' = [e \in Entries |-> IF e \in read THEN a ELSE owner[e]]
      /\ pc' = [e \in Entries |->
                  IF e \in read THEN (IF lost THEN "lost" ELSE "loading") ELSE pc[e]]
      /\ a \in up
      /\ UNCHANGED <<crewVars, key, results, expiring, calls, strays, replicaVars>>
  BY Zenon DEF ReadRequests
<1> HIDE DEF n
<1>5. /\ queue' \in Seq(Entries) /\ Len(queue') = Len(queue) - n
      /\ \A i \in 1..Len(queue') : n + i \in 1..Len(queue) /\ queue'[i] = queue[n + i]
  BY <1>1, <1>2, <1>4, QueueRest
<1> HIDE DEF read
<1>6. /\ owner' \in [Entries -> Agents \cup {NoAgent}]
      /\ pc' \in [Entries -> InFlight \cup {"unread", "over", "lost"}]
      /\ \A e \in Entries : e \in read =>
            owner'[e] = a /\ pc'[e] = IF lost THEN "lost" ELSE "loading"
      /\ \A e \in Entries : e \notin read => owner'[e] = owner[e] /\ pc'[e] = pc[e]
  BY <1>4 DEF AgentTypeOK, InFlight
<1> USE DEF read
<1>7. Takes(n, a, lost)
  BY <1>3, <1>4, <1>5, <1>6, Zenon DEF Takes
<1> QED
  BY <1>2, <1>7

LEMMA QueueSame ==
    ASSUME AgentTypeOK, QueueInv, queue' = queue,
           \A e \in Entries : pc[e] = "unread" => pc'[e] = "unread",
           \A r \in Requests :
              waiter'[r] \in {"idle", "stored"} => waiter[r] \in {"idle", "stored"}
    PROVE  QueueInv'
<1>1. \A i \in 1..Len(queue) : queue[i] \in Entries
  BY DEF AgentTypeOK
<1> QED
  BY <1>1, EntryFacts DEF QueueInv, Queued

\* Every step keeps AgentTypeOK.
LEMMA TypeStep ==
    ASSUME AgentAssumption, AgentInv, [AgentNext]_agentVars
    PROVE  AgentTypeOK'
<1>1. ASSUME NEW r \in Requests, NEW raises \in BOOLEAN, StoreRequest(r, raises)
      PROVE  AgentTypeOK'
  <2>1. AgentTypeOK
    BY DEF AgentInv
  <2>2. /\ (End(r) \/ GoOn(r, "stored"))
        /\ waiter[r] = "idle" /\ Possibly(raises, {r}) /\ {r} \in SUBSET Requests
        /\ key' = key \cup {r}
        /\ UNCHANGED <<queue, owner, results, expiring, runVars, replicaVars>>
    BY <1>1 DEF StoreRequest
  <2>3. failures' \in 0..MaxFailures /\ harmed' \subseteq Requests
    BY <2>1, <2>2, PossiblyType
  <2>4. /\ waiter' \in [Requests -> {"idle", "stored", "waiting", "leaving", "done"}]
        /\ outcome' \in [Requests -> Answers \cup {"none"}]
        /\ seen' \in [Requests -> Nat] /\ heard' \in [Requests -> Nat]
        /\ \A q \in Requests \ {r} : waiter'[q] = waiter[q] /\ seen'[q] = seen[q]
        /\ (waiter'[r] = "done" \/ (waiter'[r] = "stored" /\ seen'[r] = seen[r]))
    BY <2>1, <2>2, CrewMoves
  <2>5. key' \subseteq Requests
    BY <2>1, <2>2 DEF AgentTypeOK
  <2> QED
    BY <2>1, <2>2, <2>3, <2>4, <2>5 DEF AgentTypeOK, redisVars, runVars, replicaVars
<1>2. ASSUME NEW r \in Requests, NEW n \in 0..2, NEW raises \in BOOLEAN, Dispatch(r, n, raises)
      PROVE  AgentTypeOK'
  <2>1. AgentTypeOK
    BY DEF AgentInv
  <2>2. /\ (End(r) \/ GoOn(r, "waiting"))
        /\ waiter[r] = "stored" /\ Possibly(raises \/ n # 1, {r}) /\ {r} \in SUBSET Requests
        /\ queue' = queue \o [i \in 1..n |-> <<r, i>>]
        /\ UNCHANGED <<key, owner, results, expiring, runVars, replicaVars>>
    BY <1>2 DEF Dispatch
  <2>3. failures' \in 0..MaxFailures /\ harmed' \subseteq Requests
    BY <2>1, <2>2, PossiblyType
  <2>4. /\ waiter' \in [Requests -> {"idle", "stored", "waiting", "leaving", "done"}]
        /\ outcome' \in [Requests -> Answers \cup {"none"}]
        /\ seen' \in [Requests -> Nat] /\ heard' \in [Requests -> Nat]
        /\ \A q \in Requests \ {r} : waiter'[q] = waiter[q] /\ seen'[q] = seen[q]
        /\ (waiter'[r] = "done" \/ (waiter'[r] = "waiting" /\ seen'[r] = seen[r]))
    BY <2>1, <2>2, CrewMoves
  <2>5. queue' \in Seq(Entries)
    BY <2>1, <2>2, QueueMore DEF AgentTypeOK
  <2> QED
    BY <2>1, <2>2, <2>3, <2>4, <2>5 DEF AgentTypeOK, redisVars, runVars, replicaVars
<1>3. ASSUME NEW r \in Requests, NEW raises \in BOOLEAN, StopWaiting(r, raises)
      PROVE  AgentTypeOK'
  <2>1. AgentTypeOK
    BY DEF AgentInv
  <2>2. /\ (End(r) \/ GoOn(r, "leaving"))
        /\ Possibly(raises, {r}) /\ {r} \in SUBSET Requests
        /\ UNCHANGED <<redisVars, runVars, replicaVars>>
    BY <1>3 DEF StopWaiting
  <2>3. failures' \in 0..MaxFailures /\ harmed' \subseteq Requests
    BY <2>1, <2>2, PossiblyType
  <2>4. /\ waiter' \in [Requests -> {"idle", "stored", "waiting", "leaving", "done"}]
        /\ outcome' \in [Requests -> Answers \cup {"none"}]
        /\ seen' \in [Requests -> Nat] /\ heard' \in [Requests -> Nat]
        /\ \A q \in Requests \ {r} : waiter'[q] = waiter[q] /\ seen'[q] = seen[q]
        /\ (waiter'[r] = "done" \/ (waiter'[r] = "leaving" /\ seen'[r] = seen[r]))
    BY <2>1, <2>2, CrewMoves
  <2>5. TRUE
    BY <2>1, <2>2 DEF AgentTypeOK
  <2> QED
    BY <2>1, <2>2, <2>3, <2>4, <2>5 DEF AgentTypeOK, redisVars, runVars, replicaVars
<1>4. ASSUME NEW r \in Requests, ReadResults(r)
      PROVE  AgentTypeOK'
  <2>1. AgentTypeOK
    BY DEF AgentInv
  <2>2. PICK last \in New(r) :
           /\ seen' = [seen EXCEPT ![r] = last]
           /\ heard' = [heard EXCEPT ![r] =
                          @ + Cardinality({i \in New(r) : i <= last /\ results[r][i] = "live"})]
           /\ waiter[r] = "waiting"
           /\ IF results[r][last] = "live" THEN UNCHANGED <<waiter, outcome>>
              ELSE /\ waiter' = [waiter EXCEPT ![r] = "leaving"]
                   /\ outcome' = [outcome EXCEPT ![r] = results[r][last]]
           /\ UNCHANGED <<redisVars, runVars, replicaVars, failures, harmed>>
    BY <1>4, Zenon DEF ReadResults
  <2> DEFINE lives == {i \in New(r) : i <= last /\ results[r][i] = "live"}
  <2>3. New(r) \subseteq 1..Len(results[r]) /\ Len(results[r]) \in Nat
    BY <2>1 DEF AgentTypeOK, New
  <2>4. last \in 1..Len(results[r]) /\ results[r][last] \in Answers \cup {"live"}
    BY <2>1, <2>3 DEF AgentTypeOK
  <2>5. Cardinality(lives) \in Nat
    <3>1. IsFiniteSet(1..Len(results[r]))
      BY <2>3, FS_Interval
    <3>2. lives \subseteq New(r)
      OBVIOUS
    <3>3. lives \subseteq 1..Len(results[r])
      BY <2>3, <3>2
    <3> QED
      BY <3>1, <3>3, FS_Subset, FS_CardinalityType
  <2> HIDE DEF lives
  <2>6. heard' = [heard EXCEPT ![r] = @ + Cardinality(lives)]
    BY <2>2 DEF lives
  <2>7. /\ waiter' \in [Requests -> {"idle", "stored", "waiting", "leaving", "done"}]
        /\ outcome' \in [Requests -> Answers \cup {"none"}]
        /\ \A q \in Requests \ {r} : waiter'[q] = waiter[q]
    BY <2>1, <2>2, <2>4 DEF AgentTypeOK
  <2>8. /\ seen' \in [Requests -> Nat] /\ heard' \in [Requests -> Nat]
        /\ seen'[r] <= Len(results[r])
        /\ \A q \in Requests \ {r} : seen'[q] = seen[q]
    BY <2>1, <2>2, <2>3, <2>4, <2>5, <2>6 DEF AgentTypeOK
  <2> QED
    BY <2>1, <2>2, <2>7, <2>8 DEF AgentTypeOK, redisVars, runVars, replicaVars
<1>5. ASSUME NEW r \in Requests, NEW raises \in BOOLEAN, Leave(r, raises)
      PROVE  AgentTypeOK'
  <2>1. AgentTypeOK
    BY DEF AgentInv
  <2>2. /\ (End(r) \/ GoOn(r, "leaving"))
        /\ End(r) /\ Possibly(raises, {r}) /\ {r} \in SUBSET Requests
        /\ \/ UNCHANGED <<key, results, expiring>>
           \/ /\ key' = key \ {r}
              /\ results' = [results EXCEPT ![r] = <<>>]
              /\ expiring' = expiring \ {r}
        /\ UNCHANGED <<queue, owner, runVars, replicaVars>>
    BY <1>5 DEF Leave
  <2>3. failures' \in 0..MaxFailures /\ harmed' \subseteq Requests
    BY <2>1, <2>2, PossiblyType
  <2>4. /\ waiter' \in [Requests -> {"idle", "stored", "waiting", "leaving", "done"}]
        /\ outcome' \in [Requests -> Answers \cup {"none"}]
        /\ seen' \in [Requests -> Nat] /\ heard' \in [Requests -> Nat]
        /\ \A q \in Requests \ {r} : waiter'[q] = waiter[q] /\ seen'[q] = seen[q]
        /\ (waiter'[r] = "done" \/ (waiter'[r] = "leaving" /\ seen'[r] = seen[r]))
    BY <2>1, <2>2, CrewMoves
  <2>5. /\ key' \subseteq Requests /\ expiring' \subseteq Requests
        /\ results' \in [Requests -> Seq(Answers \cup {"live"})]
        /\ \A q \in Requests \ {r} : results'[q] = results[q]
        /\ waiter'[r] = "done"
    <3>1. waiter'[r] = "done"
      BY <2>1, <2>2 DEF End, AgentTypeOK
    <3>2. CASE UNCHANGED <<key, results, expiring>>
      BY <2>1, <3>1, <3>2 DEF AgentTypeOK
    <3>3. CASE /\ key' = key \ {r} /\ results' = [results EXCEPT ![r] = <<>>]
               /\ expiring' = expiring \ {r}
      <4>1. <<>> \in Seq(Answers \cup {"live"})
        OBVIOUS
      <4> QED
        BY <2>1, <3>1, <3>3, <4>1 DEF AgentTypeOK
    <3> QED
      BY <2>2, <3>1, <3>2, <3>3
  <2> QED
    BY <2>1, <2>2, <2>3, <2>4, <2>5 DEF AgentTypeOK, redisVars, runVars, replicaVars
<1>6. ASSUME NEW r \in Requests, KeyExpires(r)
      PROVE  AgentTypeOK'
  BY <1>6 DEF KeyExpires, NobodyWaits, AgentInv, AgentTypeOK, CallsInv, Answers, InFlight,
     crewVars, runVars, replicaVars
<1>7. ASSUME NEW r \in Requests, ResultsExpire(r)
      PROVE  AgentTypeOK'
  <2>1. AgentTypeOK /\ waiter[r] = "done"
    BY <1>7 DEF AgentInv, ResultsExpire, NobodyWaits
  <2>2. /\ expiring' = expiring \ {r} /\ results' = [results EXCEPT ![r] = <<>>]
        /\ UNCHANGED <<crewVars, key, queue, owner, runVars, replicaVars, failures, harmed>>
    BY <1>7 DEF ResultsExpire
  <2>3. <<>> \in Seq(Answers \cup {"live"})
    OBVIOUS
  <2>4. /\ results' \in [Requests -> Seq(Answers \cup {"live"})]
        /\ \A q \in Requests \ {r} : results'[q] = results[q]
    BY <2>1, <2>2, <2>3 DEF AgentTypeOK
  <2> QED
    BY <2>1, <2>2, <2>4 DEF AgentTypeOK, crewVars, runVars, replicaVars
<1>8. CASE CrewDies
  BY <1>8 DEF CrewDies, AgentInv, AgentTypeOK, CallsInv, Answers, InFlight, Failure,
     redisVars, runVars, replicaVars
<1>9. ASSUME NEW a \in Agents, NEW lost \in BOOLEAN, ReadRequests(a, lost)
      PROVE  AgentTypeOK'
  <2>1. AgentTypeOK /\ QueueInv
    BY DEF AgentInv
  <2>2. PICK n \in 1..Len(queue) : Takes(n, a, lost)
    BY <1>9, <2>1, Taken
  <2> USE DEF Takes
  <2>3. failures' \in 0..MaxFailures /\ harmed' \subseteq Requests
    <3> DEFINE R == {RequestOf(e) : e \in {queue[i] : i \in 1..n}}
    <3>1. R \in SUBSET Requests /\ Possibly(lost, R)
      BY <2>2, EntryFacts
    <3> HIDE DEF R
    <3> QED
      BY <2>1, <3>1, PossiblyType
  <2> QED
    BY <2>1, <2>2, <2>3 DEF AgentTypeOK, crewVars, replicaVars
<1>10. ASSUME NEW e \in Entries, NEW fit \in BOOLEAN, Load(e, fit)
      PROVE  AgentTypeOK'
  <2>1. AgentTypeOK /\ CallsInv
    BY DEF AgentInv
  <2>2. /\ \E to \in InFlight \cup {"over"} : pc' = [pc EXCEPT ![e] = to]
        /\ UNCHANGED <<waiter, outcome, seen, heard, key, queue, up, stopping>>
    BY <1>10, <2>1, RunMoves
  <2>3. pc' \in [Entries -> InFlight \cup {"unread", "over", "lost"}]
    BY <2>1, <2>2 DEF AgentTypeOK
  <2>4. failures' \in 0..MaxFailures /\ harmed' \subseteq Requests
    BY <1>10, <2>1 DEF Load, At, GoTo, AgentTypeOK
  <2>5. /\ owner' \in [Entries -> Agents \cup {NoAgent}]
        /\ calls' \in [Entries -> 0..MaxCalls] /\ strays' \in [Entries -> 0..MaxCalls]
    BY <1>10, <2>1 DEF Load, At, GoTo, crewVars, redisVars, replicaVars, AgentTypeOK,
       CallsInv, AgentAssumption
  <2>6. /\ results' \in [Requests -> Seq(Answers \cup {"live"})]
        /\ expiring' \subseteq Requests
        /\ \A r \in Requests : Len(results[r]) <= Len(results'[r])
    BY <1>10, <2>1 DEF Load, At, GoTo, AgentTypeOK, redisVars
  <2> QED
    BY <2>1, <2>2, <2>3, <2>4, <2>5, <2>6 DEF AgentTypeOK
<1>11. ASSUME NEW e \in Entries, NEW blip \in BOOLEAN, Check(e, blip)
      PROVE  AgentTypeOK'
  <2>1. AgentTypeOK /\ CallsInv
    BY DEF AgentInv
  <2>2. /\ \E to \in InFlight \cup {"over"} : pc' = [pc EXCEPT ![e] = to]
        /\ UNCHANGED <<waiter, outcome, seen, heard, key, queue, up, stopping>>
    BY <1>11, <2>1, RunMoves
  <2>3. pc' \in [Entries -> InFlight \cup {"unread", "over", "lost"}]
    BY <2>1, <2>2 DEF AgentTypeOK
  <2>4. failures' \in 0..MaxFailures /\ harmed' \subseteq Requests
    <3>1. Possibly(blip, {RequestOf(e)}) /\ {RequestOf(e)} \in SUBSET Requests
      BY <1>11, EntryFacts DEF Check, At, GoTo, Withdrawn
    <3> QED
      BY <2>1, <3>1, PossiblyType
  <2>5. /\ owner' \in [Entries -> Agents \cup {NoAgent}]
        /\ calls' \in [Entries -> 0..MaxCalls] /\ strays' \in [Entries -> 0..MaxCalls]
    BY <1>11, <2>1 DEF Check, At, GoTo, Withdrawn, crewVars, redisVars, replicaVars,
       AgentTypeOK, CallsInv, AgentAssumption
  <2>6. /\ results' \in [Requests -> Seq(Answers \cup {"live"})]
        /\ expiring' \subseteq Requests
        /\ \A r \in Requests : Len(results[r]) <= Len(results'[r])
    BY <1>11, <2>1 DEF Check, At, GoTo, Withdrawn, AgentTypeOK, redisVars
  <2> QED
    BY <2>1, <2>2, <2>3, <2>4, <2>5, <2>6 DEF AgentTypeOK
<1>12. ASSUME NEW e \in Entries, NEW next \in {"reporting"} \cup Answers, Call(e, next)
      PROVE  AgentTypeOK'
  <2>1. AgentTypeOK /\ CallsInv
    BY DEF AgentInv
  <2>2. /\ \E to \in InFlight \cup {"over"} : pc' = [pc EXCEPT ![e] = to]
        /\ UNCHANGED <<waiter, outcome, seen, heard, key, queue, up, stopping>>
    BY <1>12, <2>1, RunMoves
  <2>3. pc' \in [Entries -> InFlight \cup {"unread", "over", "lost"}]
    BY <2>1, <2>2 DEF AgentTypeOK
  <2>4. failures' \in 0..MaxFailures /\ harmed' \subseteq Requests
    BY <1>12, <2>1 DEF Call, At, GoTo, AgentTypeOK
  <2>5. /\ owner' \in [Entries -> Agents \cup {NoAgent}]
        /\ calls' \in [Entries -> 0..MaxCalls] /\ strays' \in [Entries -> 0..MaxCalls]
    BY <1>12, <2>1 DEF Call, At, GoTo, crewVars, redisVars, replicaVars, AgentTypeOK,
       CallsInv, AgentAssumption
  <2>6. /\ results' \in [Requests -> Seq(Answers \cup {"live"})]
        /\ expiring' \subseteq Requests
        /\ \A r \in Requests : Len(results[r]) <= Len(results'[r])
    BY <1>12, <2>1 DEF Call, At, GoTo, AgentTypeOK, redisVars
  <2> QED
    BY <2>1, <2>2, <2>3, <2>4, <2>5, <2>6 DEF AgentTypeOK
<1>13. ASSUME NEW e \in Entries, NEW fails \in BOOLEAN, Report(e, fails)
      PROVE  AgentTypeOK'
  <2>1. AgentTypeOK /\ CallsInv
    BY DEF AgentInv
  <2>2. /\ \E to \in InFlight \cup {"over"} : pc' = [pc EXCEPT ![e] = to]
        /\ UNCHANGED <<waiter, outcome, seen, heard, key, queue, up, stopping>>
    BY <1>13, <2>1, RunMoves
  <2>3. pc' \in [Entries -> InFlight \cup {"unread", "over", "lost"}]
    BY <2>1, <2>2 DEF AgentTypeOK
  <2>4. failures' \in 0..MaxFailures /\ harmed' \subseteq Requests
    <3>1. Possibly(fails, {RequestOf(e)}) /\ {RequestOf(e)} \in SUBSET Requests
      BY <1>13, EntryFacts DEF Report, At, GoTo
    <3> QED
      BY <2>1, <3>1, PossiblyType
  <2>5. /\ owner' \in [Entries -> Agents \cup {NoAgent}]
        /\ calls' \in [Entries -> 0..MaxCalls] /\ strays' \in [Entries -> 0..MaxCalls]
    BY <1>13, <2>1 DEF Report, At, GoTo, crewVars, redisVars, replicaVars, AgentTypeOK,
       CallsInv, AgentAssumption
  <2>6. /\ results' \in [Requests -> Seq(Answers \cup {"live"})]
        /\ expiring' \subseteq Requests
        /\ \A r \in Requests : Len(results[r]) <= Len(results'[r])
    <3>1. Publish(e, "live") \/ UNCHANGED <<results, expiring>>
      BY <1>13, Zenon DEF Report
    <3> QED
      BY <2>1, <3>1, Publishes
  <2> QED
    BY <2>1, <2>2, <2>3, <2>4, <2>5, <2>6 DEF AgentTypeOK
<1>14. ASSUME NEW e \in Entries, NEW fails \in BOOLEAN, Answer(e, fails)
      PROVE  AgentTypeOK'
  <2>1. AgentTypeOK /\ CallsInv
    BY DEF AgentInv
  <2>2. /\ \E to \in InFlight \cup {"over"} : pc' = [pc EXCEPT ![e] = to]
        /\ UNCHANGED <<waiter, outcome, seen, heard, key, queue, up, stopping>>
    BY <1>14, <2>1, RunMoves
  <2>3. pc' \in [Entries -> InFlight \cup {"unread", "over", "lost"}]
    BY <2>1, <2>2 DEF AgentTypeOK
  <2>4. failures' \in 0..MaxFailures /\ harmed' \subseteq Requests
    <3>1. Possibly(fails, {RequestOf(e)}) /\ {RequestOf(e)} \in SUBSET Requests
      BY <1>14, EntryFacts DEF Answer, At, GoTo
    <3> QED
      BY <2>1, <3>1, PossiblyType
  <2>5. /\ owner' \in [Entries -> Agents \cup {NoAgent}]
        /\ calls' \in [Entries -> 0..MaxCalls] /\ strays' \in [Entries -> 0..MaxCalls]
    BY <1>14, <2>1 DEF Answer, At, GoTo, crewVars, redisVars, replicaVars, AgentTypeOK,
       CallsInv, AgentAssumption
  <2>6. /\ results' \in [Requests -> Seq(Answers \cup {"live"})]
        /\ expiring' \subseteq Requests
        /\ \A r \in Requests : Len(results[r]) <= Len(results'[r])
    <3>1. PICK type \in Answers : Publish(e, type) \/ UNCHANGED <<results, expiring>>
      BY <1>14, Zenon DEF Answer
    <3> QED
      BY <2>1, <3>1, Publishes
  <2> QED
    BY <2>1, <2>2, <2>3, <2>4, <2>5, <2>6 DEF AgentTypeOK
<1>15. ASSUME NEW e \in Entries, NEW fails \in BOOLEAN, Ack(e, fails)
      PROVE  AgentTypeOK'
  <2>1. AgentTypeOK /\ CallsInv
    BY DEF AgentInv
  <2>2. /\ \E to \in InFlight \cup {"over"} : pc' = [pc EXCEPT ![e] = to]
        /\ UNCHANGED <<waiter, outcome, seen, heard, key, queue, up, stopping>>
    BY <1>15, <2>1, RunMoves
  <2>3. pc' \in [Entries -> InFlight \cup {"unread", "over", "lost"}]
    BY <2>1, <2>2 DEF AgentTypeOK
  <2>4. failures' \in 0..MaxFailures /\ harmed' \subseteq Requests
    <3>1. Possibly(fails, {RequestOf(e)}) /\ {RequestOf(e)} \in SUBSET Requests
      BY <1>15, EntryFacts DEF Ack, At, GoTo
    <3> QED
      BY <2>1, <3>1, PossiblyType
  <2>5. /\ owner' \in [Entries -> Agents \cup {NoAgent}]
        /\ calls' \in [Entries -> 0..MaxCalls] /\ strays' \in [Entries -> 0..MaxCalls]
    BY <1>15, <2>1 DEF Ack, At, GoTo, crewVars, redisVars, replicaVars, AgentTypeOK,
       CallsInv, AgentAssumption
  <2>6. /\ results' \in [Requests -> Seq(Answers \cup {"live"})]
        /\ expiring' \subseteq Requests
        /\ \A r \in Requests : Len(results[r]) <= Len(results'[r])
    BY <1>15, <2>1 DEF Ack, At, GoTo, AgentTypeOK, redisVars
  <2> QED
    BY <2>1, <2>2, <2>3, <2>4, <2>5, <2>6 DEF AgentTypeOK
<1>16. ASSUME NEW a \in Agents, AgentDies(a)
      PROVE  AgentTypeOK'
  <2>1. AgentTypeOK
    BY DEF AgentInv
  <2>2. /\ up' = up \ {a} /\ stopping' = stopping \ {a} /\ failures < MaxFailures
        /\ failures' = failures + 1
        /\ harmed' = harmed \cup {RequestOf(e) : e \in RunsOf(a)}
        /\ pc' = [e \in Entries |-> IF e \in RunsOf(a) THEN "lost" ELSE pc[e]]
        /\ UNCHANGED <<crewVars, redisVars, calls, strays>>
    BY <1>16 DEF AgentDies, Failure
  <2>3. {RequestOf(e) : e \in RunsOf(a)} \subseteq Requests
    BY EntryFacts DEF RunsOf
  <2>4. pc' \in [Entries -> InFlight \cup {"unread", "over", "lost"}]
    BY <2>1, <2>2 DEF AgentTypeOK
  <2>5. failures' \in 0..MaxFailures /\ harmed' \subseteq Requests
    BY <2>1, <2>2, <2>3, AgentAssumption DEF AgentTypeOK, AgentAssumption
  <2> QED
    BY <2>1, <2>2, <2>4, <2>5 DEF AgentTypeOK, crewVars, redisVars
<1>17. ASSUME NEW a \in Agents, AgentStops(a)
      PROVE  AgentTypeOK'
  BY <1>17 DEF AgentStops, AgentInv, AgentTypeOK, CallsInv, Answers, InFlight, Failure,
     crewVars, redisVars, runVars
<1>18. CASE UNCHANGED agentVars
  BY <1>18 DEF agentVars, AgentInv, AgentTypeOK, CallsInv, Answers, InFlight, crewVars,
     redisVars, runVars, replicaVars
<1> QED
  BY Zenon, AgentActions, <1>1, <1>2, <1>3, <1>4, <1>5, <1>6, <1>7, <1>8, <1>9, <1>10,
     <1>11, <1>12, <1>13, <1>14, <1>15, <1>16, <1>17, <1>18

\* Every step keeps QueueInv.
LEMMA QueueStep ==
    ASSUME AgentAssumption, AgentInv, [AgentNext]_agentVars
    PROVE  QueueInv'
<1>1. ASSUME NEW r \in Requests, NEW raises \in BOOLEAN, StoreRequest(r, raises)
      PROVE  QueueInv'
  <2>1. AgentTypeOK /\ QueueInv
    BY DEF AgentInv
  <2>2. /\ (End(r) \/ GoOn(r, "stored"))
        /\ waiter[r] = "idle" /\ Possibly(raises, {r}) /\ {r} \in SUBSET Requests
        /\ key' = key \cup {r}
        /\ UNCHANGED <<queue, owner, results, expiring, runVars, replicaVars>>
    BY <1>1 DEF StoreRequest
  <2>3. \A q \in Requests : waiter'[q] \in {"idle", "stored"} => waiter[q] \in {"idle", "stored"}
    BY <2>1, <2>2, CrewMoves
  <2>4. queue' = queue /\ pc' = pc
    BY <2>2 DEF redisVars, runVars
  <2> QED
    BY <2>1, <2>3, <2>4, QueueSame
<1>2. ASSUME NEW r \in Requests, NEW n \in 0..2, NEW raises \in BOOLEAN, Dispatch(r, n, raises)
      PROVE  QueueInv'
  <2>1. AgentTypeOK /\ QueueInv /\ queue \in Seq(Entries)
    BY DEF AgentInv, AgentTypeOK
  <2>2. /\ End(r) \/ GoOn(r, "waiting")
        /\ waiter[r] = "stored" /\ queue' = queue \o [i \in 1..n |-> <<r, i>>] /\ pc' = pc
    BY <1>2 DEF Dispatch, runVars
  <2>3. /\ queue' \in Seq(Entries) /\ Len(queue') = Len(queue) + n
        /\ \A i \in 1..Len(queue) : queue'[i] = queue[i]
        /\ \A i \in 1..n : queue'[Len(queue) + i] = <<r, i>>
    <3>1. queue' = queue \o [i \in 1..n |-> <<r, i>>]
      BY <2>2
    <3>2. Len(queue') = Len(queue) + n
      BY <2>1, <3>1, QueueMore
    <3>4. queue' \in Seq(Entries)
      BY <2>1, <3>1, QueueMore
    <3>3. /\ \A i \in 1..Len(queue) : queue'[i] = queue[i]
          /\ \A i \in 1..n : queue'[Len(queue) + i] = <<r, i>>
      BY <2>1, <3>1, QueueMore
    <3> QED
      BY <3>2, <3>3, <3>4
  <2>4. /\ \A q \in Requests \ {r} : waiter'[q] = waiter[q]
        /\ waiter'[r] \notin {"idle", "stored"}
    BY <2>1, <2>2, CrewMoves
  <2>5. \A i \in 1..2 : /\ <<r, i>> \in Entries /\ RequestOf(<<r, i>>) = r
                       /\ pc[<<r, i>>] = "unread" /\ ~Queued(<<r, i>>)
    BY <2>1, <2>2 DEF Entries, RequestOf, QueueInv
  <2>6. \A i \in 1..Len(queue') :
           \/ i \in 1..Len(queue) /\ queue'[i] = queue[i]
           \/ /\ i \in Len(queue) + 1..Len(queue) + n /\ i - Len(queue) \in 1..2
              /\ queue'[i] = <<r, i - Len(queue)>>
    <3>1. \A i \in 1..Len(queue') : i > Len(queue) => i - Len(queue) \in 1..n /\ i = Len(queue) + (i - Len(queue))
      BY <2>1, <2>3
    <3> QED
      BY <2>1, <2>3, <3>1
  <2>7. \A i, j \in 1..Len(queue') : queue'[i] = queue'[j] => i = j
    <3> SUFFICES ASSUME NEW i \in 1..Len(queue'), NEW j \in 1..Len(queue'), queue'[i] = queue'[j]
                 PROVE  i = j
      OBVIOUS
    <3>1. CASE i \in 1..Len(queue) /\ j \in 1..Len(queue)
      BY <2>1, <2>3, <3>1 DEF QueueInv
    <3>2. CASE i \in 1..Len(queue) /\ j \notin 1..Len(queue)
      BY <2>3, <2>5, <2>6, <3>2 DEF Queued
    <3>3. CASE i \notin 1..Len(queue) /\ j \in 1..Len(queue)
      BY <2>3, <2>5, <2>6, <3>3 DEF Queued
    <3>4. CASE i \notin 1..Len(queue) /\ j \notin 1..Len(queue)
      <4>1. <<r, i - Len(queue)>> = <<r, j - Len(queue)>>
        BY <2>6, <3>4
      <4>2. i - Len(queue) = j - Len(queue) /\ i \in Nat /\ j \in Nat /\ Len(queue) \in Nat
        BY <2>1, <4>1
      <4> QED
        BY <4>2
    <3> QED
      BY <3>1, <3>2, <3>3, <3>4
  <2>8. \A i \in 1..Len(queue') : pc'[queue'[i]] = "unread"
    BY <2>1, <2>2, <2>5, <2>6 DEF QueueInv
  <2>9. \A e \in Entries : waiter'[RequestOf(e)] \in {"idle", "stored"} =>
           pc'[e] = "unread" /\ ~Queued(e)'
    <3> SUFFICES ASSUME NEW e \in Entries, waiter'[RequestOf(e)] \in {"idle", "stored"}
                 PROVE  pc'[e] = "unread" /\ ~Queued(e)'
      OBVIOUS
    <3>1. RequestOf(e) # r /\ waiter[RequestOf(e)] \in {"idle", "stored"}
      BY <2>4, EntryFacts
    <3>2. pc[e] = "unread" /\ ~Queued(e) /\ \A i \in 1..2 : e # <<r, i>>
      BY <2>1, <2>5, <3>1 DEF QueueInv
    <3> QED
      BY <2>2, <2>6, <3>2 DEF Queued
  <2> QED
    BY <2>7, <2>8, <2>9 DEF QueueInv
<1>3. ASSUME NEW r \in Requests, NEW raises \in BOOLEAN, StopWaiting(r, raises)
      PROVE  QueueInv'
  <2>1. AgentTypeOK /\ QueueInv
    BY DEF AgentInv
  <2>2. /\ (End(r) \/ GoOn(r, "leaving"))
        /\ Possibly(raises, {r}) /\ {r} \in SUBSET Requests
        /\ UNCHANGED <<redisVars, runVars, replicaVars>>
    BY <1>3 DEF StopWaiting
  <2>3. \A q \in Requests : waiter'[q] \in {"idle", "stored"} => waiter[q] \in {"idle", "stored"}
    BY <2>1, <2>2, CrewMoves
  <2>4. queue' = queue /\ pc' = pc
    BY <2>2 DEF redisVars, runVars
  <2> QED
    BY <2>1, <2>3, <2>4, QueueSame
<1>4. ASSUME NEW r \in Requests, ReadResults(r)
      PROVE  QueueInv'
  <2>1. AgentTypeOK /\ QueueInv
    BY DEF AgentInv
  <2>2. (UNCHANGED waiter \/ waiter' = [waiter EXCEPT ![r] = "leaving"]) /\ queue' = queue /\ pc' = pc
    BY <1>4, Zenon DEF ReadResults, redisVars, runVars
  <2>3. \A q \in Requests : waiter'[q] \in {"idle", "stored"} => waiter[q] \in {"idle", "stored"}
    BY <2>1, <2>2 DEF AgentTypeOK
  <2> QED
    BY <2>1, <2>2, <2>3, QueueSame
<1>5. ASSUME NEW r \in Requests, NEW raises \in BOOLEAN, Leave(r, raises)
      PROVE  QueueInv'
  <2>1. AgentTypeOK /\ QueueInv
    BY DEF AgentInv
  <2>2. /\ (End(r) \/ GoOn(r, "leaving"))
        /\ End(r) /\ Possibly(raises, {r}) /\ {r} \in SUBSET Requests
        /\ \/ UNCHANGED <<key, results, expiring>>
           \/ /\ key' = key \ {r}
              /\ results' = [results EXCEPT ![r] = <<>>]
              /\ expiring' = expiring \ {r}
        /\ UNCHANGED <<queue, owner, runVars, replicaVars>>
    BY <1>5 DEF Leave
  <2>3. \A q \in Requests : waiter'[q] \in {"idle", "stored"} => waiter[q] \in {"idle", "stored"}
    BY <2>1, <2>2, CrewMoves
  <2>4. queue' = queue /\ pc' = pc
    BY <2>2 DEF redisVars, runVars
  <2> QED
    BY <2>1, <2>3, <2>4, QueueSame
<1>6. ASSUME NEW r \in Requests, KeyExpires(r)
      PROVE  QueueInv'
  BY <1>6 DEF KeyExpires, NobodyWaits, AgentInv, AgentTypeOK, QueueInv, Queued, Answers,
     InFlight, crewVars, runVars, replicaVars
<1>7. ASSUME NEW r \in Requests, ResultsExpire(r)
      PROVE  QueueInv'
  BY <1>7 DEF ResultsExpire, NobodyWaits, AgentInv, AgentTypeOK, QueueInv, Queued, Answers,
     InFlight, crewVars, runVars, replicaVars
<1>8. CASE CrewDies
  <2>1. AgentTypeOK /\ QueueInv
    BY DEF AgentInv
  <2>2. queue' = queue /\ pc' = pc
    BY <1>8 DEF CrewDies, redisVars, runVars
  <2>3. \A q \in Requests : waiter'[q] \in {"idle", "stored"} => waiter[q] \in {"idle", "stored"}
    BY <1>8, <2>1 DEF CrewDies, AgentTypeOK
  <2> QED
    BY <2>1, <2>2, <2>3, QueueSame
<1>9. ASSUME NEW a \in Agents, NEW lost \in BOOLEAN, ReadRequests(a, lost)
      PROVE  QueueInv'
  <2>1. AgentTypeOK /\ QueueInv /\ queue \in Seq(Entries)
    BY DEF AgentInv, AgentTypeOK
  <2>2. PICK n \in 1..Len(queue) : Takes(n, a, lost)
    BY <1>9, <2>1, Taken
  <2> USE DEF Takes
  <2> DEFINE read == {queue[i] : i \in 1..n}
  <2>3. \A i \in 1..Len(queue') : queue'[i] \in Entries /\ queue'[i] \notin read
    BY <2>1, <2>2 DEF QueueInv
  <2>4. \A e \in read : waiter[RequestOf(e)] \notin {"idle", "stored"}
    <3> SUFFICES ASSUME NEW i \in 1..n
                 PROVE  waiter[RequestOf(queue[i])] \notin {"idle", "stored"}
      OBVIOUS
    <3>1. i \in 1..Len(queue) /\ queue[i] \in Entries /\ Queued(queue[i])
      BY <2>1 DEF Queued
    <3> QED
      BY <2>1, <3>1 DEF QueueInv
  <2>5. waiter' = waiter
    BY <2>2 DEF crewVars
  <2>6. \A i, j \in 1..Len(queue') : queue'[i] = queue'[j] => i = j
    BY <2>1, <2>2 DEF QueueInv
  <2>7. \A i \in 1..Len(queue') : pc'[queue'[i]] = "unread"
    <3> SUFFICES ASSUME NEW i \in 1..Len(queue')
                 PROVE  pc'[queue'[i]] = "unread"
      OBVIOUS
    <3>1. pc'[queue'[i]] = pc[queue'[i]]
      BY <2>2, <2>3
    <3>2. pc[queue[n + i]] = "unread" /\ queue'[i] = queue[n + i]
      BY <2>1, <2>2 DEF QueueInv
    <3> QED
      BY <3>1, <3>2
  <2>8. \A e \in Entries : waiter'[RequestOf(e)] \in {"idle", "stored"} =>
           pc'[e] = "unread" /\ ~Queued(e)'
    <3> SUFFICES ASSUME NEW e \in Entries, waiter'[RequestOf(e)] \in {"idle", "stored"}
                 PROVE  pc'[e] = "unread" /\ ~Queued(e)'
      OBVIOUS
    <3>1. pc[e] = "unread" /\ ~Queued(e) /\ e \notin read
      BY <2>1, <2>4, <2>5 DEF QueueInv
    <3>2. ~Queued(e)'
      BY <2>2, <3>1 DEF Queued
    <3> QED
      BY <2>2, <3>1, <3>2
  <2> QED
    BY <2>6, <2>7, <2>8 DEF QueueInv
<1>10. ASSUME NEW e \in Entries, NEW fit \in BOOLEAN, Load(e, fit)
      PROVE  QueueInv'
  <2>1. AgentTypeOK /\ QueueInv
    BY DEF AgentInv
  <2>2. /\ pc[e] \in InFlight
        /\ \E to \in InFlight \cup {"over"} : pc' = [pc EXCEPT ![e] = to]
        /\ UNCHANGED <<waiter, queue>>
    BY <1>10, <2>1, RunMoves
  <2>3. \A f \in Entries : pc[f] = "unread" => pc'[f] = "unread"
    BY <2>1, <2>2 DEF InFlight, AgentTypeOK
  <2> QED
    BY <2>1, <2>2, <2>3, QueueSame
<1>11. ASSUME NEW e \in Entries, NEW blip \in BOOLEAN, Check(e, blip)
      PROVE  QueueInv'
  <2>1. AgentTypeOK /\ QueueInv
    BY DEF AgentInv
  <2>2. /\ pc[e] \in InFlight
        /\ \E to \in InFlight \cup {"over"} : pc' = [pc EXCEPT ![e] = to]
        /\ UNCHANGED <<waiter, queue>>
    BY <1>11, <2>1, RunMoves
  <2>3. \A f \in Entries : pc[f] = "unread" => pc'[f] = "unread"
    BY <2>1, <2>2 DEF InFlight, AgentTypeOK
  <2> QED
    BY <2>1, <2>2, <2>3, QueueSame
<1>12. ASSUME NEW e \in Entries, NEW next \in {"reporting"} \cup Answers, Call(e, next)
      PROVE  QueueInv'
  <2>1. AgentTypeOK /\ QueueInv
    BY DEF AgentInv
  <2>2. /\ pc[e] \in InFlight
        /\ \E to \in InFlight \cup {"over"} : pc' = [pc EXCEPT ![e] = to]
        /\ UNCHANGED <<waiter, queue>>
    BY <1>12, <2>1, RunMoves
  <2>3. \A f \in Entries : pc[f] = "unread" => pc'[f] = "unread"
    BY <2>1, <2>2 DEF InFlight, AgentTypeOK
  <2> QED
    BY <2>1, <2>2, <2>3, QueueSame
<1>13. ASSUME NEW e \in Entries, NEW fails \in BOOLEAN, Report(e, fails)
      PROVE  QueueInv'
  <2>1. AgentTypeOK /\ QueueInv
    BY DEF AgentInv
  <2>2. /\ pc[e] \in InFlight
        /\ \E to \in InFlight \cup {"over"} : pc' = [pc EXCEPT ![e] = to]
        /\ UNCHANGED <<waiter, queue>>
    BY <1>13, <2>1, RunMoves
  <2>3. \A f \in Entries : pc[f] = "unread" => pc'[f] = "unread"
    BY <2>1, <2>2 DEF InFlight, AgentTypeOK
  <2> QED
    BY <2>1, <2>2, <2>3, QueueSame
<1>14. ASSUME NEW e \in Entries, NEW fails \in BOOLEAN, Answer(e, fails)
      PROVE  QueueInv'
  <2>1. AgentTypeOK /\ QueueInv
    BY DEF AgentInv
  <2>2. /\ pc[e] \in InFlight
        /\ \E to \in InFlight \cup {"over"} : pc' = [pc EXCEPT ![e] = to]
        /\ UNCHANGED <<waiter, queue>>
    BY <1>14, <2>1, RunMoves
  <2>3. \A f \in Entries : pc[f] = "unread" => pc'[f] = "unread"
    BY <2>1, <2>2 DEF InFlight, AgentTypeOK
  <2> QED
    BY <2>1, <2>2, <2>3, QueueSame
<1>15. ASSUME NEW e \in Entries, NEW fails \in BOOLEAN, Ack(e, fails)
      PROVE  QueueInv'
  <2>1. AgentTypeOK /\ QueueInv
    BY DEF AgentInv
  <2>2. /\ pc[e] \in InFlight
        /\ \E to \in InFlight \cup {"over"} : pc' = [pc EXCEPT ![e] = to]
        /\ UNCHANGED <<waiter, queue>>
    BY <1>15, <2>1, RunMoves
  <2>3. \A f \in Entries : pc[f] = "unread" => pc'[f] = "unread"
    BY <2>1, <2>2 DEF InFlight, AgentTypeOK
  <2> QED
    BY <2>1, <2>2, <2>3, QueueSame
<1>16. ASSUME NEW a \in Agents, AgentDies(a)
      PROVE  QueueInv'
  <2>1. AgentTypeOK /\ QueueInv
    BY DEF AgentInv
  <2>2. queue' = queue /\ waiter' = waiter
    BY <1>16 DEF AgentDies, crewVars, redisVars
  <2>3. pc' = [e \in Entries |-> IF e \in RunsOf(a) THEN "lost" ELSE pc[e]]
    BY <1>16 DEF AgentDies
  <2>4. \A e \in Entries : pc[e] = "unread" => pc'[e] = "unread"
    BY <2>3 DEF RunsOf, InFlight
  <2> QED
    BY <2>1, <2>2, <2>4, QueueSame
<1>17. ASSUME NEW a \in Agents, AgentStops(a)
      PROVE  QueueInv'
  BY <1>17 DEF AgentStops, AgentInv, AgentTypeOK, QueueInv, Queued, Answers, InFlight,
     Failure, crewVars, redisVars, runVars
<1>18. CASE UNCHANGED agentVars
  BY <1>18 DEF agentVars, AgentInv, AgentTypeOK, QueueInv, Queued, Answers, InFlight,
     crewVars, redisVars, runVars, replicaVars
<1> QED
  BY Zenon, AgentActions, <1>1, <1>2, <1>3, <1>4, <1>5, <1>6, <1>7, <1>8, <1>9, <1>10,
     <1>11, <1>12, <1>13, <1>14, <1>15, <1>16, <1>17, <1>18

\* Every step keeps CallsInv.
LEMMA CallsStep ==
    ASSUME AgentAssumption, AgentInv, [AgentNext]_agentVars
    PROVE  CallsInv'
<1>1. ASSUME NEW r \in Requests, NEW raises \in BOOLEAN, StoreRequest(r, raises)
      PROVE  CallsInv'
  BY <1>1 DEF StoreRequest, GoOn, End, AgentInv, AgentTypeOK, QueueInv, CallsInv, Answers,
     InFlight, Possibly, Failure, runVars, replicaVars
<1>2. ASSUME NEW r \in Requests, NEW n \in 0..2, NEW raises \in BOOLEAN, Dispatch(r, n, raises)
      PROVE  CallsInv'
  BY <1>2 DEF Dispatch, GoOn, End, AgentInv, AgentTypeOK, QueueInv, CallsInv, Answers,
     InFlight, Possibly, Failure, runVars, replicaVars
<1>3. ASSUME NEW r \in Requests, NEW raises \in BOOLEAN, StopWaiting(r, raises)
      PROVE  CallsInv'
  BY <1>3 DEF StopWaiting, GoOn, AgentInv, AgentTypeOK, QueueInv, CallsInv, Answers,
     InFlight, Possibly, Failure, redisVars, runVars, replicaVars
<1>4. ASSUME NEW r \in Requests, ReadResults(r)
      PROVE  CallsInv'
  BY <1>4 DEF ReadResults, New, AgentInv, AgentTypeOK, QueueInv, CallsInv, Answers,
     InFlight, redisVars, runVars, replicaVars
<1>5. ASSUME NEW r \in Requests, NEW raises \in BOOLEAN, Leave(r, raises)
      PROVE  CallsInv'
  BY <1>5 DEF Leave, End, AgentInv, AgentTypeOK, QueueInv, CallsInv, Answers, InFlight,
     Possibly, Failure, runVars, replicaVars
<1>6. ASSUME NEW r \in Requests, KeyExpires(r)
      PROVE  CallsInv'
  BY <1>6 DEF KeyExpires, NobodyWaits, AgentInv, AgentTypeOK, QueueInv, CallsInv, Answers,
     InFlight, crewVars, runVars, replicaVars
<1>7. ASSUME NEW r \in Requests, ResultsExpire(r)
      PROVE  CallsInv'
  BY <1>7 DEF ResultsExpire, NobodyWaits, AgentInv, AgentTypeOK, QueueInv, CallsInv,
     Answers, InFlight, crewVars, runVars, replicaVars
<1>8. CASE CrewDies
  BY <1>8 DEF CrewDies, AgentInv, AgentTypeOK, QueueInv, CallsInv, Answers, InFlight,
     Failure, redisVars, runVars, replicaVars
<1>9. ASSUME NEW a \in Agents, NEW lost \in BOOLEAN, ReadRequests(a, lost)
      PROVE  CallsInv'
  <2>1. AgentTypeOK /\ QueueInv /\ queue \in Seq(Entries)
    BY DEF AgentInv, AgentTypeOK
  <2>2. PICK n \in 1..Len(queue) : Takes(n, a, lost)
    BY <1>9, <2>1, Taken
  <2> USE DEF Takes
  <2>3. \A i \in 1..n : pc[queue[i]] = "unread"
    BY <2>1, <2>2 DEF QueueInv
  <2>4. CallsInv
    BY DEF AgentInv
  <2>5. calls' = calls /\ strays' = strays
    BY <2>2
  <2>6. \A e \in Entries : \/ pc'[e] = pc[e]
                           \/ pc[e] = "unread" /\ pc'[e] \in {"lost", "loading"}
    BY <2>2, <2>3
  <2>7. calls \in [Entries -> Nat] /\ MaxCalls \in Nat \ {0}
    BY <2>1 DEF AgentTypeOK, AgentAssumption
  <2> HIDE DEF Takes
  <2> QED
    BY <2>4, <2>5, <2>6, <2>7 DEF CallsInv
<1>10. ASSUME NEW e \in Entries, NEW fit \in BOOLEAN, Load(e, fit)
      PROVE  CallsInv'
  BY <1>10, EntryFacts DEF Load, At, GoTo, AgentInv, AgentTypeOK, QueueInv, CallsInv,
     Answers, InFlight, crewVars, redisVars, replicaVars
<1>11. ASSUME NEW e \in Entries, NEW blip \in BOOLEAN, Check(e, blip)
      PROVE  CallsInv'
  BY <1>11, EntryFacts DEF Check, At, GoTo, Withdrawn, AgentInv, AgentTypeOK, QueueInv,
     CallsInv, Answers, InFlight, Possibly, Failure, crewVars, redisVars, replicaVars
<1>12. ASSUME NEW e \in Entries, NEW next \in {"reporting"} \cup Answers, Call(e, next)
      PROVE  CallsInv'
  BY <1>12, EntryFacts DEF Call, At, GoTo, AgentInv, AgentTypeOK, QueueInv, CallsInv,
     Answers, InFlight, crewVars, redisVars, replicaVars
<1>13. ASSUME NEW e \in Entries, NEW fails \in BOOLEAN, Report(e, fails)
      PROVE  CallsInv'
  BY <1>13, EntryFacts DEF Report, At, GoTo, Publish, AgentInv, AgentTypeOK, QueueInv,
     CallsInv, Answers, InFlight, Possibly, Failure, crewVars, replicaVars
<1>14. ASSUME NEW e \in Entries, NEW fails \in BOOLEAN, Answer(e, fails)
      PROVE  CallsInv'
  BY <1>14, EntryFacts DEF Answer, At, GoTo, Publish, AgentInv, AgentTypeOK, QueueInv,
     CallsInv, Answers, InFlight, Possibly, Failure, crewVars, replicaVars
<1>15. ASSUME NEW e \in Entries, NEW fails \in BOOLEAN, Ack(e, fails)
      PROVE  CallsInv'
  BY <1>15, EntryFacts DEF Ack, At, GoTo, AgentInv, AgentTypeOK, QueueInv, CallsInv,
     Answers, InFlight, Possibly, Failure, crewVars, replicaVars
<1>16. ASSUME NEW a \in Agents, AgentDies(a)
      PROVE  CallsInv'
  BY <1>16 DEF AgentDies, RunsOf, AgentInv, AgentTypeOK, QueueInv, CallsInv, Answers,
     InFlight, Failure, crewVars, redisVars
<1>17. ASSUME NEW a \in Agents, AgentStops(a)
      PROVE  CallsInv'
  BY <1>17 DEF AgentStops, AgentInv, AgentTypeOK, QueueInv, CallsInv, Answers, InFlight,
     Failure, crewVars, redisVars, runVars
<1>18. CASE UNCHANGED agentVars
  BY <1>18 DEF agentVars, AgentInv, AgentTypeOK, QueueInv, CallsInv, Answers, InFlight,
     crewVars, redisVars, runVars, replicaVars
<1> QED
  BY Zenon, AgentActions, <1>1, <1>2, <1>3, <1>4, <1>5, <1>6, <1>7, <1>8, <1>9, <1>10,
     <1>11, <1>12, <1>13, <1>14, <1>15, <1>16, <1>17, <1>18

\* Every step keeps StraysInv.
LEMMA StraysStep ==
    ASSUME AgentAssumption, AgentInv, [AgentNext]_agentVars
    PROVE  StraysInv'
<1>1. ASSUME NEW r \in Requests, NEW raises \in BOOLEAN, StoreRequest(r, raises)
      PROVE  StraysInv'
  BY <1>1 DEF StoreRequest, GoOn, End, AgentInv, AgentTypeOK, QueueInv, CallsInv,
     StraysInv, Allowed, Queued, Answers, InFlight, Possibly, Failure, runVars, replicaVars
<1>2. ASSUME NEW r \in Requests, NEW n \in 0..2, NEW raises \in BOOLEAN, Dispatch(r, n, raises)
      PROVE  StraysInv'
  BY <1>2 DEF Dispatch, GoOn, End, AgentInv, AgentTypeOK, QueueInv, CallsInv, StraysInv,
     Allowed, Queued, Answers, InFlight, Possibly, Failure, runVars, replicaVars
<1>3. ASSUME NEW r \in Requests, NEW raises \in BOOLEAN, StopWaiting(r, raises)
      PROVE  StraysInv'
  BY <1>3 DEF StopWaiting, GoOn, AgentInv, AgentTypeOK, QueueInv, CallsInv, StraysInv,
     Allowed, Queued, Answers, InFlight, Possibly, Failure, redisVars, runVars, replicaVars
<1>4. ASSUME NEW r \in Requests, ReadResults(r)
      PROVE  StraysInv'
  BY <1>4 DEF ReadResults, New, AgentInv, AgentTypeOK, QueueInv, CallsInv, StraysInv,
     Allowed, Queued, Answers, InFlight, redisVars, runVars, replicaVars
<1>5. ASSUME NEW r \in Requests, NEW raises \in BOOLEAN, Leave(r, raises)
      PROVE  StraysInv'
  BY <1>5 DEF Leave, End, AgentInv, AgentTypeOK, QueueInv, CallsInv, StraysInv, Allowed,
     Queued, Answers, InFlight, Possibly, Failure, runVars, replicaVars
<1>6. ASSUME NEW r \in Requests, KeyExpires(r)
      PROVE  StraysInv'
  BY <1>6 DEF KeyExpires, NobodyWaits, AgentInv, AgentTypeOK, QueueInv, CallsInv,
     StraysInv, Allowed, Queued, Answers, InFlight, crewVars, runVars, replicaVars
<1>7. ASSUME NEW r \in Requests, ResultsExpire(r)
      PROVE  StraysInv'
  BY <1>7 DEF ResultsExpire, NobodyWaits, AgentInv, AgentTypeOK, QueueInv, CallsInv,
     StraysInv, Allowed, Queued, Answers, InFlight, crewVars, runVars, replicaVars
<1>8. CASE CrewDies
  BY <1>8 DEF CrewDies, AgentInv, AgentTypeOK, QueueInv, CallsInv, StraysInv, Allowed,
     Queued, Answers, InFlight, Failure, redisVars, runVars, replicaVars
<1>9. ASSUME NEW a \in Agents, NEW lost \in BOOLEAN, ReadRequests(a, lost)
      PROVE  StraysInv'
  <2>1. AgentTypeOK /\ QueueInv /\ queue \in Seq(Entries)
    BY DEF AgentInv, AgentTypeOK
  <2>2. PICK n \in 1..Len(queue) : Takes(n, a, lost)
    BY <1>9, <2>1, Taken
  <2> USE DEF Takes
  <2>3. strays' = strays /\ key' = key
    BY <2>2
  <2>4. \A e \in Entries : pc'[e] = "calling" => pc[e] = "calling"
    BY <2>2
  <2>5. harmed \subseteq harmed' /\ failures <= failures' /\ failures' \in Nat /\ failures \in Nat
    <3> DEFINE R == {RequestOf(e) : e \in {queue[i] : i \in 1..n}}
    <3>1. R \in SUBSET Requests /\ Possibly(lost, R)
      BY <2>2, EntryFacts
    <3> HIDE DEF R
    <3> QED
      BY <2>1, <3>1, PossiblyType DEF AgentTypeOK
  <2>6. StraysInv
    BY DEF AgentInv
  <2> QED
    BY <2>1, <2>3, <2>4, <2>5, <2>6 DEF StraysInv, Allowed, AgentTypeOK
<1>10. ASSUME NEW e \in Entries, NEW fit \in BOOLEAN, Load(e, fit)
      PROVE  StraysInv'
  BY <1>10, EntryFacts DEF Load, At, GoTo, AgentInv, AgentTypeOK, QueueInv, CallsInv,
     StraysInv, Allowed, Queued, Answers, InFlight, crewVars, redisVars, replicaVars
<1>11. ASSUME NEW e \in Entries, NEW blip \in BOOLEAN, Check(e, blip)
      PROVE  StraysInv'
  BY <1>11, EntryFacts DEF Check, At, GoTo, Withdrawn, AgentInv, AgentTypeOK, QueueInv,
     CallsInv, StraysInv, Allowed, Queued, Answers, InFlight, Possibly, Failure, crewVars,
     redisVars, replicaVars
<1>12. ASSUME NEW e \in Entries, NEW next \in {"reporting"} \cup Answers, Call(e, next)
      PROVE  StraysInv'
  BY <1>12, EntryFacts DEF Call, At, GoTo, AgentInv, AgentTypeOK, QueueInv, CallsInv,
     StraysInv, Allowed, Queued, Answers, InFlight, crewVars, redisVars, replicaVars
<1>13. ASSUME NEW e \in Entries, NEW fails \in BOOLEAN, Report(e, fails)
      PROVE  StraysInv'
  BY <1>13, EntryFacts DEF Report, At, GoTo, Publish, AgentInv, AgentTypeOK, QueueInv,
     CallsInv, StraysInv, Allowed, Queued, Answers, InFlight, Possibly, Failure, crewVars,
     replicaVars
<1>14. ASSUME NEW e \in Entries, NEW fails \in BOOLEAN, Answer(e, fails)
      PROVE  StraysInv'
  BY <1>14, EntryFacts DEF Answer, At, GoTo, Publish, AgentInv, AgentTypeOK, QueueInv,
     CallsInv, StraysInv, Allowed, Queued, Answers, InFlight, Possibly, Failure, crewVars,
     replicaVars
<1>15. ASSUME NEW e \in Entries, NEW fails \in BOOLEAN, Ack(e, fails)
      PROVE  StraysInv'
  BY <1>15, EntryFacts DEF Ack, At, GoTo, AgentInv, AgentTypeOK, QueueInv, CallsInv,
     StraysInv, Allowed, Queued, Answers, InFlight, Possibly, Failure, crewVars, replicaVars
<1>16. ASSUME NEW a \in Agents, AgentDies(a)
      PROVE  StraysInv'
  BY <1>16 DEF AgentDies, RunsOf, AgentInv, AgentTypeOK, QueueInv, CallsInv, StraysInv,
     Allowed, Queued, Answers, InFlight, Failure, crewVars, redisVars
<1>17. ASSUME NEW a \in Agents, AgentStops(a)
      PROVE  StraysInv'
  BY <1>17 DEF AgentStops, AgentInv, AgentTypeOK, QueueInv, CallsInv, StraysInv, Allowed,
     Queued, Answers, InFlight, Failure, crewVars, redisVars, runVars
<1>18. CASE UNCHANGED agentVars
  BY <1>18 DEF agentVars, AgentInv, AgentTypeOK, QueueInv, CallsInv, StraysInv, Allowed,
     Queued, Answers, InFlight, crewVars, redisVars, runVars, replicaVars
<1> QED
  BY Zenon, AgentActions, <1>1, <1>2, <1>3, <1>4, <1>5, <1>6, <1>7, <1>8, <1>9, <1>10,
     <1>11, <1>12, <1>13, <1>14, <1>15, <1>16, <1>17, <1>18

\* Every step keeps KeptInv.
LEMMA KeptStep ==
    ASSUME AgentAssumption, AgentInv, [AgentNext]_agentVars
    PROVE  KeptInv'
<1>1. ASSUME NEW r \in Requests, NEW raises \in BOOLEAN, StoreRequest(r, raises)
      PROVE  KeptInv'
  <2>1. AgentTypeOK /\ KeptInv
    BY DEF AgentInv
  <2>2. /\ (End(r) \/ GoOn(r, "stored"))
        /\ waiter[r] = "idle" /\ Possibly(raises, {r}) /\ {r} \in SUBSET Requests
        /\ key' = key \cup {r}
        /\ UNCHANGED <<queue, owner, results, expiring, runVars, replicaVars>>
    BY <1>1 DEF StoreRequest
  <2>3. harmed \subseteq harmed' /\ (raises => r \in harmed')
    BY <2>1, <2>2, PossiblyType
  <2>4. /\ \A q \in Requests \ {r} : waiter'[q] = waiter[q]
        /\ (waiter'[r] = "done" \/ waiter'[r] = "stored")
    BY <2>1, <2>2, CrewMoves
  <2> QED
    BY <2>1, <2>2, <2>3, <2>4 DEF KeptInv, Queued, Answered, redisVars, runVars, replicaVars
<1>2. ASSUME NEW r \in Requests, NEW n \in 0..2, NEW raises \in BOOLEAN, Dispatch(r, n, raises)
      PROVE  KeptInv'
  <2>1. AgentTypeOK /\ KeptInv
    BY DEF AgentInv
  <2>2. /\ (End(r) \/ GoOn(r, "waiting"))
        /\ waiter[r] = "stored" /\ Possibly(raises \/ n # 1, {r}) /\ {r} \in SUBSET Requests
        /\ queue' = queue \o [i \in 1..n |-> <<r, i>>]
        /\ UNCHANGED <<key, owner, results, expiring, runVars, replicaVars>>
    BY <1>2 DEF Dispatch
  <2>3. harmed \subseteq harmed' /\ (n = 1 \/ r \in harmed')
    BY <2>1, <2>2, PossiblyType
  <2>4. /\ \A q \in Requests \ {r} : waiter'[q] = waiter[q]
        /\ (waiter'[r] = "done" \/ waiter'[r] = "waiting")
    BY <2>1, <2>2, CrewMoves
  <2>5. /\ \A i \in 1..Len(queue) : queue'[i] = queue[i] /\ i \in 1..Len(queue')
        /\ \A i \in 1..n : queue'[Len(queue) + i] = <<r, i>> /\ Len(queue) + i \in 1..Len(queue')
    <3>1. queue \in Seq(Entries) /\ queue' = queue \o [i \in 1..n |-> <<r, i>>]
      BY <2>1, <2>2 DEF AgentTypeOK
    <3>2. Len(queue') = Len(queue) + n
      BY <3>1, QueueMore
    <3>3. /\ \A i \in 1..Len(queue) : queue'[i] = queue[i]
          /\ \A i \in 1..n : queue'[Len(queue) + i] = <<r, i>>
      BY <3>1, QueueMore
    <3> QED
      BY <3>1, <3>2, <3>3
  <2>6. n = 1 => Queued(<<r, 1>>)'
    BY <2>5 DEF Queued
  <2>7. \A e \in Entries : Queued(e) => Queued(e)'
    BY <2>5 DEF Queued
  <2> QED
    BY <2>1, <2>2, <2>3, <2>4, <2>6, <2>7, EntryFacts DEF KeptInv, Queued, Answered,
       redisVars, runVars, replicaVars
<1>3. ASSUME NEW r \in Requests, NEW raises \in BOOLEAN, StopWaiting(r, raises)
      PROVE  KeptInv'
  <2>1. AgentTypeOK /\ KeptInv
    BY DEF AgentInv
  <2>2. /\ (End(r) \/ GoOn(r, "leaving"))
        /\ Possibly(raises, {r}) /\ {r} \in SUBSET Requests
        /\ UNCHANGED <<redisVars, runVars, replicaVars>>
    BY <1>3 DEF StopWaiting
  <2>3. harmed \subseteq harmed' /\ (raises => r \in harmed')
    BY <2>1, <2>2, PossiblyType
  <2>4. /\ \A q \in Requests \ {r} : waiter'[q] = waiter[q]
        /\ (waiter'[r] = "done" \/ waiter'[r] = "leaving")
    BY <2>1, <2>2, CrewMoves
  <2> QED
    BY <2>1, <2>2, <2>3, <2>4 DEF KeptInv, Queued, Answered, redisVars, runVars, replicaVars
<1>4. ASSUME NEW r \in Requests, ReadResults(r)
      PROVE  KeptInv'
  <2>1. AgentTypeOK /\ KeptInv
    BY DEF AgentInv
  <2>2. UNCHANGED waiter \/ waiter' = [waiter EXCEPT ![r] = "leaving"]
    BY <1>4, Zenon DEF ReadResults
  <2>3. UNCHANGED <<redisVars, runVars, replicaVars, failures, harmed>>
    BY <1>4 DEF ReadResults
  <2>4. \A q \in Requests : waiter'[q] \in {"stored", "waiting"} => waiter'[q] = waiter[q]
    BY <2>1, <2>2 DEF AgentTypeOK
  <2> QED
    BY <2>1, <2>3, <2>4 DEF KeptInv, Queued, Answered, redisVars, runVars, replicaVars
<1>5. ASSUME NEW r \in Requests, NEW raises \in BOOLEAN, Leave(r, raises)
      PROVE  KeptInv'
  <2>1. AgentTypeOK /\ KeptInv
    BY DEF AgentInv
  <2>2. /\ (End(r) \/ GoOn(r, "leaving"))
        /\ End(r) /\ Possibly(raises, {r}) /\ {r} \in SUBSET Requests
        /\ \/ UNCHANGED <<key, results, expiring>>
           \/ /\ key' = key \ {r}
              /\ results' = [results EXCEPT ![r] = <<>>]
              /\ expiring' = expiring \ {r}
        /\ UNCHANGED <<queue, owner, runVars, replicaVars>>
    BY <1>5 DEF Leave
  <2>3. harmed \subseteq harmed' /\ (raises => r \in harmed')
    BY <2>1, <2>2, PossiblyType
  <2>4. /\ \A q \in Requests \ {r} : waiter'[q] = waiter[q]
        /\ waiter'[r] \in {"done", "leaving"}
    BY <2>1, <2>2, CrewMoves
  <2>5. \A q \in Requests \ {r} : results'[q] = results[q] /\ (q \in key => q \in key')
    <3>1. CASE UNCHANGED <<key, results, expiring>>
      BY <3>1
    <3>2. CASE key' = key \ {r} /\ results' = [results EXCEPT ![r] = <<>>]
      BY <2>1, <3>2 DEF AgentTypeOK
    <3> QED
      BY <2>2, <3>1, <3>2
  <2> QED
    BY <2>1, <2>2, <2>3, <2>4, <2>5 DEF KeptInv, Queued, Answered, redisVars, runVars,
       replicaVars
<1>6. ASSUME NEW r \in Requests, KeyExpires(r)
      PROVE  KeptInv'
  BY <1>6 DEF KeyExpires, NobodyWaits, AgentInv, AgentTypeOK, QueueInv, KeptInv, Queued,
     Answered, Answers, InFlight, crewVars, runVars, replicaVars
<1>7. ASSUME NEW r \in Requests, ResultsExpire(r)
      PROVE  KeptInv'
  BY <1>7 DEF ResultsExpire, NobodyWaits, AgentInv, AgentTypeOK, QueueInv, KeptInv, Queued,
     Answered, Answers, InFlight, crewVars, runVars, replicaVars
<1>8. CASE CrewDies
  BY <1>8 DEF CrewDies, AgentInv, AgentTypeOK, QueueInv, KeptInv, Queued, Answered,
     Answers, InFlight, Failure, redisVars, runVars, replicaVars
<1>9. ASSUME NEW a \in Agents, NEW lost \in BOOLEAN, ReadRequests(a, lost)
      PROVE  KeptInv'
  <2>1. AgentTypeOK /\ QueueInv /\ queue \in Seq(Entries)
    BY DEF AgentInv, AgentTypeOK
  <2>2. PICK n \in 1..Len(queue) : Takes(n, a, lost)
    BY <1>9, <2>1, Taken
  <2> USE DEF Takes
  <2> DEFINE read == {queue[i] : i \in 1..n}
  <2>3. UNCHANGED <<waiter, key, results, up>>
    BY <2>2 DEF crewVars, replicaVars
  <2>4. harmed \subseteq harmed' /\ (lost => \A e \in read : RequestOf(e) \in harmed')
    <3> DEFINE R == {RequestOf(e) : e \in read}
    <3>1. R \in SUBSET Requests /\ Possibly(lost, R)
      BY <2>2, EntryFacts
    <3>2. \A e \in read : RequestOf(e) \in R
      OBVIOUS
    <3> HIDE DEF R
    <3>3. harmed \subseteq harmed' /\ (lost => R \subseteq harmed')
      BY <2>1, <3>1, PossiblyType
    <3> QED
      BY <3>2, <3>3
  <2>5. ASSUME NEW e \in Entries, Queued(e), e \notin read
        PROVE  Queued(e)'
    <3>1. PICK i \in 1..Len(queue) : queue[i] = e
      BY <2>5 DEF Queued
    <3>2. i \notin 1..n /\ i - n \in 1..Len(queue') /\ n + (i - n) = i
      BY <2>1, <2>2, <2>5, <3>1
    <3> QED
      BY <2>2, <3>1, <3>2 DEF Queued
  <2>6. \A e \in read : pc[e] = "unread"
    BY <2>1 DEF QueueInv
  <2>7. \A e \in Entries :
           /\ e \in read => owner'[e] = a /\ (~lost => pc'[e] = "loading")
           /\ e \notin read => owner'[e] = owner[e] /\ pc'[e] = pc[e]
    BY <2>2
  <2>8. a \in up /\ KeptInv
    BY <2>2 DEF AgentInv
  <2> HIDE DEF Takes, read
  <2>9. ASSUME NEW r \in Requests \ harmed', waiter[r] = "waiting", ~Answered(r)
        PROVE  \/ Queued(<<r, 1>>)'
               \/ pc'[<<r, 1>>] \in InFlight \ {"acking"} /\ owner'[<<r, 1>>] \in up
    <3>1. <<r, 1>> \in Entries /\ RequestOf(<<r, 1>>) = r /\ r \notin harmed
      BY <2>4, <2>9, EntryFacts
    <3>2. CASE <<r, 1>> \in read
      <4>1. ~lost
        BY <2>4, <3>1, <3>2
      <4>2. pc'[<<r, 1>>] = "loading" /\ owner'[<<r, 1>>] = a
        BY <2>7, <3>1, <3>2, <4>1
      <4> QED
        BY <2>8, <4>2 DEF InFlight
    <3>3. CASE <<r, 1>> \notin read
      BY <2>5, <2>7, <2>8, <2>9, <3>1, <3>3 DEF KeptInv
    <3> QED
      BY <3>2, <3>3
  <2> QED
    BY <2>3, <2>4, <2>8, <2>9 DEF KeptInv, Answered
<1>10. ASSUME NEW e \in Entries, NEW fit \in BOOLEAN, Load(e, fit)
      PROVE  KeptInv'
  BY <1>10, EntryFacts DEF Load, At, GoTo, AgentInv, AgentTypeOK, QueueInv, KeptInv,
     Queued, Answered, Answers, InFlight, crewVars, redisVars, replicaVars
<1>11. ASSUME NEW e \in Entries, NEW blip \in BOOLEAN, Check(e, blip)
      PROVE  KeptInv'
  <2>1. AgentTypeOK /\ KeptInv
    BY DEF AgentInv
  <2>2. /\ pc[e] \in InFlight
        /\ \E to \in InFlight \cup {"over"} : pc' = [pc EXCEPT ![e] = to]
        /\ UNCHANGED <<waiter, key, queue, up>>
    BY <1>11, <2>1, RunMoves
  <2>3. harmed \subseteq harmed' /\ (blip => RequestOf(e) \in harmed')
    <3>1. Possibly(blip, {RequestOf(e)}) /\ {RequestOf(e)} \in SUBSET Requests
      BY <1>11, EntryFacts DEF Check
    <3> QED
      BY <2>1, <3>1, PossiblyType
  <2>4. pc'[e] \in InFlight
    BY <1>11, <2>1 DEF Check, At, GoTo, Withdrawn, AgentTypeOK, InFlight
  <2>5. UNCHANGED <<results, owner>>
    BY <1>11 DEF Check, redisVars
  <2>6. pc'[e] = "acking" => RequestOf(e) \notin key
    BY <1>11, <2>1 DEF Check, At, GoTo, Withdrawn, AgentTypeOK
  <2>7. \A r \in Requests : Answered(r) => Answered(r)'
    BY <2>5 DEF Answered
  <2>8. \A f \in Entries \ {e} : pc'[f] = pc[f]
    BY <2>1, <2>2 DEF AgentTypeOK
  <2> QED
    BY <2>1, <2>2, <2>3, <2>4, <2>5, <2>6, <2>7, <2>8, EntryFacts DEF KeptInv, Queued
<1>12. ASSUME NEW e \in Entries, NEW next \in {"reporting"} \cup Answers, Call(e, next)
      PROVE  KeptInv'
  BY <1>12, EntryFacts DEF Call, At, GoTo, AgentInv, AgentTypeOK, QueueInv, KeptInv,
     Queued, Answered, Answers, InFlight, crewVars, redisVars, replicaVars
<1>13. ASSUME NEW e \in Entries, NEW fails \in BOOLEAN, Report(e, fails)
      PROVE  KeptInv'
  <2>1. AgentTypeOK /\ KeptInv
    BY DEF AgentInv
  <2>2. /\ pc[e] \in InFlight
        /\ \E to \in InFlight \cup {"over"} : pc' = [pc EXCEPT ![e] = to]
        /\ UNCHANGED <<waiter, key, queue, up>>
    BY <1>13, <2>1, RunMoves
  <2>3. harmed \subseteq harmed' /\ (fails => RequestOf(e) \in harmed')
    <3>1. Possibly(fails, {RequestOf(e)}) /\ {RequestOf(e)} \in SUBSET Requests
      BY <1>13, EntryFacts DEF Report
    <3> QED
      BY <2>1, <3>1, PossiblyType
  <2>4. pc'[e] \in InFlight
    BY <1>13, <2>1 DEF Report, At, GoTo, AgentTypeOK, InFlight
  <2>5. UNCHANGED owner /\ (Publish(e, "live") \/ UNCHANGED <<results, expiring>>)
    BY <1>13, Zenon DEF Report
  <2>6. pc'[e] = "running"
    BY <1>13, <2>1 DEF Report, GoTo, AgentTypeOK
  <2>7. \A r \in Requests : Answered(r) => Answered(r)'
    <3>1. \A r \in Requests : /\ Len(results[r]) <= Len(results'[r])
                             /\ \A i \in 1..Len(results[r]) : results'[r][i] = results[r][i]
      BY <2>1, <2>5, Publishes
    <3>2. \A r \in Requests : Len(results[r]) \in Nat /\ Len(results'[r]) \in Nat
      <4>1. results' \in [Requests -> Seq(Answers \cup {"live"})]
        BY <2>1, <2>5, Publishes
      <4> QED
        BY <2>1, <4>1 DEF AgentTypeOK
    <3> QED
      BY <3>1, <3>2 DEF Answered
  <2>8. \A f \in Entries \ {e} : pc'[f] = pc[f]
    BY <2>1, <2>2 DEF AgentTypeOK
  <2> QED
    BY <2>1, <2>2, <2>3, <2>4, <2>5, <2>6, <2>7, <2>8, EntryFacts DEF KeptInv, Queued
<1>14. ASSUME NEW e \in Entries, NEW fails \in BOOLEAN, Answer(e, fails)
      PROVE  KeptInv'
  <2>1. AgentTypeOK /\ KeptInv
    BY DEF AgentInv
  <2>2. /\ pc[e] \in InFlight
        /\ \E to \in InFlight \cup {"over"} : pc' = [pc EXCEPT ![e] = to]
        /\ UNCHANGED <<waiter, key, queue, up>>
    BY <1>14, <2>1, RunMoves
  <2>3. harmed \subseteq harmed' /\ (fails => RequestOf(e) \in harmed')
    <3>1. Possibly(fails, {RequestOf(e)}) /\ {RequestOf(e)} \in SUBSET Requests
      BY <1>14, EntryFacts DEF Answer
    <3> QED
      BY <2>1, <3>1, PossiblyType
  <2>4. pc'[e] \in InFlight
    BY <1>14, <2>1 DEF Answer, At, GoTo, AgentTypeOK, InFlight
  <2>5. PICK type \in Answers :
           /\ Publish(e, type) \/ UNCHANGED <<results, expiring>>
           /\ ~fails => Publish(e, type)
           /\ UNCHANGED owner
    BY <1>14, Zenon DEF Answer
  <2>6. pc'[e] = "acking" => Answered(RequestOf(e))' \/ RequestOf(e) \in harmed'
    BY <2>1, <2>3, <2>5, EntryFacts, Publishes DEF Answered
  <2>7. \A r \in Requests : Answered(r) => Answered(r)'
    <3>1. \A r \in Requests : /\ Len(results[r]) <= Len(results'[r])
                             /\ \A i \in 1..Len(results[r]) : results'[r][i] = results[r][i]
      BY <2>1, <2>5, Publishes
    <3>2. \A r \in Requests : Len(results[r]) \in Nat /\ Len(results'[r]) \in Nat
      <4>1. results' \in [Requests -> Seq(Answers \cup {"live"})]
        BY <2>1, <2>5, Publishes
      <4> QED
        BY <2>1, <4>1 DEF AgentTypeOK
    <3> QED
      BY <3>1, <3>2 DEF Answered
  <2>8. \A f \in Entries \ {e} : pc'[f] = pc[f]
    BY <2>1, <2>2 DEF AgentTypeOK
  <2> QED
    BY <2>1, <2>2, <2>3, <2>4, <2>5, <2>6, <2>7, <2>8, EntryFacts DEF KeptInv, Queued
<1>15. ASSUME NEW e \in Entries, NEW fails \in BOOLEAN, Ack(e, fails)
      PROVE  KeptInv'
  BY <1>15, EntryFacts DEF Ack, At, GoTo, AgentInv, AgentTypeOK, QueueInv, KeptInv, Queued,
     Answered, Answers, InFlight, Possibly, Failure, crewVars, replicaVars
<1>16. ASSUME NEW a \in Agents, AgentDies(a)
      PROVE  KeptInv'
  <2>1. AgentTypeOK /\ KeptInv
    BY DEF AgentInv
  <2>2. /\ harmed' = harmed \cup {RequestOf(e) : e \in RunsOf(a)}
        /\ up' = up \ {a}
        /\ pc' = [e \in Entries |-> IF e \in RunsOf(a) THEN "lost" ELSE pc[e]]
        /\ UNCHANGED <<waiter, key, queue, owner, results>>
    BY <1>16 DEF AgentDies, Failure, crewVars, redisVars
  <2>3. \A e \in Entries : pc[e] \in InFlight /\ RequestOf(e) \notin harmed' =>
           pc'[e] = pc[e] /\ owner[e] # a
    BY <2>2 DEF RunsOf
  <2> QED
    BY <2>1, <2>2, <2>3, EntryFacts DEF KeptInv, Queued, Answered
<1>17. ASSUME NEW a \in Agents, AgentStops(a)
      PROVE  KeptInv'
  BY <1>17 DEF AgentStops, AgentInv, AgentTypeOK, QueueInv, KeptInv, Queued, Answered,
     Answers, InFlight, Failure, crewVars, redisVars, runVars
<1>18. CASE UNCHANGED agentVars
  BY <1>18 DEF agentVars, AgentInv, AgentTypeOK, QueueInv, KeptInv, Queued, Answered,
     Answers, InFlight, crewVars, redisVars, runVars, replicaVars
<1> QED
  BY Zenon, AgentActions, <1>1, <1>2, <1>3, <1>4, <1>5, <1>6, <1>7, <1>8, <1>9, <1>10,
     <1>11, <1>12, <1>13, <1>14, <1>15, <1>16, <1>17, <1>18

-----------------------------------------------------------------------------
(* Theorems *)

LEMMA AgentInvInit ==
    ASSUME AgentAssumption, AgentInit
    PROVE  AgentInv
<1>1. AgentTypeOK
  BY DEF AgentAssumption, AgentInit, AgentTypeOK, Answers, InFlight
<1>2. QueueInv /\ CallsInv /\ StraysInv /\ KeptInv
  BY EntryFacts DEF AgentAssumption, AgentInit, QueueInv, Queued, CallsInv, StraysInv,
     Allowed, KeptInv
<1> QED
  BY <1>1, <1>2 DEF AgentInv

LEMMA AgentInvariance == AgentSpec => []AgentInv
<1>1. AgentInit => AgentInv
  BY AgentAssumption, AgentInvInit
<1>2. AgentInv /\ [AgentNext]_agentVars => AgentInv'
  BY AgentAssumption, TypeStep, QueueStep, CallsStep, StraysStep, KeptStep,
     Zenon DEF AgentInv
<1> QED
  BY <1>1, <1>2, PTL DEF AgentSpec

\* The variables have their types, whatever fails (agent_task_service.py:113-217).
THEOREM AgentTypeCorrect == AgentSpec => []AgentTypeOK
<1>1. AgentInv => AgentTypeOK
  BY DEF AgentInv
<1> QED
  BY <1>1, AgentInvariance, PTL

\* For any number of replicas and slots: a request no failure hit is in the stream, in
\* a live replica's hands, or answered, as long as crew waits (main.py:98-140).
THEOREM NothingIsLost == AgentSpec => []NothingLost
<1>1. AgentInv => NothingLost
  BY EntryFacts DEF AgentInv, KeptInv, NothingLost, EntriesOf
<1> QED
  BY <1>1, AgentInvariance, PTL

\* However long a run is, it makes at most one call after crew has withdrawn it, and
\* one for each check that failed (agent_loop.py:73-75).
THEOREM WithdrawnRunsStop == AgentSpec => []WithdrawnStops
<1>1. AgentInv => WithdrawnStops
  BY DEF AgentInv, AgentTypeOK, StraysInv, Allowed, WithdrawnStops
<1> QED
  BY <1>1, AgentInvariance, PTL
=============================================================================
