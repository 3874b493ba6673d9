------------------------- MODULE CrewSessionsProofs -------------------------
(* Theorems about CrewSessions, for any sessions, slots and bounds. *)
EXTENDS CrewSessions, FiniteSetTheorems, TLAPS

-----------------------------------------------------------------------------
(* Type correctness *)

\* The initial state has every variable in its type.
LEMMA CrewInitType == CrewInit => CrewTypeOK
BY CrewAssumption DEF CrewInit, CrewTypeOK, PC, Live, Running, Terminal, Status

\* Every handler, worker and coroutine step keeps every variable in its type.
LEMMA CrewStepType == CrewTypeOK /\ [CrewNext]_crewVars => CrewTypeOK'
<1> SUFFICES ASSUME CrewTypeOK, [CrewNext]_crewVars
             PROVE  CrewTypeOK'
  OBVIOUS
<1> USE CrewAssumption DEF CrewTypeOK, PC, Live, Running, Terminal, Status
<1>1. ASSUME NEW s \in Sessions, HandleStart(s)
      PROVE  CrewTypeOK'
  BY <1>1 DEF HandleStart, GoTo
<1>2. CASE WorkerDequeue
  <2>1. Head(queue) \in Sessions /\ Tail(queue) \in Seq(Sessions)
    BY <1>2 DEF WorkerDequeue
  <2>2. CASE Head(queue) \in pool
    <3>1. Append(waiting, Head(queue)) \in Seq(Sessions)
      BY <2>1
    <3> QED
      BY <1>2, <2>1, <2>2, <3>1 DEF WorkerDequeue
  <2>3. CASE Head(queue) \notin pool
    BY <1>2, <2>1, <2>3 DEF WorkerDequeue
  <2> QED
    BY <2>2, <2>3
<1>3. ASSUME NEW s \in Sessions, HandleStop(s)
      PROVE  CrewTypeOK'
  BY <1>3 DEF HandleStop
<1>4. CASE HandlerStep
  <2>1. CASE StopPublished
    BY <2>1 DEF StopPublished, SignalStop
  <2>2. CASE StopPublishFails
    BY <2>2 DEF StopPublishFails, Fault
  <2>3. CASE ExpiredPublished
    BY <2>3 DEF ExpiredPublished, Publish
  <2>4. CASE ExpiredPublishFails
    BY <2>4 DEF ExpiredPublishFails, Fault
  <2>5. CASE PublishStop
    BY <2>5 DEF PublishStop, Publish
  <2> QED
    BY <1>4, <2>1, <2>2, <2>3, <2>4, <2>5 DEF HandlerStep
<1>5. ASSUME NEW s \in Sessions, HandleTimeout(s)
      PROVE  CrewTypeOK'
  BY <1>5 DEF HandleTimeout, SignalStop
<1>6. CASE AcquireSlot
  <2>1. Head(waiting) \in Sessions /\ Tail(waiting) \in Seq(Sessions)
    BY <1>6 DEF AcquireSlot
  <2>2. slots > 0 /\ slots - 1 \in Nat
    BY <1>6 DEF AcquireSlot, SlotFree
  <2>3. CASE stopSet[Head(waiting)]
    BY <1>6, <2>1, <2>3 DEF AcquireSlot
  <2>4. CASE ~stopSet[Head(waiting)]
    BY <1>6, <2>1, <2>2, <2>4 DEF AcquireSlot
  <2> QED
    BY <2>3, <2>4
<1>7. ASSUME NEW s \in Sessions, RunStep(s)
      PROVE  CrewTypeOK'
  <2> USE DEF RunVarsUnchanged, GoTo, Publish, Raise, Fault
  <2>1. CASE PublishRun(s)
    BY <2>1 DEF PublishRun
  <2>2. ASSUME NEW over \in BOOLEAN, StreamChunk(s, over)
        PROVE  CrewTypeOK'
    BY <2>2 DEF StreamChunk
  <2>3. CASE AddChunk(s)
    BY <2>3 DEF AddChunk, CheckStop
  <2>4. CASE ObserveStop(s)
    BY <2>4 DEF ObserveStop, CheckStop
  <2>5. CASE GraphFails(s)
    BY <2>5 DEF GraphFails
  <2>6. CASE GraphEnds(s)
    BY <2>6 DEF GraphEnds
  <2>7. CASE AddGraphEnd(s)
    BY <2>7 DEF AddGraphEnd
  <2>8. CASE StoreFinalVariables(s)
    <3>1. faults' \in Nat /\ finalVars' \in [Sessions -> BOOLEAN]
      <4>1. CASE finalVars' = [finalVars EXCEPT ![s] = TRUE] /\ UNCHANGED faults
        BY <4>1
      <4>2. CASE Fault /\ UNCHANGED finalVars
        BY <4>2
      <4> QED
        BY <2>8, <4>1, <4>2, Zenon DEF StoreFinalVariables
    <3>2. /\ pc' \in [Sessions -> PC]
          /\ RunVarsUnchanged
          /\ UNCHANGED <<slots, stopSet, outcome, overBudget, chunks, lastPub>>
      BY <2>8 DEF StoreFinalVariables
    <3> QED
      BY <3>1, <3>2
  <2>9. CASE PublishEnd(s)
    BY <2>9 DEF PublishEnd
  <2>10. CASE ClearOutputs(s)
    BY <2>10 DEF ClearOutputs, ReleaseSlot
  <2>11. CASE RunCommandFails(s)
    BY <2>11 DEF RunCommandFails
  <2>12. CASE Report(s)
    <3>1. lastPub' \in [Sessions -> Status \cup {"none"}] /\ faults' \in Nat
      <4>1. CASE Announce(s) /\ UNCHANGED <<unsaid, faults>>
        BY <4>1 DEF Announce
      <4>2. CASE Fault /\ UNCHANGED lastPub
        BY <4>2
      <4> QED
        BY <2>12, <4>1, <4>2 DEF Report
    <3>2. pc' \in [Sessions -> PC] /\ slots' \in Nat
      BY <2>12 DEF Report, ReleaseSlot
    <3> QED
      BY <2>12, <3>1, <3>2 DEF Report
  <2>13. CASE RemoveTaskFromPool(s)
    BY <2>13 DEF RemoveTaskFromPool
  <2> QED
    BY <1>7, <2>1, <2>2, <2>3, <2>4, <2>5, <2>6, <2>7, <2>8, <2>9, <2>10,
       <2>11, <2>12, <2>13 DEF RunStep
<1>8. CASE Restart
  BY <1>8 DEF Restart
<1>9. CASE UNCHANGED crewVars
  BY <1>9 DEF crewVars
<1> QED
  BY <1>1, <1>2, <1>3, <1>4, <1>5, <1>6, <1>7, <1>8, <1>9
  DEF CrewNext, CrewStep, Messages

\* The types hold in every reachable state.
THEOREM CrewTypeCorrect == CrewSpec => []CrewTypeOK
BY CrewInitType, CrewStepType, PTL DEF CrewSpec

-----------------------------------------------------------------------------
(* What one step of a coroutine touches *)

\* A step of session s's coroutine moves s among the states that hold a slot,
\* or out of them, and leaves every other session and both queues alone.
LEMMA RunStepFrame ==
    ASSUME CrewTypeOK, NEW s \in Sessions, RunStep(s)
    PROVE  /\ pc[s] \in Running \cup {"finished"}
           /\ pc'[s] \in IF pc[s] = "finished" THEN {"done"} ELSE Running \cup {"finished"}
           /\ \A t \in Sessions \ {s} :
                /\ pc'[t] = pc[t]
                /\ stopSet'[t] = stopSet[t]
                /\ overBudget'[t] = overBudget[t]
                /\ lastPub'[t] = lastPub[t]
                /\ outcome'[t] = outcome[t]
           /\ stopSet[s] => stopSet'[s]
           /\ pool' = IF pc[s] = "finished" THEN pool \ {s} ELSE pool
           /\ UNCHANGED <<queue, waiting, expiring, stopping, stopSent, restarts>>
           /\ unsaid \subseteq unsaid'
           /\ faults' \in {faults, faults + 1}
<1> USE DEF CrewTypeOK, PC, Live, Running, Terminal, Status,
        RunVarsUnchanged, GoTo, Publish, Raise, Fault
<1>1. CASE PublishRun(s)
  BY <1>1 DEF PublishRun
<1>2. ASSUME NEW over \in BOOLEAN, StreamChunk(s, over)
      PROVE  StreamChunk(s, over) /\ pc[s] = "streaming" /\ pc' = [pc EXCEPT ![s] = "adding"]
  BY <1>2 DEF StreamChunk
<1>3. CASE AddChunk(s)
  BY <1>3 DEF AddChunk, CheckStop
<1>4. CASE ObserveStop(s)
  BY <1>4 DEF ObserveStop, CheckStop
<1>5. CASE GraphFails(s)
  BY <1>5 DEF GraphFails
<1>6. CASE GraphEnds(s)
  BY <1>6 DEF GraphEnds
<1>7. CASE AddGraphEnd(s)
  BY <1>7 DEF AddGraphEnd
<1>8. CASE StoreFinalVariables(s)
  BY <1>8 DEF StoreFinalVariables
<1>9. CASE PublishEnd(s)
  BY <1>9 DEF PublishEnd
<1>10. CASE ClearOutputs(s)
  BY <1>10 DEF ClearOutputs
<1>11. CASE RunCommandFails(s)
  BY <1>11 DEF RunCommandFails
<1>12. CASE Report(s)
  BY <1>12 DEF Report, Announce
<1>13. CASE RemoveTaskFromPool(s)
  BY <1>13 DEF RemoveTaskFromPool
<1>14. CASE \E over \in BOOLEAN : StreamChunk(s, over)
  BY <1>14, <1>2 DEF StreamChunk
<1> QED
  BY <1>1, <1>3, <1>4, <1>5, <1>6, <1>7, <1>8, <1>9, <1>10, <1>11, <1>12,
     <1>13, <1>14 DEF RunStep

\* A handler's step on a session it is publishing for moves no coroutine.
LEMMA HandlerStepFrame ==
    ASSUME CrewTypeOK, HandlerStep
    PROVE  /\ UNCHANGED <<pc, queue, waiting, slots, overBudget, outcome, restarts>>
           /\ \A s \in Sessions :
                /\ s \in pool /\ s \notin pool' => stopSet'[s]
                /\ stopSet[s] => stopSet'[s]
                /\ stopSet'[s] => stopSet[s] \/ s \in pool
           /\ pool' \subseteq pool
           /\ stopping' \in {stopping, NoSession}
           /\ stopSent' \in {stopSent, stopping, NoSession}
           /\ faults' \in {faults, faults + 1}
<1> USE DEF CrewTypeOK, Fault
<1>1. CASE StopPublished
  BY <1>1 DEF StopPublished, SignalStop
<1>2. CASE StopPublishFails
  BY <1>2 DEF StopPublishFails
<1>3. CASE ExpiredPublished
  BY <1>3 DEF ExpiredPublished
<1>4. CASE ExpiredPublishFails
  BY <1>4 DEF ExpiredPublishFails
<1>5. CASE PublishStop
  BY <1>5 DEF PublishStop
<1> QED
  BY <1>1, <1>2, <1>3, <1>4, <1>5 DEF HandlerStep

-----------------------------------------------------------------------------
(* The queues *)

\* A session that was elsewhere joins a queue when it is moved to its point.
LEMMA HeldOnceAppend ==
    ASSUME NEW S, NEW q \in Seq(S), NEW s \in S, NEW f, NEW g, NEW v,
           HeldOnce(q, f, v), f[s] # v, g[s] = v, \A t \in S \ {s} : g[t] = f[t]
    PROVE  HeldOnce(Append(q, s), g, v)
<1> DEFINE r == Append(q, s)
<1>1. /\ Len(r) = Len(q) + 1
      /\ r[Len(q) + 1] = s
      /\ \A i \in 1..Len(q) : r[i] = q[i] /\ q[i] \in S
  OBVIOUS
<1>2. \A i \in 1..Len(q) : r[i] # s /\ g[r[i]] = v
  BY <1>1 DEF HeldOnce
<1>3. \A i \in 1..Len(r) : i \in 1..Len(q) \/ i = Len(q) + 1
  BY <1>1
<1> HIDE DEF r
<1>4. \A i \in 1..Len(r) : g[r[i]] = v
  BY <1>1, <1>2, <1>3
<1>5. ASSUME NEW i \in 1..Len(r), NEW j \in 1..Len(r), r[i] = r[j]
      PROVE  i = j
  <2>1. CASE i \in 1..Len(q) /\ j \in 1..Len(q)
    BY <1>1, <1>5, <2>1 DEF HeldOnce
  <2>2. CASE i = Len(q) + 1 \/ j = Len(q) + 1
    BY <1>1, <1>2, <1>3, <1>5, <2>2
  <2> QED
    BY <1>3, <2>1, <2>2
<1> QED
  BY <1>4, <1>5 DEF HeldOnce, r

\* The head of a queue can be taken and moved: the rest stays where it was.
LEMMA HeldOnceTail ==
    ASSUME NEW S, NEW q \in Seq(S), q # <<>>, NEW f, NEW g, NEW v,
           HeldOnce(q, f, v), \A t \in S \ {Head(q)} : g[t] = f[t]
    PROVE  f[Head(q)] = v /\ HeldOnce(Tail(q), g, v)
<1> DEFINE r == Tail(q)
<1>1. /\ Len(r) = Len(q) - 1
      /\ 1 \in 1..Len(q) /\ Head(q) = q[1]
      /\ \A i \in 1..Len(r) : r[i] = q[i + 1] /\ i + 1 \in 1..Len(q)
      /\ \A i \in 1..Len(q) : q[i] \in S
  OBVIOUS
<1> HIDE DEF r
<1>2. \A i \in 1..Len(r) : r[i] # Head(q)
  BY <1>1 DEF HeldOnce
<1>3. \A i \in 1..Len(r) : g[r[i]] = v
  BY <1>1, <1>2 DEF HeldOnce
<1>4. \A i, j \in 1..Len(r) : r[i] = r[j] => i = j
  <2> TAKE i \in 1..Len(r), j \in 1..Len(r)
  <2> HAVE r[i] = r[j]
  <2>1. i + 1 = j + 1
    BY <1>1 DEF HeldOnce
  <2> QED
    BY <2>1
<1>5. f[Head(q)] = v
  BY <1>1 DEF HeldOnce
<1> QED
  BY <1>3, <1>4, <1>5 DEF HeldOnce, r

\* Moving a session that is not at a queue's point leaves the queue right.
LEMMA HeldOnceOther ==
    ASSUME NEW S, NEW q \in Seq(S), NEW s \in S, NEW f, NEW g, NEW v,
           HeldOnce(q, f, v), f[s] # v, \A t \in S \ {s} : g[t] = f[t]
    PROVE  HeldOnce(q, g, v)
<1>1. \A i \in 1..Len(q) : q[i] \in S /\ q[i] # s
  BY DEF HeldOnce
<1> QED
  BY <1>1 DEF HeldOnce

\* Both queues hold distinct sessions, at the point the code put them there.
LEMMA QueuesStep ==
    ASSUME CrewTypeOK, QueuesMatchPc, [CrewNext]_crewVars
    PROVE  QueuesMatchPc'
<1>q. queue \in Seq(Sessions) /\ HeldOnce(queue, pc, "queued")
  BY DEF CrewTypeOK, QueuesMatchPc
<1>w. waiting \in Seq(Sessions) /\ HeldOnce(waiting, pc, "waiting")
  BY DEF CrewTypeOK, QueuesMatchPc
<1>p. pc \in [Sessions -> PC]
  BY DEF CrewTypeOK
<1>1. ASSUME NEW s \in Sessions, HandleStart(s)
      PROVE  QueuesMatchPc'
  <2>1. /\ queue' = Append(queue, s)
        /\ waiting' = waiting
        /\ pc[s] = "new" /\ pc'[s] = "queued"
        /\ \A t \in Sessions \ {s} : pc'[t] = pc[t]
    BY <1>1, <1>p DEF HandleStart, GoTo
  <2>2. HeldOnce(queue', pc', "queued")
    BY <1>q, <2>1, HeldOnceAppend
  <2>3. HeldOnce(waiting', pc', "waiting")
    <3>1. pc[s] # "waiting"
      BY <2>1
    <3>2. HeldOnce(waiting, pc', "waiting")
      BY <1>w, <2>1, <3>1, HeldOnceOther
    <3> QED
      BY <2>1, <3>2
  <2> QED
    BY <2>2, <2>3 DEF QueuesMatchPc
<1>2. CASE WorkerDequeue
  <2> DEFINE s == Head(queue)
  <2>1. queue # <<>> /\ queue' = Tail(queue) /\ s \in Sessions
    BY <1>2, <1>q DEF WorkerDequeue
  <2>2. \A t \in Sessions \ {s} : pc'[t] = pc[t]
    BY <1>2, <1>p, <2>1 DEF WorkerDequeue
  <2>3. pc[s] = "queued" /\ HeldOnce(Tail(queue), pc', "queued")
    BY <1>q, <2>1, <2>2, HeldOnceTail
  <2>4. CASE s \in pool
    <3>1. waiting' = Append(waiting, s) /\ pc'[s] = "waiting"
      BY <1>2, <1>p, <2>1, <2>4 DEF WorkerDequeue
    <3>2. pc[s] # "waiting"
      BY <2>3
    <3>3. HeldOnce(Append(waiting, s), pc', "waiting")
      BY <1>w, <2>1, <2>2, <3>1, <3>2, HeldOnceAppend
    <3> QED
      BY <2>1, <2>3, <3>1, <3>3 DEF QueuesMatchPc
  <2>5. CASE s \notin pool
    <3>1. waiting' = waiting
      BY <1>2, <2>5 DEF WorkerDequeue
    <3>2. pc[s] # "waiting"
      BY <2>3
    <3>3. HeldOnce(waiting, pc', "waiting")
      BY <1>w, <2>1, <2>2, <3>2, HeldOnceOther
    <3> QED
      BY <2>1, <2>3, <3>1, <3>3 DEF QueuesMatchPc
  <2> QED
    BY <2>4, <2>5
<1>3. CASE AcquireSlot
  <2> DEFINE s == Head(waiting)
  <2>1. waiting # <<>> /\ waiting' = Tail(waiting) /\ s \in Sessions /\ queue' = queue
    BY <1>3, <1>w DEF AcquireSlot
  <2>2. \A t \in Sessions \ {s} : pc'[t] = pc[t]
    BY <1>3, <1>p, <2>1 DEF AcquireSlot
  <2>3. pc[s] = "waiting" /\ HeldOnce(Tail(waiting), pc', "waiting")
    BY <1>w, <2>1, <2>2, HeldOnceTail
  <2>4. pc[s] # "queued"
    BY <2>3
  <2>5. HeldOnce(queue, pc', "queued")
    BY <1>q, <2>1, <2>2, <2>4, HeldOnceOther
  <2> QED
    BY <2>1, <2>3, <2>5 DEF QueuesMatchPc
<1>4. ASSUME NEW s \in Sessions, RunStep(s)
      PROVE  QueuesMatchPc'
  <2>1. /\ UNCHANGED <<queue, waiting>>
        /\ pc[s] # "queued" /\ pc[s] # "waiting"
        /\ \A t \in Sessions \ {s} : pc'[t] = pc[t]
    BY <1>4, RunStepFrame DEF Running
  <2>2. HeldOnce(queue, pc', "queued")
    BY <1>q, <2>1, HeldOnceOther
  <2>3. HeldOnce(waiting, pc', "waiting")
    BY <1>w, <2>1, HeldOnceOther
  <2> QED
    BY <2>1, <2>2, <2>3 DEF QueuesMatchPc
<1>5. ASSUME UNCHANGED <<pc, queue, waiting>>
      PROVE  QueuesMatchPc'
  BY <1>5 DEF QueuesMatchPc, HeldOnce
<1>6. CASE Restart
  BY <1>6 DEF Restart, QueuesMatchPc, HeldOnce
<1> QED
  BY <1>1, <1>2, <1>3, <1>4, <1>5, <1>6, HandlerStepFrame
  DEF CrewNext, CrewStep, Messages, HandleStop, HandleTimeout, crewVars

\* The worker moves exactly one queued session, the semaphore one waiting one.
LEMMA WorkerDequeueFrame ==
    ASSUME CrewTypeOK, QueuesMatchPc, WorkerDequeue
    PROVE  \E s \in Sessions :
             /\ pc[s] = "queued"
             /\ pc' = [pc EXCEPT ![s] = IF s \in pool THEN "waiting" ELSE "done"]
<1>1. queue # <<>> /\ queue \in Seq(Sessions) /\ HeldOnce(queue, pc, "queued")
  BY DEF WorkerDequeue, CrewTypeOK, QueuesMatchPc
<1>2. Head(queue) \in Sessions
  BY <1>1
<1>3. pc[Head(queue)] = "queued"
  BY <1>1, HeldOnceTail
<1>4. pc' = [pc EXCEPT ![Head(queue)] = IF Head(queue) \in pool THEN "waiting" ELSE "done"]
  BY DEF WorkerDequeue
<1> QED
  BY <1>2, <1>3, <1>4

LEMMA AcquireSlotFrame ==
    ASSUME CrewTypeOK, QueuesMatchPc, AcquireSlot
    PROVE  \E s \in Sessions :
             /\ pc[s] = "waiting"
             /\ \/ /\ stopSet[s]
                   /\ pc' = [pc EXCEPT ![s] = "finished"]
                   /\ slots' = slots
                \/ /\ ~stopSet[s]
                   /\ pc' = [pc EXCEPT ![s] = "starting"]
                   /\ slots' = slots - 1
<1>1. waiting # <<>> /\ waiting \in Seq(Sessions) /\ HeldOnce(waiting, pc, "waiting")
  BY DEF AcquireSlot, CrewTypeOK, QueuesMatchPc
<1>2. Head(waiting) \in Sessions
  BY <1>1
<1>3. pc[Head(waiting)] = "waiting"
  BY <1>1, HeldOnceTail
<1> QED
  BY <1>2, <1>3 DEF AcquireSlot

-----------------------------------------------------------------------------
(* Who can be stopped *)

\* A session not received yet is in no handler's reach; a coroutine that has
\* not returned is in the pool or has its event set.
LEMMA StoppableStep ==
    ASSUME CrewTypeOK, QueuesMatchPc, FreshUntouched, StillStoppable,
           [CrewNext]_crewVars
    PROVE  FreshUntouched' /\ StillStoppable'
<1> USE DEF FreshUntouched, StillStoppable, Live, Running
<1>p. /\ pc \in [Sessions -> PC] /\ stopSet \in [Sessions -> BOOLEAN]
      /\ NoSession \notin Sessions
  BY CrewAssumption DEF CrewTypeOK
<1>1. ASSUME NEW s \in Sessions, HandleStart(s)
      PROVE  FreshUntouched' /\ StillStoppable'
  BY <1>1, <1>p DEF HandleStart, GoTo
<1>2. CASE WorkerDequeue
  <2>1. UNCHANGED <<pool, stopSet, stopping, stopSent>>
    BY <1>2 DEF WorkerDequeue
  <2> QED
    BY <1>2, <1>p, <2>1, WorkerDequeueFrame
<1>3. CASE AcquireSlot
  <2>1. UNCHANGED <<pool, stopSet, stopping, stopSent>>
    BY <1>3 DEF AcquireSlot
  <2> QED
    BY <1>3, <1>p, <2>1, AcquireSlotFrame
<1>4. ASSUME NEW s \in Sessions, RunStep(s)
      PROVE  FreshUntouched' /\ StillStoppable'
  BY <1>4, <1>p, RunStepFrame
<1>5. CASE HandlerStep
  BY <1>5, <1>p, HandlerStepFrame
<1>6. ASSUME NEW s \in Sessions, HandleTimeout(s)
      PROVE  FreshUntouched' /\ StillStoppable'
  BY <1>6, <1>p DEF HandleTimeout, SignalStop
<1>7. CASE Restart
  BY <1>7, <1>p DEF Restart
<1>8. CASE UNCHANGED <<pc, pool, stopSet, stopping, stopSent>>
  BY <1>8
<1>9. ASSUME NEW s \in Sessions, HandleStop(s)
      PROVE  FreshUntouched' /\ StillStoppable'
  BY <1>9 DEF HandleStop
<1> QED
  BY <1>1, <1>2, <1>3, <1>4, <1>5, <1>6, <1>7, <1>8, <1>9
  DEF CrewNext, CrewStep, Messages, crewVars

-----------------------------------------------------------------------------
(* The token budget *)

\* A run past its budget has its event set before it can read anything else.
LEMMA BudgetStep ==
    ASSUME CrewTypeOK, QueuesMatchPc, BudgetStops, [CrewNext]_crewVars
    PROVE  BudgetStops'
<1> USE DEF BudgetStops
<1>p. /\ pc \in [Sessions -> PC]
      /\ stopSet \in [Sessions -> BOOLEAN]
      /\ overBudget \in [Sessions -> BOOLEAN]
  BY DEF CrewTypeOK
<1>1. ASSUME NEW s \in Sessions, HandleStart(s)
      PROVE  BudgetStops'
  BY <1>1, <1>p DEF HandleStart, GoTo
<1>2. CASE WorkerDequeue
  <2>1. UNCHANGED <<stopSet, overBudget>>
    BY <1>2 DEF WorkerDequeue
  <2> QED
    BY <1>2, <1>p, <2>1, WorkerDequeueFrame
<1>3. CASE AcquireSlot
  <2>1. UNCHANGED <<stopSet, overBudget>>
    BY <1>3 DEF AcquireSlot
  <2> QED
    BY <1>3, <1>p, <2>1, AcquireSlotFrame
<1>4. ASSUME NEW s \in Sessions, RunStep(s)
      PROVE  BudgetStops'
  <2>1. ASSUME overBudget'[s]
        PROVE  stopSet'[s] /\ pc'[s] \in {"adding", "reporting", "finished", "done"}
    <3>1. CASE \E over \in BOOLEAN : StreamChunk(s, over)
      BY <1>p, <2>1, <3>1 DEF StreamChunk, GoTo
    <3>2. CASE /\ overBudget'[s] = overBudget[s]
               /\ stopSet'[s] = stopSet[s]
               /\ \/ AddChunk(s)
                  \/ Report(s)
                  \/ RemoveTaskFromPool(s)
                  \/ Raise(s, "error")
                  \/ pc[s] \notin {"adding", "reporting", "finished", "done"}
      <4>1. overBudget[s] /\ stopSet[s] /\ pc[s] \in {"adding", "reporting", "finished", "done"}
        BY <2>1, <3>2
      <4> QED
        BY <1>p, <3>2, <4>1
        DEF AddChunk, CheckStop, Raise, Report, RemoveTaskFromPool, GoTo
    <3> QED
      BY <1>4, <3>1, <3>2
      DEF RunStep, PublishRun, AddChunk, ObserveStop, GraphFails, GraphEnds,
          AddGraphEnd, StoreFinalVariables, PublishEnd, ClearOutputs,
          RunCommandFails, Report, RemoveTaskFromPool, GoTo
  <2>2. \A t \in Sessions \ {s} :
          pc'[t] = pc[t] /\ stopSet'[t] = stopSet[t] /\ overBudget'[t] = overBudget[t]
    BY <1>4, RunStepFrame
  <2> QED
    BY <2>1, <2>2
<1>5. CASE HandlerStep
  BY <1>5, <1>p, HandlerStepFrame
<1>6. ASSUME NEW s \in Sessions, HandleTimeout(s)
      PROVE  BudgetStops'
  BY <1>6, <1>p DEF HandleTimeout, SignalStop
<1>7. CASE Restart
  BY <1>7, <1>p DEF Restart
<1>8. CASE UNCHANGED <<pc, overBudget, stopSet>>
  BY <1>8
<1> QED
  BY <1>1, <1>2, <1>3, <1>4, <1>5, <1>6, <1>7, <1>8
  DEF CrewNext, CrewStep, Messages, HandleStop, crewVars

-----------------------------------------------------------------------------
(* The last word *)

\* Unless Redis refused its last word, a coroutine about to leave, gone, or stopped
\* before it ran has a terminal status published, or the timeout handler is about to.
LEMMA WordStep ==
    ASSUME CrewTypeOK, QueuesMatchPc, FreshUntouched, WordSpoken,
           [CrewNext]_crewVars
    PROVE  WordSpoken'
<1> USE DEF WordSpoken, Terminal
<1>p. /\ pc \in [Sessions -> PC]
      /\ stopSet \in [Sessions -> BOOLEAN]
      /\ stopStatus \in [Sessions -> {"stop", "expired"}]
      /\ outcome \in [Sessions -> Terminal \cup {"none"}]
      /\ lastPub \in [Sessions -> Status \cup {"none"}]
      /\ pool \subseteq Sessions /\ unsaid \subseteq Sessions
      /\ restarts \in Nat
      /\ NoSession \notin Sessions
      /\ stopSent \in Sessions \cup {NoSession}
      /\ expiring \in Sessions \cup {NoSession}
  BY CrewAssumption DEF CrewTypeOK
<1>1. ASSUME NEW s \in Sessions, HandleStart(s)
      PROVE  WordSpoken'
  BY <1>1, <1>p DEF HandleStart, GoTo, FreshUntouched
<1>2. CASE WorkerDequeue
  <2>1. UNCHANGED <<pool, stopSet, stopSent, outcome, lastPub, expiring, unsaid, restarts>>
    BY <1>2 DEF WorkerDequeue
  <2> QED
    BY <1>2, <1>p, <2>1, WorkerDequeueFrame
<1>3. CASE AcquireSlot
  <2>1. UNCHANGED <<pool, stopSet, stopSent, outcome, lastPub, expiring, unsaid, restarts>>
    BY <1>3 DEF AcquireSlot
  <2> QED
    BY <1>3, <1>p, <2>1, AcquireSlotFrame
<1>4. ASSUME NEW s \in Sessions, RunStep(s)
      PROVE  WordSpoken'
  <2>1. /\ \A t \in Sessions \ {s} :
             /\ pc'[t] = pc[t]
             /\ stopSet'[t] = stopSet[t]
             /\ outcome'[t] = outcome[t]
             /\ lastPub'[t] = lastPub[t]
             /\ t \in pool' <=> t \in pool
        /\ s \in pool' => s \in pool
        /\ UNCHANGED <<expiring, stopSent, restarts>>
        /\ unsaid \subseteq unsaid'
        /\ pc'[s] \notin {"queued", "waiting"}
    BY <1>4, <1>p, RunStepFrame DEF Running
  <2>2. pc'[s] = "reporting" => outcome'[s] \in Terminal
    <3>1. CASE Raise(s, "error") \/ Raise(s, stopStatus[s])
      BY <1>p, <3>1 DEF Raise
    <3>2. CASE pc'[s] # "reporting"
      BY <3>2
    <3> QED
      BY <1>4, <1>p, <3>1, <3>2
      DEF RunStep, PublishRun, StreamChunk, AddChunk, CheckStop, ObserveStop,
          GraphFails, GraphEnds, AddGraphEnd, StoreFinalVariables, PublishEnd,
          ClearOutputs, RunCommandFails, Report, RemoveTaskFromPool, GoTo
  <2>3. ASSUME s \notin unsaid', restarts' = 0, pc'[s] \in {"clearing", "finished", "done"}
        PROVE  /\ lastPub'[s] \in Terminal \/ (expiring' = s /\ s \notin pool')
               /\ pc'[s] = "clearing" => lastPub'[s] \in Terminal
    <3>1. CASE PublishEnd(s)
      BY <1>p, <3>1 DEF PublishEnd, Publish
    <3>2. CASE ClearOutputs(s)
      BY <1>p, <2>1, <2>3, <3>2 DEF ClearOutputs, GoTo
    <3>3. CASE Report(s)
      <4>1. pc[s] = "reporting" /\ Announce(s) /\ pc'[s] = "finished"
        BY <1>p, <2>3, <3>3 DEF Report, GoTo
      <4> QED
        BY <1>p, <4>1 DEF Announce, Publish
    <3>4. CASE RemoveTaskFromPool(s)
      BY <1>p, <2>1, <2>3, <3>4 DEF RemoveTaskFromPool, GoTo
    <3> QED
      BY <1>4, <1>p, <2>3, <3>1, <3>2, <3>3, <3>4
      DEF RunStep, PublishRun, StreamChunk, AddChunk, CheckStop, ObserveStop,
          GraphFails, GraphEnds, AddGraphEnd, StoreFinalVariables,
          RunCommandFails, Raise, GoTo
  <2> QED
    BY <2>1, <2>2, <2>3
<1>5. CASE StopPublished
  BY <1>5, <1>p DEF StopPublished, SignalStop
<1>6. CASE ExpiredPublished
  BY <1>6, <1>p DEF ExpiredPublished, Publish
<1>7. CASE StopPublishFails
  BY <1>7, <1>p DEF StopPublishFails, Fault
<1>13. CASE ExpiredPublishFails
  BY <1>13, <1>p DEF ExpiredPublishFails, Fault, PC, Live, Running
<1>8. ASSUME NEW s \in Sessions, HandleTimeout(s)
      PROVE  WordSpoken'
  BY <1>8, <1>p DEF HandleTimeout, SignalStop
<1>9. CASE Restart
  BY <1>9, <1>p DEF Restart
<1>10. CASE UNCHANGED <<pc, pool, stopSet, stopSent, outcome, lastPub, expiring, unsaid,
                         restarts>>
  BY <1>10
<1>11. CASE PublishStop
  BY <1>11, <1>p DEF PublishStop, Publish
<1>12. ASSUME NEW s \in Sessions, HandleStop(s)
       PROVE  WordSpoken'
  BY <1>12, <1>p DEF HandleStop
<1> QED
  BY <1>1, <1>2, <1>3, <1>4, <1>5, <1>6, <1>7, <1>8, <1>9, <1>10, <1>11, <1>12,
     <1>13
  DEF CrewNext, CrewStep, HandlerStep, Messages, crewVars

-----------------------------------------------------------------------------
(* The theorems *)

\* The inductive invariant holds initially and is kept by every step.
THEOREM CrewInductive == CrewSpec => []CrewInv
<1>1. CrewInit => CrewInv
  <2> SUFFICES ASSUME CrewInit PROVE CrewInv
    OBVIOUS
  <2>1. CrewTypeOK
    BY CrewInitType
  <2>2. QueuesMatchPc
    BY DEF CrewInit, QueuesMatchPc, HeldOnce
  <2>3. FreshUntouched /\ StillStoppable /\ BudgetStops /\ WordSpoken
    BY CrewAssumption DEF CrewInit, FreshUntouched, StillStoppable, BudgetStops, WordSpoken,
           Live, Running
  <2> QED
    BY <2>1, <2>2, <2>3 DEF CrewInv
<1>2. CrewInv /\ [CrewNext]_crewVars => CrewInv'
  BY CrewStepType, QueuesStep, StoppableStep, BudgetStep, WordStep DEF CrewInv
<1> QED
  BY <1>1, <1>2, PTL DEF CrewSpec

\* A run that has not returned is always in the pool or told to stop already,
\* through every interleaving of the handlers, the worker and restarts.
THEOREM AlwaysStillStoppable == CrewSpec => []StillStoppable
<1>1. CrewInv => StillStoppable
  BY DEF CrewInv
<1> QED
  BY <1>1, CrewInductive, PTL

\* A run past its token budget never reaches the steps that end it normally.
THEOREM BudgetIsEnforced == CrewSpec => []OverBudgetNeverEnds
<1>1. CrewInv => OverBudgetNeverEnds
  BY DEF CrewInv, BudgetStops, OverBudgetNeverEnds
<1> QED
  BY <1>1, CrewInductive, PTL

\* The last status published for a run that is gone is terminal, through every failing
\* command but the publish of that status itself.
THEOREM AlwaysLastWordIsTerminal == CrewSpec => []LastWordIsTerminal
<1>1. CrewInv => LastWordIsTerminal
  BY DEF CrewInv, WordSpoken, LastWordIsTerminal
<1> QED
  BY <1>1, CrewInductive, PTL

-----------------------------------------------------------------------------
(* The semaphore *)

\* The set of holders is finite, so its size can be counted.
SlotsInv == IsFiniteSet(Holders) /\ SlotsConserved

\* One coroutine's step gives its slot back exactly when it leaves the body of
\* `async with`, by whichever path.
LEMMA RunStepSlots ==
    ASSUME CrewTypeOK, NEW s \in Sessions, RunStep(s)
    PROVE  \/ /\ pc[s] \in Running /\ pc'[s] \notin Running
              /\ slots' = slots + 1
           \/ /\ pc[s] \in Running <=> pc'[s] \in Running
              /\ slots' = slots
<1>p. pc \in [Sessions -> PC]
  BY DEF CrewTypeOK
<1> USE <1>p DEF RunVarsUnchanged, GoTo, Raise, Running
<1>1. CASE ClearOutputs(s) \/ Report(s)
  BY <1>1 DEF ClearOutputs, Report, ReleaseSlot
<1>2. CASE AddChunk(s) \/ ObserveStop(s)
  BY <1>2 DEF AddChunk, ObserveStop, CheckStop
<1>3. CASE \E over \in BOOLEAN : StreamChunk(s, over)
  BY <1>3 DEF StreamChunk
<1>4. CASE PublishRun(s) \/ GraphEnds(s) \/ AddGraphEnd(s) \/ StoreFinalVariables(s)
           \/ PublishEnd(s) \/ RemoveTaskFromPool(s)
  BY <1>4 DEF PublishRun, GraphEnds, AddGraphEnd, StoreFinalVariables,
              PublishEnd, RemoveTaskFromPool
<1>5. CASE GraphFails(s) \/ RunCommandFails(s)
  BY <1>5 DEF GraphFails, RunCommandFails
<1> QED
  BY <1>1, <1>2, <1>3, <1>4, <1>5, Zenon DEF RunStep

\* Taking a slot adds one holder, giving it back removes one.
LEMMA SlotsStep ==
    ASSUME CrewTypeOK, QueuesMatchPc, SlotsInv, [CrewNext]_crewVars
    PROVE  SlotsInv'
<1>p. /\ pc \in [Sessions -> PC] /\ slots \in Nat /\ MaxConcurrent \in Nat
      /\ IsFiniteSet(Holders) /\ slots + Cardinality(Holders) = MaxConcurrent
      /\ Cardinality(Holders) \in Nat
  BY CrewAssumption, FS_CardinalityType DEF CrewTypeOK, SlotsInv, SlotsConserved
<1>same. ASSUME slots' = slots, Holders' = Holders
         PROVE  SlotsInv'
  BY <1>p, <1>same DEF SlotsInv, SlotsConserved
<1>1. ASSUME NEW s \in Sessions, HandleStart(s)
      PROVE  SlotsInv'
  <2>1. slots' = slots /\ Holders' = Holders
    BY <1>1, <1>p DEF HandleStart, GoTo, Holders, Running
  <2> QED
    BY <2>1, <1>same
<1>2. CASE WorkerDequeue
  <2>1. slots' = slots
    BY <1>2 DEF WorkerDequeue
  <2>2. Holders' = Holders
    BY <1>2, <1>p, WorkerDequeueFrame DEF Holders, Running
  <2> QED
    BY <2>1, <2>2, <1>same
<1>3. CASE AcquireSlot
  <2>1. PICK s \in Sessions :
          /\ pc[s] = "waiting"
          /\ \/ /\ stopSet[s]
                /\ pc' = [pc EXCEPT ![s] = "finished"]
                /\ slots' = slots
             \/ /\ ~stopSet[s]
                /\ pc' = [pc EXCEPT ![s] = "starting"]
                /\ slots' = slots - 1
    BY <1>3, AcquireSlotFrame
  <2>2. CASE slots' = slots /\ pc' = [pc EXCEPT ![s] = "finished"]
    <3>1. Holders' = Holders
      BY <1>p, <2>1, <2>2 DEF Holders, Running
    <3> QED
      BY <2>2, <3>1, <1>same
  <2>3. CASE slots' = slots - 1 /\ pc' = [pc EXCEPT ![s] = "starting"]
    <3>1. s \notin Holders /\ Holders' = Holders \cup {s}
      BY <1>p, <2>1, <2>3 DEF Holders, Running
    <3>2. IsFiniteSet(Holders') /\ Cardinality(Holders') = Cardinality(Holders) + 1
      BY <1>p, <3>1, FS_AddElement
    <3> QED
      BY <1>p, <2>3, <3>2 DEF SlotsInv, SlotsConserved
  <2> QED
    BY <2>1, <2>2, <2>3
<1>4. ASSUME NEW s \in Sessions, RunStep(s)
      PROVE  SlotsInv'
  <2>1. \A t \in Sessions \ {s} : pc'[t] = pc[t]
    BY <1>4, RunStepFrame
  <2>2. CASE pc[s] \in Running /\ pc'[s] \notin Running /\ slots' = slots + 1
    <3>1. s \in Holders /\ Holders' = Holders \ {s}
      BY <2>1, <2>2 DEF Holders
    <3>2. IsFiniteSet(Holders') /\ Cardinality(Holders') = Cardinality(Holders) - 1
      BY <1>p, <3>1, FS_RemoveElement
    <3> QED
      BY <1>p, <2>2, <3>2 DEF SlotsInv, SlotsConserved
  <2>3. CASE (pc[s] \in Running <=> pc'[s] \in Running) /\ slots' = slots
    <3>1. Holders' = Holders
      BY <2>1, <2>3 DEF Holders
    <3> QED
      BY <2>3, <3>1, <1>same
  <2> QED
    BY <1>4, <2>2, <2>3, RunStepSlots
<1>5. CASE Restart
  <2>1. Holders' = {} /\ slots' = MaxConcurrent
    BY <1>5, <1>p DEF Restart, Holders, Running
  <2> QED
    BY <1>p, <2>1, FS_EmptySet DEF SlotsInv, SlotsConserved
<1>6. CASE UNCHANGED <<pc, slots>>
  <2>1. Holders' = Holders
    BY <1>6 DEF Holders
  <2> QED
    BY <1>6, <2>1, <1>same
<1> QED
  BY <1>1, <1>2, <1>3, <1>4, <1>5, <1>6, HandlerStepFrame
  DEF CrewNext, CrewStep, Messages, HandleStop, HandleTimeout, crewVars

\* Every slot is free or held by exactly one running coroutine, always: no
\* error path, stop, timeout or restart leaks one.
THEOREM AlwaysSlotsConserved == CrewSpec => []SlotsConserved
<1>1. CrewInit => SlotsInv
  <2> SUFFICES ASSUME CrewInit PROVE SlotsInv
    OBVIOUS
  <2>1. Holders = {} /\ slots = MaxConcurrent /\ MaxConcurrent \in Nat
    BY CrewAssumption DEF CrewInit, Holders, Running
  <2> QED
    BY <2>1, FS_EmptySet DEF SlotsInv, SlotsConserved
<1>2. CrewInv /\ SlotsInv /\ [CrewNext]_crewVars => SlotsInv'
  BY SlotsStep DEF CrewInv
<1>3. SlotsInv => SlotsConserved
  BY DEF SlotsInv
<1> QED
  BY <1>1, <1>2, <1>3, CrewInductive, PTL DEF CrewSpec

-----------------------------------------------------------------------------
(* The final variables *)

\* "end" is no status an except block reports; it is published by a coroutine that
\* stored its final variables, or had Redis fail on it.
EndIsStored ==
    \A s \in Sessions :
        /\ outcome[s] # "end"
        /\ pc[s] = "closing" => finalVars[s] \/ faults > 0

\* What one step does to the run's outcome, its final variables and its last word.
LEMMA RunStepStores ==
    ASSUME CrewTypeOK, EndIsStored, NEW s \in Sessions, RunStep(s)
    PROVE  /\ outcome'[s] # "end"
           /\ pc'[s] = "closing" => finalVars'[s] \/ faults' > 0
           /\ \A t \in Sessions : finalVars[t] => finalVars'[t]
           /\ lastPub'[s] = "end" => lastPub[s] = "end" \/ pc[s] = "closing"
<1>p. /\ pc \in [Sessions -> PC]
      /\ outcome \in [Sessions -> Terminal \cup {"none"}]
      /\ stopStatus \in [Sessions -> {"stop", "expired"}]
      /\ finalVars \in [Sessions -> BOOLEAN]
      /\ lastPub \in [Sessions -> Status \cup {"none"}]
      /\ faults \in Nat
      /\ outcome[s] # "end"
      /\ pc[s] = "closing" => finalVars[s] \/ faults > 0
  BY DEF CrewTypeOK, EndIsStored
<1> USE <1>p DEF GoTo, Publish, Raise, Fault
<1>1. CASE PublishRun(s)
  BY <1>1 DEF PublishRun
<1>2. ASSUME NEW over \in BOOLEAN, StreamChunk(s, over)
      PROVE  /\ pc' = [pc EXCEPT ![s] = "adding"]
             /\ UNCHANGED <<outcome, finalVars, lastPub>>
  BY <1>2 DEF StreamChunk
<1>3. CASE \E over \in BOOLEAN : StreamChunk(s, over)
  BY <1>2, <1>3
<1>4. CASE AddChunk(s) \/ ObserveStop(s)
  BY <1>4 DEF AddChunk, ObserveStop, CheckStop
<1>5. CASE GraphFails(s) \/ RunCommandFails(s)
  BY <1>5 DEF GraphFails, RunCommandFails
<1>6. CASE GraphEnds(s) \/ AddGraphEnd(s)
  BY <1>6 DEF GraphEnds, AddGraphEnd
<1>7. CASE StoreFinalVariables(s)
  BY <1>7 DEF StoreFinalVariables
<1>8. CASE PublishEnd(s) \/ ClearOutputs(s)
  BY <1>8 DEF PublishEnd, ClearOutputs
<1>9. CASE Report(s)
  BY <1>9 DEF Report, Announce
<1>10. CASE RemoveTaskFromPool(s)
  BY <1>10 DEF RemoveTaskFromPool
<1> QED
  BY <1>1, <1>3, <1>4, <1>5, <1>6, <1>7, <1>8, <1>9, <1>10 DEF RunStep

\* A run on its way to "end" has stored its variables, through every step.
LEMMA StoredStep ==
    ASSUME CrewTypeOK, QueuesMatchPc, EndIsStored, [CrewNext]_crewVars
    PROVE  EndIsStored'
<1>p. /\ pc \in [Sessions -> PC] /\ faults \in Nat
  BY DEF CrewTypeOK
<1>1. ASSUME NEW s \in Sessions, HandleStart(s)
      PROVE  EndIsStored'
  BY <1>1, <1>p DEF EndIsStored, HandleStart, GoTo
<1>2. CASE WorkerDequeue
  <2>1. UNCHANGED <<outcome, finalVars, faults>>
    BY <1>2 DEF WorkerDequeue
  <2> QED
    BY <1>2, <1>p, <2>1, WorkerDequeueFrame DEF EndIsStored
<1>3. CASE AcquireSlot
  <2>1. UNCHANGED <<outcome, finalVars, faults>>
    BY <1>3 DEF AcquireSlot
  <2> QED
    BY <1>3, <1>p, <2>1, AcquireSlotFrame DEF EndIsStored
<1>4. ASSUME NEW s \in Sessions, RunStep(s)
      PROVE  EndIsStored'
  <2>1. \A t \in Sessions \ {s} : pc'[t] = pc[t] /\ outcome'[t] = outcome[t]
    BY <1>4, RunStepFrame
  <2>2. faults' \in {faults, faults + 1}
    BY <1>4, RunStepFrame
  <2> QED
    BY <1>4, <1>p, <2>1, <2>2, RunStepStores DEF EndIsStored
<1>5. CASE HandlerStep
  <2>1. UNCHANGED finalVars
    BY <1>5 DEF HandlerStep, PublishStop, StopPublished, StopPublishFails,
       ExpiredPublished, ExpiredPublishFails
  <2> QED
    BY <1>5, <1>p, <2>1, HandlerStepFrame DEF EndIsStored
<1>6. CASE Restart
  BY <1>6, <1>p DEF EndIsStored, Restart
<1>7. CASE UNCHANGED <<pc, outcome, finalVars, faults>>
  BY <1>7 DEF EndIsStored
<1> QED
  BY <1>1, <1>2, <1>3, <1>4, <1>5, <1>6, <1>7
  DEF CrewNext, CrewStep, Messages, HandleStop, HandleTimeout, crewVars

\* VariablesBeforeEnd: only the step after the final variables publishes "end",
\* whatever an except block or a handler says of the session.
THEOREM EndComesAfterVariables == CrewSpec => VariablesBeforeEnd
<1> DEFINE Before ==
      \A s \in Sessions :
          lastPub[s] # "end" /\ lastPub'[s] = "end" => finalVars[s] \/ faults > 0
<1>1. CrewInit => EndIsStored
  BY DEF CrewInit, EndIsStored
<1>2. CrewInv /\ EndIsStored /\ [CrewNext]_crewVars => EndIsStored'
  BY StoredStep DEF CrewInv
<1>3. ASSUME CrewInv, EndIsStored, [CrewNext]_crewVars
      PROVE  Before
  <2>p. CrewTypeOK /\ lastPub \in [Sessions -> Status \cup {"none"}]
    BY <1>3 DEF CrewInv, CrewTypeOK
  <2>1. ASSUME NEW s \in Sessions, RunStep(s)
        PROVE  Before
    <3>1. \A t \in Sessions \ {s} : lastPub'[t] = lastPub[t]
      BY <2>p, <2>1, RunStepFrame
    <3>2. lastPub'[s] = "end" => lastPub[s] = "end" \/ pc[s] = "closing"
      BY <1>3, <2>p, <2>1, RunStepStores
    <3> QED
      BY <1>3, <3>1, <3>2 DEF EndIsStored
  <2>2. ASSUME PublishStop \/ ExpiredPublished
        PROVE  Before
    BY <2>p, <2>2 DEF PublishStop, ExpiredPublished, Publish
  <2>3. ASSUME UNCHANGED lastPub
        PROVE  Before
    BY <2>3
  <2>4. ASSUME NEW s \in Sessions, Messages(s)
        PROVE  UNCHANGED lastPub
    BY <2>4 DEF Messages, HandleStart, HandleStop, HandleTimeout
  <2>5. ASSUME WorkerDequeue \/ AcquireSlot \/ StopPublished \/ StopPublishFails
               \/ ExpiredPublishFails \/ Restart \/ UNCHANGED crewVars
        PROVE  UNCHANGED lastPub
    BY <2>5 DEF WorkerDequeue, AcquireSlot, StopPublished, StopPublishFails,
       ExpiredPublishFails, Restart, crewVars
  <2> HIDE DEF Before
  <2> QED
    BY <1>3, <2>1, <2>2, <2>3, <2>4, <2>5, Zenon DEF CrewNext, CrewStep, HandlerStep
<1> QED
  BY <1>1, <1>2, <1>3, CrewInductive, PTL DEF CrewSpec, VariablesBeforeEnd
=============================================================================
