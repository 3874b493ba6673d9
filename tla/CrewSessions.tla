---------------------------- MODULE CrewSessions ----------------------------
(***************************************************************************)
(* The crew service's GraphSessionManagerService: the pool of sessions it   *)
(* has accepted, the queue and semaphore that bound how many run at once,   *)
(* the coroutine of each run, and the three pub/sub handlers (start, stop,  *)
(* timeout) that run concurrently with the coroutines on one event loop.    *)
(*                                                                         *)
(* One action is one stretch of code between two awaits, or the effect of   *)
(* one awaited Redis command.  A command's effect and the resumption of its *)
(* coroutine are one action where what the coroutine does next is its own:  *)
(* the two commute with everything in between.  The stop handler goes on to *)
(* what the other tasks read, so its publish and its resumption are two.    *)
(***************************************************************************)
EXTENDS Naturals, Sequences, FiniteSets

CONSTANTS
    Sessions,       \* ids of the sessions django_app may start
    NoSession,      \* an idle handler's placeholder
    MaxConcurrent,  \* CREW_MAX_CONCURRENT_SESSIONS, the semaphore's size
    MaxChunks,      \* bound: custom chunks one run may stream
    MaxFaults,      \* bound: Redis commands that fail for good
    MaxRestarts     \* bound: restarts of the crew process

ASSUME CrewAssumption ==
    /\ NoSession \notin Sessions
    /\ MaxConcurrent \in Nat \ {0}
    /\ MaxChunks \in Nat
    /\ MaxFaults \in Nat
    /\ MaxRestarts \in Nat

VARIABLES
    pool,           \* session_graph_pool: ids a stop or timeout can reach
    queue,          \* session_queue
    waiting,        \* tasks blocked on the semaphore, woken in this order
    slots,          \* free slots of the semaphore
    pc,             \* where each session's coroutine is
    stopSet,        \* StopEvent.is_set()
    stopStatus,     \* StopEvent.status
    outcome,        \* the status an except block is about to publish
    overBudget,     \* the run's token total passed its budget
    chunks,         \* custom chunks streamed so far
    finalVars,      \* the final-variables key is written
    stopping,       \* session whose "stop" the stop handler is publishing
    stopSent,       \* session whose "stop" is out, its handler not resumed yet
    expiring,       \* session whose "expired" the timeout handler is publishing
    lastPub,        \* the last status published on each session's channel
    unsaid,         \* sessions whose last word Redis refused when they would say no other
    faults,
    restarts

crewVars == <<pool, queue, waiting, slots, pc, stopSet, stopStatus, outcome,
              overBudget, chunks, finalVars, stopping, stopSent, expiring, lastPub,
              unsaid, faults, restarts>>

Terminal == {"end", "error", "stop", "expired"}
Status == Terminal \cup {"run"}

\* The coroutine's own states while it holds a semaphore slot.
Running == {"starting", "streaming", "adding", "ending", "storing",
            "closing", "clearing", "reporting"}
\* A coroutine that exists and has not returned.
Live == Running \cup {"queued", "waiting"}
PC == Live \cup {"new", "finished", "done", "lost"}

CrewTypeOK ==
    /\ pool \subseteq Sessions
    /\ queue \in Seq(Sessions)
    /\ waiting \in Seq(Sessions)
    /\ slots \in Nat
    /\ pc \in [Sessions -> PC]
    /\ stopSet \in [Sessions -> BOOLEAN]
    /\ stopStatus \in [Sessions -> {"stop", "expired"}]
    /\ outcome \in [Sessions -> Terminal \cup {"none"}]
    /\ overBudget \in [Sessions -> BOOLEAN]
    /\ chunks \in [Sessions -> Nat]
    /\ finalVars \in [Sessions -> BOOLEAN]
    /\ stopping \in Sessions \cup {NoSession}
    /\ stopSent \in Sessions \cup {NoSession}
    /\ expiring \in Sessions \cup {NoSession}
    /\ lastPub \in [Sessions -> Status \cup {"none"}]
    /\ unsaid \subseteq Sessions
    /\ faults \in Nat
    /\ restarts \in Nat

CrewInit ==
    /\ pool = {}
    /\ queue = <<>>
    /\ waiting = <<>>
    /\ slots = MaxConcurrent
    /\ pc = [s \in Sessions |-> "new"]
    /\ stopSet = [s \in Sessions |-> FALSE]
    /\ stopStatus = [s \in Sessions |-> "stop"]
    /\ outcome = [s \in Sessions |-> "none"]
    /\ overBudget = [s \in Sessions |-> FALSE]
    /\ chunks = [s \in Sessions |-> 0]
    /\ finalVars = [s \in Sessions |-> FALSE]
    /\ stopping = NoSession
    /\ stopSent = NoSession
    /\ expiring = NoSession
    /\ lastPub = [s \in Sessions |-> "none"]
    /\ unsaid = {}
    /\ faults = 0
    /\ restarts = 0

-----------------------------------------------------------------------------
(* Helpers *)

\* aupdate_session_status: one PUBLISH on the session's status channel.
Publish(s, st) == lastPub' = [lastPub EXCEPT ![s] = st]

GoTo(s, from, to) ==
    /\ pc[s] = from
    /\ pc' = [pc EXCEPT ![s] = to]

\* An exception reached the except blocks of run_session: the status it
\* reports is read there, before the publish is awaited.
Raise(s, st) ==
    /\ pc' = [pc EXCEPT ![s] = "reporting"]
    /\ outcome' = [outcome EXCEPT ![s] = st]

\* Mutant: the chunk loop never looks at the event.
StopIgnored(s, next) == pc' = [pc EXCEPT ![s] = next] /\ UNCHANGED outcome

\* check_stop(): a set event raises StopSession with the event's own status.
CheckStop(s, next) ==
    IF stopSet[s]
    THEN Raise(s, stopStatus[s])
    ELSE pc' = [pc EXCEPT ![s] = next] /\ UNCHANGED outcome

\* Mutant: a coroutine returns with its slot.
SlotLeaked == UNCHANGED slots

\* Leaving `async with self._semaphore`.
ReleaseSlot == slots' = slots + 1

\* A Redis command that still fails after the client's retries.
Fault ==
    /\ faults < MaxFaults
    /\ faults' = faults + 1

-----------------------------------------------------------------------------
(* The handlers of the three channels, and the queue worker *)

\* _handle_session_start has no await that suspends: queue.put is unbounded.
HandleStart(s) ==
    /\ GoTo(s, "new", "queued")
    /\ pool' = pool \cup {s}
    /\ queue' = Append(queue, s)
    /\ UNCHANGED <<waiting, slots, stopSet, stopStatus, outcome, overBudget,
                   chunks, finalVars, stopping, stopSent, expiring, lastPub,
                   unsaid, faults, restarts>>

\* _session_worker: a session a handler removed meanwhile is dropped here;
\* otherwise its coroutine becomes a task, which goes for the semaphore.
WorkerDequeue ==
    /\ queue # <<>>
    /\ queue' = Tail(queue)
    /\ LET s == Head(queue) IN
       \/ /\ s \in pool
          /\ pc' = [pc EXCEPT ![s] = "waiting"]
          /\ waiting' = Append(waiting, s)
       \/ /\ s \notin pool
          /\ pc' = [pc EXCEPT ![s] = "done"]
          /\ UNCHANGED waiting
    /\ UNCHANGED <<pool, slots, stopSet, stopStatus, outcome, overBudget,
                   chunks, finalVars, stopping, stopSent, expiring, lastPub,
                   unsaid, faults, restarts>>

\* _handle_stop_session up to its await: a session not in the pool is ignored.
HandleStop(s) ==
    /\ stopping = NoSession /\ stopSent = NoSession
    /\ s \in pool
    /\ stopping' = s
    /\ UNCHANGED <<stopSent, pool, queue, waiting, slots, pc, stopSet, stopStatus, outcome,
                   overBudget, chunks, finalVars, expiring, lastPub,
                   unsaid, faults, restarts>>

\* Mutant: the handlers only forget the session.
ForgetOnly(s) == UNCHANGED stopSet

\* pool[session_id].stop_event.set(): nothing to set once the session is gone.
SignalStop(s) == stopSet' = [stopSet EXCEPT ![s] = @ \/ s \in pool]

\* Redis takes the "stop"; the other tasks go on before its handler resumes.
PublishStop ==
    /\ stopping # NoSession
    /\ Publish(stopping, "stop")
    /\ stopSent' = stopping
    /\ stopping' = NoSession
    /\ UNCHANGED <<pool, queue, waiting, slots, pc, stopSet, stopStatus, outcome,
                   overBudget, chunks, finalVars, expiring, unsaid, faults, restarts>>

\* The event is set through the pool: a session removed during the await raises
\* KeyError, which the subscriber logs.
StopPublished ==
    /\ stopSent # NoSession
    /\ SignalStop(stopSent)
    /\ pool' = pool \ {stopSent}
    /\ stopSent' = NoSession
    /\ UNCHANGED <<queue, waiting, slots, pc, stopStatus, outcome, overBudget,
                   chunks, finalVars, stopping, expiring, lastPub, unsaid, faults,
                   restarts>>

\* The publish raises, before Redis took the message or after.
StopPublishFails ==
    /\ stopping # NoSession \/ stopSent # NoSession
    /\ Fault
    /\ stopping' = NoSession
    /\ stopSent' = NoSession
    /\ UNCHANGED <<pool, queue, waiting, slots, pc, stopSet, stopStatus, outcome,
                   overBudget, chunks, finalVars, expiring, lastPub, unsaid,
                   restarts>>

\* _handle_session_timeout up to its await: a pooled session is removed and
\* told to stop as "expired"; "expired" is published for any session.
HandleTimeout(s) ==
    /\ expiring = NoSession
    /\ expiring' = s
    /\ pool' = pool \ {s}
    /\ SignalStop(s)
    /\ stopStatus' = [stopStatus EXCEPT ![s] = IF s \in pool THEN "expired" ELSE @]
    /\ UNCHANGED <<queue, waiting, slots, pc, outcome, overBudget, chunks,
                   finalVars, stopping, stopSent, lastPub, unsaid, faults, restarts>>

ExpiredPublished ==
    /\ expiring # NoSession
    /\ Publish(expiring, "expired")
    /\ expiring' = NoSession
    /\ UNCHANGED <<pool, queue, waiting, slots, pc, stopSet, stopStatus, outcome,
                   overBudget, chunks, finalVars, stopping, stopSent, unsaid, faults,
                   restarts>>

\* A coroutine that runs still says how it ended; one told to stop before it ran does not.
ExpiredPublishFails ==
    /\ expiring # NoSession
    /\ Fault
    /\ expiring' = NoSession
    /\ unsaid' = IF expiring \in pool \/ pc[expiring] \in Running \cup {"new"} THEN unsaid
                 ELSE unsaid \cup {expiring}
    /\ UNCHANGED <<pool, queue, waiting, slots, pc, stopSet, stopStatus, outcome,
                   overBudget, chunks, finalVars, stopping, stopSent, lastPub,
                   restarts>>

-----------------------------------------------------------------------------
(* The coroutine of one session: session_runner around run_session *)

SlotFree == slots > 0

\* The semaphore wakes its waiters in order.  A session stopped or expired
\* while it waited gives the slot back at once and never runs.
AcquireSlot ==
    /\ waiting # <<>>
    /\ SlotFree
    /\ waiting' = Tail(waiting)
    /\ LET s == Head(waiting) IN
       \/ /\ stopSet[s]
          /\ pc' = [pc EXCEPT ![s] = "finished"]
          /\ UNCHANGED slots
       \/ /\ ~stopSet[s]
          /\ pc' = [pc EXCEPT ![s] = "starting"]
          /\ slots' = slots - 1
    /\ UNCHANGED <<pool, queue, stopSet, stopStatus, outcome, overBudget, chunks,
                   finalVars, stopping, stopSent, expiring, lastPub, unsaid,
                   faults, restarts>>

RunVarsUnchanged ==
    UNCHANGED <<pool, queue, waiting, stopping, stopSent, expiring, stopStatus, unsaid,
                restarts>>

PublishRun(s) ==
    /\ GoTo(s, "starting", "streaming")
    /\ Publish(s, "run")
    /\ RunVarsUnchanged
    /\ UNCHANGED <<slots, stopSet, outcome, overBudget, chunks, finalVars, faults>>

\* A custom chunk: its tokens may push the run over its budget, which sets the
\* event before the message is sent.  The chunk's XADD is the next step.
StreamChunk(s, over) ==
    /\ chunks[s] < MaxChunks
    /\ GoTo(s, "streaming", "adding")
    /\ chunks' = [chunks EXCEPT ![s] = @ + 1]
    /\ overBudget' = [overBudget EXCEPT ![s] = @ \/ over]
    /\ stopSet' = [stopSet EXCEPT ![s] = @ \/ over]
    /\ RunVarsUnchanged
    /\ UNCHANGED <<slots, outcome, finalVars, lastPub, faults>>

\* aadd_graph_message, then stop_event.check_stop().
AddChunk(s) ==
    /\ pc[s] = "adding"
    /\ CheckStop(s, "streaming")
    /\ RunVarsUnchanged
    /\ UNCHANGED <<slots, stopSet, overBudget, chunks, finalVars, lastPub,
                   faults>>

\* check_stop() after a "values" chunk, or inside a node of the graph.
ObserveStop(s) ==
    /\ pc[s] = "streaming"
    /\ stopSet[s]
    /\ CheckStop(s, "streaming")
    /\ RunVarsUnchanged
    /\ UNCHANGED <<slots, stopSet, overBudget, chunks, finalVars, lastPub,
                   faults>>

\* Compiling the schema or running a node raises; so do final variables that
\* cannot be serialised.
GraphFails(s) ==
    /\ pc[s] \in {"starting", "streaming", "storing"}
    /\ Raise(s, "error")
    /\ RunVarsUnchanged
    /\ UNCHANGED <<slots, stopSet, overBudget, chunks, finalVars, lastPub,
                   faults>>

\* The stream is exhausted: nothing reads the stop event from here on.
GraphEnds(s) ==
    /\ GoTo(s, "streaming", "ending")
    /\ RunVarsUnchanged
    /\ UNCHANGED <<slots, stopSet, outcome, overBudget, chunks, finalVars, lastPub, faults>>

\* Mutant: "end" is published without waiting for the final variables.
EndWithoutVariables(s) ==
    /\ GoTo(s, "ending", "closing")
    /\ RunVarsUnchanged
    /\ UNCHANGED <<slots, stopSet, outcome, overBudget, chunks, finalVars, lastPub, faults>>

AddGraphEnd(s) ==
    /\ GoTo(s, "ending", "storing")
    /\ RunVarsUnchanged
    /\ UNCHANGED <<slots, stopSet, outcome, overBudget, chunks, finalVars, lastPub, faults>>

\* _store_final_variables swallows a Redis error: the run still ends.
StoreFinalVariables(s) ==
    /\ GoTo(s, "storing", "closing")
    /\ \/ /\ finalVars' = [finalVars EXCEPT ![s] = TRUE]
          /\ UNCHANGED faults
       \/ /\ Fault
          /\ UNCHANGED finalVars
    /\ RunVarsUnchanged
    /\ UNCHANGED <<slots, stopSet, outcome, overBudget, chunks, lastPub>>

PublishEnd(s) ==
    /\ GoTo(s, "closing", "clearing")
    /\ Publish(s, "end")
    /\ RunVarsUnchanged
    /\ UNCHANGED <<slots, stopSet, outcome, overBudget, chunks, finalVars, faults>>

\* remembered_outputs_store.clear, then the coroutine returns.
ClearOutputs(s) ==
    /\ GoTo(s, "clearing", "finished")
    /\ ReleaseSlot
    /\ RunVarsUnchanged
    /\ UNCHANGED <<stopSet, outcome, overBudget, chunks, finalVars, lastPub, faults>>

\* Any other Redis command of the run fails: `except Exception` reports "error",
\* even when the command was the clean-up that follows the published "end".
RunCommandFails(s) ==
    /\ pc[s] \in {"starting", "adding", "ending", "closing", "clearing"}
    /\ Fault
    /\ Raise(s, "error")
    /\ RunVarsUnchanged
    /\ UNCHANGED <<slots, stopSet, overBudget, chunks, finalVars, lastPub>>

\* Mutant: the run leaves "stop" and "expired" to the handler that set the event.
AnnounceErrorsOnly(s) ==
    IF outcome[s] = "error" THEN Publish(s, "error") ELSE UNCHANGED lastPub

\* The status an except block publishes.
Announce(s) == Publish(s, outcome[s])

\* The except block's publish; if it fails the exception leaves the task, and nobody
\* is left to say it.
Report(s) ==
    /\ GoTo(s, "reporting", "finished")
    /\ ReleaseSlot
    /\ outcome' = [outcome EXCEPT ![s] = "none"]
    /\ \/ Announce(s) /\ UNCHANGED <<unsaid, faults>>
       \/ Fault /\ unsaid' = unsaid \cup {s} /\ UNCHANGED lastPub
    /\ UNCHANGED <<pool, queue, waiting, stopSet, stopStatus, overBudget, chunks, finalVars,
                   stopping, stopSent, expiring, restarts>>

\* The task's done callback.
RemoveTaskFromPool(s) ==
    /\ GoTo(s, "finished", "done")
    /\ pool' = pool \ {s}
    /\ UNCHANGED <<queue, waiting, slots, stopSet, stopStatus, outcome, overBudget,
                   chunks, finalVars, stopping, stopSent, expiring, lastPub, unsaid,
                   faults, restarts>>

RunStep(s) ==
    \/ PublishRun(s)
    \/ \E over \in BOOLEAN : StreamChunk(s, over)
    \/ AddChunk(s)
    \/ ObserveStop(s)
    \/ GraphFails(s)
    \/ GraphEnds(s)
    \/ AddGraphEnd(s)
    \/ StoreFinalVariables(s)
    \/ PublishEnd(s)
    \/ ClearOutputs(s)
    \/ RunCommandFails(s)
    \/ Report(s)
    \/ RemoveTaskFromPool(s)

\* Everything the service holds is in memory: a restart forgets it.
Restart ==
    /\ restarts < MaxRestarts
    /\ restarts' = restarts + 1
    /\ pool' = {}
    /\ queue' = <<>>
    /\ waiting' = <<>>
    /\ slots' = MaxConcurrent
    /\ pc' = [s \in Sessions |-> IF pc[s] \in {"new", "done"} THEN pc[s] ELSE "lost"]
    /\ stopping' = NoSession
    /\ stopSent' = NoSession
    /\ expiring' = NoSession
    /\ stopSet' = [s \in Sessions |-> FALSE]
    /\ stopStatus' = [s \in Sessions |-> "stop"]
    /\ outcome' = [s \in Sessions |-> "none"]
    /\ overBudget' = [s \in Sessions |-> FALSE]
    /\ chunks' = [s \in Sessions |-> 0]
    /\ UNCHANGED <<finalVars, lastPub, unsaid, faults>>

HandlerStep ==
    \/ PublishStop
    \/ StopPublished
    \/ StopPublishFails
    \/ ExpiredPublished
    \/ ExpiredPublishFails

CrewStep ==
    \/ WorkerDequeue
    \/ AcquireSlot
    \/ HandlerStep
    \/ \E s \in Sessions : RunStep(s)
    \/ Restart

\* The messages the other services may send at any time.
Messages(s) == HandleStart(s) \/ HandleStop(s) \/ HandleTimeout(s)

CrewNext ==
    \/ CrewStep
    \/ \E s \in Sessions : Messages(s)

\* asyncio runs every ready task, and each node and Redis command returns: the
\* worker, the semaphore's head, the handlers and each coroutine go on.
CrewFairness ==
    /\ WF_crewVars(WorkerDequeue)
    /\ WF_crewVars(AcquireSlot)
    /\ WF_crewVars(PublishStop)
    /\ WF_crewVars(StopPublished)
    /\ WF_crewVars(ExpiredPublished)
    /\ \A s \in Sessions : WF_crewVars(RunStep(s))

CrewSpec == CrewInit /\ [][CrewNext]_crewVars
FairCrewSpec == CrewSpec /\ CrewFairness

-----------------------------------------------------------------------------
(* Properties *)

\* A run that has not returned can still be stopped: it is in the pool, where
\* the handlers look for it, or it has been told to stop already.
StillStoppable ==
    \A s \in Sessions : pc[s] \in Live => s \in pool \/ stopSet[s]

\* The sessions whose coroutine is inside `async with self._semaphore`.
Holders == {s \in Sessions : pc[s] \in Running}

\* Every slot of the semaphore is free or held by one running coroutine,
\* through every error path of run_session.
SlotsConserved == slots + Cardinality(Holders) = MaxConcurrent

\* A run that exceeded its token budget never gets past its stream to the
\* steps that end it normally, whatever is published or stopped meanwhile.
OverBudgetNeverEnds ==
    \A s \in Sessions :
        overBudget[s] => pc[s] \notin {"ending", "storing", "closing", "clearing"}

\* Once the coroutine is gone and no handler is about to speak for the session,
\* the last status published is terminal: a "run" that overtook a "stop" or an
\* "expired" is always followed by another terminal status, and so is every command
\* that fails, but for the publish of the last word itself
\* (graph_session_manager_service.py:291-330, 485-520).
LastWordIsTerminal ==
    \A s \in Sessions :
        (/\ pc[s] = "done"
         /\ s \notin {stopping, expiring} \cup unsaid
         /\ restarts = 0) => lastPub[s] \in Terminal

\* "end" is published only after the final variables django_app reads on "end"
\* are stored, unless Redis failed.
VariablesBeforeEnd ==
    [][\A s \in Sessions :
          lastPub[s] # "end" /\ lastPub'[s] = "end" => finalVars[s] \/ faults > 0]_crewVars

\* Every session the service accepts comes to an end, and says so: neither a full
\* semaphore, nor the drop of a removed session, nor a stop, a timeout or a failing
\* command at any point of the run leaves it without a terminal status, unless Redis
\* refused that status itself or the process restarts.
AcceptedIsAnswered ==
    \A s \in Sessions :
        pc[s] = "queued" ~>
            \/ restarts > 0
            \/ pc[s] = "done" /\ (lastPub[s] \in Terminal \/ s \in unsaid)

-----------------------------------------------------------------------------
(* The inductive invariant behind the safety properties *)

\* The queue q holds each session once, and only while f puts it at that point.
HeldOnce(q, f, point) ==
    /\ \A i \in 1..Len(q) : f[q[i]] = point
    /\ \A i, j \in 1..Len(q) : q[i] = q[j] => i = j

\* The worker's queue and the semaphore's waiters agree with the coroutines.
QueuesMatchPc ==
    /\ HeldOnce(queue, pc, "queued")
    /\ HeldOnce(waiting, pc, "waiting")

\* A session the service has not received is unknown to the handlers.
FreshUntouched ==
    \A s \in Sessions :
        pc[s] = "new" => s \notin pool /\ ~stopSet[s] /\ s \notin {stopping, stopSent}

\* The event of a run past its budget is set, and the run reads it before it
\* can leave the stream.
BudgetStops ==
    \A s \in Sessions :
        overBudget[s] => stopSet[s] /\ pc[s] \in {"adding", "reporting", "finished", "done"}

\* Where a terminal status must have been published, or is about to be.
WordSpoken ==
    \A s \in Sessions :
        /\ pc[s] = "reporting" => outcome[s] \in Terminal
        /\ s \notin unsaid /\ restarts = 0 =>
             /\ pc[s] = "clearing" => lastPub[s] \in Terminal
             /\ pc[s] \in {"finished", "done"}
                  => lastPub[s] \in Terminal \/ (expiring = s /\ s \notin pool)
             /\ pc[s] \in {"queued", "waiting"} /\ (s \notin pool \/ stopSet[s])
                  => s \notin pool /\ (lastPub[s] \in Terminal \/ expiring = s)
             /\ pc[s] \in {"queued", "waiting"} /\ stopSent = s => lastPub[s] \in Terminal

CrewInv ==
    /\ CrewTypeOK
    /\ QueuesMatchPc
    /\ FreshUntouched
    /\ StillStoppable
    /\ BudgetStops
    /\ WordSpoken
=============================================================================
