---------------------------- MODULE SessionSystem ----------------------------
(***************************************************************************)
(* The life of a session across services: django_app and the manager        *)
(* (SessionLedger) send crew (CrewSessions) a start, a stop and a timeout    *)
(* on three Redis channels, each read by its own task; crew's statuses come *)
(* back on a fourth, read by django_app's one listener thread.  Redis        *)
(* pub/sub keeps nothing for a reader that is not subscribed, so what is     *)
(* published while a reader reconnects, or waits in its connection, is lost. *)
(***************************************************************************)
EXTENDS SessionLedger, Sequences, FiniteSets

CONSTANTS
    MaxConcurrent,
    MaxChunks,
    MaxFaults,
    MaxRestarts,
    MaxLosses,      \* bound: connections that break under their reader, and statuses dropped
    MaxTimeouts     \* bound: timeouts of one session under way at once

ASSUME SystemAssumption ==
    /\ MaxConcurrent \in Nat \ {0}
    /\ MaxChunks \in Nat
    /\ MaxFaults \in Nat
    /\ MaxRestarts \in Nat
    /\ MaxTimeouts \in Nat

VARIABLES
    pool, queue, waiting, slots, pc, stopSet, stopStatus, outcome, overBudget,
    chunks, finalVars, stopping, stopSent, expiring, lastPub, unsaid,
    faults, restarts

VARIABLES
    commands,       \* messages on their way to crew, on its three channels
    deaf,           \* the channels crew is not subscribed to
    statuses,       \* messages on their way to the listener, oldest first
    listening,      \* the listener is subscribed
    losses

Crew == INSTANCE CrewSessions

crewVars == <<pool, queue, waiting, slots, pc, stopSet, stopStatus, outcome,
              overBudget, chunks, finalVars, stopping, stopSent, expiring,
              lastPub, unsaid, faults, restarts>>
channelVars == <<commands, deaf, statuses, listening, losses>>
systemVars == <<ledgerVars, crewVars, channelVars>>

Channels == {"start", "stop", "timeout"}
Command == [channel : Channels, session : Sessions]
SystemInit ==
    /\ LedgerInit
    /\ Crew!CrewInit
    /\ commands = {}
    /\ deaf = {}
    /\ statuses = <<>>
    /\ listening = "yes"
    /\ losses = 0

-----------------------------------------------------------------------------
(* The channels *)

Message(c, s) == [channel |-> c, session |-> s]

\* PUBLISH to crew: with no subscriber the message goes nowhere.
SendCommand(c, s) ==
    commands' = IF c \in deaf THEN commands ELSE commands \cup {Message(c, s)}

Receive(c, s) ==
    /\ Message(c, s) \in commands
    /\ commands' = commands \ {Message(c, s)}

\* crew's PUBLISH of a status.
Say(s, st) ==
    statuses' = IF listening = "yes"
                THEN Append(statuses, [session |-> s, status |-> st])
                ELSE statuses

Loss == losses < MaxLosses /\ losses' = losses + 1

\* The connection of one of crew's readers breaks, with what was in it.
CrewReaderBreaks(c) ==
    /\ c \notin deaf
    /\ Loss
    /\ deaf' = deaf \cup {c}
    /\ commands' = {m \in commands : m.channel # c}
    /\ UNCHANGED <<ledgerVars, crewVars, statuses, listening>>

CrewReaderReconnects(c) ==
    /\ c \in deaf
    /\ deaf' = deaf \ {c}
    /\ UNCHANGED <<ledgerVars, crewVars, commands, statuses, listening, losses>>

\* The listener's connection breaks, or its process restarts, with what it had
\* received and not handled.
ListenerBreaks ==
    /\ listening = "yes"
    /\ Loss
    /\ listening' = "no"
    /\ statuses' = <<>>
    /\ UNCHANGED <<ledgerVars, crewVars, commands, deaf>>

ListenerReconnects ==
    /\ listening = "no"
    /\ listening' = "yes"
    /\ UNCHANGED <<ledgerVars, crewVars, commands, deaf, statuses, losses>>

-----------------------------------------------------------------------------
(* django_app and the manager, sending *)

\* run_session's publish.
PublishSession(s) ==
    /\ \/ "start" \notin deaf /\ PublishHeard(s)
       \/ "start" \in deaf /\ PublishUnheard(s)
    /\ SendCommand("start", s)
    /\ UNCHANGED <<crewVars, deaf, statuses, listening, losses>>

\* stop_running_session's: there is no look at the session's status.
RequestStop(s) ==
    /\ Exists(s)
    /\ \/ "stop" \notin deaf /\ UNCHANGED ledgerVars
       \/ "stop" \in deaf /\ StopUnheard(s)
    /\ SendCommand("stop", s)
    /\ UNCHANGED <<crewVars, deaf, statuses, listening, losses>>

\* session_pre_delete_handler stops a session that has not finished, once its
\* deletion is committed.
RequestDelete(s) ==
    /\ DeleteSession(s)
    /\ IF status[s] \in Terminal THEN UNCHANGED commands ELSE SendCommand("stop", s)
    /\ UNCHANGED <<crewVars, deaf, statuses, listening, losses>>

\* Mutant: the sweep looks at running sessions only.
OverdueIfRunning(s) == status[s] = "run" /\ lifetime[s] # 0 /\ age[s] > 0

\* The sessions one sweep publishes a timeout for.
ToExpire(s) == Overdue(s)

\* The expiries of s on their way from crew to its row.
ExpiriesUnderWay(s) ==
    {i \in 1..Len(statuses) : statuses[i] = [session |-> s, status |-> "expired"]}
    \cup (IF expiring = s THEN {0} ELSE {})

\* sweep_once; the next sweep publishes again what is still overdue.
Sweep(s) ==
    /\ ToExpire(s)
    /\ Cardinality(ExpiriesUnderWay(s)) < MaxTimeouts
    /\ SendCommand("timeout", s)
    /\ UNCHANGED <<ledgerVars, crewVars, deaf, statuses, listening, losses>>

-----------------------------------------------------------------------------
(* crew, receiving and speaking *)

ReceiveStart(s) ==
    /\ Receive("start", s)
    /\ Crew!HandleStart(s)
    /\ UNCHANGED <<ledgerVars, deaf, statuses, listening, losses>>

\* Mutant: like the timeout, the stop is published for any session.
StopAnnounced(s) ==
    /\ s \notin pool
    /\ stopping' = s
    /\ UNCHANGED <<pool, queue, waiting, slots, pc, stopSet, stopStatus, outcome,
                   overBudget, chunks, finalVars, stopSent, expiring, lastPub,
                   unsaid, faults, restarts>>

\* A stop for a session crew does not know is dropped.
StopDropped(s) == s \notin pool /\ UNCHANGED crewVars

ReceiveStop(s) ==
    /\ Receive("stop", s)
    /\ \/ Crew!HandleStop(s)
       \/ stopping = NoSession /\ stopSent = NoSession /\ StopDropped(s)
    /\ UNCHANGED <<ledgerVars, deaf, statuses, listening, losses>>

ReceiveTimeout(s) ==
    /\ Receive("timeout", s)
    /\ Crew!HandleTimeout(s)
    /\ UNCHANGED <<ledgerVars, deaf, statuses, listening, losses>>

\* The stop and timeout handlers' publishes.
SayStop ==
    /\ Crew!PublishStop
    /\ Say(stopping, "stop")
    /\ UNCHANGED <<ledgerVars, commands, deaf, listening, losses>>

SayExpired ==
    /\ Crew!ExpiredPublished
    /\ Say(expiring, "expired")
    /\ UNCHANGED <<ledgerVars, commands, deaf, listening, losses>>

\* The steps of a coroutine that publish nothing.
CrewQuietRun(s) ==
    \/ \E over \in BOOLEAN : Crew!StreamChunk(s, over)
    \/ Crew!AddChunk(s)
    \/ Crew!ObserveStop(s)
    \/ Crew!GraphFails(s)
    \/ Crew!GraphEnds(s)
    \/ Crew!AddGraphEnd(s)
    \/ Crew!StoreFinalVariables(s)
    \/ Crew!ClearOutputs(s)
    \/ Crew!RunCommandFails(s)
    \/ Crew!RemoveTaskFromPool(s)

\* Mutant: the run leaves "stop" and "expired" to the handler that set the event.
SayErrorsOnly(s) ==
    IF faults' = faults /\ outcome[s] = "error"
    THEN Say(s, "error")
    ELSE UNCHANGED statuses

\* The except block's publish, unless it is the command that fails.
SayReport(s) ==
    IF faults' = faults THEN Say(s, outcome[s]) ELSE UNCHANGED statuses

\* A coroutine's step, its publish put on the channel.
CrewRun(s) ==
    /\ \/ Crew!PublishRun(s) /\ Say(s, "run")
       \/ Crew!PublishEnd(s) /\ Say(s, "end")
       \/ Crew!Report(s) /\ SayReport(s)
       \/ CrewQuietRun(s) /\ UNCHANGED statuses
    /\ UNCHANGED <<ledgerVars, commands, deaf, listening, losses>>

\* The worker, the semaphore, and a stop handler that resumes.
CrewQueues ==
    /\ Crew!WorkerDequeue \/ Crew!AcquireSlot \/ Crew!StopPublished
    /\ UNCHANGED <<ledgerVars, channelVars>>

HandlerFails ==
    /\ Crew!StopPublishFails \/ Crew!ExpiredPublishFails
    /\ UNCHANGED <<ledgerVars, channelVars>>

\* The process dies with its connections; it subscribes anew when it is back.
CrewRestarts ==
    /\ Crew!Restart
    /\ Loss
    /\ deaf' = Channels
    /\ commands' = {}
    /\ UNCHANGED <<ledgerVars, statuses, listening>>

-----------------------------------------------------------------------------
(* django_app, hearing *)

ApplyStatus ==
    /\ statuses # <<>>
    /\ StatusMessage(Head(statuses).session, Head(statuses).status)
    /\ statuses' = Tail(statuses)
    /\ UNCHANGED <<crewVars, commands, deaf, listening, losses>>

\* The database fails the handler, which logs it and takes the next message.
StatusDropped ==
    /\ statuses # <<>>
    /\ Loss
    /\ statuses' = Tail(statuses)
    /\ UNCHANGED <<ledgerVars, crewVars, commands, deaf, listening>>

LedgerAlone == LedgerStep /\ UNCHANGED <<crewVars, channelVars>>

SystemNext ==
    \/ LedgerAlone
    \/ ApplyStatus
    \/ StatusDropped
    \/ SayStop
    \/ SayExpired
    \/ CrewQueues
    \/ HandlerFails
    \/ CrewRestarts
    \/ ListenerBreaks
    \/ ListenerReconnects
    \/ \E c \in Channels : CrewReaderBreaks(c) \/ CrewReaderReconnects(c)
    \/ \E s \in Sessions :
         \/ PublishSession(s)
         \/ RequestStop(s)
         \/ RequestDelete(s)
         \/ Sweep(s)
         \/ ReceiveStart(s)
         \/ ReceiveStop(s)
         \/ ReceiveTimeout(s)
         \/ CrewRun(s)

\* Readers reconnect and deliver, crew's event loop and the listener go on, time
\* passes, and the manager sweeps.
SystemFairness ==
    /\ WF_systemVars(ApplyStatus)
    /\ WF_systemVars(RevokeAfterCommit /\ UNCHANGED <<crewVars, channelVars>>)
    /\ WF_systemVars(SayStop)
    /\ WF_systemVars(SayExpired)
    /\ WF_systemVars(CrewQueues)
    /\ WF_systemVars(ListenerReconnects)
    /\ \A c \in Channels : WF_systemVars(CrewReaderReconnects(c))
    /\ \A s \in Sessions :
         /\ WF_systemVars(Sweep(s))
         /\ WF_systemVars(ReceiveStart(s))
         /\ WF_systemVars(ReceiveStop(s))
         /\ WF_systemVars(ReceiveTimeout(s))
         /\ WF_systemVars(CrewRun(s))
         /\ WF_systemVars(Age(s) /\ UNCHANGED <<crewVars, channelVars>>)

SystemSpec == SystemInit /\ [][SystemNext]_systemVars
FairSystemSpec == SystemSpec /\ SystemFairness

-----------------------------------------------------------------------------
(* Properties *)

\* What the listener is sent is what SessionLedger lets its environment say, so
\* that everything shown of SessionLedger holds of the rows of this system.
ImplementsLedger == LedgerSpec

\* crew has finished with the session, and nothing about it is on its way.
AtRest(s) ==
    /\ pc[s] = "done"
    /\ s \notin {stopping, stopSent, expiring}
    /\ \A m \in commands : m.session # s
    /\ \A i \in 1..Len(statuses) : statuses[i].session # s

\* When all is quiet the database holds the last word crew said of the session,
\* which ended it, whatever overtook what and whatever command of crew failed but the
\* publish of that word; only an expiry after an end or an error is left out.
AgreeAtRest ==
    \A s \in Sessions :
        (AtRest(s) /\ losses = 0 /\ s \notin unsaid /\ restarts = 0)
            => \/ status[s] = lastPub[s] /\ status[s] \in Terminal
               \/ status[s] \in {"end", "error"} /\ lastPub[s] = "expired"
               \/ status[s] = "deleted"

\* The storage account of a running session with no deadline is not revoked
\* unless the run is being stopped.
RevokedIsStopping ==
    \A s \in Sessions :
        (account[s] = "revoked" /\ lifetime[s] = 0 /\ faults = 0)
            => \/ pc[s] \notin {"starting", "streaming", "adding", "ending", "storing", "closing"}
               \/ stopSet[s] \/ stopSent = s

\* A session with a deadline is settled for good, wherever its run was lost: a
\* request that died, a start lost on its way, a restart of crew, a status
\* nobody heard.
DeadlineSettles ==
    \A s \in Sessions :
        <>[](request[s] # "none" /\ lifetime[s] # 0 => status[s] \in Terminal \cup {"deleted"})

\* A session crew was sent is settled for good without any deadline, even when a
\* stop overtakes its start, as long as nothing fails between it and its row.
SentSettles ==
    \A s \in Sessions :
        <>[](request[s] = "sent" /\ losses = 0 /\ faults = 0 /\ restarts = 0
                => status[s] \in Terminal \cup {"deleted"})
=============================================================================
