------------------------- MODULE SessionSystemProofs -------------------------
(* Theorems about SessionSystem, for any sessions, slots and bounds: each     *)
(* side stays within what the other's module lets its environment do, so that *)
(* the rows keep their contract whatever crew and the channels do; and the    *)
(* row and the storage account of a session follow its run.                   *)
EXTENDS SessionSystem, SessionLedgerProofs

CrewP == INSTANCE CrewSessionsProofs

-----------------------------------------------------------------------------
(* The inductive invariant *)

\* Coroutines that will not go on with their graph.
Late == {"clearing", "reporting", "finished", "done", "lost"}

AboutNothing(s) == \A i \in 1..Len(statuses) : statuses[i].session # s

\* The i-th message on its way to the listener is the last one about s.
Latest(s, i) ==
    /\ statuses[i].session = s
    /\ \A j \in i + 1..Len(statuses) : statuses[j].session # s

ChannelTypes ==
    /\ commands \subseteq Command
    /\ deaf \subseteq Channels
    /\ statuses \in Seq([session : Sessions, status : Published])
    /\ listening \in {"yes", "no"}
    /\ losses \in Nat
    /\ losses = 0 => deaf = {} /\ listening = "yes"

\* The stop channel's reader handles one message at a time.
OneStopAtATime == stopping = NoSession \/ stopSent = NoSession

\* crew knows only what run_session sent, and says of the rest only that it expired.
SpokenOfSent ==
    /\ \A s \in Sessions :
         pc[s] # "new" \/ Message("start", s) \in commands => request[s] = "sent"
    /\ \A i \in 1..Len(statuses) : MayBeSaid(statuses[i].session, statuses[i].status)

\* Only a session with a row and a deadline is ever expired.
ExpiryIsDue ==
    \A s \in Sessions :
        /\ request[s] = "none" => lastPub[s] = "none" /\ AboutNothing(s)
        /\ request[s] = "none" \/ lifetime[s] = 0 =>
             Message("timeout", s) \notin commands /\ expiring # s

\* The end of s is on its way to its storage account, or has reached it.
Told(s) ==
    \/ account[s] = "revoked" \/ revoking = s
    \/ \E i \in 1..Len(statuses) : statuses[i].session = s /\ statuses[i].status \in Terminal

\* The run of s is over, or has been told to stop.
Stopping(s) == pc[s] # "new" /\ (pc[s] \in Late \/ stopSet[s] \/ stopSent = s)

\* ... or it never started.
Settled(s) == request[s] = "failed" \/ (request[s] = "sent" /\ Stopping(s))

\* An account is told of an end only once there is one.
ToldIsSettled ==
    \A s \in Sessions : faults = 0 /\ lifetime[s] = 0 /\ Told(s) => Settled(s)

\* While nothing is lost, the last message about s on its way to the listener says
\* what crew said last, and once there is none its row does.
RowFollows ==
    losses = 0 => \A s \in Sessions :
        request[s] # "failed" /\ status[s] # "deleted" =>
            /\ \A i \in 1..Len(statuses) :
                 Latest(s, i) => statuses[i].status = lastPub[s]
            /\ AboutNothing(s) =>
                 \/ lastPub[s] = "none"
                 \/ status[s] = lastPub[s]
                 \/ status[s] \in {"end", "error"} /\ lastPub[s] = "expired"

\* How the rows, the messages on their way and the runs cohere.
SystemInv ==
    /\ ChannelTypes
    /\ OneStopAtATime
    /\ SpokenOfSent
    /\ ExpiryIsDue
    /\ ToldIsSettled
    /\ RowFollows

-----------------------------------------------------------------------------
(* crew within the system *)

\* Every step of a coroutine is one of crew's own.
LEMMA CrewRunIsCrews ==
    ASSUME NEW s \in Sessions, CrewRun(s)
    PROVE  Crew!RunStep(s)
BY Zenon DEF CrewRun, CrewQuietRun, Crew!RunStep

\* Every step of the system is one of crew's, or leaves crew alone.
LEMMA StepIsCrews ==
    ASSUME [SystemNext]_systemVars
    PROVE  [Crew!CrewNext]_(Crew!crewVars)
<1> USE DEF Crew!CrewNext
<1>1. CASE UNCHANGED crewVars
  BY <1>1 DEF crewVars, Crew!crewVars
<1>2. ASSUME NEW s \in Sessions, CrewRun(s)
      PROVE  Crew!CrewNext
  BY <1>2, CrewRunIsCrews, Zenon DEF Crew!CrewStep
<1>3. ASSUME NEW s \in Sessions, ReceiveStart(s) \/ ReceiveStop(s) \/ ReceiveTimeout(s)
      PROVE  Crew!CrewNext \/ UNCHANGED crewVars
  BY <1>3, Zenon DEF ReceiveStart, ReceiveStop, ReceiveTimeout, StopDropped, Crew!Messages
<1>4. CASE SayStop \/ SayExpired \/ CrewQueues \/ HandlerFails \/ CrewRestarts
  BY <1>4, Zenon DEF SayStop, SayExpired, CrewQueues, HandlerFails, CrewRestarts,
     Crew!CrewStep, Crew!HandlerStep
<1> QED
  BY <1>1, <1>2, <1>3, <1>4, Zenon
  DEF SystemNext, LedgerAlone, ApplyStatus, StatusDropped, ListenerBreaks,
      ListenerReconnects, CrewReaderBreaks, CrewReaderReconnects, PublishSession, RequestStop,
      RequestDelete, Sweep, systemVars

\* The system's crew is CrewSessions with some of its messages.
LEMMA SystemRunsCrew == SystemSpec => Crew!CrewSpec
<1>1. SystemInit => Crew!CrewInit
  BY DEF SystemInit
<1>2. [SystemNext]_systemVars => [Crew!CrewNext]_(Crew!crewVars)
  BY StepIsCrews
<1> QED
  BY <1>1, <1>2, PTL DEF SystemSpec, Crew!CrewSpec

\* The steps of crew are the same through either instance.
LEMMA CrewNextSame == Crew!CrewNext <=> CrewP!CrewNext
BY Zenon
DEF Crew!GoTo, CrewP!GoTo, Crew!Publish, CrewP!Publish, Crew!Raise, CrewP!Raise,
    Crew!CheckStop, CrewP!CheckStop, Crew!ReleaseSlot, CrewP!ReleaseSlot, Crew!Fault,
    CrewP!Fault, Crew!HandleStart, CrewP!HandleStart, Crew!WorkerDequeue,
    CrewP!WorkerDequeue, Crew!HandleStop, CrewP!HandleStop, Crew!SignalStop,
    CrewP!SignalStop, Crew!PublishStop, CrewP!PublishStop, Crew!StopPublished,
    CrewP!StopPublished, Crew!StopPublishFails, CrewP!StopPublishFails, Crew!HandleTimeout,
    CrewP!HandleTimeout, Crew!ExpiredPublished, CrewP!ExpiredPublished,
    Crew!Running, CrewP!Running,
    Crew!ExpiredPublishFails, CrewP!ExpiredPublishFails, Crew!SlotFree, CrewP!SlotFree,
    Crew!AcquireSlot, CrewP!AcquireSlot, Crew!RunVarsUnchanged, CrewP!RunVarsUnchanged,
    Crew!PublishRun, CrewP!PublishRun, Crew!StreamChunk, CrewP!StreamChunk, Crew!AddChunk, CrewP!AddChunk,
    Crew!ObserveStop, CrewP!ObserveStop, Crew!GraphFails, CrewP!GraphFails, Crew!GraphEnds,
    CrewP!GraphEnds, Crew!AddGraphEnd, CrewP!AddGraphEnd, Crew!StoreFinalVariables,
    CrewP!StoreFinalVariables, Crew!PublishEnd, CrewP!PublishEnd, Crew!ClearOutputs,
    CrewP!ClearOutputs, Crew!RunCommandFails, CrewP!RunCommandFails, Crew!Announce,
    CrewP!Announce, Crew!Report, CrewP!Report, Crew!RemoveTaskFromPool,
    CrewP!RemoveTaskFromPool, Crew!RunStep, CrewP!RunStep, Crew!Restart, CrewP!Restart,
    Crew!HandlerStep, CrewP!HandlerStep, Crew!CrewStep, CrewP!CrewStep, Crew!Messages,
    CrewP!Messages, Crew!CrewNext, CrewP!CrewNext, Crew!crewVars, CrewP!crewVars

\* The invariant of crew is the same through either instance.
LEMMA CrewInvSame == Crew!CrewInv <=> CrewP!CrewInv
BY Zenon
DEF Crew!PC, CrewP!PC, Crew!Live, CrewP!Live, Crew!Running, CrewP!Running, Crew!Terminal,
    CrewP!Terminal, Crew!Status, CrewP!Status, Crew!CrewTypeOK, CrewP!CrewTypeOK,
    Crew!QueuesMatchPc, CrewP!QueuesMatchPc, Crew!HeldOnce, CrewP!HeldOnce,
    Crew!FreshUntouched, CrewP!FreshUntouched, Crew!StillStoppable, CrewP!StillStoppable,
    Crew!BudgetStops, CrewP!BudgetStops, Crew!WordSpoken, CrewP!WordSpoken, Crew!CrewInv,
    CrewP!CrewInv

\* What CrewSessionsProofs proves holds of the instance in the system.
LEMMA CrewKeepsInv == Crew!CrewSpec => []Crew!CrewInv
<1>1. Crew!CrewInit <=> CrewP!CrewInit
  BY DEF Crew!CrewInit, CrewP!CrewInit
<1>2. [Crew!CrewNext]_(Crew!crewVars) <=> [CrewP!CrewNext]_(CrewP!crewVars)
  BY CrewNextSame DEF Crew!crewVars, CrewP!crewVars
<1>3. CrewP!CrewSpec => []CrewP!CrewInv
  BY LedgerAssumption, SystemAssumption, CrewP!CrewInductive
  DEF CrewP!CrewAssumption, CrewP!CrewInductive
<1> QED
  BY <1>1, <1>2, <1>3, CrewInvSame, PTL DEF Crew!CrewSpec, CrewP!CrewSpec

\* What a step of a coroutine leaves of the rest, and what it may say.
LEMMA CrewRunFrame ==
    ASSUME Crew!CrewTypeOK, Crew!WordSpoken, NEW s \in Sessions, CrewRun(s)
    PROVE  /\ pc[s] # "new" /\ pc'[s] # "new"
           /\ pc[s] \in Late => pc'[s] \in Late
           /\ \A t \in Sessions \ {s} : pc'[t] = pc[t]
           /\ \A t \in Sessions : stopSet[t] => stopSet'[t]
           /\ UNCHANGED <<ledgerVars, stopping, stopSent, expiring>>
           /\ UNCHANGED <<commands, deaf, listening, losses>>
           /\ faults' = 0 => faults = 0
           /\ \/ UNCHANGED <<lastPub, statuses>>
              \/ \E st \in Published :
                   /\ lastPub' = [lastPub EXCEPT ![s] = st]
                   /\ Say(s, st)
                   /\ st \in Terminal => pc'[s] \in Late
<1>t. /\ pc \in [Sessions -> Crew!PC] /\ stopSet \in [Sessions -> BOOLEAN] /\ faults \in Nat
      /\ lastPub \in [Sessions -> Crew!Status \cup {"none"}]
  BY DEF Crew!CrewTypeOK
<1>u. UNCHANGED <<ledgerVars, commands, deaf, listening, losses>>
  BY DEF CrewRun
<1> USE DEF Crew!RunVarsUnchanged, Crew!GoTo, Crew!Publish, Crew!Raise, Crew!Fault, Late
<1>1. CASE Crew!PublishRun(s) /\ Say(s, "run")
  <2>1. "run" \in Published /\ "run" \notin Terminal
    BY DEF Published, Terminal
  <2> QED
    BY <1>t, <1>u, <1>1, <2>1 DEF Crew!PublishRun
<1>2. CASE Crew!PublishEnd(s) /\ Say(s, "end")
  <2>1. "end" \in Published
    BY DEF Published, Terminal
  <2> QED
    BY <1>t, <1>u, <1>2, <2>1 DEF Crew!PublishEnd
<1>3. CASE Crew!Report(s) /\ SayReport(s)
  <2>1. /\ pc[s] = "reporting" /\ pc' = [pc EXCEPT ![s] = "finished"]
        /\ UNCHANGED <<stopSet, stopping, stopSent, expiring>>
        /\ faults' = 0 => faults = 0
    BY <1>t, <1>3 DEF Crew!Report
  <2>2. outcome[s] \in Published
    BY <2>1 DEF Crew!WordSpoken, Crew!Terminal, Published, Terminal
  <2>3. CASE faults' = faults
    <3>1. Crew!Announce(s) /\ Say(s, outcome[s])
      BY <1>t, <1>3, <2>3 DEF Crew!Report, SayReport
    <3> QED
      BY <1>t, <1>u, <2>1, <2>2, <3>1 DEF Crew!Announce
  <2>4. CASE faults' # faults
    <3>1. UNCHANGED <<lastPub, statuses>>
      BY <1>3, <2>4 DEF Crew!Report, SayReport
    <3> QED
      BY <1>t, <1>u, <2>1, <3>1
  <2> QED
    BY <2>3, <2>4
<1>4. CASE CrewQuietRun(s) /\ UNCHANGED statuses
  <2>1. ASSUME NEW over \in BOOLEAN, Crew!StreamChunk(s, over)
        PROVE  /\ pc[s] = "streaming" /\ pc' = [pc EXCEPT ![s] = "adding"]
               /\ stopSet' = [stopSet EXCEPT ![s] = @ \/ over]
               /\ UNCHANGED <<stopping, stopSent, expiring, lastPub, faults>>
    BY <2>1 DEF Crew!StreamChunk
  <2>2. CASE \E over \in BOOLEAN : Crew!StreamChunk(s, over)
    BY <1>t, <1>u, <1>4, <2>1, <2>2
  <2>3. CASE Crew!AddChunk(s) \/ Crew!ObserveStop(s) \/ Crew!GraphFails(s)
    BY <1>t, <1>u, <1>4, <2>3 DEF Crew!AddChunk, Crew!ObserveStop, Crew!GraphFails, Crew!CheckStop
  <2>4. CASE Crew!GraphEnds(s) \/ Crew!AddGraphEnd(s) \/ Crew!StoreFinalVariables(s)
    BY <1>t, <1>u, <1>4, <2>4 DEF Crew!GraphEnds, Crew!AddGraphEnd, Crew!StoreFinalVariables
  <2>5. CASE Crew!ClearOutputs(s) \/ Crew!RunCommandFails(s) \/ Crew!RemoveTaskFromPool(s)
    BY <1>t, <1>u, <1>4, <2>5 DEF Crew!ClearOutputs, Crew!RunCommandFails, Crew!RemoveTaskFromPool
  <2> QED
    BY <1>4, <2>2, <2>3, <2>4, <2>5, Zenon DEF CrewQuietRun
<1> QED
  BY <1>1, <1>2, <1>3, <1>4, Zenon DEF CrewRun

\* The head of a queue, and what follows it.
LEMMA QueueHead ==
    ASSUME NEW S, NEW q \in Seq(S), q # <<>>
    PROVE  /\ Head(q) \in S /\ Head(q) = q[1] /\ 1 \in 1..Len(q)
           /\ Tail(q) \in Seq(S) /\ Len(Tail(q)) = Len(q) - 1
           /\ \A i \in 1..Len(Tail(q)) : Tail(q)[i] = q[i + 1] /\ i + 1 \in 1..Len(q)
OBVIOUS

\* What no step takes back from crew, and where its news come from.
LEMMA CrewFrame ==
    ASSUME Crew!CrewInv, OneStopAtATime, [SystemNext]_systemVars
    PROVE  /\ OneStopAtATime'
           /\ faults' = 0 => faults = 0
           /\ \A s \in Sessions :
                /\ pc[s] # "new" => pc'[s] # "new"
                /\ pc'[s] # "new" => pc[s] # "new" \/ Message("start", s) \in commands
                /\ expiring' = s => expiring = s \/ Message("timeout", s) \in commands
                /\ faults' = 0 /\ Stopping(s) => Stopping(s)'
<1>t. /\ pc \in [Sessions -> Crew!PC]
      /\ stopSet \in [Sessions -> BOOLEAN]
      /\ stopping \in Sessions \cup {NoSession}
      /\ stopSent \in Sessions \cup {NoSession}
      /\ expiring \in Sessions \cup {NoSession}
      /\ NoSession \notin Sessions
      /\ faults \in Nat
      /\ queue \in Seq(Sessions) /\ waiting \in Seq(Sessions)
  BY LedgerAssumption DEF Crew!CrewInv, Crew!CrewTypeOK
<1>k. Crew!CrewTypeOK /\ Crew!WordSpoken
  BY DEF Crew!CrewInv
<1>f. /\ \A s \in Sessions : pc[s] = "new" => s \notin pool /\ ~stopSet[s] /\ s \notin {stopping, stopSent}
      /\ \A s \in Sessions : pc[s] \in Crew!Live => s \in pool \/ stopSet[s]
  BY DEF Crew!CrewInv, Crew!FreshUntouched, Crew!StillStoppable
<1> DEFINE Kept(s) ==
       /\ pc[s] # "new" => pc'[s] # "new"
       /\ pc'[s] # "new" => pc[s] # "new" \/ Message("start", s) \in commands
       /\ expiring' = s => expiring = s \/ Message("timeout", s) \in commands
       /\ faults' = 0 /\ Stopping(s) => Stopping(s)'
<1> DEFINE AllKept == OneStopAtATime' /\ (faults' = 0 => faults = 0) /\ \A s \in Sessions : Kept(s)
<1> USE <1>t DEF OneStopAtATime, Stopping, Late
<1>1. ASSUME NEW x \in Sessions, ReceiveStart(x)
      PROVE  AllKept
  BY <1>1 DEF ReceiveStart, Receive, Crew!HandleStart, Crew!GoTo
<1>2. ASSUME NEW x \in Sessions, ReceiveStop(x)
      PROVE  AllKept
  BY <1>2 DEF ReceiveStop, Crew!HandleStop, StopDropped, crewVars
<1>3. ASSUME NEW x \in Sessions, ReceiveTimeout(x)
      PROVE  AllKept
  BY <1>3 DEF ReceiveTimeout, Receive, Crew!HandleTimeout, Crew!SignalStop
<1>4. ASSUME NEW x \in Sessions, CrewRun(x)
      PROVE  AllKept
  BY <1>k, <1>4, CrewRunFrame
<1>5. ASSUME SayStop
      PROVE  AllKept
  BY <1>5 DEF SayStop, Crew!PublishStop
<1>6. ASSUME SayExpired
      PROVE  AllKept
  BY <1>6 DEF SayExpired, Crew!ExpiredPublished
<1>7. ASSUME Crew!WorkerDequeue
      PROVE  AllKept
  <2>1. Head(queue) \in Sessions /\ pc[Head(queue)] = "queued"
    BY <1>7, QueueHead DEF Crew!WorkerDequeue, Crew!CrewInv, Crew!QueuesMatchPc, Crew!HeldOnce
  <2>2. /\ UNCHANGED <<stopSet, stopping, stopSent, expiring, faults>>
        /\ \E st \in {"waiting", "done"} : pc' = [pc EXCEPT ![Head(queue)] = st]
    BY <1>7 DEF Crew!WorkerDequeue
  <2> QED
    BY <2>1, <2>2
<1>8. ASSUME Crew!AcquireSlot
      PROVE  AllKept
  <2>1. Head(waiting) \in Sessions /\ pc[Head(waiting)] = "waiting"
    BY <1>8, QueueHead DEF Crew!AcquireSlot, Crew!CrewInv, Crew!QueuesMatchPc, Crew!HeldOnce
  <2>2. /\ UNCHANGED <<stopSet, stopping, stopSent, expiring, faults>>
        /\ \E st \in {"finished", "starting"} : pc' = [pc EXCEPT ![Head(waiting)] = st]
    BY <1>8 DEF Crew!AcquireSlot
  <2> QED
    BY <2>1, <2>2
<1>9. ASSUME Crew!StopPublished
      PROVE  AllKept
  <2>1. \A s \in Sessions : pc[s] # "new" /\ s \notin pool /\ ~stopSet[s] => pc[s] \in Late
    BY <1>f DEF Crew!PC, Crew!Live
  <2> QED
    BY <1>9, <2>1 DEF Crew!StopPublished, Crew!SignalStop
<1>10. ASSUME HandlerFails
       PROVE  AllKept
  BY <1>10 DEF HandlerFails, Crew!StopPublishFails, Crew!ExpiredPublishFails, Crew!Fault
<1>11. ASSUME CrewRestarts
       PROVE  AllKept
  BY <1>11 DEF CrewRestarts, Crew!Restart
<1>12. ASSUME UNCHANGED crewVars
       PROVE  AllKept
  BY <1>12 DEF crewVars
<1> HIDE DEF AllKept
<1>13. AllKept
  BY <1>1, <1>2, <1>3, <1>4, <1>5, <1>6, <1>7, <1>8, <1>9, <1>10, <1>11, <1>12, Zenon
  DEF SystemNext, LedgerAlone, ApplyStatus, StatusDropped, CrewQueues, ListenerBreaks,
      ListenerReconnects, CrewReaderBreaks, CrewReaderReconnects, PublishSession, RequestStop,
      RequestDelete, Sweep, systemVars
<1> QED
  BY <1>13, Zenon DEF AllKept

-----------------------------------------------------------------------------
(* The ledger within the system *)

\* The steps that touch the rows: the requests, and the listener.
LEMMA SystemSteps ==
    ASSUME [SystemNext]_systemVars
    PROVE  \/ LedgerAlone
           \/ ApplyStatus
           \/ \E s \in Sessions : PublishSession(s) \/ RequestStop(s) \/ RequestDelete(s)
           \/ UNCHANGED ledgerVars
<1>1. ASSUME NEW s \in Sessions, CrewRun(s)
      PROVE  UNCHANGED ledgerVars
  BY <1>1, Zenon DEF CrewRun
<1>2. ASSUME NEW s \in Sessions, ReceiveStart(s) \/ ReceiveStop(s) \/ ReceiveTimeout(s) \/ Sweep(s)
      PROVE  UNCHANGED ledgerVars
  BY <1>2, Zenon DEF ReceiveStart, ReceiveStop, ReceiveTimeout, Sweep
<1>3. ASSUME SayStop \/ SayExpired \/ CrewQueues \/ HandlerFails \/ CrewRestarts
             \/ StatusDropped \/ ListenerBreaks \/ ListenerReconnects \/ UNCHANGED systemVars
      PROVE  UNCHANGED ledgerVars
  BY <1>3, Zenon DEF SayStop, SayExpired, CrewQueues, HandlerFails, CrewRestarts,
     StatusDropped, ListenerBreaks, ListenerReconnects, systemVars
<1>4. ASSUME NEW c \in Channels, CrewReaderBreaks(c) \/ CrewReaderReconnects(c)
      PROVE  UNCHANGED ledgerVars
  BY <1>4, Zenon DEF CrewReaderBreaks, CrewReaderReconnects
<1> QED
  BY <1>1, <1>2, <1>3, <1>4, Zenon DEF SystemNext

\* What the listener is sent, SessionLedger lets its environment say.
LEMMA StepIsLedgers ==
    ASSUME ChannelTypes, SpokenOfSent, [SystemNext]_systemVars
    PROVE  [LedgerNext]_ledgerVars
<1>1. ASSUME LedgerAlone
      PROVE  LedgerNext
  BY <1>1 DEF LedgerAlone, LedgerNext
<1>2. ASSUME NEW s \in Sessions, PublishSession(s) \/ RequestStop(s) \/ RequestDelete(s)
      PROVE  [LedgerNext]_ledgerVars
  BY <1>2, Zenon DEF PublishSession, RequestStop, RequestDelete, LedgerNext
<1>3. ASSUME ApplyStatus
      PROVE  LedgerNext
  <2> DEFINE m == Head(statuses)
  <2>1. m \in [session : Sessions, status : Published] /\ m = statuses[1] /\ 1 \in 1..Len(statuses)
    BY <1>3, QueueHead DEF ApplyStatus, ChannelTypes
  <2>2. MayBeSaid(m.session, m.status) /\ m.session \in Sessions /\ m.status \in Published
    BY <2>1 DEF SpokenOfSent
  <2> QED
    BY <1>3, <2>2, Zenon DEF ApplyStatus, LedgerNext
<1> QED
  BY <1>1, <1>2, <1>3, SystemSteps, Zenon

\* What a step of the ledger may do to a session's request, deadline and account.
LEMMA LedgerFrame ==
    ASSUME LedgerInv, [LedgerNext]_ledgerVars, NEW s \in Sessions
    PROVE  /\ request[s] \in {"sent", "failed"} => request'[s] = request[s]
           /\ request'[s] = "none" => request[s] = "none"
           /\ request[s] # "none" => lifetime'[s] = lifetime[s]
           /\ status[s] = "deleted" => status'[s] = "deleted"
<1>t. /\ request \in [Sessions -> {"none", "created", "issued", "sent", "failed"}]
      /\ status \in [Sessions -> SessionStatus \cup {"none", "deleted"}]
      /\ lifetime \in [Sessions -> Lifetimes \cup {0}]
  BY DEF LedgerInv, LedgerTypeOK
<1>b. status[s] = "none" <=> request[s] = "none"
  BY DEF LedgerInv, NothingBeforeRow
<1> DEFINE Kept ==
       /\ request[s] \in {"sent", "failed"} => request'[s] = request[s]
       /\ request'[s] = "none" => request[s] = "none"
       /\ request[s] # "none" => lifetime'[s] = lifetime[s]
       /\ status[s] = "deleted" => status'[s] = "deleted"
<1> USE <1>t, <1>b DEF rows, callbackVars, storageVars
<1>1. ASSUME NEW x \in Sessions, NEW ttl \in Lifetimes, NEW c \in Callbacks, CreateSession(x, ttl, c)
      PROVE  Kept
  BY <1>1 DEF CreateSession
<1>2. ASSUME NEW x \in Sessions,
             \/ RunRefused(x) \/ \E m \in Storage : RunFails(x, m)
             \/ PublishUnheard(x) \/ StopUnheard(x)
      PROVE  Kept
  <2>1. /\ UNCHANGED lifetime
        /\ \/ UNCHANGED request
           \/ request[x] \in {"created", "issued"} /\ request' = [request EXCEPT ![x] = "failed"]
        /\ \A y \in Sessions : status[y] = "deleted" => status'[y] = "deleted"
    BY <1>2 DEF RunRefused, RunFails, PublishUnheard, StopUnheard, EndNow, Exists
  <2> QED
    BY <2>1
<1>3. ASSUME NEW x \in Sessions, NEW st \in Published, HandleStatus(x, st)
      PROVE  Kept
  BY <1>3 DEF HandleStatus, SetStatus, Exists
<1>4. ASSUME NEW x \in Sessions,
             \/ PublishHeard(x) \/ DeleteSession(x)
             \/ \E n \in Storage : IssueCredentials(x, n)
      PROVE  Kept
  BY <1>4 DEF PublishHeard, DeleteSession, IssueCredentials
<1>5. ASSUME UNCHANGED <<request, status, lifetime>>
      PROVE  Kept
  BY <1>5
<1>6. ASSUME NEW x \in Sessions,
              \/ StopEnqueues(x) \/ ReapRead(x) \/ SendPost(x) \/ SecretLost(x)
              \/ Age(x) \/ FinishedAges(x)
      PROVE  UNCHANGED <<request, status, lifetime>>
  BY <1>6 DEF StopEnqueues, ReapRead, SendPost, SecretLost, Age, FinishedAges
<1>7. ASSUME RevokeAfterCommit \/ ReapSettle \/ RecordOutcome \/ SenderCrash \/ CleanupAccounts
             \/ UNCHANGED ledgerVars
      PROVE  UNCHANGED <<request, status, lifetime>>
  BY <1>7 DEF RevokeAfterCommit, ReapSettle, RecordOutcome, SenderCrash, CleanupAccounts, ledgerVars
<1> HIDE DEF Kept
<1>8. Kept
  BY <1>1, <1>2, <1>3, <1>4, <1>5, <1>6, <1>7, LedgerActions, Zenon
<1> QED
  BY <1>8 DEF Kept

\* A row moves, and an account goes, without the listener only where the request failed.
LEMMA LedgerAloneFrame ==
    ASSUME LedgerInv, LedgerAlone, NEW s \in Sessions
    PROVE  /\ status'[s] = status[s] \/ request[s] = "none" \/ request'[s] = "failed"
           /\ account'[s] = "revoked" \/ revoking' = s =>
                account[s] = "revoked" \/ revoking = s \/ request'[s] = "failed"
<1>t. /\ request \in [Sessions -> {"none", "created", "issued", "sent", "failed"}]
      /\ status \in [Sessions -> SessionStatus \cup {"none", "deleted"}]
      /\ account \in [Sessions -> {"none", "live", "revoked"}]
      /\ revoking \in Sessions \cup {NoSession} /\ NoSession \notin Sessions
  BY LedgerAssumption DEF LedgerInv, LedgerTypeOK
<1> DEFINE Kept ==
       /\ status'[s] = status[s] \/ request[s] = "none" \/ request'[s] = "failed"
       /\ account'[s] = "revoked" \/ revoking' = s =>
            account[s] = "revoked" \/ revoking = s \/ request'[s] = "failed"
<1> USE <1>t DEF rows, callbackVars, storageVars
<1>1. ASSUME NEW x \in Sessions, NEW ttl \in Lifetimes, NEW c \in Callbacks, CreateSession(x, ttl, c)
      PROVE  Kept
  BY <1>1 DEF CreateSession
<1>2. ASSUME NEW x \in Sessions, RunRefused(x) \/ \E m \in Storage : RunFails(x, m)
      PROVE  Kept
  <2>1. /\ request' = [request EXCEPT ![x] = "failed"] /\ UNCHANGED revoking
        /\ \A y \in Sessions \ {x} : account'[y] = account[y] /\ status'[y] = status[y]
    BY <1>2 DEF RunRefused, RunFails, EndNow, Revoke, RevokeFails
  <2> QED
    BY <2>1
<1>3. ASSUME NEW x \in Sessions, NEW n \in Storage, IssueCredentials(x, n)
      PROVE  Kept
  BY <1>3 DEF IssueCredentials
<1>4. ASSUME RevokeAfterCommit
      PROVE  Kept
  <2>1. /\ UNCHANGED <<request, status>>
        /\ revoking \in Sessions /\ revoking' = NoSession
        /\ \A y \in Sessions \ {revoking} : account'[y] = account[y]
    BY <1>4 DEF RevokeAfterCommit, Revoke, RevokeFails
  <2> QED
    BY <2>1
<1>5. ASSUME UNCHANGED <<request, status, account, revoking>>
      PROVE  Kept
  BY <1>5
<1>6. ASSUME NEW x \in Sessions,
              \/ StopEnqueues(x) \/ ReapRead(x) \/ SendPost(x) \/ SecretLost(x)
              \/ Age(x) \/ FinishedAges(x)
      PROVE  UNCHANGED <<request, status, account, revoking>>
  BY <1>6 DEF StopEnqueues, ReapRead, SendPost, SecretLost, Age, FinishedAges
<1>7. ASSUME ReapSettle \/ RecordOutcome \/ SenderCrash \/ CleanupAccounts
      PROVE  UNCHANGED <<request, status, account, revoking>>
  BY <1>7 DEF ReapSettle, RecordOutcome, SenderCrash, CleanupAccounts
<1> HIDE DEF Kept
<1>8. Kept
  BY <1>1, <1>2, <1>3, <1>4, <1>5, <1>6, <1>7, Zenon DEF LedgerAlone, LedgerStep, RunRequest, Sender
<1> QED
  BY <1>8 DEF Kept

-----------------------------------------------------------------------------
(* The channels *)

\* crew says st of s: on the channel, and as its last word.
Speaks(s, st) ==
    /\ lastPub' = [lastPub EXCEPT ![s] = st]
    /\ Say(s, st)
    /\ UNCHANGED <<ledgerVars, listening, losses>>
    /\ pc[s] # "new" \/ (st = "expired" /\ expiring = s)
    /\ st \in Terminal => pc'[s] \in Late \/ stopSent' = s \/ expiring = s

\* The listener loses the oldest word said, or all of them.
Loses ==
    /\ \/ statuses' = <<>>
       \/ statuses # <<>> /\ statuses' = Tail(statuses)
    /\ UNCHANGED lastPub /\ losses' # 0 /\ UNCHANGED ledgerVars

\* A step speaks one word, or has it heard, or loses words said, or says nothing.
LEMMA StatusesFrame ==
    ASSUME Crew!CrewInv, ChannelTypes, [SystemNext]_systemVars
    PROVE  \/ UNCHANGED <<statuses, lastPub>>
           \/ \E s \in Sessions, st \in Published : Speaks(s, st)
           \/ ApplyStatus
           \/ Loses
<1>t. /\ stopping \in Sessions \cup {NoSession}
      /\ expiring \in Sessions \cup {NoSession}
      /\ losses \in Nat
      /\ {"stop", "expired"} \subseteq Published
  BY DEF Crew!CrewInv, Crew!CrewTypeOK, ChannelTypes, Published, Terminal
<1>1. ASSUME SayStop
      PROVE  \E s \in Sessions : Speaks(s, "stop")
  <2>1. stopping \in Sessions /\ Crew!PublishStop /\ Say(stopping, "stop")
        /\ UNCHANGED <<ledgerVars, commands, deaf, listening, losses>>
    BY <1>t, <1>1 DEF SayStop, Crew!PublishStop
  <2>2. pc[stopping] # "new"
    BY <2>1 DEF Crew!CrewInv, Crew!FreshUntouched
  <2> QED
    BY <2>1, <2>2 DEF Speaks, Crew!PublishStop, Crew!Publish
<1>2. ASSUME SayExpired
      PROVE  \E s \in Sessions : Speaks(s, "expired")
  BY <1>t, <1>2 DEF SayExpired, Crew!ExpiredPublished, Crew!Publish, Speaks
<1>3. ASSUME NEW s \in Sessions, CrewRun(s)
      PROVE  UNCHANGED <<statuses, lastPub>> \/ \E st \in Published : Speaks(s, st)
  BY <1>3, CrewRunFrame DEF Crew!CrewInv, Speaks
<1>4. ASSUME ListenerBreaks \/ StatusDropped
      PROVE  Loses
  BY <1>t, <1>4 DEF ListenerBreaks, StatusDropped, Loss, Loses, crewVars
<1>5. ASSUME UNCHANGED <<crewVars, statuses>>
      PROVE  UNCHANGED <<statuses, lastPub>>
  BY <1>5 DEF crewVars
<1>6. ASSUME CrewQueues \/ HandlerFails \/ CrewRestarts
      PROVE  UNCHANGED <<statuses, lastPub>>
  BY <1>6 DEF CrewQueues, HandlerFails, CrewRestarts, Crew!WorkerDequeue, Crew!AcquireSlot,
     Crew!StopPublished, Crew!StopPublishFails, Crew!ExpiredPublishFails, Crew!Restart, channelVars
<1>7. ASSUME NEW s \in Sessions, ReceiveStart(s) \/ ReceiveStop(s) \/ ReceiveTimeout(s)
      PROVE  UNCHANGED <<statuses, lastPub>>
  BY <1>7 DEF ReceiveStart, ReceiveStop, ReceiveTimeout, Crew!HandleStart, Crew!HandleStop,
     Crew!HandleTimeout, StopDropped, crewVars
<1>8. ASSUME NEW s \in Sessions, PublishSession(s) \/ RequestStop(s) \/ RequestDelete(s) \/ Sweep(s)
      PROVE  UNCHANGED <<crewVars, statuses>>
  BY <1>8, Zenon DEF PublishSession, RequestStop, RequestDelete, Sweep
<1>9. ASSUME LedgerAlone \/ ListenerReconnects \/ UNCHANGED systemVars
             \/ \E c \in Channels : CrewReaderBreaks(c) \/ CrewReaderReconnects(c)
      PROVE  UNCHANGED <<crewVars, statuses>>
  BY <1>9, Zenon DEF LedgerAlone, ListenerReconnects, CrewReaderBreaks, CrewReaderReconnects,
     systemVars, channelVars
<1> QED
  BY <1>t, <1>1, <1>2, <1>3, <1>4, <1>5, <1>6, <1>7, <1>8, <1>9 DEF SystemNext

\* What is sent to crew: a start by the request it settles, a timeout by a sweep.
LEMMA CommandsFrame ==
    ASSUME ChannelTypes, LedgerInv, [SystemNext]_systemVars
    PROVE  /\ commands' \subseteq Command
           /\ deaf' \subseteq Channels
           /\ \A s \in Sessions :
                /\ Message("start", s) \in commands' =>
                     Message("start", s) \in commands \/ request'[s] = "sent"
                /\ Message("timeout", s) \in commands' =>
                     \/ Message("timeout", s) \in commands
                     \/ request'[s] # "none" /\ lifetime'[s] # 0
           /\ losses' \in Nat
           /\ losses' = 0 => losses = 0
           /\ listening' \in {"yes", "no"}
           /\ losses' = 0 => deaf' = {} /\ listening' = "yes"
<1>t. /\ request \in [Sessions -> {"none", "created", "issued", "sent", "failed"}]
      /\ \A s \in Sessions : Overdue(s) => request[s] # "none" /\ lifetime[s] # 0
  BY DEF LedgerInv, LedgerTypeOK, NothingBeforeRow, Overdue, Open
<1>c. \A s \in Sessions, c \in Channels : Message(c, s) \in Command
  BY DEF Message, Command
<1>m. /\ \A s, t \in Sessions, c, d \in Channels : Message(c, s) = Message(d, t) => c = d /\ s = t
      /\ {"start", "stop", "timeout"} = Channels
  BY DEF Message, Channels
<1> DEFINE Goal == 
           /\ commands' \subseteq Command
           /\ deaf' \subseteq Channels
           /\ \A s \in Sessions :
                /\ Message("start", s) \in commands' =>
                     Message("start", s) \in commands \/ request'[s] = "sent"
                /\ Message("timeout", s) \in commands' =>
                     \/ Message("timeout", s) \in commands
                     \/ request'[s] # "none" /\ lifetime'[s] # 0
           /\ losses' \in Nat
           /\ losses' = 0 => losses = 0
           /\ listening' \in {"yes", "no"}
           /\ losses' = 0 => deaf' = {} /\ listening' = "yes"
<1> USE DEF ChannelTypes
<1>1. ASSUME commands' \subseteq commands, UNCHANGED <<deaf, listening, losses>>
      PROVE  Goal
  BY <1>1
<1>2. ASSUME NEW s \in Sessions, PublishSession(s)
      PROVE  Goal
  <2>1. commands' \subseteq commands \cup {Message("start", s)}
    BY <1>2 DEF PublishSession, SendCommand
  <2>2. "start" \notin deaf => request' = [request EXCEPT ![s] = "sent"]
    BY <1>2 DEF PublishSession, PublishHeard
  <2>3. "start" \in deaf => commands' = commands
    BY <1>2 DEF PublishSession, SendCommand
  <2>4. UNCHANGED <<deaf, listening, losses>>
    BY <1>2 DEF PublishSession
  <2> QED
    BY <1>t, <1>c, <1>m, <2>1, <2>2, <2>3, <2>4
<1>3. ASSUME NEW s \in Sessions, RequestStop(s) \/ RequestDelete(s)
      PROVE  Goal
  <2>1. commands' \subseteq commands \cup {Message("stop", s)} /\ UNCHANGED <<deaf, listening, losses>>
    BY <1>3 DEF RequestStop, RequestDelete, SendCommand
  <2> QED
    BY <1>c, <1>m, <2>1
<1>4. ASSUME NEW s \in Sessions, Sweep(s)
      PROVE  Goal
  <2>1. /\ commands' \subseteq commands \cup {Message("timeout", s)}
        /\ UNCHANGED <<request, lifetime, deaf, listening, losses>>
        /\ request[s] # "none" /\ lifetime[s] # 0
    BY <1>t, <1>4 DEF Sweep, SendCommand, ToExpire, ledgerVars, rows
  <2> QED
    BY <1>c, <1>m, <2>1
<1>5. ASSUME CrewRestarts \/ StatusDropped \/ ListenerBreaks \/ ListenerReconnects
      PROVE  Goal
  BY <1>5 DEF CrewRestarts, StatusDropped, ListenerBreaks, ListenerReconnects, Loss
<1>6. ASSUME NEW c \in Channels, CrewReaderBreaks(c) \/ CrewReaderReconnects(c)
      PROVE  Goal
  BY <1>6 DEF CrewReaderBreaks, CrewReaderReconnects, Loss
<1>7. ASSUME NEW s \in Sessions, ReceiveStart(s) \/ ReceiveStop(s) \/ ReceiveTimeout(s)
      PROVE  commands' \subseteq commands /\ UNCHANGED <<deaf, listening, losses>>
  BY <1>7 DEF ReceiveStart, ReceiveStop, ReceiveTimeout, Receive
<1>8. ASSUME NEW s \in Sessions, CrewRun(s)
      PROVE  commands' \subseteq commands /\ UNCHANGED <<deaf, listening, losses>>
  BY <1>8, Zenon DEF CrewRun
<1>9. ASSUME LedgerAlone \/ ApplyStatus \/ SayStop \/ SayExpired \/ CrewQueues \/ HandlerFails
             \/ UNCHANGED systemVars
      PROVE  commands' \subseteq commands /\ UNCHANGED <<deaf, listening, losses>>
  BY <1>9, Zenon DEF LedgerAlone, ApplyStatus, SayStop, SayExpired, CrewQueues, HandlerFails,
     systemVars, channelVars
<1> HIDE DEF Goal
<1>10. Goal
  BY <1>1, <1>2, <1>3, <1>4, <1>5, <1>6, <1>7, <1>8, <1>9, Zenon DEF SystemNext
<1> QED
  BY <1>10 DEF Goal

\* The message a status is published as.
Said(s, st) == [session |-> s, status |-> st]

\* A word said joins the words on their way, if anybody listens.
LEMMA SayFrame ==
    ASSUME ChannelTypes, NEW s \in Sessions, NEW st \in Published, Say(s, st)
    PROVE  /\ statuses' \in Seq([session : Sessions, status : Published])
           /\ Len(statuses') \in Nat /\ Len(statuses) \in Nat /\ Len(statuses') >= Len(statuses)
           /\ \A i \in 1..Len(statuses) : statuses'[i] = statuses[i]
           /\ \A i \in 1..Len(statuses') :
                i \in 1..Len(statuses) \/ (i = Len(statuses) + 1 /\ statuses'[i] = Said(s, st))
           /\ listening = "yes" => /\ Len(statuses') = Len(statuses) + 1
                                   /\ statuses'[Len(statuses) + 1] = Said(s, st)
<1> DEFINE R == [session : Sessions, status : Published]
<1>1. Said(s, st) \in R
  BY DEF Said
<1>2. statuses \in Seq(R)
  BY DEF ChannelTypes
<1> HIDE DEF R
<1>3. CASE listening = "yes"
  <2>1. statuses' = Append(statuses, Said(s, st))
    BY <1>3 DEF Say, Said
  <2>2. /\ statuses' \in Seq(R)
        /\ Len(statuses') = Len(statuses) + 1
        /\ statuses'[Len(statuses) + 1] = Said(s, st)
        /\ \A i \in 1..Len(statuses) : statuses'[i] = statuses[i]
    BY <1>1, <1>2, <2>1
  <2>3. Len(statuses) \in Nat
    BY <1>2
  <2> QED
    BY <2>2, <2>3 DEF R
<1>4. CASE listening # "yes"
  <2>1. statuses' = statuses
    BY <1>4 DEF Say
  <2>2. Len(statuses) \in Nat
    BY <1>2
  <2> QED
    BY <1>2, <1>4, <2>1, <2>2 DEF R
<1> QED
  BY <1>3, <1>4

\* Without its oldest word, the others are left in their order.
LEMMA TailFrame ==
    ASSUME ChannelTypes, statuses # <<>>, statuses' = Tail(statuses)
    PROVE  /\ statuses' \in Seq([session : Sessions, status : Published])
           /\ Len(statuses) \in Nat \ {0} /\ Len(statuses') = Len(statuses) - 1
           /\ \A i \in 1..Len(statuses') : statuses'[i] = statuses[i + 1] /\ i + 1 \in 1..Len(statuses)
           /\ \A i \in 2..Len(statuses) : statuses[i] = statuses'[i - 1] /\ i - 1 \in 1..Len(statuses')
           /\ Head(statuses) = statuses[1] /\ 1 \in 1..Len(statuses)
           /\ statuses[1].session \in Sessions /\ statuses[1].status \in Published
<1>1. statuses \in Seq([session : Sessions, status : Published])
  BY DEF ChannelTypes
<1>2. /\ Head(statuses) \in [session : Sessions, status : Published]
      /\ Head(statuses) = statuses[1] /\ 1 \in 1..Len(statuses)
      /\ Tail(statuses) \in Seq([session : Sessions, status : Published])
      /\ Len(Tail(statuses)) = Len(statuses) - 1
      /\ \A i \in 1..Len(Tail(statuses)) :
           Tail(statuses)[i] = statuses[i + 1] /\ i + 1 \in 1..Len(statuses)
  BY <1>1, QueueHead
<1>3. Len(statuses) \in Nat
  BY <1>1
<1>4. \A i \in 2..Len(statuses) : i - 1 \in 1..Len(statuses')  /\ (i - 1) + 1 = i
  BY <1>2, <1>3
<1>5. \A i \in 2..Len(statuses) : statuses[i] = statuses'[i - 1]
  BY <1>2, <1>4
<1> QED
  BY <1>2, <1>3, <1>4, <1>5

\* A word heard is the oldest, and leaves the others in their order.
LEMMA HeardFrame ==
    ASSUME ChannelTypes, ApplyStatus
    PROVE  /\ statuses' \in Seq([session : Sessions, status : Published])
           /\ Len(statuses) \in Nat \ {0} /\ Len(statuses') = Len(statuses) - 1
           /\ \A i \in 1..Len(statuses') : statuses'[i] = statuses[i + 1] /\ i + 1 \in 1..Len(statuses)
           /\ \A i \in 2..Len(statuses) : statuses[i] = statuses'[i - 1] /\ i - 1 \in 1..Len(statuses')
           /\ Head(statuses) = statuses[1] /\ 1 \in 1..Len(statuses)
           /\ statuses[1].session \in Sessions /\ statuses[1].status \in Published
           /\ StatusMessage(statuses[1].session, statuses[1].status)
BY TailFrame DEF ApplyStatus

\* Each word on its way is a status of a session.
LEMMA WordsType ==
    ASSUME ChannelTypes
    PROVE  \A i \in 1..Len(statuses) :
             statuses[i].session \in Sessions /\ statuses[i].status \in Published
<1> DEFINE R == [session : Sessions, status : Published]
<1>1. statuses \in Seq(R)
  BY DEF ChannelTypes
<1> HIDE DEF R
<1>2. \A i \in 1..Len(statuses) : statuses[i] \in R
  BY <1>1
<1> QED
  BY <1>2 DEF R

\* The channels keep their types.
LEMMA ChannelTypesStep ==
    ASSUME Crew!CrewInv, LedgerInv, ChannelTypes, [SystemNext]_systemVars
    PROVE  ChannelTypes'
<1> DEFINE R == [session : Sessions, status : Published]
<1>t. statuses \in Seq(R)
  BY DEF ChannelTypes
<1>1. ASSUME NEW s \in Sessions, NEW st \in Published, Speaks(s, st)
      PROVE  statuses' \in Seq(R)
  BY <1>1, SayFrame DEF Speaks
<1>2. ASSUME ApplyStatus
      PROVE  statuses' \in Seq(R)
  BY <1>2, HeardFrame
<1>3. ASSUME Loses
      PROVE  statuses' \in Seq(R)
  <2>1. <<>> \in Seq(R)
    OBVIOUS
  <2> QED
    BY <1>3, <2>1, TailFrame DEF Loses
<1> HIDE DEF R
<1>4. statuses' \in Seq(R)
  BY <1>t, <1>1, <1>2, <1>3, StatusesFrame
<1> QED
  BY <1>4, CommandsFrame DEF ChannelTypes, R

\* run_session sends before crew speaks, and nothing takes back that it sent.
LEMMA SpokenOfSentStep ==
    ASSUME Crew!CrewInv, LedgerInv, ChannelTypes, OneStopAtATime, SpokenOfSent,
           [SystemNext]_systemVars
    PROVE  SpokenOfSent'
<1>r. \A s \in Sessions : request[s] = "sent" => request'[s] = "sent"
  BY StepIsLedgers, LedgerFrame
<1>e. \A i \in 1..Len(statuses) : statuses[i].session \in Sessions
  BY WordsType
<1>1. \A s \in Sessions : pc'[s] # "new" \/ Message("start", s) \in commands' => request'[s] = "sent"
  BY <1>r, CrewFrame, CommandsFrame DEF SpokenOfSent
<1>2. ASSUME NEW i \in 1..Len(statuses') 
      PROVE  request'[statuses'[i].session] = "sent" \/ statuses'[i].status = "expired"
  <2>1. CASE UNCHANGED statuses
    BY <1>r, <1>e, <2>1 DEF SpokenOfSent, MayBeSaid
  <2>2. ASSUME NEW s \in Sessions, NEW st \in Published, Speaks(s, st)
        PROVE  request'[statuses'[i].session] = "sent" \/ statuses'[i].status = "expired"
    <3>1. pc[s] = "new" => st = "expired"
      BY <2>2 DEF Speaks
    <3>2. \/ i \in 1..Len(statuses) /\ statuses'[i] = statuses[i]
          \/ statuses'[i] = Said(s, st)
      BY <2>2, SayFrame DEF Speaks
    <3> QED
      BY <1>r, <1>e, <3>1, <3>2 DEF SpokenOfSent, MayBeSaid, Said
  <2>3. CASE ApplyStatus
    BY <1>r, <1>e, <2>3, HeardFrame DEF SpokenOfSent, MayBeSaid
  <2>4. CASE Loses
    BY <1>r, <1>e, <2>4, TailFrame DEF Loses, SpokenOfSent, MayBeSaid
  <2> QED
    BY <2>1, <2>2, <2>3, <2>4, StatusesFrame
<1> QED
  BY <1>1, <1>2 DEF SpokenOfSent, MayBeSaid

\* A sweep picks rows with a deadline, and no row's deadline changes.
LEMMA ExpiryIsDueStep ==
    ASSUME Crew!CrewInv, LedgerInv, ChannelTypes, OneStopAtATime, SpokenOfSent, ExpiryIsDue,
           [SystemNext]_systemVars
    PROVE  ExpiryIsDue'
<1> SUFFICES ASSUME NEW s \in Sessions
             PROVE  /\ request'[s] = "none" => lastPub'[s] = "none" /\ AboutNothing(s)'
                    /\ request'[s] = "none" \/ lifetime'[s] = 0 =>
                         Message("timeout", s) \notin commands' /\ expiring' # s
  BY DEF ExpiryIsDue
<1>1. /\ request'[s] = "none" => request[s] = "none"
      /\ request[s] # "none" => lifetime'[s] = lifetime[s]
  BY StepIsLedgers, LedgerFrame
<1>2. ASSUME request'[s] = "none" \/ lifetime'[s] = 0
      PROVE  Message("timeout", s) \notin commands' /\ expiring' # s
  BY <1>1, <1>2, CommandsFrame, CrewFrame DEF ExpiryIsDue
<1>3. ASSUME request'[s] = "none"
      PROVE  lastPub'[s] = "none" /\ AboutNothing(s)'
  <2>1. lastPub[s] = "none" /\ AboutNothing(s) /\ request[s] = "none" /\ expiring # s /\ pc[s] = "new"
    BY <1>1, <1>3 DEF ExpiryIsDue, SpokenOfSent
  <2>2. CASE UNCHANGED <<statuses, lastPub>>
    BY <2>1, <2>2 DEF AboutNothing
  <2>3. ASSUME NEW x \in Sessions, NEW st \in Published, Speaks(x, st)
        PROVE  lastPub'[s] = "none" /\ AboutNothing(s)'
    <3>1. x # s
      BY <2>1, <2>3 DEF Speaks
    <3>2. lastPub'[s] = "none"
      BY <2>1, <2>3, <3>1 DEF Speaks, Crew!CrewInv, Crew!CrewTypeOK
    <3>3. ASSUME NEW i \in 1..Len(statuses')
          PROVE  statuses'[i].session # s
      <4>1. (i \in 1..Len(statuses) /\ statuses'[i] = statuses[i]) \/ statuses'[i] = Said(x, st)
        BY <2>3, SayFrame DEF Speaks
      <4> QED
        BY <2>1, <3>1, <4>1 DEF AboutNothing, Said
    <3> QED
      BY <3>2, <3>3 DEF AboutNothing
  <2>4. CASE ApplyStatus
    BY <2>1, <2>4, HeardFrame DEF AboutNothing, ApplyStatus, crewVars
  <2>5. CASE Loses
    BY <2>1, <2>5, TailFrame DEF Loses, AboutNothing
  <2> QED
    BY <2>2, <2>3, <2>4, <2>5, StatusesFrame
<1> QED
  BY <1>2, <1>3

-----------------------------------------------------------------------------
(* The row and the account of a session *)

\* Besides a refused request, only the listener revokes.
LEMMA NobodyElseRevokes ==
    ASSUME LedgerInv, [SystemNext]_systemVars, NEW s \in Sessions
    PROVE  account'[s] = "revoked" \/ revoking' = s =>
             \/ account[s] = "revoked" \/ revoking = s \/ request'[s] = "failed"
             \/ ApplyStatus
<1>1. CASE LedgerAlone
  BY <1>1, LedgerAloneFrame
<1>2. ASSUME NEW x \in Sessions, PublishSession(x) \/ RequestStop(x) \/ RequestDelete(x)
      PROVE  UNCHANGED <<account, revoking>>
  BY <1>2 DEF PublishSession, RequestStop, RequestDelete, PublishHeard, PublishUnheard,
     StopUnheard, DeleteSession, ledgerVars, storageVars
<1>3. ASSUME UNCHANGED ledgerVars
      PROVE  UNCHANGED <<account, revoking>>
  BY <1>3 DEF ledgerVars, storageVars
<1> QED
  BY <1>1, <1>2, <1>3, SystemSteps

\* The listener revokes for the session whose end it has just applied.
LEMMA ListenerRevokesTold ==
    ASSUME LedgerInv, ChannelTypes, ApplyStatus, NEW s \in Sessions,
           account'[s] = "revoked" \/ revoking' = s
    PROVE  /\ Told(s)
           /\ status[s] = "none" => account[s] = "revoked" \/ revoking = s
<1> DEFINE x == statuses[1].session
           st == statuses[1].status
<1>1. 1 \in 1..Len(statuses) /\ StatusMessage(x, st)
  BY HeardFrame
<1>2. NoSession \notin Sessions
  BY LedgerAssumption
<1>3. CASE HandleStatus(x, st)
  <2>1. UNCHANGED account /\ revoking' = IF st \in Terminal THEN x ELSE NoSession
    BY <1>3 DEF HandleStatus, RevokeNext
  <2>2. status[x] # "none"
    BY <1>3 DEF HandleStatus, Exists
  <2> QED
    BY <1>1, <1>2, <2>1, <2>2 DEF Told
<1>4. CASE SkipStatus(x, st)
  BY <1>4 DEF SkipStatus, ledgerVars, storageVars, Told
<1> QED
  BY <1>1, <1>3, <1>4 DEF StatusMessage

\* A run that is over or told to stop remains so, a request that failed too.
LEMMA SettledStep ==
    ASSUME Crew!CrewInv, LedgerInv, ChannelTypes, OneStopAtATime, SpokenOfSent,
           [SystemNext]_systemVars, faults' = 0, NEW s \in Sessions, Settled(s)
    PROVE  Settled(s)'
<1>1. request[s] \in {"sent", "failed"} => request'[s] = request[s]
  BY StepIsLedgers, LedgerFrame
<1>2. Stopping(s) => Stopping(s)'
  BY CrewFrame
<1> QED
  BY <1>1, <1>2 DEF Settled

\* The word that ends a session is said by its own run as it gives up its graph, or
\* by the stop handler, which goes on to set its event.
LEMMA ToldIsSettledStep ==
    ASSUME Crew!CrewInv, LedgerInv, ChannelTypes, OneStopAtATime, SpokenOfSent, ExpiryIsDue,
           ToldIsSettled, [SystemNext]_systemVars
    PROVE  ToldIsSettled'
<1> SUFFICES ASSUME NEW s \in Sessions, faults' = 0, lifetime'[s] = 0, Told(s)'
             PROVE  Settled(s)'
  BY DEF ToldIsSettled
<1>0. faults = 0
  BY CrewFrame
<1>1. /\ request[s] # "none" => lifetime'[s] = lifetime[s]
      /\ request[s] = "sent" => request'[s] = "sent"
  BY StepIsLedgers, LedgerFrame
<1>2. CASE Told(s) /\ request[s] # "none"
  <2>1. Settled(s)
    BY <1>0, <1>1, <1>2 DEF ToldIsSettled
  <2> QED
    BY <2>1, SettledStep
<1>3. CASE request'[s] = "failed"
  BY <1>3 DEF Settled
<1>4. ASSUME request'[s] # "failed", request[s] = "none" \/ ~Told(s)
      PROVE  Settled(s)'
  <2>1. request[s] = "none" => AboutNothing(s) /\ expiring # s /\ pc[s] = "new" /\ status[s] = "none"
                               /\ account[s] # "revoked" /\ revoking # s
    BY DEF ExpiryIsDue, SpokenOfSent, LedgerInv, NothingBeforeRow, EndIsStamped
  <2>2. ~Told(s)
    BY <1>4, <2>1 DEF Told, AboutNothing
  <2>3. account'[s] # "revoked" /\ revoking' # s
    BY <1>4, <2>1, <2>2, NobodyElseRevokes, ListenerRevokesTold DEF Told
  <2>4. PICK i \in 1..Len(statuses') : statuses'[i].session = s /\ statuses'[i].status \in Terminal
    BY <2>3 DEF Told
  <2>5. \A j \in 1..Len(statuses) : statuses'[i] # statuses[j]
    BY <2>2, <2>4 DEF Told
  <2>6. PICK x \in Sessions, st \in Published : Speaks(x, st)
    <3>1. ~UNCHANGED statuses
      BY <2>5
    <3>2. ~ApplyStatus
      BY <2>5, HeardFrame
    <3>3. ~Loses
      BY <2>4, <2>5, TailFrame DEF Loses
    <3> QED
      BY <3>1, <3>2, <3>3, StatusesFrame
  <2>7. x = s /\ st \in Terminal
    <3>1. statuses'[i] = Said(x, st)
      BY <2>5, <2>6, SayFrame DEF Speaks
    <3> QED
      BY <2>4, <3>1 DEF Said
  <2>8. request[s] # "none"
    BY <2>1, <2>6, <2>7 DEF Speaks
  <2>9. expiring # s
    BY <1>1, <2>8 DEF ExpiryIsDue
  <2>10. pc[s] # "new" /\ (pc'[s] \in Late \/ stopSent' = s)
    BY <2>6, <2>7, <2>9 DEF Speaks
  <2>11. pc'[s] # "new" /\ request'[s] = "sent"
    BY <1>1, <2>10, CrewFrame DEF SpokenOfSent
  <2> QED
    BY <2>10, <2>11 DEF Settled, Stopping
<1> QED
  BY <1>2, <1>3, <1>4

\* While nothing is lost, the listener alone moves the row of a session that was sent.
LEMMA RowMoves ==
    ASSUME LedgerInv, ChannelTypes, losses' = 0, [SystemNext]_systemVars, NEW s \in Sessions
    PROVE  \/ status'[s] = status[s] \/ status'[s] = "deleted"
           \/ request[s] = "none" \/ request'[s] = "failed"
           \/ ApplyStatus
<1>t. status \in [Sessions -> SessionStatus \cup {"none", "deleted"}]
  BY DEF LedgerInv, LedgerTypeOK
<1>1. CASE LedgerAlone
  BY <1>1, LedgerAloneFrame
<1>2. ASSUME NEW x \in Sessions, PublishSession(x) \/ RequestStop(x)
      PROVE  UNCHANGED status
  <2>1. deaf = {}
    BY <1>2 DEF PublishSession, RequestStop, ChannelTypes
  <2> QED
    BY <1>2, <2>1 DEF PublishSession, RequestStop, PublishHeard, ledgerVars, rows
<1>3. ASSUME NEW x \in Sessions, RequestDelete(x)
      PROVE  status'[s] = status[s] \/ status'[s] = "deleted"
  BY <1>t, <1>3 DEF RequestDelete, DeleteSession
<1>4. ASSUME UNCHANGED ledgerVars
      PROVE  UNCHANGED status
  BY <1>4 DEF ledgerVars, rows
<1> QED
  BY <1>1, <1>2, <1>3, <1>4, SystemSteps

\* A word joins at the end and is heard from the front: the row follows in order.
LEMMA RowFollowsStep ==
    ASSUME Crew!CrewInv, LedgerInv, ChannelTypes, OneStopAtATime, SpokenOfSent, ExpiryIsDue,
           RowFollows, [SystemNext]_systemVars
    PROVE  RowFollows'
<1> DEFINE Agree(s) ==
       \/ lastPub[s] = "none"
       \/ status[s] = lastPub[s]
       \/ status[s] \in {"end", "error"} /\ lastPub[s] = "expired"
<1> DEFINE Goal(s) ==
       /\ \A i \in 1..Len(statuses') : Latest(s, i)' => statuses'[i].status = lastPub'[s]
       /\ AboutNothing(s)' => Agree(s)'
<1> SUFFICES ASSUME losses' = 0, NEW s \in Sessions, request'[s] # "failed", status'[s] # "deleted"
             PROVE  Goal(s)
  BY DEF RowFollows
<1>0. losses = 0 /\ listening = "yes"
  BY CommandsFrame DEF ChannelTypes
<1>1. /\ request[s] # "failed" /\ status[s] # "deleted"
      /\ status[s] = "none" <=> request[s] = "none"
  BY StepIsLedgers, LedgerFrame DEF LedgerInv, NothingBeforeRow
<1>2. /\ \A i \in 1..Len(statuses) : Latest(s, i) => statuses[i].status = lastPub[s]
      /\ AboutNothing(s) => Agree(s)
  BY <1>0, <1>1 DEF RowFollows
<1>3. request[s] = "none" => lastPub[s] = "none" /\ AboutNothing(s)
  BY DEF ExpiryIsDue
<1>p. lastPub \in [Sessions -> Crew!Status \cup {"none"}]
  BY DEF Crew!CrewInv, Crew!CrewTypeOK
<1>4. CASE UNCHANGED <<statuses, lastPub>> /\ ~ApplyStatus
  <2>1. status'[s] = status[s] \/ lastPub[s] = "none"
    BY <1>3, <1>4, RowMoves
  <2> QED
    BY <1>2, <1>4, <2>1 DEF AboutNothing, Latest
<1>5. ASSUME NEW x \in Sessions, NEW st \in Published, Speaks(x, st)
      PROVE  Goal(s)
  <2>1. /\ lastPub' = [lastPub EXCEPT ![x] = st] /\ status'[s] = status[s]
        /\ Len(statuses) \in Nat /\ Len(statuses') = Len(statuses) + 1
        /\ statuses'[Len(statuses) + 1] = Said(x, st)
        /\ \A i \in 1..Len(statuses) : statuses'[i] = statuses[i]
        /\ \A i \in 1..Len(statuses') : i \in 1..Len(statuses) \/ i = Len(statuses) + 1
    BY <1>0, <1>5, SayFrame DEF Speaks, ledgerVars, rows
  <2>2. Said(x, st).session = x /\ Said(x, st).status = st
    BY DEF Said
  <2>3. CASE x = s
    <3>1. lastPub'[s] = st
      BY <1>p, <2>1, <2>3
    <3>2. ASSUME NEW i \in 1..Len(statuses), Latest(s, i)'
          PROVE  FALSE
      <4>1. Len(statuses) + 1 \in i + 1..Len(statuses')
        BY <2>1
      <4> QED
        BY <2>1, <2>2, <2>3, <3>2, <4>1 DEF Latest
    <3>3. ~AboutNothing(s)'
      <4>1. Len(statuses) + 1 \in 1..Len(statuses')
        BY <2>1
      <4> QED
        BY <2>1, <2>2, <2>3, <4>1 DEF AboutNothing
    <3> QED
      BY <2>1, <2>2, <3>1, <3>2, <3>3
  <2>4. CASE x # s
    <3>1. lastPub'[s] = lastPub[s]
      BY <1>p, <2>1, <2>4
    <3>2. ASSUME NEW i \in 1..Len(statuses'), Latest(s, i)'
          PROVE  i \in 1..Len(statuses) /\ Latest(s, i)
      <4>1. i \in 1..Len(statuses)
        BY <2>1, <2>2, <2>4, <3>2 DEF Latest
      <4>2. \A j \in i + 1..Len(statuses) : j \in i + 1..Len(statuses') /\ j \in 1..Len(statuses)
        BY <2>1, <4>1
      <4> QED
        BY <2>1, <3>2, <4>1, <4>2 DEF Latest
    <3>3. AboutNothing(s)' => AboutNothing(s)
      <4>1. \A j \in 1..Len(statuses) : j \in 1..Len(statuses')
        BY <2>1
      <4> QED
        BY <2>1, <4>1 DEF AboutNothing
    <3> QED
      BY <1>2, <2>1, <3>1, <3>2, <3>3
  <2> QED
    BY <2>3, <2>4
<1>6. CASE ApplyStatus
  <2> DEFINE x == statuses[1].session
             st == statuses[1].status
  <2>1. /\ Len(statuses) \in Nat \ {0} /\ Len(statuses') = Len(statuses) - 1
        /\ \A i \in 1..Len(statuses') : statuses'[i] = statuses[i + 1] /\ i + 1 \in 1..Len(statuses)
        /\ \A i \in 2..Len(statuses) : statuses[i] = statuses'[i - 1] /\ i - 1 \in 1..Len(statuses')
        /\ 1 \in 1..Len(statuses) /\ x \in Sessions /\ st \in Published
        /\ StatusMessage(x, st)
    BY <1>6, HeardFrame
  <2>2. lastPub' = lastPub
    BY <1>6 DEF ApplyStatus, crewVars
  <2>3. ASSUME NEW i \in 1..Len(statuses'), Latest(s, i)'
        PROVE  statuses'[i].status = lastPub'[s]
    <3>1. \A j \in (i + 1) + 1..Len(statuses) :
             j - 1 \in i + 1..Len(statuses') /\ statuses[j] = statuses'[j - 1]
      BY <2>1
    <3>2. Latest(s, i + 1)
      BY <2>1, <2>3, <3>1 DEF Latest
    <3> QED
      BY <1>2, <2>1, <2>2, <3>2
  <2>4. ASSUME AboutNothing(s)'
        PROVE  Agree(s)'
    <3>1. \A j \in 2..Len(statuses) : statuses[j].session # s
      BY <2>1, <2>4 DEF AboutNothing
    <3>2. CASE x # s
      <4>1. AboutNothing(s)
        <5>1. \A j \in 1..Len(statuses) : j = 1 \/ j \in 2..Len(statuses)
          BY <2>1
        <5> QED
          BY <3>1, <3>2, <5>1 DEF AboutNothing
      <4>2. status'[s] = status[s]
        BY <2>1, <3>2 DEF StatusMessage, HandleStatus, SkipStatus, SetStatus, LedgerInv,
           LedgerTypeOK, ledgerVars, rows
      <4> QED
        BY <1>2, <2>2, <4>1, <4>2
    <3>3. CASE x = s
      <4>1. Latest(s, 1)
        BY <2>1, <3>1, <3>3 DEF Latest
      <4>2. st = lastPub[s] /\ ~AboutNothing(s)
        BY <1>2, <2>1, <3>3, <4>1 DEF AboutNothing
      <4>3. CASE HandleStatus(s, st)
        <5>1. status'[s] = st
          BY <4>3 DEF HandleStatus, SetStatus, LedgerInv, LedgerTypeOK
        <5> QED
          BY <2>2, <4>2, <5>1
      <4>4. CASE SkipStatus(s, st)
        <5>1. Refused(s, st) /\ status'[s] = status[s]
          BY <1>1, <1>3, <4>2, <4>4 DEF SkipStatus, Exists, ledgerVars, rows
        <5> QED
          BY <2>2, <4>2, <5>1 DEF Refused
      <4> QED
        BY <2>1, <3>3, <4>3, <4>4 DEF StatusMessage
    <3> QED
      BY <3>2, <3>3
  <2> QED
    BY <2>3, <2>4
<1> QED
  BY <1>4, <1>5, <1>6, StatusesFrame DEF Loses

-----------------------------------------------------------------------------
(* Theorems *)

\* Every part of the system's invariant, and the ledger's, is kept by every step.
LEMMA SystemStep ==
    ASSUME Crew!CrewInv, LedgerInv, SystemInv, [SystemNext]_systemVars
    PROVE  LedgerInv' /\ SystemInv'
<1> USE DEF SystemInv
<1>1. [LedgerNext]_ledgerVars
  BY StepIsLedgers
<1>2. LedgerInv'
  BY <1>1, LedgerTypeStep, BeforeRowStep, DecidedStep, StampedStep, HoldsStep DEF LedgerInv
<1>3. ChannelTypes' /\ OneStopAtATime'
  BY ChannelTypesStep, CrewFrame
<1>4. SpokenOfSent' /\ ExpiryIsDue'
  BY SpokenOfSentStep, ExpiryIsDueStep
<1>5. ToldIsSettled' /\ RowFollows'
  BY ToldIsSettledStep, RowFollowsStep
<1> QED
  BY <1>2, <1>3, <1>4, <1>5

\* The three invariants hold together in every reachable state.
THEOREM SystemInductive == SystemSpec => [](Crew!CrewInv /\ LedgerInv /\ SystemInv)
<1>1. SystemInit => LedgerInv
  BY LedgerAssumption
  DEF SystemInit, LedgerInit, LedgerInv, LedgerTypeOK, NothingBeforeRow, DecidedOnce,
      EndIsStamped, SenderHolds, NoRead, NotPosted, Terminal, Exists
<1>2. SystemInit => SystemInv
  <2> SUFFICES ASSUME SystemInit PROVE SystemInv
    OBVIOUS
  <2>1. /\ commands = {} /\ deaf = {} /\ statuses = <<>> /\ listening = "yes" /\ losses = 0
        /\ \A s \in Sessions : /\ pc[s] = "new" /\ lastPub[s] = "none"
                               /\ account[s] = "none"
        /\ stopping = NoSession /\ expiring = NoSession /\ revoking = NoSession
        /\ NoSession \notin Sessions
    BY LedgerAssumption DEF SystemInit, Crew!CrewInit, LedgerInit
  <2>2. ChannelTypes /\ OneStopAtATime
    BY <2>1 DEF ChannelTypes, OneStopAtATime
  <2>3. Len(statuses) = 0 /\ 1..Len(statuses) = {}
    BY <2>1
  <2>4. SpokenOfSent /\ ExpiryIsDue
    BY <2>1, <2>3 DEF SpokenOfSent, ExpiryIsDue, AboutNothing
  <2>5. ToldIsSettled /\ RowFollows
    BY <2>1, <2>3 DEF ToldIsSettled, Told, RowFollows
  <2> QED
    BY <2>2, <2>4, <2>5 DEF SystemInv
<1>3. Crew!CrewInv /\ LedgerInv /\ SystemInv /\ [SystemNext]_systemVars
        => LedgerInv' /\ SystemInv'
  BY SystemStep
<1>4. SystemSpec => []Crew!CrewInv
  BY SystemRunsCrew, CrewKeepsInv, PTL
<1> QED
  BY <1>1, <1>2, <1>3, <1>4, PTL DEF SystemSpec

\* ImplementsLedger: of a session run_session did not send, crew says nothing but
\* that it expired, so the listener is never sent more than SessionLedger allows.
THEOREM SystemImplementsLedger == SystemSpec => ImplementsLedger
<1>1. SystemInit => LedgerInit
  BY DEF SystemInit
<1>2. SystemInv /\ [SystemNext]_systemVars => [LedgerNext]_ledgerVars
  BY StepIsLedgers DEF SystemInv
<1> QED
  BY <1>1, <1>2, SystemInductive, PTL DEF SystemSpec, ImplementsLedger, LedgerSpec

\* KeepsContract: through crew, the channels and all they lose, a session finishes
\* once and for good and its callback receiver hears of one end at most.
THEOREM SystemKeepsContract == SystemSpec => KeepsContract
BY SystemImplementsLedger, LedgerKeepsContract, PTL DEF ImplementsLedger

\* RevokedIsStopping: a word that ends the session reaches the listener only after
\* its run stopped reading the event, or was told to.
THEOREM RevokedMeansStopping == SystemSpec => []RevokedIsStopping
<1>1. SystemInv => RevokedIsStopping
  <2> SUFFICES ASSUME SystemInv, NEW s \in Sessions,
                      account[s] = "revoked", lifetime[s] = 0, faults = 0
               PROVE  \/ pc[s] \notin {"starting", "streaming", "adding", "ending", "storing", "closing"}
                      \/ stopSet[s] \/ stopSent = s
    BY DEF RevokedIsStopping
  <2>1. Settled(s)
    BY DEF SystemInv, ToldIsSettled, Told
  <2>2. request[s] = "failed" => pc[s] = "new"
    BY DEF SystemInv, SpokenOfSent
  <2> QED
    BY <2>1, <2>2 DEF Settled, Stopping, Late
<1> QED
  BY <1>1, SystemInductive, PTL

\* AgreeAtRest: the one listener applies what crew said in the order it was said,
\* so the row is left with the last word, which crew's invariant shows is terminal.
THEOREM RestAgrees == SystemSpec => []AgreeAtRest
<1>1. Crew!CrewInv /\ SystemInv => AgreeAtRest
  <2> SUFFICES ASSUME Crew!CrewInv, SystemInv, NEW s \in Sessions, AtRest(s),
                      losses = 0, s \notin unsaid, restarts = 0
               PROVE  \/ status[s] = lastPub[s] /\ status[s] \in Terminal
                      \/ status[s] \in {"end", "error"} /\ lastPub[s] = "expired"
                      \/ status[s] = "deleted"
    BY DEF AgreeAtRest
  <2>1. lastPub[s] \in Terminal
    BY DEF AtRest, Crew!CrewInv, Crew!WordSpoken, Crew!Terminal, Terminal
  <2>2. request[s] = "sent"
    BY DEF AtRest, SystemInv, SpokenOfSent
  <2>3. AboutNothing(s)
    BY DEF AtRest, AboutNothing
  <2> QED
    BY <2>1, <2>2, <2>3 DEF SystemInv, RowFollows, Terminal
<1> QED
  BY <1>1, SystemInductive, PTL
=============================================================================
