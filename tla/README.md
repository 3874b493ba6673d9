# EpicStaff: the life of a session

EpicStaff runs *flows*: graphs of language-model, code and tool nodes. One run of a
flow is a *session*. A session has a row in PostgreSQL, but several services act on
it at once: `django_app` creates and publishes it, `crew` runs it, the agent service runs
its agent nodes, `manager` expires it and fires what is scheduled, one listener process
applies the statuses crew announces, another stores the messages it emits, a sender tells
a callback receiver how it ended, and a credential service revokes the storage account it
was given. The services talk over Redis: pub/sub, which forgets what nobody is subscribed
to, and streams, which do not. Nothing but the rows synchronises them.

This directory holds TLA+ modules of that life, the TLC configurations that check
them, and TLAPS proofs about them. Paths below are relative to `src/src/`.

## The system

| Component | State | Operations | Modelled |
|---|---|---|---|
| crew's session manager (`crew/services/graph/graph_session_manager_service.py`) | pool, queue, semaphore, one coroutine and stop event per session, all in memory | start, stop and timeout handlers; worker; `session_runner`, `run_session`; done callback | `CrewSessions` |
| session rows (`django_app/tables/services/session_manager_service.py`, `redis_pubsub.py`) | `Session`: status, `finished_at`, `status_updated_at`, `time_to_live` | `run_session`, stop, delete, status handler | `SessionLedger` |
| session callbacks (`.../session_callbacks/service.py`, `sender.py`) | `SessionCallback`: status, payload, attempts | register, enqueue, reap, post, record | `SessionLedger` |
| session credentials (`django_app/storage_credentials`, `manager/repositories/temp_storage_account_repository.py`) | accounts in the storage backend, `TemporaryStorageAccount` rows | mint, persist, revoke, clean up | `SessionLedger` (a session's account only) |
| session timeouts (`manager/services/session_timeout_service.py`) | none: a query over the rows | sweep | `SessionSystem` |
| Redis pub/sub | messages in flight, who is subscribed | publish, receive, break, reconnect | `SessionSystem` |
| graph message stream (`crew/services/redis_service.py`, `django_app/.../graph_message_stream_consumer.py`, `graph_message_store.py`, `session_token_usage.py`) | stream entries, pending lists, message rows, token totals | add, read, take over, isolate, store, count, total, make subgraph sessions, announce, acknowledge | `GraphMessages` |
| agent tasks (`crew/services/agent_task_service.py`, `agent/`) | request keys, request stream, one result stream per task, slots | dispatch, await, withdraw; read, run, report, answer, acknowledge | `AgentTasks` |
| schedule triggers (`manager/services/schedule_service.py`, `django_app/.../schedule_trigger_service.py`) | `ScheduleTriggerNode` rows, APScheduler jobs | edit, fire, count, deactivate, subscribe, reconcile | `ScheduleTriggers` |
| run admission and suspension (`run_admission.py`, `plugins/lifecycle`) | grants, the looks a run took | check, re-check, stop what is refused | its refusal only |
| sandbox (`sandbox_new/manager`, `sandbox_new/worker`) | venv rows, held jobs | build, update, hold, release | no |
| graph execution, triggers from outside, plugin platform, chat, knowledge, realtime, retention, audit, domain data API, front end | | | no, see below |

How they interact in a run:

1. A user's request, or a schedule node whose job fired in `manager`, calls `run_session`.
   It inserts the row as `pending`, mints a storage account if the flow needs one, and
   publishes the session on the start channel. `PUBLISH` returns how many subscribers took
   it; with none the row becomes `error`.
2. crew puts the session in its pool and queue. A worker task makes it a coroutine,
   which waits for a slot of the semaphore, publishes `run`, streams the graph, and
   publishes its final status. The stop and timeout handlers, each on a reader task of
   its own, publish `stop` or `expired` themselves, set the run's stop event and drop
   the session from the pool. The run notices the event at its next check and publishes
   the same status again.
3. An agent node of the graph sets a request key, adds a request to a shared stream and
   reads its own result stream; a replica of the agent service runs it and answers there.
   crew deletes both keys when it leaves, and a run whose key is gone stops.
4. Every message of the run is an entry of one stream. One consumer stores it, adds its
   token usage to the session's total, makes the subgraph sessions at `graph_end`, tells
   the live views and only then acknowledges.
5. The listener applies each status to the row under a row lock, with the token total it
   reads there, enqueues the callback on a terminal one, and revokes the account after the
   commit.
6. The sweep looks for open rows past their `time_to_live` and publishes timeouts.
7. The sender first settles callbacks the listener missed (`reap_stale`), then POSTs
   what is due and records each outcome.

What is hard: the status a row ends with is decided by a race of at least three
publishers; `run` can overtake `stop`; an expiry may meet a session that has ended, or
one whose start nobody has received; statuses, commands, schedule updates and signals may
be lost; stream entries come twice, are trimmed, or are redelivered after half their
effects; the reaper, the editors of a schedule node and several requests act on rows they
read earlier; every awaited Redis command may fail; the state of crew, of a replica and of
the scheduler dies with its process.

What makes each component correct is listed with the runs below. `PROJECT.json` lists the
hazards at their lines, each with the properties aimed at it.

## Modules

| Module | Content |
|---|---|
| `CrewSessions` | crew's service; its messages are the environment's |
| `CrewSessionsProofs` | its inductive invariant and safety theorems |
| `SessionLedger` | the rows, the callback, the account and every process that writes them; crew's statuses are the environment's |
| `SessionContract` | what the rows promise an observer, in three variables |
| `SessionLedgerProofs` | the ledger's invariant, and that it implements the contract |
| `SessionSystem` | both composed, over lossy channels, with the manager's sweep |
| `SessionSystemProofs` | its inductive invariant, and that it implements the ledger |
| `GraphMessages` | the message stream, its consumer, and the status handler beside it |
| `MessageLog` | what the stream promises a reader of a session |
| `GraphMessagesProofs` | that usage is counted once, and that the stream implements the log |
| `GraphOrderProofs` | what is acknowledged, totalled, stored in order and copied to subgraph sessions |
| `AgentTasks` | crew's dispatch of agent runs and the replicas that share them |
| `AgentTasksProofs` | its inductive invariant: nothing lost, withdrawn runs stop |
| `AgentResultsProofs` | what crew reads of a run's results |
| `ScheduleTriggers` | schedule nodes on Django's side, jobs on the manager's, both channels |
| `ScheduleTriggersProofs` | its inductive invariant: caps, single runs, agreement at rest |
| `MCCrewSessions`, `MCSessionLedger`, `MCSessionSystem`, `MCGraphMessages`, `MCAgentTasks`, `MCScheduleTriggers` | constants for TLC |

`CrewSessions` and `SessionLedger` each assume nothing of the other but which messages
may arrive: in `CrewSessions` any stop or timeout at any time, and a start once per
session; in `SessionLedger` any status in any order, any number of times, of any session
that was published (and `expired` of any session at all). `SessionSystem` extends the
ledger and instantiates the crew, replaces both environments by channels, and shows that
crew and the channels tell the listener only what the ledger lets its environment say
(`ImplementsLedger`, proved as `SystemImplementsLedger`), so what is shown of the ledger
holds in the whole. Of crew there is nothing to show: each step of the system is one of
its own or leaves it alone. The other three meet the session at one point each
and take the rest of it as free: `GraphMessages` lets a session's messages come and its
statuses be applied at any time; in `AgentTasks` a stop, a deadline or a broken read may
end any wait; in `ScheduleTriggers` a started session is an increment.

### CrewSessions

One action is the code between two awaits, or the effect of one awaited Redis command.
`pc[s]` is where the coroutine of session `s` is:

| `pc` | The code is about to |
|---|---|
| `new`, `queued`, `waiting` | be received; be taken by the worker; get a slot |
| `starting` | compile the graph and publish `run` |
| `streaming`, `adding` | take the next chunk; await the chunk's `XADD` |
| `ending`, `storing`, `closing`, `clearing` | add `graph_end`; store final variables; publish `end`; clear remembered outputs |
| `reporting` | publish from an `except` block, with `outcome[s]` |
| `finished`, `done` | run the done callback; nothing |
| `lost` | (the process restarted under it) |

`stopping`, `stopSent` and `expiring` are what the stop and timeout handlers are awaiting.
The stop handler's publish has its effect in one action (`PublishStop`) and its resumption
in another (`StopPublished`), because the run may observe the published status, end and
leave the pool before the handler resumes: that is the `KeyError` of line 518. For the
coroutines the effect and the resumption are one step, since what follows the await is
local to them. What a graph computes is left out: a run may stream up to `MaxChunks`
custom chunks, any of which may exceed the token budget, may end, or may raise.
Every awaited command may fail (`Fault`, bounded by `MaxFaults`), and the process may
restart (`MaxRestarts`). `unsaid` remembers the sessions for which the command that failed
was the publish of their last status, after which the code has no other to make.

### SessionLedger

One action is one transaction, one call to the storage backend or one HTTP request.
`finishedAt` counts the writes of `finished_at` instead of holding a time; `age` is the
age of `status_updated_at` in the three steps the code compares: fresh, past the deadline,
past the deadline and `STALE_MARGIN`. `lifetime` is the sign of `time_to_live`.
`SeenByRequest` is the status `run_session` sees in the instance it created, which no
queryset update changes. The sender settles stale rows one at a time where the code takes
a list; no property relates two sessions' callbacks, and each row's read and settlement
remain two steps. Its POSTs run in a thread pool there and one after another here; the
rows they touch are disjoint. Session deletion cascades; `heard` remembers what the
callback receiver was told, which the code does not.

`SessionContract` is the abstract specification: a session is absent, open or finished;
it finishes once and for good; its verdict is decided at most once, not before it
finishes; and the receiver is told that verdict or nothing. `KeepsContract` is the
refinement, with `phase` mapped from the row, `decided` from the callback's payload and
`told` from `heard`.

### SessionSystem

`commands` are messages on their way to crew. It is a set, since a stop or timeout is
idempotent until it is received, and pub/sub channels read by different tasks give no
order between a session's start, stop and timeout. `deaf` are the channels crew is not
subscribed to. `statuses` is the one ordered connection of the listener. A broken
connection loses what it held and what is published until the reader is back; crew's
restart breaks all three of its own. `StatusDropped` is the listener's `except` path: a
status whose transaction fails is logged and gone, on a connection that holds. The stop
request of a user looks at no status, exactly like the code; `RequestDelete` sends a stop
unless the row is terminal. `Open` of the ledger, the sweep's filter, leaves out
`wait_for_user`, which `session_repository.py:46` has and nothing sets.

### GraphMessages

One action is one Redis command or `MULTI`, or one database transaction. `pc` is where the
consumer is:

| `pc` | The code is about to |
|---|---|
| `joining`, `takingOver`, `reviewing`, `owning` | `start`: make the group; claim idle entries of anyone; look at other consumers; claim its own |
| `reading`, `checking` | `process_new`: read new entries; see whether the periodic takeover is due |
| `inserting`, `counting`, `totalling`, `subgraphing`, `announcing` | the steps of `persist_batch` |
| `next`, `acking` | take the next message to be stored alone; acknowledge |
| `asleep` | (`run` waits after an exception) |

`mode` is how a batch is stored: `whole`; `alone`, after an error that no retry can mend,
when each failing message is given up; `isolating`, when entries were delivered
`IsolateAfter` times. A message is its kind: with usage or not, a `subgraph_start`, a
message from inside a subgraph, `graph_end`, or one of the four ways to be unfit
(`malformed`: not parsed; `rejected`: refused by the row's validation; `unsummable`: its
usage is not a number; `poison`: it fails the whole statement every time). A total is the
count of each usage in it, so adding one twice shows. Idleness is a flag, which one long
wait sets for all entries: `FastRetries` is how many waits in a row are shorter than
`STALE_ENTRY_IDLE_MILLISECONDS`. A reply may be lost after its command had its effect
(`ThenOrLost`). `told`, `acked` and `dropped` remember what the code does not.

`MessageLog` is the abstract specification: a message is charged only when it was kept and
once, and told only when kept and charged. `ImplementsLog` maps `kept` to the rows (or the
deletion of their session) and `charged` to the set of counted uuids; `CountedOnce` ties
that set to the hash.

### AgentTasks

One action is one Redis command, or one call of the agent to a model or tool. `waiter[r]` is
where crew's `_dispatch` is, `pc[e]` where the run of stream entry `e` is; a request has two
entries because an `XADD` that crew's client repeats adds it twice. What the loop says to
the model is left out: a run makes up to `MaxCalls` calls, before each of which it checks
whether it was withdrawn, and answers with a result or an error. A replica that dies comes
back as another consumer, and nobody claims what was pending for it, as in the code.
`harmed` are the requests a failure hit: for those the code promises less, and the
properties say what. A key expires (`KeyExpires`) only when nobody waits for it. The code
gives it a day (`agent_task_service.py:78`, `:125`) and waits for `max_execution_time` of
each task and a minute more (`:157-163`); that is 1800 s a task at most, so the model leaves
out the list runs of 48 tasks or more, of which `data_loader.py:208` says that the run stops when the
key is gone.

### ScheduleTriggers

One action is one transaction, one publish, or the code between two awaits of the manager.
An editor's request reads the row (`BeginEdit`), may hold its lock while its transaction
goes on (`SaveEdit`), and writes every column back (`CommitEdit`). `unpublished` are commits whose
`on_commit` publish has not happened; several processes may publish theirs in either order.
`toManager` and `toDjango` are the two channels. The manager is `down`, `loading`,
`listening`, `deaf` or `syncing`; `snapshot` is what it read and has not applied. `jobs` is
APScheduler's store, `paused` the jobs added after their last fire time, `tracked` and
`flags` are `schedule_nodes` and `_manual_removals`. The clock is coarse, and only starts
and ends are compared with it; when a job of a repeating node fires is free. `Accepted` is
what the validator accepts of a schedule: one that ends on a date may have a `max_runs`
too. A run whose transaction fails after its session was published is `RollBackRun`; any
other failure of the database under a handler is `FailSignal`. `ghost` holds
what the properties remember; nothing in the model reads it but to write it.

## Checks

All runs are listed in `PROJECT.json`; every property of a passing run has a mutant (a
definition changed the way a plausible bug would change it) that TLC refutes.

| Run | Bounds | Shows |
|---|---|---|
| `crew_safety` | 2 sessions, 1 slot, 1 chunk, 1 failing command, 1 restart; sessions symmetric | no run escapes the handlers (`StillStoppable`), no slot leaks (`SlotsConserved`), a run past its budget never ends normally, the last status said is terminal whichever command failed but its own publish, variables precede `end`; `CrewInv` |
| `crew_liveness` | 2 sessions, 1 slot, no chunks, 1 failing command | every accepted session is answered, unless its answer itself was refused by Redis |
| `ledger` | 1 session with or without callback, account and deadline; any statuses; 2 failures, 2 unheard commands, 2 attempts | the contract (`KeepsContract`), who may rewrite `finished_at` (`OnlyRequestsRestamp`), no decided callback is dropped untried, no account is revoked under a run, callbacks are settled; `LedgerInv` |
| `ledger_unpublished` | violation | a comment the code does not keep, see below |
| `system_faults` | 1 session without a deadline; 1 broken connection, 1 restart of crew, 1 unheard command, 1 failing command, 1 expiry under way | the listener hears only what the ledger assumes; a running session's account is revoked only when it is being stopped; the row agrees with crew's last word through a failing command |
| `system_liveness` | 1 session with or without a deadline; 1 broken connection and 1 restart | the row agrees with crew's last word (`AgreeAtRest`), a deadline settles any session (`DeadlineSettles`), and one that was sent is settled if nothing failed (`SentSettles`) |
| `graph_messages` | 3 messages of one session in four stories (a subgraph; usage beside a rejected and a malformed message, an unsummable one, a poisonous one), batches of 2, stream cap 2, 2 deliveries before isolation, 1 fast retry, 1 failure, 2 consumer names | usage counted once; nothing acknowledged before it is stored, counted and told; totals complete whoever wrote last; subgraph sessions once and complete; `graph_end` told after them; rows in the order of emission but for messages given up before; the log is implemented; every entry is settled |
| `graph_poison` | violation | a batch that fails every time is never isolated |
| `agent_tasks` | 1 request, 2 replicas of 1 slot, 2 calls, 2 failures | no request is lost by replicas that are full, stop or die beside it; a withdrawn run stops; every live event is forwarded once; nothing stays in Redis; every entry ends |
| `schedule` | 1 node (once from 1; repeating with a cap of 1; repeating until 1, with a `max_runs` of 1 beside), 1 editor, clock up to 1, 2 events; at most 2 messages in each channel and 2 unpublished commits | `CapHolds`, `OnceRunsOnce`, `JobsFollow` |
| `schedule_liveness` | the same with 1 event and no limit on what is under way | a node that ran once is switched off; `ScheduleInv` |
| `schedule_reconcile` | violation | a reconcile leaves a changed node's old job |

Why the bounds are enough. Two sessions and one slot make every contention of the semaphore
occur; a third adds only longer queues. One chunk is enough to pass the budget while a
handler is awaiting; `crew_liveness` and the runs of the system take none, since
`crew_safety` has it and the channels do not see chunks. One session suffices in the ledger and the system because no action there
reads two sessions' rows except through the sender and the listener, which serve one at a
time. One failure of each kind puts a failure at every point of a run; the ledger takes two
because its repairs (the reaper, the retries) can themselves fail. `MaxTimeouts` bounds the
expiries of one session under way at once. Three messages are the fewest that have a
subgraph's start, its inner message and the end, and batches of two split them in every
way; two streams of sessions meet only in a batch. A second request of `AgentTasks` would
only compete for slots, which the second entry of the first one does already. Two events
of the scheduler are an edit and a crash, two edits, a lost update and a lost signal, and
every other pair. Every safety property, action property and refinement these runs check is
also a theorem, for any bounds and any number of sessions, messages, requests, replicas,
nodes and editors; only for liveness do the bounds matter.

Runs with `CHECK_DEADLOCK FALSE` have states where the system is rightly at its end: every
bounded failure was used, and every request or session is done.

### Fairness

`FairCrewSpec` assumes that asyncio runs each ready task and each awaited command returns:
weak fairness of the worker, the semaphore's head, the handlers and each coroutine. A node
that never returns is outside it. `FairLedgerSpec` assumes that time passes, that the
sender's loop (`run_forever`, restarted with its container) goes on, and that a request
which has marked its session goes on to enqueue. It assumes nothing of `run_session`: a
request may die at any step. `FairSystemSpec` adds that readers reconnect and deliver, that
the listener goes on, and that the sweep visits an overdue session (`sweep_loop` catches
every error and repeats).

`FairGraphSpec`: the consumer's loop goes on (`run` catches every exception and starts
over), a status handler that read a row writes it, and, strongly, what is due comes in the
end though it may be disabled in between: the periodic check, the passing of an idle time,
and a transaction that waits for a row other handlers keep locking (PostgreSQL queues who
waits). `FairAgentSpec`: waits have deadlines, calls have time limits, a replica that lives
reads while it has slots, and Redis keeps its TTLs; it does not assume that any answer
comes. `FairScheduleSpec`: the listener handles what it has, requests end, and what the
manager has to publish it tries. Users, clocks and failures are never fair.

### Disagreements between the code and what is said of it

- `ledger_unpublished`: the enqueue after an unreceived publish never happens
  (`session_manager_service.py:403`), because the instance it looks at is stale; the reaper
  makes up for it minutes later.
- `graph_poison`: `run`'s docstring says a batch that keeps failing is isolated and dropped.
  Once the retry delay has grown to the idle time of `XAUTOCLAIM`, `start` claims the
  consumer's own entries as abandoned ones and stores them whole, fails, and never reaches
  the code that isolates (`graph_message_stream_consumer.py:200`, `:270`).
- `schedule_reconcile`: a repeating node edited into one that runs once, while the manager
  was not subscribed and with a start that has passed since, keeps its repeating job
  (`schedule_service.py:346`).

Seen while modelling, without a run of their own:

- A node that ends on a date may keep a `max_runs` (`schedule_trigger_validator.py:331-342`;
  `Schedule_Trigger_Node_Endpoints.md:147` says it is null then) and counts past it. Edited to
  end after n runs with that same `max_runs`, it keeps its count, since `update_node` compares
  only the column (`schedule_trigger_service.py:66-68`): the node is on, its job fires, and
  every run is skipped (`:111-116`), where the comment at line 64 promises it the full new
  quota and `Schedule_Trigger_Node_Overview.md:359-361` says that its last run has switched
  it off. `CapHolds` has this count as its exception and says that it grows no further.
- A negative `time_to_live` is a deadline for the sweep (`session_repository.py:47`), although
  `session_callbacks/service.py:90` says it is none.
- Statuses from crew renew `status_updated_at` (`redis_pubsub.py:137`), which
  `session_repository.py:35` denies.
- `finished_at` is changed by a stop request that finds no crew
  (`session_manager_service.py:278`), which `retention_repository.py:284` excludes.
- The daily clean-up drops the row of any finished session's account, live or not
  (`temp_storage_account_repository.py:22`), although the row is kept for it to retry a
  failed revocation (`session_credential_service.py:281`).
- A session skipped after its wait for a slot may have no published final status yet, since
  the timeout handler sets the event before its publish
  (`graph_session_manager_service.py:483-487, 531`); the reaper may give up the callback of
  a session that has ended since its row was read (`session_callbacks/service.py:116`);
  deleting a session that an unheard stop marked `error` tells crew nothing, although crew
  may still run it (`session_signals.py:24-28`).
- `update_node` saves every column it read (`schedule_trigger_service.py:70-75`), which
  undoes a count, a deactivation, or the bin meanwhile;
  `docs/schedule_trigger_node/Schedule_Trigger_Node_Overview.md:418` says `current_runs` is
  only incremented or reset. `CapHolds` therefore counts what an edit wrote over.
- `next_run_date_time`, which no step of a schedule reads and the model leaves out, is
  computed from `max_runs` whatever `end_type` is (`schedule_trigger_service.py:199`).
- A message that failed alone in the isolating pass is given up for good only when its
  batch is acknowledged. `_persist_alone` drops it on a passing database error too, if the
  database answers again (`graph_message_stream_consumer.py:326`); if the batch is
  then not acknowledged, since the process died or Redis failed, the message is delivered
  again and stored, after the later messages of its batch, after `graph_end` was told and
  after the subgraph sessions were copied without it. It takes two failures, which
  `graph_messages` has not (with two, and batches of three, TLC shows it); the attempt to
  prove `StoredInOrder`, `SubgraphsComplete` and `EndIsLast` for any number found it. They
  leave such messages out.
- A scheduled session is published inside the transaction that counts it
  (`schedule_trigger_service.py:160`): a rollback leaves a run that no cap knows.
- `_handle_message` has no guard like the reconcile's: an update that was waiting when the
  manager read the rows, or one saved while a once node's deactivation is on its way, adds
  its job again. `OnceRunsOnce` leaves that out, and a restart of the manager.
- A run of a once node that finds its row locked is skipped, not retried, and then switched
  off; a late `deactivate` switches off a node activated again since; two processes that
  publish in the opposite order of their commits leave the manager with the older row; an
  update whose publish fails is only logged; a job added after its end stays paused and its
  node on.

## Proofs

Every theorem holds for every value of the constants, from the assumptions
`CrewAssumption`, `LedgerAssumption`, `GraphAssumption`, `AgentAssumption` and
`ScheduleAssumption`, which type them and say what the code's validation and settings
guarantee.

**CrewSessions.** `StillStoppable`, `OverBudgetNeverEnds` and `LastWordIsTerminal` are not
inductive. `CrewInv` adds: the two queues hold each session
once, and only while its coroutine is at that point (`QueuesMatchPc`; without it the
worker could start a coroutine twice); handlers know nothing of a session not received
(`FreshUntouched`); a run past its budget has its event set and is where the next step
reads it (`BudgetStops`); and where a terminal status must already have been published or
is about to be (`WordSpoken`), of each session whose last publish Redis did not refuse:
a clean-up, an `XADD` or a handler may fail and the run still speaks. `CrewInductive` proves it action by action; the safety
theorems are its consequences, and `VariablesBeforeEnd` (`EndComesAfterVariables`) follows
from what a run that publishes has done before. `AlwaysSlotsConserved` is about cardinalities and has its
own lemmas, for a finite set of sessions.

**SessionLedger.** `LedgerInv` says that what follows an end comes after `finished_at` is
set (`EndIsStamped`), that a callback's payload exists exactly from its decision
(`DecidedOnce`), that nothing precedes the row (`NothingBeforeRow`) and what the sender
holds between two steps (`SenderHolds`). `LedgerKeepsContract` is the refinement: initial
states map to initial states, and each of the ledger's actions to a step of the contract
or a stutter. `DecidedIsAlwaysTried` and `ListenerKeepsFinishedAt` are action properties
from the same invariant.

**SessionSystem.** Each step of the system is one of crew's or leaves crew alone
(`SystemRunsCrew`), so `CrewInv` holds in the system, and the theorems of
`CrewSessions` with it; `SystemInductive` proves `SystemInv` beside it and `LedgerInv`. Its parts are what the
channels carry (`ChannelTypes`), that the stop channel's reader handles one message at a
time (`OneStopAtATime`), that crew knows only what was sent and says of the rest only that it
expired (`SpokenOfSent`, from which `SystemImplementsLedger` follows), that only a session with
a row and a deadline is expired at all (`ExpiryIsDue`), that the account hears of an end only
when the run is over or was told to stop (`ToldIsSettled`, for `RevokedIsStopping`), and that,
while nothing is lost and no last word refused, the last message about a session on its way
to the listener is what crew said last, or its row says it already (`RowFollows`, for
`AgreeAtRest`).
`SystemKeepsContract` is `LedgerKeepsContract` through that refinement: the contract holds
whatever crew, the sweep and the channels do.

**GraphMessages.** `CountedOnceAlways` is inductive with the types: only `Count` changes the
hash and the set, in one `MULTI`. `GraphImplementsLog` needs where the consumer is in a
batch: what it has inserted is stored or its session was deleted since (`WorkIsKept`), and
past the count its usage is counted (`WorkIsCounted`), through every failure that lets it
start the batch again; `HeldExists` keeps a status handler off a deleted row.

`GraphOrderProofs` proves the rest in four layers, each an invariant that uses those before.
`SettledInv` follows a batch through its three modes: each message claimed is settled or
still in hand at the right step, so that `AcknowledgedIsDone` holds when `XACK` comes.
`DeliveryInv` is about streams: ids and messages are in one order, and the group is past what it
delivered. `TotalInv` says when a counted usage must be in the total: the consumer is done
with it (`Past`), and then it is in the row of a finished session or in what the status
handler has read and will write; this is the race of two writers behind `TotalComplete`. For the order,
`OneBatch` says that one consumer under one name never has more than a batch pending, that
its entries grow idle together and that it reads nothing new before they are
acknowledged, so every retry, whichever of the three lists it comes by, is the same batch; `NoneBehind` says that no
entry that may still be stored waits behind a stored later message of its session.
`StoredInOrder` follows. `SubgraphInv` says at which steps the copies and the announcement of
`graph_end` must agree with the rows, for `SubgraphsComplete` and `EndIsLast`.

**AgentTasks.** `AgentInv` is the type invariant and four parts: an entry is in the queue at
most once and only while unread (`QueueInv`); a run that goes on has a call left
(`CallsInv`); after a call without its key the key is gone for good, and only a check that
failed lets the run through again (`StraysInv`); an unharmed request whose crew waits has
its key, and an answer, or its first entry queued or running (`KeptInv`). `NothingIsLost` and
`WithdrawnRunsStop` follow. `HeardInv` relates the result stream of an unharmed request to its
reader: nothing is in it before crew waits (`Silent`); crew has forwarded every event it has
read, and read up to where it is (`ReadSoFar`); an answer is the last entry (`AnswerIsLast`),
written by the one run that exists (`OneEntry`); and crew leaves at it, with all events before it
(`LeavesWithAll`). `EventsAreHeard` follows.

**ScheduleTriggers.** `ScheduleInv` is the type invariant and `CapHolds`, with four parts
that make it and the other two inductive. `CapHolds` has one exception, the count that
was there when a cap came into force (`inherited`), which an edit may bring and no run
adds to. `CopiesInv`: what an editor read kept its cap in this sense, since it may write it
back. `ManagerInv`: what the manager can hold at each `pc`.
`JobsInv` extends `JobsFollow`, which speaks of rest, to everything on the way there: if
the manager was told of the last commit, then the last update it has not heard, else the
rows it has read, else the job, is what the row asks for. `OnceInv` bounds what may still
run: sessions started, runs on their way and the job if it can still fire are at most one,
and one more for each crash; that takes counting messages in a channel from which the head
is taken, to which one is appended, or which is lost, for which the module has its lemmas
about finite sets of positions.

Only model-checked: the liveness properties (`AcceptedIsAnswered`, `CallbackIsSettled`,
`DeadlineSettles`, `SentSettles`, `EntriesAreSettled`, `NothingStays`, `EntriesEnd`,
`SwitchedOff`), since fairness and ENABLED are out of the prover's reach.

## Not modelled

- What nodes compute, prompts, tools and language models: data.
- The final variables in the status handler, beyond their order before `end`; backlog
  warnings of the consumer.
- A publish whose answer is lost although crew received it (`run_session` then marks the
  session `error` while crew runs it).
- In `Restore`, the read and the save of a row from the recycle bin are one step; in
  between, a commit of `update_node` could make the restored message out of date.
- The agent's request stream: its trimming, and the recreation of a consumer group that
  Redis lost.
- Run admission against suspension (`run_admission.py`, `plugins/lifecycle`): what decides
  it are the rows of the plugin platform, a reconciler of its own size. `SessionLedger` has
  the refusal as an outcome. A session that starts while a suspension commits is seen by
  neither the guard nor the stopper (`suspended_run_stopper.py:51`); the periodic
  enforcement is what is left to find it.
- The sandbox (`sandbox_new`): a run calls it and waits. Its venv rows and held jobs are a
  system of their own; the builder's write of a venv it read before the build
  (`orchestrators.py:142`) is listed as a hazard without a property.
- Webhook and Telegram triggers: they end in `run_session`.
- Chat, knowledge, realtime and voice: their runs are not sessions. Retention, audit,
  import and export, roles, recycle bin, graph versions: single transactions.
- The old sandbox, gateways, tunnels, libraries and the front end.

These parts make up most of the source's lines: forms, serializers, migrations, views and
the front end, where one request is one transaction over its own rows.

What would add most next: suspension against running sessions; the sandbox's environments;
and two consumers under different names in one group, of which the order is only promised
not to hold (`renamed`).
