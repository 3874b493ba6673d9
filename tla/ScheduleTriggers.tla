--------------------------- MODULE ScheduleTriggers ---------------------------
(***************************************************************************)
(* Schedule nodes.  The row of a node is Django's; the manager keeps an      *)
(* APScheduler job for each row that is switched on, and tells Django over    *)
(* Redis when one fires or comes to its end; Django starts the session,       *)
(* counts it and switches the node off when it is done, and tells the manager *)
(* of every row it saves.  Pub/sub replays nothing: the manager reads the     *)
(* rows when it starts and after every lost subscription.                    *)
(*                                                                         *)
(* The clock is coarse: what a property tells apart is whether a start or an  *)
(* end has come.  Intervals, time zones and weekdays are data.               *)
(***************************************************************************)
EXTENDS Integers, Sequences, FiniteSets

CONSTANTS
    Nodes, Editors, NoEditor,
    Configs,        \* run_mode, start, end_type, end date and cap of a schedule; 0 is none
    NoJob,
    Horizon,        \* bound: the last value of the clock
    MaxEvents       \* bound: users' writes after the creation, runs of what repeats, updates
                    \* and signals lost, runs rolled back and crashes, together

\* What ScheduleTriggerValidator accepts: no end for a node that runs once; for one that
\* repeats the column its end_type needs, and whatever the other one holds.
Accepted(c) ==
    /\ c.mode = "once" => c.endType = "never"
    /\ c.endType = "never" => c.ends = 0 /\ c.cap = 0
    /\ c.endType = "onDate" => c.ends > c.start
    /\ c.endType = "afterRuns" => c.cap > 0

ASSUME ScheduleAssumption ==
    /\ Configs # {}
    /\ Configs \subseteq [mode : {"once", "repeat"}, start : Nat,
                          endType : {"never", "onDate", "afterRuns"}, ends : Nat, cap : Nat]
    /\ \A c \in Configs : Accepted(c)
    /\ NoJob \notin Configs /\ NoEditor \notin Editors
    /\ {Horizon, MaxEvents} \subseteq Nat

VARIABLES
    clock,
    row,        \* the row of a node
    edit,       \* the request of an editor, with the copy it read
    lock,       \* who holds the row's lock
    unpublished,\* committed, and not yet published to the manager, in that order
    toManager,  \* what the manager's subscription holds
    toDjango,   \* what Django's listener has not handled
    pc,         \* where the manager is
    hearing,    \* it has a subscription
    snapshot,   \* the rows it read, not yet applied
    jobs,       \* the schedule of a node's job
    paused,     \* jobs that will not fire: they were added after their end
    tracked,    \* schedule_nodes
    flags,      \* _manual_removals
    firing,     \* where execute_schedule is
    ending,     \* nodes whose end is still to be published
    bounds,     \* events so far, and the crashes among them
    ghost       \* what the properties remember of a node

rowVars == <<row, edit, lock>>
jobVars == <<jobs, paused, tracked, flags>>
managerVars == <<pc, hearing, snapshot>>
fireVars == <<firing, ending>>
scheduleVars == <<clock, rowVars, unpublished, toManager, toDjango, managerVars,
                  jobVars, fireVars, bounds, ghost>>

Wish == Configs \cup {NoJob}
Row == [state : {"new", "live", "binned", "gone"}, on : BOOLEAN, cfg : Configs, runs : Nat]
NoEdit == [node |-> NoJob]
Edit == [node : Nodes, saved : BOOLEAN, copy : Row, inherited : Nat, on : BOOLEAN,
         cfg : Configs]
Signal == [node : Nodes, kind : {"run", "deactivate"}]
Update == [node : Nodes, wish : Wish]

\* ran: sessions started since the counter was reset, of them uncounted those whose
\* transaction rolled back or whose count an edit wrote over.  inherited: the count that
\* was there when the cap came into force, 0 if none was.  onceRan: sessions since
\* the last write of a user; it stays 0 when stirred, which says that the write found
\* the node not at rest or that the manager heard of it again after its job fired.
\* untold: the manager was last told something else than the row says.  mute: a signal
\* was lost.
Ghost == [ran : Nat, uncounted : Int, inherited : Nat, onceRan : Nat,
          stirred : BOOLEAN, untold : BOOLEAN, mute : BOOLEAN]

ScheduleTypeOK ==
    /\ clock \in Nat
    /\ row \in [Nodes -> Row]
    /\ edit \in [Editors -> Edit \cup {NoEdit}]
    /\ lock \in [Nodes -> Editors \cup {NoEditor}]
    /\ unpublished \in [Nodes -> Seq(Wish)]
    /\ toManager \in Seq(Update) /\ toDjango \in Seq(Signal)
    /\ pc \in {"down", "loading", "deaf", "syncing", "listening"}
    /\ hearing \in BOOLEAN
    /\ snapshot \in [Nodes -> Wish] \cup {<<>>}
    /\ jobs \in [Nodes -> Wish]
    /\ paused \subseteq Nodes /\ tracked \subseteq Nodes /\ flags \subseteq Nodes
    /\ firing \in [Nodes -> {"no", "run", "runOnce", "deactivate"}]
    /\ ending \subseteq Nodes
    /\ bounds \in [events : Nat, crashes : Nat]
    /\ ghost \in [Nodes -> Ghost]

ScheduleInit ==
    /\ clock = 0
    /\ row = [n \in Nodes |-> [state |-> "new", on |-> FALSE, runs |-> 0,
                                cfg |-> CHOOSE c \in Configs : TRUE]]
    /\ edit = [e \in Editors |-> NoEdit]
    /\ lock = [n \in Nodes |-> NoEditor]
    /\ unpublished = [n \in Nodes |-> <<>>]
    /\ toManager = <<>> /\ toDjango = <<>>
    /\ pc = "down" /\ hearing = FALSE /\ snapshot = <<>>
    /\ jobs = [n \in Nodes |-> NoJob]
    /\ paused = {} /\ tracked = {} /\ flags = {}
    /\ firing = [n \in Nodes |-> "no"] /\ ending = {}
    /\ bounds = [events |-> 0, crashes |-> 0]
    /\ ghost = [n \in Nodes |->
                  [ran |-> 0, uncounted |-> 0, inherited |-> 0, onceRan |-> 0,
                   stirred |-> FALSE, untold |-> FALSE, mute |-> FALSE]]

Started(c) == c.start <= clock

\* OnDateEndStrategy; the trigger of the job has the end date in this case only, too.
Ended(c) == c.endType = "onDate" /\ c.ends <= clock

\* The job a row asks for: the payload's is_active is `is_active and active`.
WishOf(r) == IF r.state = "live" /\ r.on THEN r.cfg ELSE NoJob

Event ==
    /\ bounds.events < MaxEvents
    /\ bounds' = [bounds EXCEPT !.events = @ + 1]

\* What is counted only in some cases: a publish only when it fails.
Possibly(counted) == IF counted THEN Event ELSE UNCHANGED bounds

Tick ==
    /\ clock < Horizon
    /\ clock' = clock + 1
    /\ UNCHANGED <<rowVars, unpublished, toManager, toDjango, managerVars, jobVars,
                   fireVars, bounds, ghost>>

-----------------------------------------------------------------------------
(* Django: users' requests *)

\* Nothing of the node is under way between the two services, and it has no job.
AtRest(n) ==
    /\ jobs[n] = NoJob /\ firing[n] = "no" /\ n \notin ending
    /\ unpublished[n] = <<>>
    /\ \A i \in 1..Len(toManager) : toManager[i].node # n
    /\ \A i \in 1..Len(toDjango) : toDjango[i].node # n
    /\ snapshot # <<>> => snapshot[n] = NoJob

\* A committed write of a user; post_save and post_delete publish after the commit.
Commit(n, r, reset, inherited) ==
    /\ row' = [row EXCEPT ![n] = r]
    /\ unpublished' = [unpublished EXCEPT ![n] = Append(@, WishOf(r))]
    /\ LET g == ghost[n]
       IN ghost' = [ghost EXCEPT ![n] =
                      [g EXCEPT !.ran = IF reset THEN 0 ELSE g.ran,
                                !.uncounted = IF reset THEN 0 ELSE g.uncounted + row[n].runs - r.runs,
                                !.inherited = inherited,
                                !.onceRan = 0,
                                !.stirred = ~AtRest(n)]]

\* create_node: the row, and its next run without a signal.
Create(n, on, c) ==
    /\ row[n].state = "new"
    /\ Commit(n, [state |-> "live", on |-> on, cfg |-> c, runs |-> 0], TRUE, 0)
    /\ UNCHANGED <<clock, edit, lock, toManager, toDjango, managerVars, jobVars,
                   fireVars, bounds>>

\* The request loads the instance and validates what it is to become.
BeginEdit(e, n, on, c) ==
    /\ edit[e] = NoEdit
    /\ row[n].state = "live"
    /\ Event
    /\ edit' = [edit EXCEPT ![e] =
                  [node |-> n, saved |-> FALSE, copy |-> row[n],
                   inherited |-> ghost[n].inherited, on |-> on, cfg |-> c]]
    /\ UNCHANGED <<clock, row, lock, unpublished, toManager, toDjango, managerVars,
                   jobVars, fireVars, ghost>>

\* The UPDATE of a flow saved as a whole: its transaction goes on with the row locked.
SaveEdit(e) ==
    /\ edit[e] # NoEdit /\ ~edit[e].saved
    /\ lock[edit[e].node] = NoEditor
    /\ edit' = [edit EXCEPT ![e].saved = TRUE]
    /\ lock' = [lock EXCEPT ![edit[e].node] = e]
    /\ UNCHANGED <<clock, row, unpublished, toManager, toDjango, managerVars, jobVars,
                   fireVars, bounds, ghost>>

\* update_node compares max_runs, whether the end_type is the one it belongs to or not.
Restarts(d) == (~d.copy.on /\ d.on) \/ d.cfg.cap # d.copy.cfg.cap

\* The count a cap starts on: a cap that was in force when the copy was read stays so.
Inherits(d) ==
    IF Restarts(d) \/ d.cfg.endType # "afterRuns" THEN 0
    ELSE IF d.copy.cfg.endType = "afterRuns" THEN d.inherited ELSE d.copy.runs

\* update_node: every column from the copy, whatever the row has become since: a row
\* counted, switched off, binned or deleted meanwhile is live and as it was read.
CommitEdit(e) ==
    /\ edit[e] # NoEdit
    /\ lock[edit[e].node] \in {e, NoEditor}
    /\ LET d == edit[e]
       IN /\ Commit(d.node,
                    [state |-> "live", on |-> d.on, cfg |-> d.cfg,
                     runs |-> IF Restarts(d) THEN 0 ELSE d.copy.runs],
                    Restarts(d), Inherits(d))
          /\ lock' = [lock EXCEPT ![d.node] = NoEditor]
    /\ edit' = [edit EXCEPT ![e] = NoEdit]
    /\ UNCHANGED <<clock, toManager, toDjango, managerVars, jobVars, fireVars, bounds>>

\* The request is refused, conflicts or dies, and its transaction is rolled back.
AbandonEdit(e) ==
    /\ edit[e] # NoEdit
    /\ edit' = [edit EXCEPT ![e] = NoEdit]
    /\ lock' = IF edit[e].saved THEN [lock EXCEPT ![edit[e].node] = NoEditor] ELSE lock
    /\ UNCHANGED <<clock, row, unpublished, toManager, toDjango, managerVars, jobVars,
                   fireVars, bounds, ghost>>

\* The recycle bin takes a row, gives it back, or a request deletes it for good.
Move(n, from, to) ==
    /\ row[n].state \in from
    /\ lock[n] = NoEditor
    /\ Event
    /\ Commit(n, [row[n] EXCEPT !.state = to], FALSE, ghost[n].inherited)
    /\ UNCHANGED <<clock, edit, lock, toManager, toDjango, managerVars, jobVars, fireVars>>

Bin(n) == Move(n, {"live"}, "binned")
Restore(n) == Move(n, {"binned"}, "live")
Delete(n) == Move(n, {"live", "binned"}, "gone")

\* _after_commit.  Two processes that committed may publish in either order; a publish
\* that fails is only logged, and one that nobody hears is gone.
PublishRow(n, i, fails) ==
    /\ i \in 1..Len(unpublished[n])
    /\ Possibly(fails)
    /\ LET wish == unpublished[n][i]
       IN /\ toManager' = IF fails \/ ~hearing THEN toManager
                          ELSE Append(toManager, [node |-> n, wish |-> wish])
          /\ ghost' = [ghost EXCEPT ![n].untold = fails \/ wish # WishOf(row[n])]
    /\ unpublished' = [unpublished EXCEPT ![n] =
                         SubSeq(@, 1, i - 1) \o SubSeq(@, i + 1, Len(@))]
    /\ UNCHANGED <<clock, rowVars, toDjango, managerVars, jobVars, fireVars>>

-----------------------------------------------------------------------------
(* Django: the listener, one message at a time *)

Take(n, kind) ==
    /\ toDjango # <<>> /\ Head(toDjango) = [node |-> n, kind |-> kind]
    /\ toDjango' = Tail(toDjango)
    /\ UNCHANGED <<clock, edit, lock, toManager, managerVars, jobVars, fireVars>>

SwitchOff(n, runs) ==
    /\ row' = [row EXCEPT ![n].on = FALSE, ![n].runs = runs]
    /\ unpublished' = [unpublished EXCEPT ![n] = Append(@, NoJob)]

\* _lock_active_node: SKIP LOCKED, and only rows that are on and not in the bin.
Skips(n) == lock[n] # NoEditor \/ WishOf(row[n]) = NoJob

\* Mutant: one run more than the cap.
LimitExceeded(c, runs) == c.endType = "afterRuns" /\ runs > c.cap

\* AfterNRunsEndStrategy.
LimitReached(c, runs) == c.endType = "afterRuns" /\ runs >= c.cap

\* The node is skipped, at its limit, refused at admission, or its session fails
\* before it is published.
DropRun(n) ==
    /\ Take(n, "run")
    /\ Skips(n) \/ ~Ended(row[n].cfg)
    /\ UNCHANGED <<row, unpublished, bounds, ghost>>

EndByDate(n) ==
    /\ Take(n, "run")
    /\ ~Skips(n) /\ Ended(row[n].cfg)
    /\ SwitchOff(n, row[n].runs)
    /\ UNCHANGED <<bounds, ghost>>

CanStart(n) ==
    /\ ~Skips(n) /\ ~Ended(row[n].cfg)
    /\ ~LimitReached(row[n].cfg, row[n].runs)

\* A session more, counted or not.
Remember(n, uncounted) ==
    LET g == ghost[n]
    IN ghost' = [ghost EXCEPT ![n] =
                   [g EXCEPT !.ran = g.ran + 1,
                             !.uncounted = g.uncounted + uncounted,
                             !.onceRan = IF row[n].cfg.mode = "once" /\ ~g.stirred
                                         THEN g.onceRan + 1 ELSE 0]]

\* handle_schedule_trigger: crew has the session before the count is committed.
StartRun(n) ==
    /\ Take(n, "run")
    /\ CanStart(n)
    /\ IF LimitReached(row[n].cfg, row[n].runs + 1) THEN SwitchOff(n, row[n].runs + 1)
       ELSE /\ row' = [row EXCEPT ![n].runs = @ + 1]
            /\ UNCHANGED unpublished
    /\ Remember(n, 0)
    /\ UNCHANGED bounds

RollBackRun(n) ==
    /\ Take(n, "run")
    /\ CanStart(n)
    /\ Event
    /\ Remember(n, 1)
    /\ UNCHANGED <<row, unpublished>>

\* deactivate_node; its UPDATE waits for the row's lock.
Deactivate(n) ==
    /\ Take(n, "deactivate")
    /\ IF WishOf(row[n]) = NoJob THEN UNCHANGED <<row, unpublished>>
       ELSE lock[n] = NoEditor /\ SwitchOff(n, row[n].runs)
    /\ UNCHANGED <<bounds, ghost>>

\* The database fails under a handler: it is logged, and the message is gone.
FailSignal(n, kind) ==
    /\ Take(n, kind)
    /\ Event
    /\ ghost' = [ghost EXCEPT ![n].mute = @ \/ kind = "deactivate"]
    /\ UNCHANGED <<row, unpublished>>

\* Its connection breaks: what it has not handled is gone.
LoseSignals ==
    /\ toDjango # <<>>
    /\ Event
    /\ toDjango' = <<>>
    /\ ghost' = [n \in Nodes |-> [ghost[n] EXCEPT !.mute = @ \/
                    \E i \in 1..Len(toDjango) : toDjango[i].node = n]]
    /\ UNCHANGED <<clock, rowVars, unpublished, toManager, managerVars, jobVars, fireVars>>

-----------------------------------------------------------------------------
(* The manager's schedule *)

\* Mutant: a node that repeats keeps the flag of the one it was.
OnceOrFlagged(n, c) == c.mode = "once" \/ n \in flags

Premarked(n, c) == c.mode = "once"

\* add_schedule for the nodes A, as `wishes` has them, and remove_schedule for R; a job
\* added after its last fire time has none, stays, and is never removed by itself.
Reschedule(A, R, wishes) ==
    LET old == R \cap tracked
    IN /\ jobs' = [n \in Nodes |-> IF n \in A THEN wishes[n]
                                   ELSE IF n \in old THEN NoJob ELSE jobs[n]]
       /\ paused' = (paused \ (A \cup old)) \cup {n \in A : Ended(wishes[n])}
       /\ tracked' = (tracked \ old) \cup A
       /\ flags' = (flags \ (A \cup old)) \cup {n \in A : Premarked(n, wishes[n])}

\* APScheduler drops the job and calls _on_job_removed.
JobEnds(n) ==
    /\ jobs' = [jobs EXCEPT ![n] = NoJob]
    /\ IF n \in flags
       THEN /\ flags' = flags \ {n}
            /\ UNCHANGED <<tracked, ending>>
       ELSE /\ tracked' = tracked \ {n}
            /\ ending' = IF n \in tracked THEN ending \cup {n} ELSE ending
            /\ UNCHANGED flags
    /\ UNCHANGED paused

\* A job's time comes.  It does not run if it is late by more than its grace, or while
\* the run before it is still publishing.
Fire(n, runs, last) ==
    /\ pc \in {"deaf", "syncing", "listening"}
    /\ Possibly(jobs[n] # NoJob /\ jobs[n].mode = "repeat")
    /\ jobs[n] # NoJob /\ n \notin paused /\ Started(jobs[n])
    /\ runs => firing[n] = "no"
    /\ IF jobs[n].endType # "onDate" THEN last = (jobs[n].mode = "once")
       ELSE Ended(jobs[n]) => last
    /\ IF last THEN JobEnds(n) ELSE runs /\ UNCHANGED <<jobVars, ending>>
    /\ firing' = IF ~runs THEN firing
                 ELSE [firing EXCEPT ![n] = IF jobs[n].mode = "once" THEN "runOnce" ELSE "run"]
    /\ UNCHANGED <<clock, rowVars, unpublished, toManager, toDjango, managerVars, ghost>>

Signals(n, kind, fails) ==
    /\ Possibly(fails)
    /\ toDjango' = IF fails THEN toDjango ELSE Append(toDjango, [node |-> n, kind |-> kind])
    /\ ghost' = IF fails THEN [ghost EXCEPT ![n].mute = TRUE] ELSE ghost
    /\ UNCHANGED <<clock, rowVars, unpublished, toManager, managerVars, jobVars>>

\* Mutant: a node that runs once is left to its job's removal.
RunOnly(n, fails) == "no"

\* execute_schedule after its first publish; one that raises ends it.
AfterRun(n, fails) == IF firing[n] = "runOnce" /\ ~fails THEN "deactivate" ELSE "no"

PublishRun(n, fails) ==
    /\ firing[n] \in {"run", "runOnce"}
    /\ Signals(n, "run", fails)
    /\ firing' = [firing EXCEPT ![n] = AfterRun(n, fails)]
    /\ UNCHANGED ending

PublishOnce(n, fails) ==
    /\ firing[n] = "deactivate"
    /\ Signals(n, "deactivate", fails)
    /\ firing' = [firing EXCEPT ![n] = "no"]
    /\ UNCHANGED ending

\* _publish_deactivate.
PublishEnd(n, fails) ==
    /\ n \in ending
    /\ Signals(n, "deactivate", fails)
    /\ ending' = ending \ {n}
    /\ UNCHANGED firing

-----------------------------------------------------------------------------
(* The manager's subscription *)

\* start: with a subscription, or without when Redis refuses it.
Boot(subscribed) ==
    /\ pc = "down"
    /\ pc' = "loading" /\ hearing' = subscribed
    /\ UNCHANGED <<clock, rowVars, unpublished, toManager, toDjango, snapshot, jobVars,
                   fireVars, bounds, ghost>>

\* get_all_active_schedule_nodes; what it cannot read it reads again.
ReadRows ==
    /\ pc \in {"loading", "syncing"} /\ snapshot = <<>>
    /\ snapshot' = [n \in Nodes |-> WishOf(row[n])]
    /\ ghost' = [n \in Nodes |-> [ghost[n] EXCEPT !.untold = @ /\
                    \E i \in 1..Len(toManager) : toManager[i].node = n]]
    /\ UNCHANGED <<clock, rowVars, unpublished, toManager, toDjango, pc, hearing, jobVars,
                   fireVars, bounds>>

Wanted == {n \in Nodes : snapshot[n] # NoJob}

\* load_schedules_from_django, and the scheduler and the listener start.
Load ==
    /\ pc = "loading" /\ snapshot # <<>>
    /\ Reschedule(Wanted, {}, snapshot)
    /\ snapshot' = <<>>
    /\ pc' = IF hearing THEN "listening" ELSE "deaf"
    /\ UNCHANGED <<clock, rowVars, unpublished, toManager, toDjango, hearing, fireVars,
                   bounds, ghost>>

\* The listener subscribes again, then reconciles.
Resubscribe ==
    /\ pc = "deaf"
    /\ pc' = "syncing" /\ hearing' = TRUE
    /\ UNCHANGED <<clock, rowVars, unpublished, toManager, toDjango, snapshot, jobVars,
                   fireVars, bounds, ghost>>

\* Mutant: a once-node whose job is gone is new.
AnyDifference(n) == snapshot[n] # jobs[n]

\* _needs_reschedule.
NeedsReschedule(n) ==
    /\ ~(snapshot[n].mode = "once" /\ n \in tracked /\ Started(snapshot[n]))
    /\ snapshot[n] # jobs[n]

\* reconcile_schedules_with_db.
Reconcile ==
    /\ pc = "syncing" /\ snapshot # <<>>
    /\ Reschedule({n \in Wanted : NeedsReschedule(n)}, Nodes \ Wanted, snapshot)
    /\ snapshot' = <<>>
    /\ pc' = "listening"
    /\ UNCHANGED <<clock, rowVars, unpublished, toManager, toDjango, hearing, fireVars,
                   bounds, ghost>>

\* A once-node is tracked after it fired.
HasFired(n) == n \in tracked /\ jobs[n] = NoJob

\* _handle_message; an update the manager read as a row before is applied again.
Hear ==
    /\ pc = "listening" /\ toManager # <<>>
    /\ LET u == Head(toManager)
       IN /\ IF u.wish = NoJob THEN Reschedule({}, {u.node}, jobs)
             ELSE Reschedule({u.node}, {}, [jobs EXCEPT ![u.node] = u.wish])
          /\ ghost' = IF HasFired(u.node)
                      THEN [ghost EXCEPT ![u.node].stirred = TRUE, ![u.node].onceRan = 0]
                      ELSE ghost
    /\ toManager' = Tail(toManager)
    /\ UNCHANGED <<clock, rowVars, unpublished, toDjango, managerVars, fireVars, bounds>>

\* The subscription breaks, or the rows cannot be read for a reconcile.
Disconnect ==
    /\ hearing
    /\ hearing' = FALSE
    /\ toManager' = <<>>
    /\ IF pc = "loading" THEN UNCHANGED <<pc, snapshot>> ELSE pc' = "deaf" /\ snapshot' = <<>>
    /\ UNCHANGED <<clock, rowVars, unpublished, toDjango, jobVars, fireVars, bounds, ghost>>

\* The manager dies: its jobs are in memory.
Crash ==
    /\ pc # "down"
    /\ bounds.events < MaxEvents
    /\ bounds' = [bounds EXCEPT !.events = @ + 1, !.crashes = @ + 1]
    /\ pc' = "down" /\ hearing' = FALSE /\ snapshot' = <<>> /\ toManager' = <<>>
    /\ jobs' = [n \in Nodes |-> NoJob]
    /\ paused' = {} /\ tracked' = {} /\ flags' = {}
    /\ firing' = [n \in Nodes |-> "no"] /\ ending' = {}
    /\ ghost' = [n \in Nodes |-> [ghost[n] EXCEPT !.mute = @ \/ firing[n] # "no"]]
    /\ UNCHANGED <<clock, rowVars, unpublished, toDjango>>

-----------------------------------------------------------------------------

Users ==
    \/ \E n \in Nodes, on \in BOOLEAN, c \in Configs :
          Create(n, on, c) \/ \E e \in Editors : BeginEdit(e, n, on, c)
    \/ \E e \in Editors : SaveEdit(e) \/ CommitEdit(e) \/ AbandonEdit(e)
    \/ \E n \in Nodes : Bin(n) \/ Restore(n) \/ Delete(n)

HandleSignal ==
    \E n \in Nodes :
        \/ DropRun(n) \/ EndByDate(n) \/ StartRun(n) \/ RollBackRun(n) \/ Deactivate(n)
        \/ \E kind \in {"run", "deactivate"} : FailSignal(n, kind)

Publishes(n, fails) == PublishRun(n, fails) \/ PublishOnce(n, fails) \/ PublishEnd(n, fails)

Manager ==
    \/ \E b \in BOOLEAN : Boot(b)
    \/ ReadRows \/ Load \/ Resubscribe \/ Reconcile \/ Hear \/ Disconnect \/ Crash
    \/ \E n \in Nodes, b \in BOOLEAN : Publishes(n, b) \/ \E last \in BOOLEAN : Fire(n, b, last)

ScheduleNext ==
    \/ Tick \/ Users \/ HandleSignal \/ LoseSignals \/ Manager
    \/ \E n \in Nodes, fails \in BOOLEAN : \E i \in 1..Len(unpublished[n]) : PublishRow(n, i, fails)

ScheduleSpec == ScheduleInit /\ [][ScheduleNext]_scheduleVars

\* Requests end, the listener goes on, and what the manager has to publish it tries.
FairScheduleSpec ==
    /\ ScheduleSpec
    /\ WF_scheduleVars(HandleSignal)
    /\ \A e \in Editors : WF_scheduleVars(CommitEdit(e) \/ AbandonEdit(e))
    /\ \A n \in Nodes : WF_scheduleVars(Publishes(n, FALSE))

-----------------------------------------------------------------------------
(* Properties *)

\* Within its cap: a run left, or used up and switched off.  Only the count the cap
\* started on may be past it.
CapKept(r, inherited) ==
    r.cfg.endType = "afterRuns" =>
        r.runs < r.cfg.cap \/ (r.runs = r.cfg.cap /\ ~r.on) \/ r.runs = inherited

\* A node that ends after n runs never counts past them, and is off when it has counted
\* them, through stale edits, reactivations and the recycle bin: but for one that counted
\* while it ended on a date, whose edit to this end kept max_runs and so the count.  The
\* counter is the number of sessions started, but for those whose transaction rolled back
\* after the session was published and those an edit wrote over
\* (schedule_trigger_service.py:58-75, 77-144).
CapHolds ==
    \A n \in Nodes :
        /\ CapKept(row[n], ghost[n].inherited)
        /\ ghost[n].ran = row[n].runs + ghost[n].uncounted

\* A node that runs once, activated when nothing of it was under way, starts one session,
\* through lost signals and reconnects; another only if the manager restarts, or hears
\* of the node again after it fired (schedule_service.py:351-357).
OnceRunsOnce ==
    \A n \in Nodes : ghost[n].onceRan <= 1 + bounds.crashes

Settled(n) ==
    /\ pc = "listening" /\ unpublished[n] = <<>> /\ ~ghost[n].untold
    /\ n \notin ending /\ firing[n] = "no"
    /\ \A i \in 1..Len(toManager) : toManager[i].node # n
    /\ \A i \in 1..Len(toDjango) : toDjango[i].node # n

\* When nothing is under way the manager has the job of every node that is on and of no
\* other: an ended job was announced, unless the signal was lost; a node that runs once
\* and whose time has come is left alone (schedule_service.py:312-357, 155-184).
JobsFollow ==
    \A n \in Nodes : Settled(n) =>
        LET wish == WishOf(row[n])
        IN CASE wish = NoJob -> jobs[n] = NoJob
             [] wish # NoJob /\ wish.mode = "repeat" -> jobs[n] = wish \/ ghost[n].mute
             [] OTHER -> jobs[n] = wish \/ Started(wish)

\* Told of every commit, and of the last one last.
Told(n) == unpublished[n] = <<>> /\ ~ghost[n].untold

HasUpdate(n) == \E i \in 1..Len(toManager) : toManager[i].node = n

\* Nothing is heard without a subscription, nothing is scheduled before the rows are
\* loaded, and a job carries the flag of its kind.
ManagerInv ==
    /\ ~hearing => toManager = <<>>
    /\ pc \in {"down", "deaf"} => ~hearing
    /\ pc \in {"syncing", "listening"} => hearing
    /\ pc \in {"down", "deaf", "listening"} => snapshot = <<>>
    /\ pc \in {"down", "loading"} => /\ jobs = [n \in Nodes |-> NoJob] /\ tracked = {}
                                     /\ firing = [n \in Nodes |-> "no"]
    /\ \A n \in Nodes : jobs[n] # NoJob =>
          n \in tracked /\ (n \in flags <=> jobs[n].mode = "once")

\* The end of a job is on its way to Django.
Announced(n) ==
    n \in ending \/ \E i \in 1..Len(toDjango) : toDjango[i] = [node |-> n, kind |-> "deactivate"]

\* The manager has what the row asks for, or its job has ended since.
Applied(n, wish) ==
    CASE wish = NoJob -> jobs[n] = NoJob
      [] wish # NoJob /\ wish.mode = "repeat" -> jobs[n] = wish \/ ghost[n].mute \/ Announced(n)
      [] OTHER -> jobs[n] = wish \/ Started(wish)

\* The last update the manager has not heard asks for this.
LastUpdate(n, wish) ==
    \A i \in 1..Len(toManager) :
        toManager[i].node = n /\ (\A j \in i + 1..Len(toManager) : toManager[j].node # n)
            => toManager[i].wish = wish

\* What the manager does last for a node it was told all of is what the row asks for: the
\* last update it has not heard, the rows it has read, or the job.
JobOf(n) ==
    LET wish == WishOf(row[n])
    IN Told(n) => /\ LastUpdate(n, wish)
                  /\ hearing /\ ~HasUpdate(n) /\ snapshot # <<>> => snapshot[n] = wish
                  /\ pc = "listening" /\ ~HasUpdate(n) => Applied(n, wish)

JobsInv == \A n \in Nodes : JobOf(n)

RunsOf(n) == {i \in 1..Len(toDjango) : toDjango[i] = [node |-> n, kind |-> "run"]}

\* Runs of a node on their way, and one more while its job may still fire.
Pending(n) == Cardinality(RunsOf(n)) + (IF firing[n] \in {"run", "runOnce"} THEN 1 ELSE 0)
Armed(n) == IF HasFired(n) /\ Started(row[n].cfg) THEN 0 ELSE 1

\* Everything under way for the node is what the row asks for.
Alike(n) ==
    /\ jobs[n] \in {NoJob, row[n].cfg}
    /\ \A i \in 1..Len(unpublished[n]) : unpublished[n][i] = row[n].cfg
    /\ \A i \in 1..Len(toManager) : toManager[i].node = n => toManager[i].wish = row[n].cfg
    /\ snapshot # <<>> =>
          \/ snapshot[n] = row[n].cfg
          \/ snapshot[n] = NoJob /\ ghost[n].onceRan + Pending(n) = 0 /\ jobs[n] = NoJob

\* It runs once, is on since it was at rest, and was not heard of again.
Once(n) == ~ghost[n].stirred /\ WishOf(row[n]) # NoJob /\ row[n].cfg.mode = "once"

\* What may still run is bounded.
OnceOf(n) ==
    /\ ghost[n].onceRan <= 1 + bounds.crashes
    /\ Once(n) =>
          ghost[n].onceRan + Pending(n) + Armed(n) <= 1 + bounds.crashes /\ Alike(n)

OnceInv == \A n \in Nodes : OnceOf(n)

\* What an editor read, and may write back, kept its cap when it was read.
CopiesInv == \A e \in Editors : edit[e] # NoEdit => CapKept(edit[e].copy, edit[e].inherited)

\* The inductive invariant behind the three above.
ScheduleInv ==
    /\ ScheduleTypeOK
    /\ CapHolds
    /\ CopiesInv
    /\ ManagerInv
    /\ JobsInv
    /\ OnceInv

\* A node that ran once is switched off, unless the signal was lost.
SwitchedOff ==
    \A n \in Nodes : firing[n] = "runOnce" ~> (WishOf(row[n]) = NoJob \/ ghost[n].mute)

\* reconcile_schedules_with_db: "adds or replaces jobs whose node is new or changed".
ReconcileReplaces ==
    \A n \in Nodes : (Settled(n) /\ jobs[n] # NoJob) => jobs[n] = WishOf(row[n])
=============================================================================
