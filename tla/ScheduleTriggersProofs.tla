----------------------- MODULE ScheduleTriggersProofs -----------------------
(* Theorems about ScheduleTriggers, for any nodes, editors, schedules and bounds. *)
EXTENDS ScheduleTriggers, FiniteSetTheorems, SequenceTheorems, TLAPS

\* Every step is one of the actions, or changes nothing.
LEMMA ScheduleActions ==
    ASSUME [ScheduleNext]_scheduleVars
    PROVE  \/ Tick
           \/ \E n \in Nodes, on \in BOOLEAN, c \in Configs : Create(n, on, c)
           \/ \E e \in Editors, n \in Nodes, on \in BOOLEAN, c \in Configs : BeginEdit(e, n, on, c)
           \/ \E e \in Editors : SaveEdit(e)
           \/ \E e \in Editors : CommitEdit(e)
           \/ \E e \in Editors : AbandonEdit(e)
           \/ \E n \in Nodes : Bin(n)
           \/ \E n \in Nodes : Restore(n)
           \/ \E n \in Nodes : Delete(n)
           \/ \E n \in Nodes : \E i \in 1..Len(unpublished[n]), fails \in BOOLEAN :
                 PublishRow(n, i, fails)
           \/ \E n \in Nodes : DropRun(n)
           \/ \E n \in Nodes : EndByDate(n)
           \/ \E n \in Nodes : StartRun(n)
           \/ \E n \in Nodes : RollBackRun(n)
           \/ \E n \in Nodes : Deactivate(n)
           \/ \E n \in Nodes, kind \in {"run", "deactivate"} : FailSignal(n, kind)
           \/ LoseSignals
           \/ \E n \in Nodes, runs \in BOOLEAN, last \in BOOLEAN : Fire(n, runs, last)
           \/ \E n \in Nodes, fails \in BOOLEAN : PublishRun(n, fails)
           \/ \E n \in Nodes, fails \in BOOLEAN : PublishOnce(n, fails)
           \/ \E n \in Nodes, fails \in BOOLEAN : PublishEnd(n, fails)
           \/ \E b \in BOOLEAN : Boot(b)
           \/ ReadRows \/ Load \/ Resubscribe \/ Reconcile \/ Hear \/ Disconnect \/ Crash
           \/ UNCHANGED scheduleVars
BY Zenon DEF ScheduleNext, Users, HandleSignal, Manager, Publishes

-----------------------------------------------------------------------------
(* Types *)

LEMMA WishType ==
    ASSUME NEW r \in Row
    PROVE  WishOf(r) \in Wish
BY DEF Row, WishOf, Wish

LEMMA RowFields ==
    ASSUME NEW r \in Row
    PROVE  /\ \A to \in {"new", "live", "binned", "gone"} : [r EXCEPT !.state = to] \in Row
           /\ \A runs \in Nat : [r EXCEPT !.on = FALSE, !.runs = runs] \in Row
BY DEF Row

LEMMA GhostFields ==
    ASSUME NEW g \in Ghost, NEW ran \in Nat, NEW uncounted \in Int, NEW inherited \in Nat,
           NEW onceRan \in Nat, NEW b \in BOOLEAN
    PROVE  /\ [g EXCEPT !.ran = ran, !.uncounted = uncounted, !.onceRan = onceRan] \in Ghost
           /\ [g EXCEPT !.ran = ran, !.uncounted = uncounted, !.inherited = inherited,
                        !.onceRan = onceRan, !.stirred = b] \in Ghost
BY DEF Ghost

LEMMA GhostFlags ==
    ASSUME NEW g \in Ghost
    PROVE  /\ [g EXCEPT !.stirred = TRUE, !.onceRan = 0] \in Ghost
           /\ [g EXCEPT !.mute = TRUE] \in Ghost
           /\ \A b \in BOOLEAN : [g EXCEPT !.untold = b] \in Ghost /\ [g EXCEPT !.mute = b] \in Ghost
BY DEF Ghost

\* A write of a user, with what the properties remember of it.
LEMMA CommitType ==
    ASSUME ScheduleTypeOK, NEW n \in Nodes, NEW r \in Row, NEW reset \in BOOLEAN,
           NEW inherited \in Nat, Commit(n, r, reset, inherited)
    PROVE  /\ row' \in [Nodes -> Row]
           /\ unpublished' \in [Nodes -> Seq(Wish)]
           /\ ghost' \in [Nodes -> Ghost]
<1>1. WishOf(r) \in Wish
  BY WishType
<1>2. AtRest(n) \in BOOLEAN
  BY DEF AtRest
<1>3. row' \in [Nodes -> Row]
  BY DEF ScheduleTypeOK, Commit
<1>4. unpublished' \in [Nodes -> Seq(Wish)]
  BY <1>1 DEF ScheduleTypeOK, Commit
<1>5. ghost' \in [Nodes -> Ghost]
  <2> DEFINE g == ghost[n]
             ran == IF reset THEN 0 ELSE g.ran
             uncounted == IF reset THEN 0 ELSE g.uncounted + row[n].runs - r.runs
  <2>1. g \in Ghost /\ ran \in Nat /\ uncounted \in Int
    BY DEF ScheduleTypeOK, Ghost, Row
  <2>2. [g EXCEPT !.ran = ran, !.uncounted = uncounted, !.inherited = inherited, !.onceRan = 0,
                  !.stirred = ~AtRest(n)] \in Ghost
    BY <1>2, <2>1, GhostFields
  <2> QED
    BY <2>2 DEF ScheduleTypeOK, Commit
<1> QED
  BY <1>3, <1>4, <1>5

LEMMA EventType ==
    ASSUME ScheduleTypeOK, NEW counted \in BOOLEAN, Possibly(counted) \/ Event
    PROVE  bounds' \in [events : Nat, crashes : Nat] /\ bounds'.crashes = bounds.crashes
BY DEF ScheduleTypeOK, Possibly, Event

LEMMA SwitchOffType ==
    ASSUME ScheduleTypeOK, NEW n \in Nodes, NEW runs \in Nat, SwitchOff(n, runs)
    PROVE  row' \in [Nodes -> Row] /\ unpublished' \in [Nodes -> Seq(Wish)]
<1>1. row' = [row EXCEPT ![n] = [row[n] EXCEPT !.on = FALSE, !.runs = runs]]
  BY DEF ScheduleTypeOK, SwitchOff, Row
<1>2. row' \in [Nodes -> Row]
  BY <1>1, RowFields DEF ScheduleTypeOK
<1> QED
  BY <1>2 DEF ScheduleTypeOK, SwitchOff, Wish

LEMMA TakeType ==
    ASSUME ScheduleTypeOK, NEW n \in Nodes, NEW kind, Take(n, kind)
    PROVE  toDjango' \in Seq(Signal)
BY DEF ScheduleTypeOK, Take

LEMMA RememberType ==
    ASSUME ScheduleTypeOK, NEW n \in Nodes, NEW uncounted \in {0, 1}, Remember(n, uncounted)
    PROVE  ghost' \in [Nodes -> Ghost]
<1> DEFINE g == ghost[n]
           onceRan == IF row[n].cfg.mode = "once" /\ ~g.stirred THEN g.onceRan + 1 ELSE 0
<1>1. g \in Ghost /\ g.ran + 1 \in Nat /\ g.uncounted + uncounted \in Int /\ onceRan \in Nat
  BY DEF ScheduleTypeOK, Ghost
<1>2. [g EXCEPT !.ran = g.ran + 1, !.uncounted = g.uncounted + uncounted, !.onceRan = onceRan]
         \in Ghost
  BY <1>1, GhostFields
<1> QED
  BY <1>2 DEF ScheduleTypeOK, Remember

LEMMA RescheduleType ==
    ASSUME ScheduleTypeOK, NEW A \in SUBSET Nodes, NEW R \in SUBSET Nodes,
           NEW wishes \in [Nodes -> Wish], Reschedule(A, R, wishes)
    PROVE  /\ jobs' \in [Nodes -> Wish]
           /\ paused' \subseteq Nodes /\ tracked' \subseteq Nodes /\ flags' \subseteq Nodes
<1>1. jobs' \in [Nodes -> Wish]
  BY DEF ScheduleTypeOK, Reschedule, Wish
<1> QED
  BY <1>1 DEF ScheduleTypeOK, Reschedule

LEMMA JobEndsType ==
    ASSUME ScheduleTypeOK, NEW n \in Nodes, JobEnds(n)
    PROVE  /\ jobs' \in [Nodes -> Wish] /\ ending' \subseteq Nodes
           /\ paused' \subseteq Nodes /\ tracked' \subseteq Nodes /\ flags' \subseteq Nodes
BY DEF ScheduleTypeOK, JobEnds, Wish

LEMMA SignalsType ==
    ASSUME ScheduleTypeOK, NEW n \in Nodes, NEW kind \in {"run", "deactivate"},
           NEW fails \in BOOLEAN, Signals(n, kind, fails)
    PROVE  /\ toDjango' \in Seq(Signal) /\ ghost' \in [Nodes -> Ghost]
           /\ bounds' \in [events : Nat, crashes : Nat]
<1>1. [node |-> n, kind |-> kind] \in Signal
  BY DEF Signal
<1>2. ghost' \in [Nodes -> Ghost]
  <2>1. ghost' = ghost \/ ghost' = [ghost EXCEPT ![n] = [ghost[n] EXCEPT !.mute = TRUE]]
    BY DEF ScheduleTypeOK, Signals, Ghost
  <2>2. [ghost[n] EXCEPT !.mute = TRUE] \in Ghost
    BY GhostFlags DEF ScheduleTypeOK
  <2> QED
    BY <2>1, <2>2 DEF ScheduleTypeOK
<1>3. bounds' \in [events : Nat, crashes : Nat]
  BY EventType DEF Signals
<1>4. toDjango' \in Seq(Signal)
  BY <1>1 DEF ScheduleTypeOK, Signals
<1> QED
  BY <1>2, <1>3, <1>4

\* What an edit that is committed leaves as the count its cap started on.
LEMMA InheritsType ==
    ASSUME NEW d \in Edit
    PROVE  Inherits(d) \in Nat /\ Restarts(d) \in BOOLEAN
BY DEF Inherits, Restarts, Edit, Row

\* The count a node's cap started on.
LEMMA InheritedType ==
    ASSUME ScheduleTypeOK, NEW n \in Nodes
    PROVE  ghost[n].inherited \in Nat
BY DEF ScheduleTypeOK, Ghost

\* What a failing handler does to the memory of its node.
LEMMA FailedGhost ==
    ASSUME ScheduleTypeOK, NEW n \in Nodes, NEW kind \in {"run", "deactivate"}, FailSignal(n, kind)
    PROVE  /\ ghost' \in [Nodes -> Ghost]
           /\ kind = "run" \/ ghost'[n].mute
           /\ \A m \in Nodes :
                 /\ ghost'[m].ran = ghost[m].ran /\ ghost'[m].uncounted = ghost[m].uncounted
                 /\ ghost'[m].inherited = ghost[m].inherited
                 /\ ghost'[m].onceRan = ghost[m].onceRan /\ ghost'[m].stirred = ghost[m].stirred
                 /\ ghost'[m].untold = ghost[m].untold /\ (ghost[m].mute => ghost'[m].mute)
<1> DEFINE muted == ghost[n].mute \/ kind = "deactivate"
           g == [ghost[n] EXCEPT !.mute = muted]
<1>1. ghost[n] \in Ghost /\ muted \in BOOLEAN
  BY DEF ScheduleTypeOK, Ghost
<1>2. ghost' = [ghost EXCEPT ![n] = g]
  BY <1>1 DEF FailSignal, Ghost, ScheduleTypeOK
<1>3. g \in Ghost
  BY <1>1, GhostFlags
<1>4. /\ g.ran = ghost[n].ran /\ g.uncounted = ghost[n].uncounted
      /\ g.inherited = ghost[n].inherited /\ g.onceRan = ghost[n].onceRan
      /\ g.stirred = ghost[n].stirred /\ g.untold = ghost[n].untold /\ g.mute = muted
  BY <1>1 DEF Ghost
<1>5. ghost'[n] = g /\ \A m \in Nodes \ {n} : ghost'[m] = ghost[m]
  BY <1>2 DEF ScheduleTypeOK
<1> QED
  BY <1>2, <1>3, <1>4, <1>5 DEF ScheduleTypeOK

LEMMA MoveType ==
    ASSUME ScheduleTypeOK, NEW n \in Nodes, NEW from, NEW to \in {"live", "binned", "gone"},
           Move(n, from, to)
    PROVE  ScheduleTypeOK'
<1>1. [row[n] EXCEPT !.state = to] \in Row
  BY RowFields DEF ScheduleTypeOK
<1>2. /\ Commit(n, [row[n] EXCEPT !.state = to], FALSE, ghost[n].inherited)
      /\ ghost[n].inherited \in Nat /\ Event
  BY InheritedType DEF Move
<1>3. row' \in [Nodes -> Row] /\ unpublished' \in [Nodes -> Seq(Wish)] /\ ghost' \in [Nodes -> Ghost]
  BY <1>1, <1>2, CommitType
<1>4. bounds' \in [events : Nat, crashes : Nat]
  BY <1>2, EventType
<1> QED
  BY <1>3, <1>4 DEF ScheduleTypeOK, Move, managerVars, jobVars, fireVars

LEMMA InitType == ScheduleAssumption /\ ScheduleInit => ScheduleTypeOK
<1> SUFFICES ASSUME ScheduleAssumption, ScheduleInit PROVE ScheduleTypeOK
  OBVIOUS
<1>1. (CHOOSE c \in Configs : TRUE) \in Configs
  BY DEF ScheduleAssumption
<1>2. row \in [Nodes -> Row]
  BY <1>1 DEF ScheduleInit, Row
<1>3. ghost \in [Nodes -> Ghost]
  BY DEF ScheduleInit, Ghost
<1>4. unpublished \in [Nodes -> Seq(Wish)] /\ toManager \in Seq(Update) /\ toDjango \in Seq(Signal)
  BY DEF ScheduleInit
<1>5. bounds \in [events : Nat, crashes : Nat] /\ jobs \in [Nodes -> Wish]
  BY DEF ScheduleInit, Wish
<1> QED
  BY <1>2, <1>3, <1>4, <1>5 DEF ScheduleInit, ScheduleTypeOK

\* Every step keeps the types.
LEMMA TypeStep ==
    ASSUME ScheduleAssumption, ScheduleTypeOK, [ScheduleNext]_scheduleVars
    PROVE  ScheduleTypeOK'
<1> USE DEF rowVars, jobVars, managerVars, fireVars
<1>1. CASE Tick
  BY <1>1 DEF Tick, ScheduleTypeOK
<1>2. ASSUME NEW n \in Nodes, NEW on \in BOOLEAN, NEW c \in Configs, Create(n, on, c)
      PROVE  ScheduleTypeOK'
  <2>1. [state |-> "live", on |-> on, cfg |-> c, runs |-> 0] \in Row
    BY DEF Row
  <2>2. row' \in [Nodes -> Row] /\ unpublished' \in [Nodes -> Seq(Wish)] /\ ghost' \in [Nodes -> Ghost]
    BY <1>2, <2>1, CommitType DEF Create
  <2> QED
    BY <1>2, <2>2 DEF Create, ScheduleTypeOK
<1>3. ASSUME NEW e \in Editors, NEW n \in Nodes, NEW on \in BOOLEAN, NEW c \in Configs,
             BeginEdit(e, n, on, c)
      PROVE  ScheduleTypeOK'
  <2>1. [node |-> n, saved |-> FALSE, copy |-> row[n], inherited |-> ghost[n].inherited,
         on |-> on, cfg |-> c] \in Edit
    BY InheritedType DEF Edit, ScheduleTypeOK
  <2>2. edit' \in [Editors -> Edit \cup {NoEdit}]
    BY <1>3, <2>1 DEF BeginEdit, ScheduleTypeOK
  <2>3. bounds' \in [events : Nat, crashes : Nat]
    BY <1>3, EventType DEF BeginEdit
  <2> QED
    BY <1>3, <2>2, <2>3 DEF BeginEdit, ScheduleTypeOK
<1>4. ASSUME NEW e \in Editors, SaveEdit(e) PROVE ScheduleTypeOK'
  <2>1. edit[e] \in Edit
    BY <1>4 DEF SaveEdit, ScheduleTypeOK
  <2>2. [edit[e] EXCEPT !.saved = TRUE] \in Edit /\ edit[e].node \in Nodes
    BY <2>1 DEF Edit
  <2>3. edit' = [edit EXCEPT ![e] = [edit[e] EXCEPT !.saved = TRUE]]
    BY <1>4, <2>1 DEF SaveEdit, ScheduleTypeOK
  <2>4. edit' \in [Editors -> Edit \cup {NoEdit}]
    BY <2>2, <2>3 DEF ScheduleTypeOK
  <2> QED
    BY <1>4, <2>2, <2>4 DEF SaveEdit, ScheduleTypeOK
<1>5. ASSUME NEW e \in Editors, CommitEdit(e) PROVE ScheduleTypeOK'
  <2> DEFINE d == edit[e]
             r == [state |-> "live", on |-> d.on, cfg |-> d.cfg,
                   runs |-> IF Restarts(d) THEN 0 ELSE d.copy.runs]
  <2>1. d \in Edit
    BY <1>5 DEF CommitEdit, ScheduleTypeOK
  <2>2. d.node \in Nodes /\ r \in Row /\ Restarts(d) \in BOOLEAN
    BY <2>1 DEF Edit, Row, Restarts
  <2>3. Commit(d.node, r, Restarts(d), Inherits(d)) /\ Inherits(d) \in Nat
    BY <1>5, <2>1, InheritsType DEF CommitEdit
  <2>4. row' \in [Nodes -> Row] /\ unpublished' \in [Nodes -> Seq(Wish)] /\ ghost' \in [Nodes -> Ghost]
    BY <2>2, <2>3, CommitType
  <2> QED
    BY <1>5, <2>2, <2>4 DEF CommitEdit, ScheduleTypeOK
<1>6. ASSUME NEW e \in Editors, AbandonEdit(e) PROVE ScheduleTypeOK'
  <2>1. edit[e].node \in Nodes
    BY <1>6 DEF AbandonEdit, ScheduleTypeOK, Edit
  <2> QED
    BY <1>6, <2>1 DEF AbandonEdit, ScheduleTypeOK
<1>7. ASSUME NEW n \in Nodes, Bin(n) PROVE ScheduleTypeOK'
  BY <1>7, MoveType DEF Bin
<1>8. ASSUME NEW n \in Nodes, Restore(n) PROVE ScheduleTypeOK'
  BY <1>8, MoveType DEF Restore
<1>9. ASSUME NEW n \in Nodes, Delete(n) PROVE ScheduleTypeOK'
  BY <1>9, MoveType DEF Delete
<1>10. ASSUME NEW n \in Nodes, NEW i \in 1..Len(unpublished[n]), NEW fails \in BOOLEAN,
              PublishRow(n, i, fails)
       PROVE  ScheduleTypeOK'
  <2> DEFINE wish == unpublished[n][i]
  <2>1. wish \in Wish /\ unpublished[n] \in Seq(Wish)
    BY DEF ScheduleTypeOK
  <2>2. [node |-> n, wish |-> wish] \in Update
    BY <2>1 DEF Update
  <2>3. toManager' \in Seq(Update)
    BY <1>10, <2>2 DEF PublishRow, ScheduleTypeOK
  <2>4. SubSeq(unpublished[n], 1, i - 1) \o SubSeq(unpublished[n], i + 1, Len(unpublished[n])) \in Seq(Wish)
    BY <2>1
  <2>5. unpublished' \in [Nodes -> Seq(Wish)]
    BY <1>10, <2>4 DEF PublishRow, ScheduleTypeOK
  <2>6. ghost' = [ghost EXCEPT ![n] = [ghost[n] EXCEPT !.untold = fails \/ wish # WishOf(row[n])]]
    BY <1>10 DEF PublishRow, ScheduleTypeOK, Ghost
  <2>7. ghost' \in [Nodes -> Ghost]
    BY <2>6, GhostFlags DEF ScheduleTypeOK
  <2>8. bounds' \in [events : Nat, crashes : Nat]
    BY <1>10, EventType DEF PublishRow
  <2> QED
    BY <1>10, <2>3, <2>5, <2>7, <2>8 DEF PublishRow, ScheduleTypeOK
<1>11. ASSUME NEW n \in Nodes, DropRun(n) PROVE ScheduleTypeOK'
  BY <1>11, TakeType DEF DropRun, Take, ScheduleTypeOK
<1>12. ASSUME NEW n \in Nodes, EndByDate(n) PROVE ScheduleTypeOK'
  <2>1. row[n].runs \in Nat
    BY DEF ScheduleTypeOK, Row
  <2>2. row' \in [Nodes -> Row] /\ unpublished' \in [Nodes -> Seq(Wish)]
    BY <1>12, <2>1, SwitchOffType DEF EndByDate
  <2> QED
    BY <1>12, <2>2, TakeType DEF EndByDate, Take, ScheduleTypeOK
<1>13. ASSUME NEW n \in Nodes, StartRun(n) PROVE ScheduleTypeOK'
  <2>1. row[n] \in Row /\ row[n].runs + 1 \in Nat
    BY DEF ScheduleTypeOK, Row
  <2>2. row' \in [Nodes -> Row] /\ unpublished' \in [Nodes -> Seq(Wish)]
    <3>1. CASE LimitReached(row[n].cfg, row[n].runs + 1)
      BY <1>13, <2>1, <3>1, SwitchOffType DEF StartRun
    <3>2. CASE ~LimitReached(row[n].cfg, row[n].runs + 1)
      <4>1. row' = [row EXCEPT ![n].runs = row[n].runs + 1] /\ unpublished' = unpublished
        BY <1>13, <3>2 DEF StartRun, ScheduleTypeOK, Row
      <4> QED
        BY <2>1, <4>1 DEF ScheduleTypeOK, Row
    <3> QED
      BY <3>1, <3>2
  <2>3. ghost' \in [Nodes -> Ghost]
    BY <1>13, RememberType DEF StartRun
  <2> QED
    BY <1>13, <2>2, <2>3, TakeType DEF StartRun, Take, ScheduleTypeOK
<1>14. ASSUME NEW n \in Nodes, RollBackRun(n) PROVE ScheduleTypeOK'
  <2>1. ghost' \in [Nodes -> Ghost]
    BY <1>14, RememberType DEF RollBackRun
  <2>2. bounds' \in [events : Nat, crashes : Nat]
    BY <1>14, EventType DEF RollBackRun
  <2> QED
    BY <1>14, <2>1, <2>2, TakeType DEF RollBackRun, Take, ScheduleTypeOK
<1>15. ASSUME NEW n \in Nodes, Deactivate(n) PROVE ScheduleTypeOK'
  <2>1. row[n].runs \in Nat
    BY DEF ScheduleTypeOK, Row
  <2>2. row' \in [Nodes -> Row] /\ unpublished' \in [Nodes -> Seq(Wish)]
    BY <1>15, <2>1, SwitchOffType DEF Deactivate, ScheduleTypeOK
  <2> QED
    BY <1>15, <2>2, TakeType DEF Deactivate, Take, ScheduleTypeOK
<1>15a. ASSUME NEW n \in Nodes, NEW kind \in {"run", "deactivate"}, FailSignal(n, kind)
       PROVE  ScheduleTypeOK'
  <2>1. ghost' \in [Nodes -> Ghost]
    BY <1>15a, FailedGhost
  <2>2. bounds' \in [events : Nat, crashes : Nat]
    BY <1>15a, EventType DEF FailSignal
  <2> QED
    BY <1>15a, <2>1, <2>2, TakeType DEF FailSignal, Take, ScheduleTypeOK
<1>16. CASE LoseSignals
  <2> DEFINE lost(n) == ghost[n].mute \/ \E i \in 1..Len(toDjango) : toDjango[i].node = n
  <2>1. \A n \in Nodes : lost(n) \in BOOLEAN
    BY DEF ScheduleTypeOK, Ghost
  <2>2. ghost' = [n \in Nodes |-> [ghost[n] EXCEPT !.mute = lost(n)]]
    BY <1>16 DEF LoseSignals, ScheduleTypeOK, Ghost
  <2>3. \A n \in Nodes : [ghost[n] EXCEPT !.mute = lost(n)] \in Ghost
    BY <2>1, GhostFlags DEF ScheduleTypeOK
  <2>4. ghost' \in [Nodes -> Ghost]
    BY <2>2, <2>3
  <2>5. bounds' \in [events : Nat, crashes : Nat]
    BY <1>16, EventType DEF LoseSignals
  <2>6. toDjango' \in Seq(Signal)
    BY <1>16 DEF LoseSignals
  <2> QED
    BY <1>16, <2>4, <2>5, <2>6 DEF LoseSignals, ScheduleTypeOK
<1>17. ASSUME NEW n \in Nodes, NEW runs \in BOOLEAN, NEW last \in BOOLEAN, Fire(n, runs, last)
       PROVE  ScheduleTypeOK'
  <2>1. /\ jobs' \in [Nodes -> Wish] /\ ending' \subseteq Nodes
        /\ paused' \subseteq Nodes /\ tracked' \subseteq Nodes /\ flags' \subseteq Nodes
    <3>1. CASE last
      BY <1>17, <3>1, JobEndsType DEF Fire
    <3>2. CASE ~last
      BY <1>17, <3>2 DEF Fire, ScheduleTypeOK
    <3> QED
      BY <3>1, <3>2
  <2>2. bounds' \in [events : Nat, crashes : Nat]
    <3>1. (jobs[n] # NoJob /\ jobs[n].mode = "repeat") \in BOOLEAN
      OBVIOUS
    <3> QED
      BY <1>17, <3>1, EventType DEF Fire
  <2>3. firing' \in [Nodes -> {"no", "run", "runOnce", "deactivate"}]
    BY <1>17 DEF Fire, ScheduleTypeOK
  <2> QED
    BY <1>17, <2>1, <2>2, <2>3 DEF Fire, ScheduleTypeOK
<1>18. ASSUME NEW n \in Nodes, NEW fails \in BOOLEAN, PublishRun(n, fails) PROVE ScheduleTypeOK'
  <2>1. /\ toDjango' \in Seq(Signal) /\ ghost' \in [Nodes -> Ghost]
        /\ bounds' \in [events : Nat, crashes : Nat]
    BY <1>18, SignalsType DEF PublishRun
  <2>2. firing' \in [Nodes -> {"no", "run", "runOnce", "deactivate"}]
    BY <1>18 DEF PublishRun, AfterRun, ScheduleTypeOK
  <2> QED
    BY <1>18, <2>1, <2>2 DEF PublishRun, Signals, ScheduleTypeOK
<1>19. ASSUME NEW n \in Nodes, NEW fails \in BOOLEAN, PublishOnce(n, fails) PROVE ScheduleTypeOK'
  <2>1. /\ toDjango' \in Seq(Signal) /\ ghost' \in [Nodes -> Ghost]
        /\ bounds' \in [events : Nat, crashes : Nat]
    BY <1>19, SignalsType DEF PublishOnce
  <2> QED
    BY <1>19, <2>1 DEF PublishOnce, Signals, ScheduleTypeOK
<1>20. ASSUME NEW n \in Nodes, NEW fails \in BOOLEAN, PublishEnd(n, fails) PROVE ScheduleTypeOK'
  <2>1. /\ toDjango' \in Seq(Signal) /\ ghost' \in [Nodes -> Ghost]
        /\ bounds' \in [events : Nat, crashes : Nat]
    BY <1>20, SignalsType DEF PublishEnd
  <2> QED
    BY <1>20, <2>1 DEF PublishEnd, Signals, ScheduleTypeOK
<1>21. ASSUME NEW b \in BOOLEAN, Boot(b) PROVE ScheduleTypeOK'
  BY <1>21 DEF Boot, ScheduleTypeOK
<1>22. CASE ReadRows
  <2> DEFINE untold(n) == ghost[n].untold /\ \E i \in 1..Len(toManager) : toManager[i].node = n
  <2>1. \A n \in Nodes : untold(n) \in BOOLEAN /\ WishOf(row[n]) \in Wish
    BY WishType DEF ScheduleTypeOK, Ghost
  <2>2. ghost' = [n \in Nodes |-> [ghost[n] EXCEPT !.untold = untold(n)]]
    BY <1>22 DEF ReadRows, ScheduleTypeOK, Ghost
  <2>3. \A n \in Nodes : [ghost[n] EXCEPT !.untold = untold(n)] \in Ghost
    BY <2>1, GhostFlags DEF ScheduleTypeOK
  <2>4. ghost' \in [Nodes -> Ghost]
    BY <2>2, <2>3
  <2>5. snapshot' \in [Nodes -> Wish]
    BY <1>22, <2>1 DEF ReadRows
  <2> QED
    BY <1>22, <2>4, <2>5 DEF ReadRows, ScheduleTypeOK
<1>23. CASE Load
  <2>1. snapshot \in [Nodes -> Wish] /\ Wanted \subseteq Nodes
    BY <1>23 DEF Load, Wanted, ScheduleTypeOK
  <2>2. /\ jobs' \in [Nodes -> Wish]
        /\ paused' \subseteq Nodes /\ tracked' \subseteq Nodes /\ flags' \subseteq Nodes
    BY <1>23, <2>1, RescheduleType DEF Load
  <2> QED
    BY <1>23, <2>2 DEF Load, ScheduleTypeOK
<1>24. CASE Resubscribe
  BY <1>24 DEF Resubscribe, ScheduleTypeOK
<1>25. CASE Reconcile
  <2>1. snapshot \in [Nodes -> Wish] /\ Wanted \subseteq Nodes
    BY <1>25 DEF Reconcile, Wanted, ScheduleTypeOK
  <2>2. /\ jobs' \in [Nodes -> Wish]
        /\ paused' \subseteq Nodes /\ tracked' \subseteq Nodes /\ flags' \subseteq Nodes
    <3>1. {n \in Wanted : NeedsReschedule(n)} \in SUBSET Nodes /\ Nodes \ Wanted \in SUBSET Nodes
      BY <2>1
    <3> QED
      BY <1>25, <2>1, <3>1, RescheduleType DEF Reconcile
  <2> QED
    BY <1>25, <2>2 DEF Reconcile, ScheduleTypeOK
<1>26. CASE Hear
  <2> DEFINE u == Head(toManager)
  <2>1. u \in Update /\ u.node \in Nodes /\ u.wish \in Wish /\ toManager' \in Seq(Update)
    <3>1. toManager \in Seq(Update) /\ toManager # <<>> /\ toManager' = Tail(toManager)
      BY <1>26 DEF Hear, ScheduleTypeOK
    <3>2. u \in Update /\ toManager' \in Seq(Update)
      BY <3>1
    <3> QED
      BY <3>2 DEF Update
  <2>2. /\ jobs' \in [Nodes -> Wish]
        /\ paused' \subseteq Nodes /\ tracked' \subseteq Nodes /\ flags' \subseteq Nodes
    <3>1. CASE u.wish = NoJob
      <4>1. Reschedule({}, {u.node}, jobs)
        BY <1>26, <3>1 DEF Hear
      <4> QED
        BY <2>1, <4>1, RescheduleType DEF ScheduleTypeOK
    <3>2. CASE u.wish # NoJob
      <4>1. Reschedule({u.node}, {}, [jobs EXCEPT ![u.node] = u.wish])
        BY <1>26, <3>2 DEF Hear
      <4>2. [jobs EXCEPT ![u.node] = u.wish] \in [Nodes -> Wish]
        BY <2>1 DEF ScheduleTypeOK
      <4> QED
        BY <2>1, <4>1, <4>2, RescheduleType
    <3> QED
      BY <3>1, <3>2
  <2>3. ghost' \in [Nodes -> Ghost]
    <3>1. \/ ghost' = ghost
          \/ ghost' = [ghost EXCEPT ![u.node] =
                          [ghost[u.node] EXCEPT !.stirred = TRUE, !.onceRan = 0]]
      BY <1>26, <2>1 DEF Hear, ScheduleTypeOK, Ghost
    <3>2. [ghost[u.node] EXCEPT !.stirred = TRUE, !.onceRan = 0] \in Ghost
      BY <2>1, GhostFlags DEF ScheduleTypeOK
    <3> QED
      BY <2>1, <3>1, <3>2 DEF ScheduleTypeOK
  <2> QED
    BY <1>26, <2>1, <2>2, <2>3 DEF Hear, ScheduleTypeOK
<1>27. CASE Disconnect
  <2>1. toManager' \in Seq(Update)
    BY <1>27 DEF Disconnect
  <2>2. snapshot' \in [Nodes -> Wish] \cup {<<>>}
    BY <1>27 DEF Disconnect, ScheduleTypeOK
  <2>3. pc' \in {"down", "loading", "deaf", "syncing", "listening"}
    BY <1>27 DEF Disconnect, ScheduleTypeOK
  <2> QED
    BY <1>27, <2>1, <2>2, <2>3 DEF Disconnect, ScheduleTypeOK
<1>28. CASE Crash
  <2> DEFINE mute(n) == ghost[n].mute \/ firing[n] # "no"
  <2>1. \A n \in Nodes : mute(n) \in BOOLEAN
    BY DEF ScheduleTypeOK, Ghost
  <2>2. ghost' = [n \in Nodes |-> [ghost[n] EXCEPT !.mute = mute(n)]]
    BY <1>28 DEF Crash, ScheduleTypeOK, Ghost
  <2>3. \A n \in Nodes : [ghost[n] EXCEPT !.mute = mute(n)] \in Ghost
    BY <2>1, GhostFlags DEF ScheduleTypeOK
  <2>4. ghost' \in [Nodes -> Ghost]
    BY <2>2, <2>3
  <2>5. bounds' \in [events : Nat, crashes : Nat]
    <3>1. bounds' = [bounds EXCEPT !.events = bounds.events + 1, !.crashes = bounds.crashes + 1]
      BY <1>28 DEF Crash, ScheduleTypeOK
    <3>2. bounds.events + 1 \in Nat /\ bounds.crashes + 1 \in Nat
      BY DEF ScheduleTypeOK
    <3> QED
      BY <3>1, <3>2 DEF ScheduleTypeOK
  <2>6. jobs' \in [Nodes -> Wish]
    BY <1>28 DEF Crash, Wish
  <2>7. toManager' \in Seq(Update) /\ firing' \in [Nodes -> {"no", "run", "runOnce", "deactivate"}]
    BY <1>28 DEF Crash
  <2> QED
    BY <1>28, <2>4, <2>5, <2>6, <2>7 DEF Crash, ScheduleTypeOK
<1>29. CASE UNCHANGED scheduleVars
  BY <1>29 DEF scheduleVars, ScheduleTypeOK
<1> QED
  BY <1>1, <1>2, <1>3, <1>4, <1>5, <1>6, <1>7, <1>8, <1>9, <1>10, <1>11, <1>12, <1>13, <1>14,
     <1>15, <1>15a, <1>16, <1>17, <1>18, <1>19, <1>20, <1>21, <1>22, <1>23, <1>24, <1>25, <1>26, <1>27,
     <1>28, <1>29, ScheduleActions

-----------------------------------------------------------------------------
(* The cap *)

\* What these steps do to the row, to the copies and to the count: nothing.
LEMMA CapQuiet ==
    ASSUME ScheduleTypeOK, CapHolds, CopiesInv, row' = row, edit' = edit,
           \A n \in Nodes : /\ ghost'[n].ran = ghost[n].ran
                            /\ ghost'[n].uncounted = ghost[n].uncounted
                            /\ ghost'[n].inherited = ghost[n].inherited
    PROVE  CapHolds' /\ CopiesInv'
BY DEF CapHolds, CopiesInv, CapKept

\* A write of a user keeps the count, or starts it again.
LEMMA CapCommit ==
    ASSUME ScheduleTypeOK, CapHolds, NEW n \in Nodes, NEW r \in Row, NEW reset \in BOOLEAN,
           NEW inherited \in Nat, Commit(n, r, reset, inherited), CapKept(r, inherited),
           reset => r.runs = 0
    PROVE  CapHolds'
<1> DEFINE g == ghost[n]
<1>1. g \in Ghost /\ row[n] \in Row
  BY DEF ScheduleTypeOK
<1>2. row' = [row EXCEPT ![n] = r]
  BY DEF Commit
<1>3. /\ ghost'[n].inherited = inherited
      /\ ghost'[n].ran = IF reset THEN 0 ELSE g.ran
      /\ ghost'[n].uncounted = IF reset THEN 0 ELSE g.uncounted + row[n].runs - r.runs
      /\ \A m \in Nodes \ {n} : ghost'[m] = ghost[m]
  <2>1. ghost' = [ghost EXCEPT ![n] =
                    [g EXCEPT !.ran = IF reset THEN 0 ELSE g.ran,
                              !.uncounted = IF reset THEN 0 ELSE g.uncounted + row[n].runs - r.runs,
                              !.inherited = inherited,
                              !.onceRan = 0,
                              !.stirred = ~AtRest(n)]]
    BY DEF Commit
  <2>2. ghost'[n] = [g EXCEPT !.ran = IF reset THEN 0 ELSE g.ran,
                              !.uncounted = IF reset THEN 0 ELSE g.uncounted + row[n].runs - r.runs,
                              !.inherited = inherited,
                              !.onceRan = 0,
                              !.stirred = ~AtRest(n)]
    BY <2>1 DEF ScheduleTypeOK
  <2>3. \A m \in Nodes \ {n} : ghost'[m] = ghost[m]
    BY <2>1 DEF ScheduleTypeOK
  <2> QED
    BY <1>1, <2>2, <2>3 DEF Ghost
<1>4. g.ran = row[n].runs + g.uncounted
  BY DEF CapHolds
<1>5. g.ran \in Nat /\ g.uncounted \in Int /\ row[n].runs \in Nat /\ r.runs \in Nat
  BY <1>1 DEF Ghost, Row
<1>6. ghost'[n].ran = row'[n].runs + ghost'[n].uncounted
  <2>1. row'[n] = r
    BY <1>2 DEF ScheduleTypeOK
  <2>2. CASE reset
    BY <1>3, <2>1, <2>2
  <2>3. CASE ~reset
    BY <1>3, <1>4, <1>5, <2>1, <2>3
  <2> QED
    BY <2>2, <2>3
<1>7. CapKept(row'[n], ghost'[n].inherited) /\ \A m \in Nodes \ {n} : row'[m] = row[m]
  BY <1>2, <1>3 DEF ScheduleTypeOK
<1>8. ASSUME NEW m \in Nodes
      PROVE  CapKept(row'[m], ghost'[m].inherited) /\ ghost'[m].ran = row'[m].runs + ghost'[m].uncounted
  <2>1. CASE m = n
    BY <1>6, <1>7, <2>1
  <2>2. CASE m # n
    BY <1>3, <1>7, <2>2 DEF CapHolds
  <2> QED
    BY <2>1, <2>2
<1> QED
  BY <1>8 DEF CapHolds, CapKept

LEMMA CapMove ==
    ASSUME ScheduleTypeOK, CapHolds, CopiesInv, NEW n \in Nodes, NEW from,
           NEW to \in {"live", "binned", "gone"}, Move(n, from, to)
    PROVE  CapHolds' /\ CopiesInv'
<1> DEFINE r == [row[n] EXCEPT !.state = to]
<1>1. r \in Row /\ r.cfg = row[n].cfg /\ r.runs = row[n].runs /\ r.on = row[n].on
  <2>1. row[n] \in Row
    BY DEF ScheduleTypeOK
  <2>2. r \in Row
    BY <2>1, RowFields
  <2> QED
    BY <2>1, <2>2 DEF Row
<1>2. CapKept(r, ghost[n].inherited) /\ ghost[n].inherited \in Nat
  BY <1>1, InheritedType DEF CapHolds, CapKept
<1>3. Commit(n, r, FALSE, ghost[n].inherited) /\ edit' = edit
  BY DEF Move
<1>4. CapHolds'
  BY <1>1, <1>2, <1>3, CapCommit
<1> QED
  BY <1>3, <1>4 DEF CopiesInv, CapKept

\* Django's own writes keep the cap of a row and count what they say.
LEMMA CapCounted ==
    ASSUME ScheduleTypeOK, CapHolds, CopiesInv, NEW n \in Nodes, NEW k \in Nat, edit' = edit,
           row'[n].runs = k, row'[n].cfg = row[n].cfg, \A m \in Nodes \ {n} : row'[m] = row[m],
           \/ k = row[n].runs /\ (row'[n].on => row[n].on)
           \/ /\ k = row[n].runs + 1 /\ ~LimitReached(row[n].cfg, row[n].runs)
              /\ LimitReached(row[n].cfg, k) => ~row'[n].on,
           ghost'[n].ran = k + ghost'[n].uncounted, ghost'[n].inherited = ghost[n].inherited,
           \A m \in Nodes \ {n} : ghost'[m] = ghost[m]
    PROVE  CapHolds' /\ CopiesInv'
<1>1. row[n].runs \in Nat /\ row[n].cfg \in Configs
  BY DEF ScheduleTypeOK, Row
<1>2. row[n].cfg.cap \in Nat
  BY <1>1, ScheduleAssumption
<1>3. CapKept(row'[n], ghost'[n].inherited)
  BY <1>1, <1>2 DEF CapHolds, CapKept, LimitReached
<1> QED
  BY <1>3 DEF CapHolds, CopiesInv, CapKept

\* What a session more does to the memory of it.
LEMMA Remembered ==
    ASSUME ScheduleTypeOK, NEW n \in Nodes, NEW uncounted \in {0, 1}, Remember(n, uncounted)
    PROVE  /\ ghost'[n].ran = ghost[n].ran + 1
           /\ ghost'[n].uncounted = ghost[n].uncounted + uncounted
           /\ ghost'[n].onceRan = IF row[n].cfg.mode = "once" /\ ~ghost[n].stirred
                                  THEN ghost[n].onceRan + 1 ELSE 0
           /\ ghost'[n].stirred = ghost[n].stirred /\ ghost'[n].untold = ghost[n].untold
           /\ ghost'[n].mute = ghost[n].mute /\ ghost'[n].inherited = ghost[n].inherited
           /\ \A m \in Nodes \ {n} : ghost'[m] = ghost[m]
<1> DEFINE g == ghost[n]
           onceRan == IF row[n].cfg.mode = "once" /\ ~g.stirred THEN g.onceRan + 1 ELSE 0
<1>1. ghost' = [ghost EXCEPT ![n] = [g EXCEPT !.ran = g.ran + 1,
                                              !.uncounted = g.uncounted + uncounted,
                                              !.onceRan = onceRan]]
  BY DEF Remember
<1>2. ghost'[n] = [g EXCEPT !.ran = g.ran + 1, !.uncounted = g.uncounted + uncounted,
                            !.onceRan = onceRan]
  BY <1>1 DEF ScheduleTypeOK
<1>3. \A m \in Nodes \ {n} : ghost'[m] = ghost[m]
  BY <1>1 DEF ScheduleTypeOK
<1>4. g \in Ghost
  BY DEF ScheduleTypeOK
<1> QED
  BY <1>2, <1>3, <1>4 DEF Ghost

\* A node is switched off.
LEMMA SwitchedRow ==
    ASSUME ScheduleTypeOK, NEW n \in Nodes, NEW runs \in Nat, SwitchOff(n, runs)
    PROVE  /\ row'[n].runs = runs /\ row'[n].cfg = row[n].cfg /\ row'[n].on = FALSE
           /\ row'[n].state = row[n].state
           /\ unpublished'[n] = Append(unpublished[n], NoJob)
           /\ \A m \in Nodes \ {n} : row'[m] = row[m] /\ unpublished'[m] = unpublished[m]
BY DEF ScheduleTypeOK, SwitchOff, Row

\* Every step keeps the caps.
LEMMA CapStep ==
    ASSUME ScheduleTypeOK, CapHolds, CopiesInv, [ScheduleNext]_scheduleVars
    PROVE  CapHolds' /\ CopiesInv'
<1> USE DEF rowVars
<1> DEFINE same == \A n \in Nodes : /\ ghost'[n].ran = ghost[n].ran
                                   /\ ghost'[n].uncounted = ghost[n].uncounted
                                   /\ ghost'[n].inherited = ghost[n].inherited
<1>0. ghost' = ghost => same
  OBVIOUS
<1>1. CASE Tick
  BY <1>0, <1>1, CapQuiet DEF Tick
<1>2. ASSUME NEW n \in Nodes, NEW on \in BOOLEAN, NEW c \in Configs, Create(n, on, c)
      PROVE  CapHolds' /\ CopiesInv'
  <2> DEFINE r == [state |-> "live", on |-> on, cfg |-> c, runs |-> 0]
  <2>1. r \in Row /\ r.cfg = c /\ r.runs = 0
    BY DEF Row
  <2>2. CapKept(r, 0)
    BY <2>1 DEF CapKept
  <2>3. Commit(n, r, TRUE, 0) /\ edit' = edit
    BY <1>2 DEF Create
  <2>4. CapHolds'
    BY <2>1, <2>2, <2>3, CapCommit
  <2> QED
    BY <2>3, <2>4 DEF CopiesInv, CapKept
<1>3. ASSUME NEW e \in Editors, NEW n \in Nodes, NEW on \in BOOLEAN, NEW c \in Configs,
             BeginEdit(e, n, on, c)
      PROVE  CapHolds' /\ CopiesInv'
  <2>1. /\ edit'[e].copy = row[n] /\ edit'[e].inherited = ghost[n].inherited
        /\ \A f \in Editors \ {e} : edit'[f] = edit[f]
        /\ row' = row /\ ghost' = ghost
    BY <1>3 DEF BeginEdit, ScheduleTypeOK
  <2>2. CapHolds'
    BY <2>1 DEF CapHolds, CapKept
  <2>3. CopiesInv'
    BY <2>1 DEF CapHolds, CopiesInv, CapKept
  <2> QED
    BY <2>2, <2>3
<1>4. ASSUME NEW e \in Editors, SaveEdit(e) PROVE CapHolds' /\ CopiesInv'
  <2>1. edit[e] \in Edit /\ edit[e] # NoEdit
    BY <1>4 DEF SaveEdit, ScheduleTypeOK
  <2>2. /\ edit'[e].copy = edit[e].copy /\ edit'[e].inherited = edit[e].inherited
        /\ \A f \in Editors \ {e} : edit'[f] = edit[f]
        /\ row' = row /\ ghost' = ghost
    BY <1>4, <2>1 DEF SaveEdit, ScheduleTypeOK, Edit
  <2>3. CapHolds'
    BY <2>2 DEF CapHolds, CapKept
  <2>4. CopiesInv'
    BY <2>1, <2>2 DEF CopiesInv, CapKept
  <2> QED
    BY <2>3, <2>4
<1>5. ASSUME NEW e \in Editors, CommitEdit(e) PROVE CapHolds' /\ CopiesInv'
  <2> DEFINE d == edit[e]
             r == [state |-> "live", on |-> d.on, cfg |-> d.cfg,
                   runs |-> IF Restarts(d) THEN 0 ELSE d.copy.runs]
  <2>1. d \in Edit /\ d # NoEdit
    BY <1>5 DEF CommitEdit, ScheduleTypeOK
  <2>2. /\ d.node \in Nodes /\ r \in Row /\ Restarts(d) \in BOOLEAN
        /\ r.cfg = d.cfg /\ r.on = d.on /\ r.runs = IF Restarts(d) THEN 0 ELSE d.copy.runs
    BY <2>1 DEF Edit, Row, Restarts
  <2>3. CapKept(d.copy, d.inherited) /\ d.copy.on \in BOOLEAN /\ d.on \in BOOLEAN
    BY <2>1 DEF CopiesInv, Edit, Row
  <2>4. CapKept(r, Inherits(d))
    <3>1. CASE Restarts(d)
      BY <2>2, <3>1 DEF CapKept, Inherits
    <3>2. CASE ~Restarts(d) /\ d.copy.cfg.endType # "afterRuns"
      BY <2>2, <3>2 DEF CapKept, Inherits
    <3>3. CASE ~Restarts(d) /\ d.copy.cfg.endType = "afterRuns"
      BY <2>2, <2>3, <3>3 DEF CapKept, Inherits, Restarts
    <3> QED
      BY <3>1, <3>2, <3>3
  <2>5. /\ Commit(d.node, r, Restarts(d), Inherits(d)) /\ edit' = [edit EXCEPT ![e] = NoEdit]
        /\ Inherits(d) \in Nat
    BY <1>5, <2>1, InheritsType DEF CommitEdit
  <2>6. CapHolds'
    BY <2>2, <2>4, <2>5, CapCommit
  <2>7. edit'[e] = NoEdit /\ \A f \in Editors \ {e} : edit'[f] = edit[f]
    BY <2>5 DEF ScheduleTypeOK
  <2>8. CopiesInv'
    BY <2>7 DEF CopiesInv, CapKept
  <2> QED
    BY <2>6, <2>8
<1>6. ASSUME NEW e \in Editors, AbandonEdit(e) PROVE CapHolds' /\ CopiesInv'
  <2>1. /\ edit'[e] = NoEdit /\ \A f \in Editors \ {e} : edit'[f] = edit[f]
        /\ row' = row /\ ghost' = ghost
    BY <1>6 DEF AbandonEdit, ScheduleTypeOK
  <2>2. CapHolds'
    BY <2>1 DEF CapHolds, CapKept
  <2>3. CopiesInv'
    BY <2>1 DEF CopiesInv, CapKept
  <2> QED
    BY <2>2, <2>3
<1>7. ASSUME NEW n \in Nodes, Bin(n) \/ Restore(n) \/ Delete(n) PROVE CapHolds' /\ CopiesInv'
  BY <1>7, CapMove DEF Bin, Restore, Delete
<1>8. ASSUME NEW n \in Nodes, NEW i \in 1..Len(unpublished[n]), NEW fails \in BOOLEAN,
             PublishRow(n, i, fails)
      PROVE  CapHolds' /\ CopiesInv'
  <2>1. same
    BY <1>8 DEF PublishRow, ScheduleTypeOK, Ghost
  <2> QED
    BY <1>8, <2>1, CapQuiet DEF PublishRow
<1>9. ASSUME NEW n \in Nodes, DropRun(n) PROVE CapHolds' /\ CopiesInv'
  BY <1>0, <1>9, CapQuiet DEF DropRun, Take
<1>10. ASSUME NEW n \in Nodes, EndByDate(n) \/ Deactivate(n) PROVE CapHolds' /\ CopiesInv'
  <2>1. row[n].runs \in Nat /\ ghost[n].ran = row[n].runs + ghost[n].uncounted
    BY DEF ScheduleTypeOK, Row, CapHolds
  <2>2. edit' = edit /\ ghost' = ghost /\ (SwitchOff(n, row[n].runs) \/ row' = row)
    BY <1>10 DEF EndByDate, Deactivate, Take
  <2>3. CASE row' = row
    BY <1>0, <2>2, <2>3, CapQuiet
  <2>4. CASE SwitchOff(n, row[n].runs)
    BY <2>1, <2>2, <2>4, SwitchedRow, CapCounted
  <2> QED
    BY <2>2, <2>3, <2>4
<1>11. ASSUME NEW n \in Nodes, StartRun(n) PROVE CapHolds' /\ CopiesInv'
  <2> DEFINE k == row[n].runs + 1
  <2>1. /\ row[n] \in Row /\ k \in Nat /\ ghost[n].ran = row[n].runs + ghost[n].uncounted
        /\ ghost[n] \in Ghost
    BY DEF ScheduleTypeOK, Row, CapHolds
  <2>2. /\ ghost'[n].ran = k + ghost'[n].uncounted /\ ghost'[n].inherited = ghost[n].inherited
        /\ \A m \in Nodes \ {n} : ghost'[m] = ghost[m]
    <3>1. ghost[n].uncounted \in Int /\ ghost[n].ran \in Nat /\ row[n].runs \in Nat
      BY <2>1 DEF Ghost, Row
    <3>2. /\ ghost'[n].ran = ghost[n].ran + 1 /\ ghost'[n].uncounted = ghost[n].uncounted + 0
          /\ ghost'[n].inherited = ghost[n].inherited
          /\ \A m \in Nodes \ {n} : ghost'[m] = ghost[m]
      BY <1>11, Remembered DEF StartRun
    <3> QED
      BY <2>1, <3>1, <3>2
  <2>3. /\ row'[n].runs = k /\ row'[n].cfg = row[n].cfg
        /\ LimitReached(row[n].cfg, k) => ~row'[n].on
        /\ \A m \in Nodes \ {n} : row'[m] = row[m]
    <3>1. CASE SwitchOff(n, k)
      BY <2>1, <3>1, SwitchedRow
    <3>2. CASE row' = [row EXCEPT ![n].runs = @ + 1] /\ ~LimitReached(row[n].cfg, k)
      BY <2>1, <3>2 DEF ScheduleTypeOK, Row
    <3> QED
      BY <1>11, <3>1, <3>2 DEF StartRun
  <2>4. edit' = edit /\ ~LimitReached(row[n].cfg, row[n].runs)
    BY <1>11 DEF StartRun, CanStart, Take
  <2> QED
    BY <2>1, <2>2, <2>3, <2>4, CapCounted
<1>12. ASSUME NEW n \in Nodes, RollBackRun(n) PROVE CapHolds' /\ CopiesInv'
  <2>1. /\ row[n].runs \in Nat /\ ghost[n].ran = row[n].runs + ghost[n].uncounted
        /\ ghost[n].uncounted \in Int /\ ghost[n].ran \in Nat
    BY DEF ScheduleTypeOK, Row, Ghost, CapHolds
  <2>2. /\ ghost'[n].ran = ghost[n].ran + 1 /\ ghost'[n].uncounted = ghost[n].uncounted + 1
        /\ ghost'[n].inherited = ghost[n].inherited
        /\ \A m \in Nodes \ {n} : ghost'[m] = ghost[m]
    BY <1>12, Remembered DEF RollBackRun
  <2>3. ghost'[n].ran = row[n].runs + ghost'[n].uncounted
    BY <2>1, <2>2
  <2>4. edit' = edit /\ row' = row
    BY <1>12 DEF RollBackRun, Take
  <2> QED
    BY <2>1, <2>2, <2>3, <2>4, CapCounted
<1>12a. ASSUME NEW n \in Nodes, NEW kind \in {"run", "deactivate"}, FailSignal(n, kind)
        PROVE  CapHolds' /\ CopiesInv'
  <2>1. same
    BY <1>12a, FailedGhost
  <2> QED
    BY <1>12a, <2>1, CapQuiet DEF FailSignal, Take
<1>13. CASE LoseSignals
  <2>1. same
    BY <1>13 DEF LoseSignals, ScheduleTypeOK, Ghost
  <2> QED
    BY <1>13, <2>1, CapQuiet DEF LoseSignals
<1>14. ASSUME NEW n \in Nodes, NEW runs \in BOOLEAN, NEW last \in BOOLEAN, Fire(n, runs, last)
       PROVE  CapHolds' /\ CopiesInv'
  BY <1>0, <1>14, CapQuiet DEF Fire
<1>15. ASSUME NEW n \in Nodes, NEW fails \in BOOLEAN,
              PublishRun(n, fails) \/ PublishOnce(n, fails) \/ PublishEnd(n, fails)
       PROVE  CapHolds' /\ CopiesInv'
  <2>1. \E kind : Signals(n, kind, fails)
    BY <1>15 DEF PublishRun, PublishOnce, PublishEnd
  <2>2. same /\ row' = row /\ edit' = edit
    BY <2>1 DEF Signals, ScheduleTypeOK, Ghost
  <2> QED
    BY <2>2, CapQuiet
<1>16. ASSUME NEW b \in BOOLEAN, Boot(b) PROVE CapHolds' /\ CopiesInv'
  BY <1>0, <1>16, CapQuiet DEF Boot
<1>17. CASE ReadRows
  <2>1. same
    BY <1>17 DEF ReadRows, ScheduleTypeOK, Ghost
  <2> QED
    BY <1>17, <2>1, CapQuiet DEF ReadRows
<1>18. CASE Load \/ Resubscribe \/ Reconcile \/ Disconnect
  BY <1>0, <1>18, CapQuiet DEF Load, Resubscribe, Reconcile, Disconnect
<1>19. CASE Hear
  <2>1. same
    <3> DEFINE k == Head(toManager).node
    <3>1. ghost' \in {ghost, [ghost EXCEPT ![k].stirred = TRUE, ![k].onceRan = 0]}
      BY <1>19 DEF Hear
    <3>2. ghost \in [Nodes -> Ghost]
      BY DEF ScheduleTypeOK
    <3> HIDE DEF k
    <3>3. ASSUME NEW n \in Nodes
          PROVE  ghost'[n] \in {ghost[n], [ghost[n] EXCEPT !.stirred = TRUE, !.onceRan = 0]}
      <4>1. CASE ghost' = ghost
        BY <4>1
      <4>2. CASE ghost' = [ghost EXCEPT ![k].stirred = TRUE, ![k].onceRan = 0]
        BY <3>2, <4>2 DEF Ghost
      <4> QED
        BY <3>1, <4>1, <4>2
    <3> QED
      BY <3>2, <3>3 DEF Ghost
  <2> QED
    BY <1>19, <2>1, CapQuiet DEF Hear
<1>20. CASE Crash
  <2>1. same
    BY <1>20 DEF Crash, ScheduleTypeOK, Ghost
  <2> QED
    BY <1>20, <2>1, CapQuiet DEF Crash
<1>21. CASE UNCHANGED scheduleVars
  BY <1>0, <1>21, CapQuiet DEF scheduleVars
<1> QED
  BY <1>1, <1>2, <1>3, <1>4, <1>5, <1>6, <1>7, <1>8, <1>9, <1>10, <1>11, <1>12, <1>12a, <1>13, <1>14,
     <1>15, <1>16, <1>17, <1>18, <1>19, <1>20, <1>21, ScheduleActions

-----------------------------------------------------------------------------
(* The manager *)

\* What add_schedule and remove_schedule leave of a node.
LEMMA Rescheduled ==
    ASSUME ScheduleTypeOK, NEW A \in SUBSET Nodes, NEW R \in SUBSET Nodes,
           NEW wishes \in [Nodes -> Wish], Reschedule(A, R, wishes)
    PROVE  \A n \in Nodes :
              /\ n \in A => /\ jobs'[n] = wishes[n] /\ n \in tracked'
                            /\ n \in flags' <=> wishes[n].mode = "once"
              /\ n \notin A /\ n \in R /\ n \in tracked => jobs'[n] = NoJob /\ n \notin tracked'
              /\ n \notin A /\ ~(n \in R /\ n \in tracked) =>
                    /\ jobs'[n] = jobs[n] /\ (n \in tracked' <=> n \in tracked)
                    /\ n \in flags' <=> n \in flags
BY DEF Reschedule, Premarked, ScheduleTypeOK

\* A job's flag is the one of its kind.
Flagged(n) == jobs[n] # NoJob => n \in tracked /\ (n \in flags <=> jobs[n].mode = "once")

LEMMA RescheduledFlags ==
    ASSUME ScheduleTypeOK, NEW A \in SUBSET Nodes, NEW R \in SUBSET Nodes,
           NEW wishes \in [Nodes -> Wish], Reschedule(A, R, wishes), \A n \in Nodes : Flagged(n)
    PROVE  \A n \in Nodes : Flagged(n)'
<1> TAKE n \in Nodes
<1>1. CASE n \in A
  <2>1. jobs'[n] = wishes[n] /\ n \in tracked' /\ (n \in flags' <=> wishes[n].mode = "once")
    BY <1>1, Rescheduled
  <2>2. n \in flags' <=> jobs'[n].mode = "once"
    BY <2>1
  <2> QED
    BY <2>1, <2>2 DEF Flagged
<1>2. CASE n \notin A /\ n \in R /\ n \in tracked
  BY <1>2, Rescheduled DEF Flagged
<1>3. CASE n \notin A /\ ~(n \in R /\ n \in tracked)
  BY <1>3, Rescheduled DEF Flagged
<1> QED
  BY <1>1, <1>2, <1>3

\* The end of a job of a node leaves the others alone, and is announced unless the job
\* carried its flag.
LEMMA JobGone ==
    ASSUME ScheduleTypeOK, NEW n \in Nodes, JobEnds(n)
    PROVE  /\ jobs'[n] = NoJob
           /\ n \in flags => n \notin flags' /\ tracked' = tracked /\ ending' = ending
           /\ n \notin flags => /\ flags' = flags /\ n \notin tracked'
                                /\ n \in tracked => ending' = ending \cup {n}
                                /\ n \notin tracked => ending' = ending
           /\ \A m \in Nodes \ {n} : /\ jobs'[m] = jobs[m]
                                     /\ m \in tracked' <=> m \in tracked
                                     /\ m \in flags' <=> m \in flags
                                     /\ m \in ending' <=> m \in ending
BY DEF JobEnds, ScheduleTypeOK

LEMMA ManagerQuiet ==
    ASSUME ScheduleTypeOK, ManagerInv,
           UNCHANGED <<pc, hearing, snapshot, jobs, tracked, flags, toManager, firing>>
    PROVE  ManagerInv'
BY DEF ManagerInv

\* Every step keeps the manager's invariant.
LEMMA ManagerStep ==
    ASSUME ScheduleTypeOK, ManagerInv, [ScheduleNext]_scheduleVars
    PROVE  ManagerInv'
<1> USE DEF rowVars, jobVars, managerVars, fireVars
<1>0. \A n \in Nodes : Flagged(n)
  BY DEF ManagerInv, Flagged
<1>1. CASE \/ Tick \/ LoseSignals
           \/ \E n \in Nodes, on \in BOOLEAN, c \in Configs : Create(n, on, c)
           \/ \E e \in Editors, n \in Nodes, on \in BOOLEAN, c \in Configs : BeginEdit(e, n, on, c)
           \/ \E e \in Editors : SaveEdit(e) \/ CommitEdit(e) \/ AbandonEdit(e)
           \/ \E n \in Nodes : Bin(n) \/ Restore(n) \/ Delete(n)
  BY <1>1, ManagerQuiet DEF Tick, LoseSignals, Create, BeginEdit, SaveEdit, CommitEdit,
     AbandonEdit, Bin, Restore, Delete, Move
<1>2. CASE \/ \E n \in Nodes : DropRun(n) \/ EndByDate(n) \/ StartRun(n) \/ RollBackRun(n) \/ Deactivate(n)
           \/ \E n \in Nodes, kind \in {"run", "deactivate"} : FailSignal(n, kind)
  BY <1>2, ManagerQuiet DEF DropRun, EndByDate, StartRun, RollBackRun, Deactivate, FailSignal, Take
<1>3. ASSUME NEW n \in Nodes, NEW i \in 1..Len(unpublished[n]), NEW fails \in BOOLEAN,
             PublishRow(n, i, fails)
      PROVE  ManagerInv'
  BY <1>3 DEF PublishRow, ManagerInv
<1>4. ASSUME NEW n \in Nodes, NEW runs \in BOOLEAN, NEW last \in BOOLEAN, Fire(n, runs, last)
      PROVE  ManagerInv'
  <2>1. pc \notin {"down", "loading"} /\ UNCHANGED <<pc, hearing, snapshot, toManager>>
    BY <1>4 DEF Fire
  <2>2. \A m \in Nodes : Flagged(m)'
    <3>1. CASE last
      BY <1>0, <1>4, <3>1, JobGone DEF Fire, Flagged
    <3>2. CASE ~last
      BY <1>0, <1>4, <3>2 DEF Fire, Flagged
    <3> QED
      BY <3>1, <3>2
  <2> QED
    BY <2>1, <2>2 DEF ManagerInv, Flagged
<1>5. ASSUME NEW n \in Nodes, NEW fails \in BOOLEAN,
             PublishRun(n, fails) \/ PublishOnce(n, fails) \/ PublishEnd(n, fails)
      PROVE  ManagerInv'
  <2>1. UNCHANGED <<pc, hearing, snapshot, jobs, tracked, flags, toManager>>
    BY <1>5 DEF PublishRun, PublishOnce, PublishEnd, Signals
  <2>2. firing' = firing \/ firing[n] # "no"
    BY <1>5 DEF PublishRun, PublishOnce, PublishEnd
  <2>3. firing' = firing \/ pc \notin {"down", "loading"}
    BY <2>2 DEF ManagerInv
  <2> QED
    BY <2>1, <2>3 DEF ManagerInv
<1>6. ASSUME NEW b \in BOOLEAN, Boot(b) PROVE ManagerInv'
  BY <1>6 DEF Boot, ManagerInv
<1>7. CASE ReadRows
  BY <1>7 DEF ReadRows, ManagerInv
<1>8. CASE Load
  <2>1. snapshot \in [Nodes -> Wish] /\ Wanted \in SUBSET Nodes
    BY <1>8 DEF Load, Wanted, ScheduleTypeOK
  <2>2. \A m \in Nodes : Flagged(m)'
    BY <1>0, <1>8, <2>1, RescheduledFlags DEF Load
  <2> QED
    BY <1>8, <2>2 DEF Load, ManagerInv, Flagged, ScheduleTypeOK
<1>9. CASE Resubscribe
  BY <1>9 DEF Resubscribe, ManagerInv
<1>10. CASE Reconcile
  <2>1. /\ snapshot \in [Nodes -> Wish] /\ Nodes \ Wanted \in SUBSET Nodes
        /\ {n \in Wanted : NeedsReschedule(n)} \in SUBSET Nodes
    BY <1>10 DEF Reconcile, Wanted, ScheduleTypeOK
  <2>2. \A m \in Nodes : Flagged(m)'
    BY <1>0, <1>10, <2>1, RescheduledFlags DEF Reconcile
  <2> QED
    BY <1>10, <2>2 DEF Reconcile, ManagerInv, Flagged
<1>11. CASE Hear
  <2> DEFINE u == Head(toManager)
  <2>1. u.node \in Nodes /\ u.wish \in Wish
    <3>1. u \in Update
      BY <1>11 DEF Hear, ScheduleTypeOK
    <3> QED
      BY <3>1 DEF Update
  <2>2. \A m \in Nodes : Flagged(m)'
    <3>1. CASE u.wish = NoJob
      <4>1. Reschedule({}, {u.node}, jobs) /\ jobs \in [Nodes -> Wish]
        BY <1>11, <3>1 DEF Hear, ScheduleTypeOK
      <4> QED
        BY <1>0, <2>1, <4>1, RescheduledFlags
    <3>2. CASE u.wish # NoJob
      <4>1. Reschedule({u.node}, {}, [jobs EXCEPT ![u.node] = u.wish])
        BY <1>11, <3>2 DEF Hear
      <4>2. [jobs EXCEPT ![u.node] = u.wish] \in [Nodes -> Wish]
        BY <2>1 DEF ScheduleTypeOK
      <4> QED
        BY <1>0, <2>1, <4>1, <4>2, RescheduledFlags
    <3> QED
      BY <3>1, <3>2
  <2>3. pc = "listening" /\ UNCHANGED <<pc, hearing, snapshot>> /\ hearing
    BY <1>11 DEF Hear, ManagerInv
  <2> QED
    BY <2>2, <2>3 DEF ManagerInv, Flagged
<1>12. CASE Disconnect
  BY <1>12 DEF Disconnect, ManagerInv
<1>13. CASE Crash
  BY <1>13 DEF Crash, ManagerInv
<1>14. CASE UNCHANGED scheduleVars
  BY <1>14, ManagerQuiet DEF scheduleVars
<1> QED
  BY <1>1, <1>2, <1>3, <1>4, <1>5, <1>6, <1>7, <1>8, <1>9, <1>10, <1>11, <1>12, <1>13, <1>14,
     ScheduleActions

-----------------------------------------------------------------------------
(* The jobs *)

LEMMA Appended ==
    ASSUME NEW S, NEW s \in Seq(S), NEW x \in S
    PROVE  /\ Len(Append(s, x)) = Len(s) + 1 /\ Append(s, x)[Len(s) + 1] = x
           /\ \A i \in 1..Len(s) : Append(s, x)[i] = s[i]
OBVIOUS

LEMMA Tailed ==
    ASSUME NEW S, NEW s \in Seq(S), s # <<>>
    PROVE  /\ Len(s) \in Nat /\ Len(s) >= 1 /\ Len(Tail(s)) = Len(s) - 1 /\ Head(s) = s[1]
           /\ \A i \in 1..Len(s) - 1 : Tail(s)[i] = s[i + 1]
OBVIOUS

\* A step that tells nothing of a node and keeps its job, or announces its end.
LEMMA JobKept ==
    ASSUME NEW n \in Nodes, JobOf(n), Told(n)' => Told(n),
           WishOf(row'[n]) = WishOf(row[n]),
           UNCHANGED <<pc, hearing, snapshot, toManager>>,
           pc = "listening" /\ Applied(n, WishOf(row[n])) => Applied(n, WishOf(row[n]))'
    PROVE  JobOf(n)'
<1>1. WishOf(row[n])' = WishOf(row[n])
  BY DEF WishOf
<1>2. HasUpdate(n)' <=> HasUpdate(n)
  BY DEF HasUpdate
<1>3. ASSUME Told(n)' PROVE LastUpdate(n, WishOf(row[n]))'
  BY <1>1, <1>3 DEF JobOf, LastUpdate
<1>4. ASSUME Told(n)', (hearing /\ ~HasUpdate(n) /\ snapshot # <<>>)'
      PROVE  (snapshot[n] = WishOf(row[n]))'
  BY <1>1, <1>2, <1>4 DEF JobOf
<1>5. ASSUME Told(n)', (pc = "listening" /\ ~HasUpdate(n))' PROVE Applied(n, WishOf(row[n]))'
  BY <1>2, <1>5 DEF JobOf
<1> QED
  BY <1>3, <1>4, <1>5 DEF JobOf

\* A step that takes nothing back of what the manager did, and lets time go on.
LEMMA AppliedKept ==
    ASSUME ScheduleAssumption, ScheduleTypeOK, NEW n \in Nodes, NEW wish \in Wish, Applied(n, wish),
           jobs'[n] = jobs[n], clock' \in Nat, clock' >= clock,
           ghost[n].mute \/ Announced(n) => ghost'[n].mute \/ Announced(n)'
    PROVE  Applied(n, wish)'
<1>1. CASE wish = NoJob
  BY <1>1 DEF Applied
<1>2. CASE wish # NoJob /\ wish.mode = "repeat"
  BY <1>2 DEF Applied
<1>3. CASE wish # NoJob /\ wish.mode = "once"
  <2>1. wish.start \in Nat /\ clock \in Nat
    BY <1>3 DEF ScheduleAssumption, ScheduleTypeOK, Wish
  <2>2. Started(wish) => Started(wish)'
    BY <2>1 DEF Started
  <2> QED
    BY <1>3, <2>2 DEF Applied
<1> QED
  BY <1>1, <1>2, <1>3 DEF ScheduleAssumption, Wish

\* The listener takes a signal: no other is lost.
LEMMA TakenAnnounced ==
    ASSUME ScheduleTypeOK, NEW n \in Nodes, NEW kind \in {"run", "deactivate"}, Take(n, kind),
           NEW m \in Nodes, m # n \/ kind = "run", Announced(m)
    PROVE  Announced(m)'
<1>1. ending' = ending
  BY DEF Take, fireVars
<1>2. CASE m \in ending
  BY <1>1, <1>2 DEF Announced
<1>3. CASE \E i \in 1..Len(toDjango) : toDjango[i] = [node |-> m, kind |-> "deactivate"]
  <2>1. PICK i \in 1..Len(toDjango) : toDjango[i] = [node |-> m, kind |-> "deactivate"]
    BY <1>3
  <2>2. toDjango \in Seq(Signal) /\ toDjango # <<>> /\ toDjango' = Tail(toDjango)
    BY DEF ScheduleTypeOK, Take
  <2>3. toDjango[1] = [node |-> n, kind |-> kind]
    BY <2>2, Tailed DEF Take
  <2>4. i # 1
    <3>1. ASSUME i = 1 PROVE FALSE
      <4>1. [node |-> n, kind |-> kind] = [node |-> m, kind |-> "deactivate"]
        BY <2>1, <2>3, <3>1
      <4>2. [node |-> n, kind |-> kind].node = [node |-> m, kind |-> "deactivate"].node
            /\ [node |-> n, kind |-> kind].kind = [node |-> m, kind |-> "deactivate"].kind
        BY <4>1
      <4> QED
        BY <4>2
    <3> QED
      BY <3>1
  <2>5. i - 1 \in 1..Len(toDjango') /\ toDjango'[i - 1] = toDjango[i]
    BY <2>2, <2>4, Tailed
  <2> QED
    BY <2>1, <2>5 DEF Announced
<1> QED
  BY <1>2, <1>3 DEF Announced

\* A signal more on its way.
LEMMA SignalledAnnounced ==
    ASSUME ScheduleTypeOK, NEW n \in Nodes, NEW kind \in {"run", "deactivate"},
           NEW fails \in BOOLEAN, Signals(n, kind, fails)
    PROVE  /\ \A m \in Nodes : /\ ghost'[m].untold = ghost[m].untold
                               /\ ghost[m].mute => ghost'[m].mute
                               /\ ending' = ending /\ Announced(m) => Announced(m)'
           /\ kind = "deactivate" => ghost'[n].mute \/ Announced(n)'
           /\ \A m \in Nodes \ {n} : ending' = ending \ {n} /\ Announced(m) => Announced(m)'
<1>1. \A m \in Nodes : ghost'[m].untold = ghost[m].untold /\ (ghost[m].mute => ghost'[m].mute)
  BY DEF Signals, ScheduleTypeOK, Ghost
<1>2. toDjango \in Seq(Signal) /\ [node |-> n, kind |-> kind] \in Signal
  BY DEF ScheduleTypeOK, Signal
<1>3. \A i \in 1..Len(toDjango) : i \in 1..Len(toDjango') /\ toDjango'[i] = toDjango[i]
  BY <1>2, Appended DEF Signals
<1>4. fails => ghost'[n].mute
  BY DEF Signals, ScheduleTypeOK, Ghost
<1>5. ~fails => Len(toDjango) + 1 \in 1..Len(toDjango')
                /\ toDjango'[Len(toDjango) + 1] = [node |-> n, kind |-> kind]
  BY <1>2, Appended DEF Signals
<1> QED
  BY <1>1, <1>3, <1>4, <1>5 DEF Announced

LEMMA JobElse ==
    ASSUME ScheduleAssumption, ScheduleTypeOK, NEW n \in Nodes, JobOf(n),
           unpublished'[n] = unpublished[n], ghost'[n].untold = ghost[n].untold,
           WishOf(row'[n]) = WishOf(row[n]),
           UNCHANGED <<pc, hearing, snapshot, toManager>>,
           jobs'[n] = jobs[n], clock' \in Nat, clock' >= clock,
           ghost[n].mute \/ Announced(n) => ghost'[n].mute \/ Announced(n)'
    PROVE  JobOf(n)'
<1>1. Told(n)' => Told(n)
  BY DEF Told
<1>2. WishOf(row[n]) \in Wish
  BY WishType DEF ScheduleTypeOK
<1>3. Applied(n, WishOf(row[n])) => Applied(n, WishOf(row[n]))'
  <2> SUFFICES ASSUME Applied(n, WishOf(row[n])) PROVE Applied(n, WishOf(row[n]))'
    OBVIOUS
  <2>1. WishOf(row[n])' = WishOf(row[n])
    BY DEF WishOf
  <2> DEFINE wish == WishOf(row[n])
  <2>2. \A w \in Wish : Applied(n, w) => Applied(n, w)'
    BY AppliedKept
  <2> QED
    BY <1>2, <2>1, <2>2 DEF Applied
<1> QED
  BY <1>1, <1>3, JobKept

\* A node with a change to publish is not told of it.
LEMMA JobUntold ==
    ASSUME NEW n \in Nodes, unpublished'[n] # <<>>
    PROVE  JobOf(n)'
BY DEF JobOf, Told

\* A write of a user.
LEMMA JobsCommit ==
    ASSUME ScheduleAssumption, ScheduleTypeOK, JobsInv, NEW n \in Nodes, NEW r \in Row,
           NEW reset \in BOOLEAN, NEW inherited \in Nat, Commit(n, r, reset, inherited),
           UNCHANGED <<clock, toManager, toDjango, managerVars, jobs, fireVars>>
    PROVE  JobsInv'
<1>1. WishOf(r) \in Wish
  BY WishType
<1>2. unpublished'[n] # <<>>
  <2>1. unpublished'[n] = Append(unpublished[n], WishOf(r)) /\ unpublished[n] \in Seq(Wish)
    BY DEF Commit, ScheduleTypeOK
  <2>2. Len(unpublished'[n]) = Len(unpublished[n]) + 1 /\ Len(unpublished[n]) \in Nat
    BY <1>1, <2>1, Appended
  <2> QED
    BY <2>2
<1>3. ASSUME NEW m \in Nodes \ {n} PROVE JobOf(m)'
  <2>1. unpublished'[m] = unpublished[m] /\ ghost'[m] = ghost[m] /\ row'[m] = row[m]
    BY DEF Commit, ScheduleTypeOK
  <2>2. Announced(m) => Announced(m)'
    BY DEF Announced, fireVars
  <2>3. JobOf(m) /\ clock' \in Nat /\ clock' >= clock /\ m \in Nodes
    BY DEF JobsInv, ScheduleTypeOK
  <2>4. UNCHANGED <<pc, hearing, snapshot, toManager>> /\ jobs'[m] = jobs[m]
    BY DEF managerVars
  <2>5. ghost'[m].untold = ghost[m].untold /\ WishOf(row'[m]) = WishOf(row[m])
        /\ (ghost[m].mute \/ Announced(m) => ghost'[m].mute \/ Announced(m)')
    BY <2>1, <2>2
  <2> QED
    BY <2>1, <2>3, <2>4, <2>5, JobElse
<1> QED
  BY <1>2, <1>3, JobUntold DEF JobsInv

\* An update of a node is published.
LEMMA JobsPublish ==
    ASSUME ScheduleAssumption, ScheduleTypeOK, ManagerInv, JobsInv, NEW n \in Nodes,
           NEW i \in 1..Len(unpublished[n]), NEW fails \in BOOLEAN, PublishRow(n, i, fails)
    PROVE  JobsInv'
<1> USE DEF managerVars, rowVars, fireVars, jobVars
<1> DEFINE wish == unpublished[n][i]
           told == toManager' = Append(toManager, [node |-> n, wish |-> wish])
<1>1. wish \in Wish /\ [node |-> n, wish |-> wish] \in Update /\ toManager \in Seq(Update)
  BY DEF ScheduleTypeOK, Update
<1>2. UNCHANGED <<clock, row, toDjango, pc, hearing, snapshot, jobs, ending>>
  BY DEF PublishRow
<1>3. ghost'[n].untold = (fails \/ wish # WishOf(row[n])) /\ ghost'[n].mute = ghost[n].mute
  BY DEF PublishRow, ScheduleTypeOK, Ghost
<1>4. \/ toManager' = toManager /\ (fails \/ ~hearing)
      \/ told
  BY DEF PublishRow
<1>5. ASSUME NEW m \in Nodes \ {n} PROVE JobOf(m)'
  <2>1. unpublished'[m] = unpublished[m] /\ ghost'[m] = ghost[m] /\ row'[m] = row[m]
    BY DEF PublishRow, ScheduleTypeOK
  <2>2. Announced(m) => Announced(m)'
    BY <1>2 DEF Announced
  <2>3. CASE toManager' = toManager
    <3>1. JobOf(m) /\ clock' \in Nat /\ clock' >= clock /\ m \in Nodes /\ jobs'[m] = jobs[m]
      BY <1>2 DEF JobsInv, ScheduleTypeOK
    <3>2. ghost'[m].untold = ghost[m].untold /\ WishOf(row'[m]) = WishOf(row[m])
          /\ (ghost[m].mute \/ Announced(m) => ghost'[m].mute \/ Announced(m)')
      BY <2>1, <2>2
    <3>3. UNCHANGED <<pc, hearing, snapshot, toManager>>
      BY <1>2, <2>3
    <3> QED
      BY <2>1, <3>1, <3>2, <3>3, JobElse
  <2>4. CASE told
    <3>1. /\ Len(toManager') = Len(toManager) + 1 /\ Len(toManager) \in Nat
          /\ toManager'[Len(toManager) + 1].node = n
          /\ \A k \in 1..Len(toManager) : toManager'[k] = toManager[k]
      BY <1>1, <2>4, Appended
    <3>2. Told(m)' <=> Told(m)
      BY <2>1 DEF Told
    <3>3. HasUpdate(m)' <=> HasUpdate(m)
      <4>1. m # n
        OBVIOUS
      <4>2. \A k \in 1..Len(toManager') : k \in 1..Len(toManager) \/ k = Len(toManager) + 1
        BY <3>1
      <4>3. \A k \in 1..Len(toManager) : k \in 1..Len(toManager')
        BY <3>1
      <4> QED
        BY ONLY <3>1, <4>1, <4>2, <4>3 DEF HasUpdate
    <3>4. ASSUME LastUpdate(m, WishOf(row[m])) PROVE LastUpdate(m, WishOf(row[m]))'
      <4> SUFFICES ASSUME NEW k \in 1..Len(toManager'), toManager'[k].node = m,
                          \A j \in k + 1..Len(toManager') : toManager'[j].node # m
                   PROVE  toManager'[k].wish = WishOf(row[m])
        BY <1>2 DEF LastUpdate, WishOf
      <4>1. k \in 1..Len(toManager)
        BY <3>1
      <4>2. \A j \in k + 1..Len(toManager) : toManager[j].node # m
        BY <3>1, <4>1
      <4> QED
        BY <3>1, <3>4, <4>1, <4>2 DEF LastUpdate
    <3>5. ASSUME Applied(m, WishOf(row[m])) PROVE Applied(m, WishOf(row[m]))'
      BY <1>2, <2>1, <3>5 DEF Applied, Announced, WishOf, Started
    <3>6. WishOf(row[m])' = WishOf(row[m])
      BY <1>2 DEF WishOf
    <3>7. JobOf(m)
      BY DEF JobsInv
    <3> HIDE DEF told
    <3> QED
      BY <1>2, <3>2, <3>3, <3>4, <3>5, <3>6, <3>7 DEF JobOf
  <2> QED
    BY <1>4, <2>3, <2>4
<1>6. JobOf(n)'
  <2> SUFFICES ASSUME Told(n)'
               PROVE  /\ LastUpdate(n, WishOf(row[n]))'
                      /\ (hearing /\ ~HasUpdate(n) /\ snapshot # <<>> => snapshot[n] = WishOf(row[n]))'
                      /\ (pc = "listening" /\ ~HasUpdate(n) => Applied(n, WishOf(row[n])))'
    BY DEF JobOf
  <2>1. ~fails /\ wish = WishOf(row[n])
    BY <1>3 DEF Told
  <2>2. CASE ~hearing
    <3>1. toManager' = <<>> /\ ~hearing' /\ pc' # "listening"
      BY <1>2, <2>2 DEF PublishRow, ManagerInv
    <3> QED
      BY <3>1 DEF LastUpdate
  <2>3. CASE hearing
    <3>1. told
      BY <1>4, <2>1, <2>3
    <3>2. /\ Len(toManager') = Len(toManager) + 1 /\ Len(toManager) \in Nat
          /\ toManager'[Len(toManager) + 1].node = n
          /\ toManager'[Len(toManager) + 1].wish = WishOf(row[n])
      BY <1>1, <2>1, <3>1, Appended
    <3>3. HasUpdate(n)'
      BY <3>2 DEF HasUpdate
    <3>4. LastUpdate(n, WishOf(row[n]))'
      <4> SUFFICES ASSUME NEW k \in 1..Len(toManager'), toManager'[k].node = n,
                          \A j \in k + 1..Len(toManager') : toManager'[j].node # n
                   PROVE  toManager'[k].wish = WishOf(row[n])
        BY <1>2 DEF LastUpdate, WishOf
      <4>1. k = Len(toManager) + 1
        BY <3>2
      <4> QED
        BY <3>2, <4>1
    <3> QED
      BY <3>3, <3>4
  <2> QED
    BY <2>2, <2>3
<1> QED
  BY <1>5, <1>6 DEF JobsInv

\* The listener takes a signal of a node: the others keep their jobs.
LEMMA JobsTaken ==
    ASSUME ScheduleAssumption, ScheduleTypeOK, JobsInv, NEW n \in Nodes,
           NEW kind \in {"run", "deactivate"}, Take(n, kind),
           \A m \in Nodes : /\ ghost'[m].untold = ghost[m].untold
                            /\ ghost[m].mute => ghost'[m].mute
                            /\ m # n => /\ unpublished'[m] = unpublished[m]
                                        /\ row'[m] = row[m],
           \/ unpublished'[n] # <<>>
           \/ /\ unpublished'[n] = unpublished[n] /\ WishOf(row'[n]) = WishOf(row[n])
              /\ kind = "run" \/ WishOf(row[n]) = NoJob \/ ghost'[n].mute
    PROVE  JobsInv'
<1>1. UNCHANGED <<clock, pc, hearing, snapshot, toManager, jobs>>
  BY DEF Take, managerVars, jobVars
<1>2. clock' \in Nat /\ clock' >= clock
  BY <1>1 DEF ScheduleTypeOK
<1>3. ASSUME NEW m \in Nodes, m # n \/ kind = "run" \/ ghost'[m].mute,
             unpublished'[m] = unpublished[m], WishOf(row'[m]) = WishOf(row[m])
      PROVE  JobOf(m)'
  <2>1. Announced(m) => Announced(m)' \/ ghost'[m].mute
    BY <1>3, TakenAnnounced
  <2>2. JobOf(m) /\ ghost'[m].untold = ghost[m].untold /\ jobs'[m] = jobs[m]
        /\ (ghost[m].mute \/ Announced(m) => ghost'[m].mute \/ Announced(m)')
    BY <1>1, <2>1 DEF JobsInv
  <2> QED
    BY <1>1, <1>2, <1>3, <2>2, JobElse
<1>4. ASSUME NEW m \in Nodes \ {n} PROVE JobOf(m)'
  BY <1>3
<1>5. CASE unpublished'[n] # <<>>
  BY <1>4, <1>5, JobUntold DEF JobsInv
<1>6. CASE /\ unpublished'[n] = unpublished[n] /\ WishOf(row'[n]) = WishOf(row[n])
           /\ kind = "run" \/ ghost'[n].mute
  BY <1>3, <1>4, <1>6 DEF JobsInv
<1>7. CASE unpublished'[n] = unpublished[n] /\ WishOf(row'[n]) = WishOf(row[n])
           /\ WishOf(row[n]) = NoJob
  <2>1. Told(n)' => Told(n)
    BY <1>7 DEF Told
  <2>2. Applied(n, WishOf(row[n])) => Applied(n, WishOf(row[n]))'
    BY <1>1, <1>7 DEF Applied, WishOf
  <2>3. JobOf(n)
    BY DEF JobsInv
  <2>4. JobOf(n)'
    BY <1>1, <1>7, <2>1, <2>2, <2>3, JobKept
  <2> QED
    BY <1>4, <2>4 DEF JobsInv
<1> QED
  BY <1>5, <1>6, <1>7

\* A job fires, and may come to its end.
LEMMA JobsFire ==
    ASSUME ScheduleAssumption, ScheduleTypeOK, ManagerInv, JobsInv, NEW n \in Nodes,
           NEW runs \in BOOLEAN, NEW last \in BOOLEAN, Fire(n, runs, last)
    PROVE  JobsInv'
<1>1. UNCHANGED <<clock, row, unpublished, toManager, toDjango, pc, hearing, snapshot, ghost>>
  BY DEF Fire, rowVars, managerVars
<1>2. clock' \in Nat /\ clock' >= clock
  BY <1>1 DEF ScheduleTypeOK
<1>3. ASSUME NEW m \in Nodes, jobs'[m] = jobs[m], m \in ending => m \in ending'
      PROVE  JobOf(m)'
  <2>1. Announced(m) => Announced(m)'
    BY <1>1, <1>3 DEF Announced
  <2>2. /\ JobOf(m) /\ ghost'[m].untold = ghost[m].untold /\ unpublished'[m] = unpublished[m]
        /\ WishOf(row'[m]) = WishOf(row[m])
        /\ (ghost[m].mute \/ Announced(m) => ghost'[m].mute \/ Announced(m)')
    BY <1>1, <2>1 DEF JobsInv
  <2> QED
    BY <1>1, <1>2, <1>3, <2>2, JobElse
<1>4. CASE ~last
  BY <1>3, <1>4 DEF Fire, jobVars, JobsInv
<1>5. CASE last
  <2>1. JobEnds(n) /\ jobs[n] # NoJob /\ Started(jobs[n])
    BY <1>5 DEF Fire
  <2>2. \A m \in Nodes \ {n} : JobOf(m)'
    BY <1>3, <2>1, JobGone
  <2>3. ASSUME pc = "listening", Applied(n, WishOf(row[n]))
        PROVE  Applied(n, WishOf(row[n]))'
    <3> DEFINE wish == WishOf(row[n])
    <3>1. wish \in Wish
      BY WishType DEF ScheduleTypeOK
    <3>2. wish' = wish /\ jobs'[n] = NoJob
      BY <1>1, <2>1, JobGone DEF WishOf
    <3>3. CASE wish = NoJob
      BY <3>2, <3>3 DEF Applied
    <3>4. CASE wish # NoJob /\ wish.mode = "repeat"
      <4>1. CASE ghost[n].mute
        BY <1>1, <3>2, <3>4, <4>1 DEF Applied
      <4>2. CASE Announced(n)
        <5>1. n \in ending => n \in ending'
          BY <2>1, JobGone
        <5>2. Announced(n)'
          BY <1>1, <4>2, <5>1 DEF Announced
        <5> QED
          BY <3>2, <3>4, <5>2 DEF Applied
      <4>3. CASE jobs[n] = wish
        <5>1. n \in tracked /\ n \notin flags
          BY <3>4, <4>3 DEF ManagerInv
        <5>2. n \in ending'
          BY <2>1, <5>1, JobGone
        <5>3. Announced(n)'
          BY <5>2 DEF Announced
        <5> QED
          BY <3>2, <3>4, <5>3 DEF Applied
      <4> QED
        BY <2>3, <3>4, <4>1, <4>2, <4>3 DEF Applied
    <3>5. CASE wish # NoJob /\ wish.mode = "once"
      <4>1. Started(wish)
        BY <2>1, <2>3, <3>5 DEF Applied
      <4>2. Started(wish)'
        BY <1>1, <3>2, <4>1 DEF Started
      <4> QED
        BY <3>2, <3>5, <4>2 DEF Applied
    <3> QED
      BY <3>1, <3>3, <3>4, <3>5 DEF Wish, ScheduleAssumption
  <2>4. JobOf(n) /\ (Told(n)' => Told(n)) /\ WishOf(row'[n]) = WishOf(row[n])
    BY <1>1 DEF JobsInv, Told
  <2>5. JobOf(n)'
    BY <1>1, <2>3, <2>4, JobKept
  <2> QED
    BY <2>2, <2>5 DEF JobsInv
<1> QED
  BY <1>4, <1>5

\* The manager publishes a signal.
LEMMA JobsSignal ==
    ASSUME ScheduleAssumption, ScheduleTypeOK, JobsInv, NEW n \in Nodes, NEW fails \in BOOLEAN,
           PublishRun(n, fails) \/ PublishOnce(n, fails) \/ PublishEnd(n, fails)
    PROVE  JobsInv'
<1>1. PICK kind \in {"run", "deactivate"} : /\ Signals(n, kind, fails)
                                            /\ \/ ending' = ending
                                               \/ ending' = ending \ {n} /\ kind = "deactivate"
  BY DEF PublishRun, PublishOnce, PublishEnd
<1>2. UNCHANGED <<clock, row, unpublished, toManager, pc, hearing, snapshot, jobs>>
  BY <1>1 DEF Signals, rowVars, managerVars, jobVars
<1>3. clock' \in Nat /\ clock' >= clock
  BY <1>2 DEF ScheduleTypeOK
<1>4. ASSUME NEW m \in Nodes PROVE JobOf(m)'
  <2>1. ghost'[m].untold = ghost[m].untold
    BY <1>1, SignalledAnnounced
  <2>2. ghost[m].mute \/ Announced(m) => ghost'[m].mute \/ Announced(m)'
    BY <1>1, SignalledAnnounced
  <2>3. /\ JobOf(m) /\ unpublished'[m] = unpublished[m] /\ WishOf(row'[m]) = WishOf(row[m])
        /\ jobs'[m] = jobs[m]
    BY <1>2 DEF JobsInv
  <2> QED
    BY <1>2, <1>3, <2>1, <2>2, <2>3, JobElse
<1> QED
  BY <1>4 DEF JobsInv

LEMMA JobsLost ==
    ASSUME ScheduleAssumption, ScheduleTypeOK, JobsInv, LoseSignals
    PROVE  JobsInv'
<1>1. UNCHANGED <<clock, row, unpublished, toManager, pc, hearing, snapshot, jobs, ending>>
  BY DEF LoseSignals, rowVars, managerVars, jobVars, fireVars
<1>2. clock' \in Nat /\ clock' >= clock
  BY <1>1 DEF ScheduleTypeOK
<1>3. ASSUME NEW m \in Nodes PROVE JobOf(m)'
  <2>1. /\ ghost'[m].untold = ghost[m].untold
        /\ ghost'[m].mute = (ghost[m].mute \/ \E i \in 1..Len(toDjango) : toDjango[i].node = m)
    BY DEF LoseSignals, ScheduleTypeOK, Ghost
  <2>2. ASSUME Announced(m), m \notin ending PROVE \E i \in 1..Len(toDjango) : toDjango[i].node = m
    BY <2>2 DEF Announced
  <2>3. m \in ending => Announced(m)'
    BY <1>1 DEF Announced
  <2>4. /\ JobOf(m) /\ unpublished'[m] = unpublished[m] /\ WishOf(row'[m]) = WishOf(row[m])
        /\ jobs'[m] = jobs[m]
        /\ ghost[m].mute \/ Announced(m) => ghost'[m].mute \/ Announced(m)'
    BY <1>1, <2>1, <2>2, <2>3 DEF JobsInv
  <2> QED
    BY <1>1, <1>2, <2>1, <2>4, JobElse
<1> QED
  BY <1>3 DEF JobsInv

\* The manager reads the rows: it is told of all but what it has yet to hear.
LEMMA JobsRead ==
    ASSUME ScheduleTypeOK, JobsInv, ReadRows
    PROVE  JobsInv'
<1>1. UNCHANGED <<row, unpublished, toManager, pc, hearing>> /\ pc # "listening"
  BY DEF ReadRows, rowVars
<1>2. ASSUME NEW m \in Nodes, Told(m)' PROVE LastUpdate(m, WishOf(row[m]))'
  <2>1. ghost'[m].untold = (ghost[m].untold /\ HasUpdate(m))
    BY DEF ReadRows, HasUpdate, ScheduleTypeOK, Ghost
  <2>2. unpublished[m] = <<>> /\ (~ghost[m].untold \/ ~HasUpdate(m))
    BY <1>1, <1>2, <2>1 DEF Told
  <2>3. CASE ~HasUpdate(m)
    BY <1>1, <2>3 DEF HasUpdate, LastUpdate
  <2>4. CASE ~ghost[m].untold
    <3>1. LastUpdate(m, WishOf(row[m]))
      BY <2>2, <2>4 DEF JobsInv, JobOf, Told
    <3> QED
      BY <1>1, <3>1 DEF LastUpdate, WishOf
  <2> QED
    BY <2>2, <2>3, <2>4
<1>3. \A m \in Nodes : (snapshot[m] = WishOf(row[m]))'
  BY <1>1 DEF ReadRows, WishOf
<1> QED
  BY <1>1, <1>2, <1>3 DEF JobsInv, JobOf

\* A manager that has no subscription, or has not yet read the rows.
LEMMA JobsDeaf ==
    ASSUME JobsInv, UNCHANGED <<row, unpublished>>,
           \A n \in Nodes : ghost'[n].untold = ghost[n].untold,
           toManager' = toManager \/ toManager' = <<>>,
           ~hearing' \/ snapshot' = <<>>, pc' # "listening"
    PROVE  JobsInv'
<1>1. ASSUME NEW m \in Nodes, Told(m)' PROVE LastUpdate(m, WishOf(row[m]))'
  <2>1. LastUpdate(m, WishOf(row[m]))
    BY <1>1 DEF JobsInv, JobOf, Told
  <2>2. CASE toManager' = toManager
    BY <2>1, <2>2 DEF LastUpdate, WishOf
  <2>3. CASE toManager' = <<>>
    BY <2>3 DEF LastUpdate
  <2> QED
    BY <2>2, <2>3
<1> QED
  BY <1>1 DEF JobsInv, JobOf

\* The rows as they were read are the schedule.
LEMMA JobsLoaded ==
    ASSUME ScheduleAssumption, ScheduleTypeOK, ManagerInv, JobsInv, snapshot # <<>>,
           pc' = "listening" => hearing,
           NEW A \in SUBSET Nodes, NEW R \in SUBSET Nodes, Reschedule(A, R, snapshot),
           snapshot' = <<>>, UNCHANGED <<clock, row, unpublished, toManager, ghost, hearing>>,
           \A n \in Nodes : \/ n \in A /\ n \in Wanted
                            \/ n \notin A /\ n \in Wanted /\ n \notin R /\ ~NeedsReschedule(n)
                            \/ n \notin Wanted /\ n \notin A /\ (n \in R \/ jobs[n] = NoJob)
    PROVE  JobsInv'
<1>1. snapshot \in [Nodes -> Wish]
  BY DEF ScheduleTypeOK
<1>2. ASSUME NEW m \in Nodes, Told(m)' PROVE LastUpdate(m, WishOf(row[m]))'
  <2>1. LastUpdate(m, WishOf(row[m]))
    BY <1>2 DEF JobsInv, JobOf, Told
  <2> QED
    BY <2>1 DEF LastUpdate, WishOf
<1>3. ASSUME NEW m \in Nodes, Told(m)', (pc = "listening" /\ ~HasUpdate(m))'
      PROVE  Applied(m, WishOf(row[m]))'
  <2> DEFINE wish == WishOf(row[m])
  <2>1. Told(m) /\ ~HasUpdate(m) /\ hearing
    BY <1>3 DEF Told, HasUpdate
  <2>2. snapshot[m] = wish /\ wish' = wish /\ wish \in Wish
    BY <1>1, <2>1 DEF JobsInv, JobOf, WishOf
  <2>3. jobs'[m] = wish \/ (wish # NoJob /\ wish.mode = "once" /\ Started(wish))
    <3>1. CASE m \in A
      BY <1>1, <2>2, <3>1, Rescheduled
    <3>2. CASE m \notin A /\ m \in Wanted /\ m \notin R /\ ~NeedsReschedule(m)
      <4>1. jobs'[m] = jobs[m] /\ wish # NoJob
        BY <1>1, <2>2, <3>2, Rescheduled DEF Wanted
      <4> QED
        BY <2>2, <3>2, <4>1 DEF NeedsReschedule
    <3>3. CASE m \notin Wanted /\ m \notin A /\ (m \in R \/ jobs[m] = NoJob)
      <4>1. wish = NoJob
        BY <2>2, <3>3 DEF Wanted
      <4>2. jobs[m] # NoJob => m \in tracked
        BY DEF ManagerInv
      <4> QED
        BY <1>1, <3>3, <4>1, <4>2, Rescheduled
    <3> QED
      BY <3>1, <3>2, <3>3
  <2>4. wish # NoJob => wish.mode \in {"once", "repeat"}
    BY <2>2 DEF Wish, ScheduleAssumption
  <2>5. Started(wish)' <=> Started(wish)
    BY <2>2 DEF Started
  <2> QED
    BY <2>2, <2>3, <2>4, <2>5 DEF Applied
<1> QED
  BY <1>2, <1>3 DEF JobsInv, JobOf

\* What the manager hears of a node is its job.
LEMMA HeardJobs ==
    ASSUME ScheduleTypeOK, ManagerInv, Hear
    PROVE  LET u == Head(toManager)
           IN /\ u.node \in Nodes /\ u.wish \in Wish
              /\ jobs'[u.node] = u.wish
              /\ \A m \in Nodes \ {u.node} : jobs'[m] = jobs[m] /\ (m \in tracked' <=> m \in tracked)
              /\ u.wish # NoJob => u.node \in tracked'
              /\ u.wish = NoJob => u.node \notin tracked'
<1> DEFINE u == Head(toManager)
           k == u.node
           asked == [jobs EXCEPT ![k] = u.wish]
<1>1. k \in Nodes /\ u.wish \in Wish
  <2>1. u \in Update
    BY DEF Hear, ScheduleTypeOK
  <2> QED
    BY <2>1 DEF Update
<1>2. jobs \in [Nodes -> Wish] /\ asked \in [Nodes -> Wish] /\ asked[k] = u.wish
  BY <1>1 DEF ScheduleTypeOK
<1>3. CASE u.wish = NoJob
  <2>1. Reschedule({}, {k}, jobs)
    BY <1>3 DEF Hear
  <2>2. \A m \in Nodes : /\ m = k /\ m \in tracked => jobs'[m] = NoJob /\ m \notin tracked'
                         /\ ~(m = k /\ m \in tracked) => jobs'[m] = jobs[m]
                                                        /\ (m \in tracked' <=> m \in tracked)
    <3> HIDE DEF k
    <3> QED
      BY <1>1, <1>2, <2>1, Rescheduled
  <2>3. jobs[k] # NoJob => k \in tracked
    BY <1>1 DEF ManagerInv
  <2>4. jobs'[k] = NoJob /\ k \notin tracked'
    BY <1>1, <2>2, <2>3
  <2> QED
    BY <1>1, <1>3, <2>2, <2>4
<1>4. CASE u.wish # NoJob
  <2>1. Reschedule({k}, {}, asked)
    BY <1>4 DEF Hear
  <2>2. \A m \in Nodes : /\ m = k => jobs'[m] = asked[m] /\ m \in tracked'
                         /\ m # k => jobs'[m] = jobs[m] /\ (m \in tracked' <=> m \in tracked)
    <3> HIDE DEF k, asked
    <3> QED
      BY <1>1, <1>2, <2>1, Rescheduled
  <2> QED
    BY <1>1, <1>2, <1>4, <2>2
<1> QED
  BY <1>3, <1>4

LEMMA GhostHeard ==
    ASSUME NEW g \in Ghost
    PROVE  /\ [g EXCEPT !.stirred = TRUE, !.onceRan = 0].untold = g.untold
           /\ [g EXCEPT !.stirred = TRUE, !.onceRan = 0].mute = g.mute
           /\ [g EXCEPT !.stirred = TRUE, !.onceRan = 0].stirred = TRUE
           /\ [g EXCEPT !.stirred = TRUE, !.onceRan = 0].onceRan = 0
BY DEF Ghost

LEMMA HeardGhost ==
    ASSUME ScheduleTypeOK, ManagerInv, Hear
    PROVE  LET k == Head(toManager).node
           IN /\ \A m \in Nodes : ghost'[m].untold = ghost[m].untold /\ ghost'[m].mute = ghost[m].mute
              /\ \A m \in Nodes : m # k \/ ~HasFired(k) => ghost'[m] = ghost[m]
              /\ HasFired(k) => ghost'[k].stirred /\ ghost'[k].onceRan = 0
<1> DEFINE k == Head(toManager).node
<1>1. k \in Nodes /\ ghost \in [Nodes -> Ghost]
  BY HeardJobs DEF ScheduleTypeOK
<1>2. CASE HasFired(k)
  <2>1. ghost' = [ghost EXCEPT ![k] = [ghost[k] EXCEPT !.stirred = TRUE, !.onceRan = 0]]
    BY <1>1, <1>2 DEF Hear, ScheduleTypeOK
  <2>2. ghost[k] \in Ghost /\ ghost'[k] = [ghost[k] EXCEPT !.stirred = TRUE, !.onceRan = 0]
        /\ \A m \in Nodes \ {k} : ghost'[m] = ghost[m]
    BY <1>1, <2>1
  <2>3. /\ ghost'[k].untold = ghost[k].untold /\ ghost'[k].mute = ghost[k].mute
        /\ ghost'[k].stirred = TRUE /\ ghost'[k].onceRan = 0
    BY <2>2, GhostHeard
  <2> QED
    BY <1>2, <2>2, <2>3
<1>3. CASE ~HasFired(k)
  BY <1>3 DEF Hear
<1> QED
  BY <1>2, <1>3

\* The manager hears of a node.
LEMMA JobsHeard ==
    ASSUME ScheduleAssumption, ScheduleTypeOK, ManagerInv, JobsInv, Hear
    PROVE  JobsInv'
<1> DEFINE u == Head(toManager)
<1>1. /\ UNCHANGED <<clock, row, unpublished, toDjango, pc, hearing, snapshot, ending>>
      /\ pc = "listening" /\ snapshot = <<>>
  BY DEF Hear, rowVars, managerVars, fireVars, ManagerInv
<1>2. /\ toManager \in Seq(Update) /\ toManager # <<>> /\ toManager' = Tail(toManager)
      /\ u = toManager[1] /\ u.node \in Nodes /\ u.wish \in Wish
  <2>1. toManager \in Seq(Update) /\ toManager # <<>> /\ toManager' = Tail(toManager)
    BY DEF Hear, ScheduleTypeOK
  <2>2. u = toManager[1] /\ u \in Update
    BY <2>1, Tailed
  <2> QED
    BY <2>1, <2>2 DEF Update
<1>3. /\ Len(toManager) \in Nat /\ Len(toManager') = Len(toManager) - 1
      /\ \A i \in 1..Len(toManager') : toManager'[i] = toManager[i + 1] /\ i + 1 \in 1..Len(toManager)
  BY <1>2, Tailed
<1>4. \A m \in Nodes : ghost'[m].untold = ghost[m].untold /\ ghost'[m].mute = ghost[m].mute
  BY HeardGhost
<1>5. \A m \in Nodes \ {u.node} : jobs'[m] = jobs[m]
  BY HeardJobs
<1>6. jobs'[u.node] = u.wish
  BY HeardJobs
<1>7. ASSUME NEW m \in Nodes, Told(m)'
      PROVE  Told(m) /\ LastUpdate(m, WishOf(row[m])) /\ LastUpdate(m, WishOf(row[m]))'
  <2>1. Told(m)
    BY <1>1, <1>4, <1>7 DEF Told
  <2>2. LastUpdate(m, WishOf(row[m]))
    BY <2>1 DEF JobsInv, JobOf
  <2>3. LastUpdate(m, WishOf(row[m]))'
    <3> SUFFICES ASSUME NEW k \in 1..Len(toManager'), toManager'[k].node = m,
                        \A j \in k + 1..Len(toManager') : toManager'[j].node # m
                 PROVE  toManager'[k].wish = WishOf(row[m])
      BY <1>1 DEF LastUpdate, WishOf
    <3>1. k + 1 \in 1..Len(toManager) /\ toManager[k + 1] = toManager'[k]
      BY <1>3
    <3>2. ASSUME NEW j \in (k + 1) + 1..Len(toManager) PROVE toManager[j].node # m
      <4>1. j - 1 \in k + 1..Len(toManager') /\ toManager'[j - 1] = toManager[j]
        BY <1>3
      <4> QED
        BY <4>1
    <3> QED
      BY <2>2, <3>1, <3>2 DEF LastUpdate
  <2> QED
    BY <2>1, <2>2, <2>3
<1>8. ASSUME NEW m \in Nodes, Told(m)', ~HasUpdate(m)' PROVE Applied(m, WishOf(row[m]))'
  <2> DEFINE wish == WishOf(row[m])
  <2>1. wish' = wish /\ wish \in Wish
    BY <1>1, WishType DEF ScheduleTypeOK, WishOf
  <2>2. \A j \in 2..Len(toManager) : toManager[j].node # m
    <3> TAKE j \in 2..Len(toManager)
    <3>1. j - 1 \in 1..Len(toManager') /\ toManager'[j - 1] = toManager[j]
      BY <1>3
    <3> QED
      BY <1>8, <3>1 DEF HasUpdate
  <2>3. CASE m = u.node
    <3>1. 1 \in 1..Len(toManager)
      BY <1>2, Tailed
    <3>2. u.wish = wish
      BY <1>2, <1>7, <1>8, <2>2, <2>3, <3>1 DEF LastUpdate
    <3>3. wish # NoJob => wish.mode \in {"once", "repeat"}
      BY <2>1 DEF Wish, ScheduleAssumption
    <3> QED
      BY <1>6, <2>1, <2>3, <3>2, <3>3 DEF Applied
  <2>4. CASE m # u.node
    <3>1. ~HasUpdate(m)
      <4>1. \A j \in 1..Len(toManager) : j = 1 \/ j \in 2..Len(toManager)
        BY <1>3
      <4> QED
        BY <1>2, <2>2, <2>4, <4>1 DEF HasUpdate
    <3>2. Applied(m, wish)
      BY <1>1, <1>7, <1>8, <3>1 DEF JobsInv, JobOf
    <3>3. ghost[m].mute \/ Announced(m) => ghost'[m].mute \/ Announced(m)'
      BY <1>1, <1>4 DEF Announced
    <3>4. jobs'[m] = jobs[m] /\ clock' \in Nat /\ clock' >= clock
      BY <1>1, <1>5, <2>4 DEF ScheduleTypeOK
    <3>5. \A w \in Wish : Applied(m, w) => Applied(m, w)'
      BY <3>3, <3>4, AppliedKept
    <3> QED
      BY <2>1, <3>2, <3>5 DEF Applied
  <2> QED
    BY <2>3, <2>4
<1> QED
  BY <1>1, <1>7, <1>8 DEF JobsInv, JobOf

\* Every step keeps what the manager was told in agreement with the rows.
LEMMA JobsStep ==
    ASSUME ScheduleAssumption, ScheduleTypeOK, ManagerInv, JobsInv, [ScheduleNext]_scheduleVars
    PROVE  JobsInv'
<1> DEFINE same == UNCHANGED <<row, unpublished, toManager, toDjango, pc, hearing, snapshot,
                               jobs, ending, ghost>>
<1>1. ASSUME same, clock' \in Nat, clock' >= clock PROVE JobsInv'
  <2>1. ASSUME NEW m \in Nodes PROVE JobOf(m)'
    <3>1. Announced(m) => Announced(m)'
      BY <1>1 DEF Announced
    <3>2. /\ JobOf(m) /\ ghost'[m].untold = ghost[m].untold /\ unpublished'[m] = unpublished[m]
          /\ WishOf(row'[m]) = WishOf(row[m]) /\ jobs'[m] = jobs[m]
          /\ ghost[m].mute \/ Announced(m) => ghost'[m].mute \/ Announced(m)'
      BY <1>1, <3>1 DEF JobsInv
    <3>3. UNCHANGED <<pc, hearing, snapshot, toManager>>
      BY <1>1
    <3> QED
      BY <1>1, <3>2, <3>3, JobElse
  <2> QED
    BY <2>1 DEF JobsInv
<1>2. CASE Tick
  <2>1. same /\ clock' \in Nat /\ clock' >= clock
    BY <1>2 DEF Tick, rowVars, managerVars, jobVars, fireVars, ScheduleTypeOK
  <2> QED
    BY <1>1, <2>1
<1>3. CASE \/ \E e \in Editors, n \in Nodes, on \in BOOLEAN, c \in Configs : BeginEdit(e, n, on, c)
           \/ \E e \in Editors : SaveEdit(e) \/ AbandonEdit(e)
           \/ UNCHANGED scheduleVars
  <2>1. same /\ clock' \in Nat /\ clock' >= clock
    BY <1>3 DEF BeginEdit, SaveEdit, AbandonEdit, scheduleVars, rowVars, managerVars, jobVars,
       fireVars, ScheduleTypeOK
  <2> QED
    BY <1>1, <2>1
<1>4. ASSUME NEW n \in Nodes, NEW on \in BOOLEAN, NEW c \in Configs, Create(n, on, c)
      PROVE  JobsInv'
  <2>1. [state |-> "live", on |-> on, cfg |-> c, runs |-> 0] \in Row
    BY DEF Row
  <2>2. UNCHANGED <<clock, toManager, toDjango, managerVars, jobs, fireVars>>
    BY <1>4 DEF Create, jobVars
  <2> QED
    BY <1>4, <2>1, <2>2, JobsCommit DEF Create
<1>5. ASSUME NEW e \in Editors, CommitEdit(e) PROVE JobsInv'
  <2> DEFINE d == edit[e]
             r == [state |-> "live", on |-> d.on, cfg |-> d.cfg,
                   runs |-> IF Restarts(d) THEN 0 ELSE d.copy.runs]
  <2>1. d \in Edit
    BY <1>5 DEF CommitEdit, ScheduleTypeOK
  <2>2. d.node \in Nodes /\ r \in Row /\ Restarts(d) \in BOOLEAN
    BY <2>1 DEF Edit, Row, Restarts
  <2>3. Commit(d.node, r, Restarts(d), Inherits(d)) /\ Inherits(d) \in Nat
    BY <1>5, <2>1, InheritsType DEF CommitEdit
  <2>4. UNCHANGED <<clock, toManager, toDjango, managerVars, jobs, fireVars>>
    BY <1>5 DEF CommitEdit, jobVars
  <2> QED
    BY <2>2, <2>3, <2>4, JobsCommit
<1>6. ASSUME NEW n \in Nodes, Bin(n) \/ Restore(n) \/ Delete(n) PROVE JobsInv'
  <2>1. PICK to \in {"live", "binned", "gone"} :
           /\ Commit(n, [row[n] EXCEPT !.state = to], FALSE, ghost[n].inherited)
           /\ UNCHANGED <<clock, toManager, toDjango, managerVars, jobs, fireVars>>
    BY <1>6 DEF Bin, Restore, Delete, Move, jobVars
  <2>2. [row[n] EXCEPT !.state = to] \in Row /\ ghost[n].inherited \in Nat
    BY RowFields, InheritedType DEF ScheduleTypeOK
  <2> QED
    BY <2>1, <2>2, JobsCommit
<1>7. ASSUME NEW n \in Nodes, NEW i \in 1..Len(unpublished[n]), NEW fails \in BOOLEAN,
             PublishRow(n, i, fails)
      PROVE  JobsInv'
  BY <1>7, JobsPublish
<1>8. ASSUME NEW n \in Nodes, DropRun(n) PROVE JobsInv'
  <2>1. Take(n, "run") /\ UNCHANGED <<row, unpublished, ghost>>
    BY <1>8 DEF DropRun
  <2> QED
    BY <2>1, JobsTaken
<1>9. ASSUME NEW n \in Nodes, NEW runs \in Nat, NEW kind \in {"run", "deactivate"},
             Take(n, kind), SwitchOff(n, runs),
             \A m \in Nodes : ghost'[m].untold = ghost[m].untold /\ ghost'[m].mute = ghost[m].mute
      PROVE  JobsInv'
  <2>1. \A m \in Nodes : m # n => unpublished'[m] = unpublished[m] /\ row'[m] = row[m]
    <3>1. SwitchOff(n, runs)
      BY <1>9
    <3>2. \A m \in Nodes \ {n} : row'[m] = row[m] /\ unpublished'[m] = unpublished[m]
      BY ONLY ScheduleTypeOK, n \in Nodes, runs \in Nat, <3>1, SwitchedRow
    <3> QED
      BY <3>2
  <2>2. unpublished'[n] # <<>>
    <3>1. unpublished'[n] = Append(unpublished[n], NoJob) /\ unpublished[n] \in Seq(Wish)
          /\ NoJob \in Wish
      BY <1>9, SwitchedRow DEF ScheduleTypeOK, Wish
    <3>2. Len(unpublished'[n]) = Len(unpublished[n]) + 1 /\ Len(unpublished[n]) \in Nat
      BY <3>1, Appended
    <3> QED
      BY <3>2
  <2> QED
    BY <1>9, <2>1, <2>2, JobsTaken
<1>10. ASSUME NEW n \in Nodes, EndByDate(n) PROVE JobsInv'
  <2>1. row[n].runs \in Nat /\ Take(n, "run") /\ SwitchOff(n, row[n].runs) /\ ghost' = ghost
    BY <1>10 DEF EndByDate, ScheduleTypeOK, Row
  <2> QED
    BY <1>9, <2>1
<1>11. ASSUME NEW n \in Nodes, StartRun(n) PROVE JobsInv'
  <2>1. Take(n, "run") /\ Remember(n, 0)
    BY <1>11 DEF StartRun
  <2>2. \A m \in Nodes : ghost'[m].untold = ghost[m].untold /\ ghost'[m].mute = ghost[m].mute
    BY <2>1, Remembered
  <2>3. row[n] \in Row /\ row[n].runs + 1 \in Nat
    BY DEF ScheduleTypeOK, Row
  <2>4. CASE SwitchOff(n, row[n].runs + 1)
    BY <1>9, <2>1, <2>2, <2>3, <2>4
  <2>5. CASE row' = [row EXCEPT ![n].runs = @ + 1] /\ UNCHANGED unpublished
    <3>1. \A m \in Nodes : m # n => row'[m] = row[m]
      BY <2>5 DEF ScheduleTypeOK
    <3>2. WishOf(row'[n]) = WishOf(row[n])
      BY <2>3, <2>5 DEF WishOf, ScheduleTypeOK, Row
    <3> QED
      BY <2>1, <2>2, <2>5, <3>1, <3>2, JobsTaken
  <2> QED
    BY <1>11, <2>4, <2>5 DEF StartRun
<1>12. ASSUME NEW n \in Nodes, RollBackRun(n) PROVE JobsInv'
  <2>1. Take(n, "run") /\ Remember(n, 1) /\ UNCHANGED <<row, unpublished>>
    BY <1>12 DEF RollBackRun
  <2>2. \A m \in Nodes : ghost'[m].untold = ghost[m].untold /\ ghost'[m].mute = ghost[m].mute
    BY <2>1, Remembered
  <2> QED
    BY <2>1, <2>2, JobsTaken
<1>13. ASSUME NEW n \in Nodes, Deactivate(n) PROVE JobsInv'
  <2>1. Take(n, "deactivate") /\ ghost' = ghost
    BY <1>13 DEF Deactivate
  <2>2. CASE WishOf(row[n]) = NoJob /\ UNCHANGED <<row, unpublished>>
    BY <2>1, <2>2, JobsTaken
  <2>3. CASE SwitchOff(n, row[n].runs)
    <3>1. row[n].runs \in Nat
      BY DEF ScheduleTypeOK, Row
    <3> QED
      BY <1>9, <2>1, <2>3, <3>1
  <2> QED
    BY <1>13, <2>2, <2>3 DEF Deactivate
<1>13a. ASSUME NEW n \in Nodes, NEW kind \in {"run", "deactivate"}, FailSignal(n, kind)
       PROVE  JobsInv'
  <2>1. Take(n, kind) /\ UNCHANGED <<row, unpublished>>
    BY <1>13a DEF FailSignal
  <2>2. /\ \A m \in Nodes : ghost'[m].untold = ghost[m].untold /\ (ghost[m].mute => ghost'[m].mute)
        /\ kind = "run" \/ ghost'[n].mute
    BY <1>13a, FailedGhost
  <2> QED
    BY <2>1, <2>2, JobsTaken
<1>14. CASE LoseSignals
  BY <1>14, JobsLost
<1>15. ASSUME NEW n \in Nodes, NEW runs \in BOOLEAN, NEW last \in BOOLEAN, Fire(n, runs, last)
       PROVE  JobsInv'
  BY <1>15, JobsFire
<1>16. ASSUME NEW n \in Nodes, NEW fails \in BOOLEAN,
              PublishRun(n, fails) \/ PublishOnce(n, fails) \/ PublishEnd(n, fails)
       PROVE  JobsInv'
  BY <1>16, JobsSignal
<1>17. CASE ReadRows
  BY <1>17, JobsRead
<1>18. CASE (\E b \in BOOLEAN : Boot(b)) \/ Resubscribe
  <2>1. UNCHANGED <<row, unpublished, ghost, toManager>> /\ pc' # "listening" /\ snapshot' = <<>>
    BY <1>18 DEF Boot, Resubscribe, rowVars, ManagerInv
  <2> QED
    BY <2>1, JobsDeaf
<1>19. CASE Disconnect
  <2>1. UNCHANGED <<row, unpublished, ghost>> /\ pc' # "listening" /\ toManager' = <<>> /\ ~hearing'
    BY <1>19 DEF Disconnect, rowVars
  <2> QED
    BY <2>1, JobsDeaf
<1>20. CASE Crash
  <2>1. UNCHANGED <<row, unpublished>> /\ pc' # "listening" /\ toManager' = <<>> /\ ~hearing'
    BY <1>20 DEF Crash, rowVars
  <2>2. \A n \in Nodes : ghost'[n].untold = ghost[n].untold
    BY <1>20 DEF Crash, ScheduleTypeOK, Ghost
  <2> QED
    BY <2>1, <2>2, JobsDeaf
<1>21. CASE Load
  <2>1. /\ Reschedule(Wanted, {}, snapshot) /\ snapshot # <<>> /\ snapshot' = <<>>
        /\ UNCHANGED <<clock, row, unpublished, toManager, ghost, hearing>>
        /\ pc' = "listening" => hearing
    BY <1>21 DEF Load, rowVars
  <2>2. Wanted \in SUBSET Nodes /\ {} \in SUBSET Nodes /\ \A n \in Nodes : jobs[n] = NoJob
    BY <1>21 DEF Load, Wanted, ManagerInv
  <2> QED
    BY <2>1, <2>2, JobsLoaded
<1>22. CASE Reconcile
  <2> DEFINE A == {n \in Wanted : NeedsReschedule(n)}
             R == Nodes \ Wanted
  <2>1. /\ Reschedule(A, R, snapshot) /\ snapshot # <<>> /\ snapshot' = <<>>
        /\ UNCHANGED <<clock, row, unpublished, toManager, ghost, hearing>>
        /\ pc' = "listening" => hearing
    BY <1>22 DEF Reconcile, rowVars, ManagerInv
  <2>2. A \in SUBSET Nodes /\ R \in SUBSET Nodes
    BY DEF Wanted
  <2>3. \A n \in Nodes : \/ n \in A /\ n \in Wanted
                         \/ n \notin A /\ n \in Wanted /\ n \notin R /\ ~NeedsReschedule(n)
                         \/ n \notin Wanted /\ n \notin A /\ (n \in R \/ jobs[n] = NoJob)
    OBVIOUS
  <2> HIDE DEF A, R
  <2> QED
    BY <2>1, <2>2, <2>3, JobsLoaded
<1>23. CASE Hear
  BY <1>23, JobsHeard
<1> QED
  BY <1>2, <1>3, <1>4, <1>5, <1>6, <1>7, <1>8, <1>10, <1>11, <1>12, <1>13, <1>13a, <1>14, <1>15, <1>16,
     <1>17, <1>18, <1>19, <1>20, <1>21, <1>22, <1>23, ScheduleActions

\* What JobsFollow says of a node at rest.
LEMMA JobsAgree == ScheduleTypeOK /\ JobsInv => JobsFollow
<1> SUFFICES ASSUME ScheduleTypeOK, JobsInv, NEW n \in Nodes, Settled(n)
             PROVE  LET wish == WishOf(row[n])
                    IN CASE wish = NoJob -> jobs[n] = NoJob
                         [] wish # NoJob /\ wish.mode = "repeat" -> jobs[n] = wish \/ ghost[n].mute
                         [] OTHER -> jobs[n] = wish \/ Started(wish)
  BY DEF JobsFollow
<1>1. Told(n) /\ ~HasUpdate(n) /\ pc = "listening"
  BY DEF Settled, Told, HasUpdate
<1>2. ~Announced(n)
  BY DEF Settled, Announced
<1> QED
  BY <1>1, <1>2 DEF JobsInv, JobOf, Applied

-----------------------------------------------------------------------------
(* Nodes that run once *)

\* Where a value stands in a sequence.
Places(s, v) == {i \in 1..Len(s) : s[i] = v}

LEMMA PlacesFinite ==
    ASSUME NEW S, NEW s \in Seq(S), NEW v
    PROVE  IsFiniteSet(Places(s, v)) /\ Cardinality(Places(s, v)) \in Nat
<1>1. Len(s) \in Nat /\ Places(s, v) \subseteq 1..Len(s)
  BY DEF Places
<1>2. IsFiniteSet(1..Len(s))
  BY <1>1, FS_Interval
<1>3. IsFiniteSet(Places(s, v))
  BY <1>1, <1>2, FS_Subset
<1> QED
  BY <1>3, FS_CardinalityType

LEMMA PlacesAppend ==
    ASSUME NEW S, NEW s \in Seq(S), NEW x \in S, NEW v
    PROVE  Cardinality(Places(Append(s, x), v))
              = Cardinality(Places(s, v)) + (IF x = v THEN 1 ELSE 0)
<1> DEFINE p == Places(s, v)
           q == Places(Append(s, x), v)
<1>1. Len(s) \in Nat /\ Len(s) + 1 \notin p /\ IsFiniteSet(p)
  <2>1. IsFiniteSet(p)
    BY PlacesFinite
  <2> QED
    BY <2>1 DEF Places
<1>2. CASE x = v
  <2>1. q = p \cup {Len(s) + 1}
    BY <1>1, <1>2, Appended DEF Places
  <2> HIDE DEF p, q
  <2>2. Cardinality(q) = Cardinality(p) + 1
    BY <1>1, <2>1, FS_AddElement
  <2> QED
    BY <1>2, <2>2 DEF p, q
<1>3. CASE x # v
  <2>1. q = p
    BY <1>1, <1>3, Appended DEF Places
  <2>2. Cardinality(p) \in Nat
    BY PlacesFinite
  <2> QED
    BY <1>3, <2>1, <2>2
<1> QED
  BY <1>2, <1>3

LEMMA PlacesTail ==
    ASSUME NEW S, NEW s \in Seq(S), s # <<>>, NEW v
    PROVE  Cardinality(Places(s, v))
              = Cardinality(Places(Tail(s), v)) + (IF Head(s) = v THEN 1 ELSE 0)
<1> DEFINE p == Places(s, v)
           q == Places(Tail(s), v)
           f == [i \in q |-> i + 1]
<1>1. /\ Len(s) \in Nat /\ Len(s) >= 1 /\ Len(Tail(s)) = Len(s) - 1 /\ Head(s) = s[1]
      /\ \A i \in 1..Len(s) - 1 : Tail(s)[i] = s[i + 1]
  BY Tailed
<1>2. q \subseteq 1..Len(s) - 1 /\ p \subseteq 1..Len(s) /\ IsFiniteSet(p) /\ IsFiniteSet(q)
  <2>1. Tail(s) \in Seq(S)
    OBVIOUS
  <2>2. IsFiniteSet(p) /\ IsFiniteSet(q)
    BY <2>1, PlacesFinite
  <2> QED
    BY <1>1, <2>2 DEF Places
<1>3. \A i \in 2..Len(s) : i \in p <=> i - 1 \in q
  BY <1>1 DEF Places
<1>4. f \in Bijection(q, p \ {1})
  <2>1. \A i \in q : i + 1 \in p \ {1}
    BY <1>1, <1>2 DEF Places
  <2>2. \A j \in p \ {1} : j - 1 \in q /\ (j - 1) + 1 = j
    BY <1>1, <1>2, <1>3
  <2>3. \A i, j \in q : i + 1 = j + 1 => i = j
    BY <1>2
  <2> HIDE DEF p, q
  <2>4. f \in [q -> p \ {1}]
    BY <2>1
  <2>5. f \in Injection(q, p \ {1})
    BY <2>3, <2>4 DEF Injection, IsInjective
  <2>6. f \in Surjection(q, p \ {1})
    <3>1. \A j \in p \ {1} : \E i \in q : f[i] = j
      BY <2>2
    <3> QED
      BY <2>4, <3>1 DEF Surjection
  <2> QED
    BY <2>5, <2>6 DEF Bijection
<1>5. Cardinality(p \ {1}) = Cardinality(q) /\ Cardinality(q) \in Nat /\ Cardinality(p) \in Nat
  <2> HIDE DEF p, q, f
  <2>1. ExistsBijection(q, p \ {1})
    BY <1>4 DEF ExistsBijection
  <2> QED
    BY <1>2, <2>1, FS_Bijection, FS_CardinalityType
<1>6. 1 \in p <=> Head(s) = v
  BY <1>1 DEF Places
<1>7. Cardinality(p \ {1}) = IF 1 \in p THEN Cardinality(p) - 1 ELSE Cardinality(p)
  <2> HIDE DEF p
  <2> QED
    BY <1>2, FS_RemoveElement
<1> HIDE DEF p, q
<1>8. Cardinality(p) = Cardinality(q) + (IF Head(s) = v THEN 1 ELSE 0)
  BY <1>5, <1>6, <1>7
<1> QED
  BY <1>8 DEF p, q

RunSignal(n) == [node |-> n, kind |-> "run"]

\* The two places where a run of a node may be.
Waiting(n) == Cardinality(Places(toDjango, RunSignal(n)))
Running(n) == IF firing[n] \in {"run", "runOnce"} THEN 1 ELSE 0

LEMMA PendingSum ==
    ASSUME ScheduleTypeOK, ScheduleTypeOK', NEW n \in Nodes
    PROVE  /\ Waiting(n) \in Nat /\ Running(n) \in Nat /\ Pending(n) = Waiting(n) + Running(n)
           /\ Waiting(n)' \in Nat /\ Running(n)' \in Nat /\ Pending(n)' = Waiting(n)' + Running(n)'
<1>1. toDjango \in Seq(Signal) /\ toDjango' \in Seq(Signal)
  BY DEF ScheduleTypeOK
<1>2. Waiting(n) \in Nat /\ Waiting(n)' \in Nat
  BY <1>1, PlacesFinite DEF Waiting
<1>3. Running(n) \in Nat /\ Running(n)' \in Nat
  BY DEF Running
<1>4. Pending(n) = Waiting(n) + Running(n)
  BY DEF Pending, RunsOf, Places, RunSignal, Waiting, Running
<1>5. Pending(n)' = Waiting(n)' + Running(n)'
  BY DEF Pending, RunsOf, Places, RunSignal, Waiting, Running
<1> QED
  BY <1>2, <1>3, <1>4, <1>5

LEMMA SameSignal ==
    ASSUME NEW n, NEW m, NEW kind
    PROVE  [node |-> n, kind |-> kind] = RunSignal(m) <=> n = m /\ kind = "run"
<1>1. ASSUME [node |-> n, kind |-> kind] = RunSignal(m) PROVE n = m /\ kind = "run"
  <2>1. [node |-> n, kind |-> kind].node = RunSignal(m).node
        /\ [node |-> n, kind |-> kind].kind = RunSignal(m).kind
    BY <1>1
  <2> QED
    BY <2>1 DEF RunSignal
<1> QED
  BY <1>1 DEF RunSignal

LEMMA WaitingTaken ==
    ASSUME ScheduleTypeOK, ScheduleTypeOK', NEW n \in Nodes, NEW kind, Take(n, kind), NEW m \in Nodes
    PROVE  /\ n = m /\ kind = "run" => Waiting(m) = Waiting(m)' + 1
           /\ ~(n = m /\ kind = "run") => Waiting(m) = Waiting(m)'
<1>1. /\ toDjango \in Seq(Signal) /\ toDjango # <<>> /\ toDjango' = Tail(toDjango)
      /\ Head(toDjango) = [node |-> n, kind |-> kind]
  BY DEF Take, ScheduleTypeOK
<1>2. Waiting(m) = Waiting(m)' + (IF Head(toDjango) = RunSignal(m) THEN 1 ELSE 0)
  <2> DEFINE v == RunSignal(m)
  <2> HIDE DEF v
  <2>1. Cardinality(Places(toDjango, v))
           = Cardinality(Places(Tail(toDjango), v)) + (IF Head(toDjango) = v THEN 1 ELSE 0)
    BY <1>1, PlacesTail
  <2> QED
    BY <1>1, <2>1 DEF v, Waiting
<1>3. Waiting(m) \in Nat /\ Waiting(m)' \in Nat
  BY PendingSum
<1>4. [node |-> n, kind |-> kind] = RunSignal(m) <=> n = m /\ kind = "run"
  BY SameSignal
<1>5. Head(toDjango) = RunSignal(m) <=> n = m /\ kind = "run"
  BY <1>1, <1>4
<1> QED
  BY <1>2, <1>3, <1>5

LEMMA WaitingSent ==
    ASSUME ScheduleTypeOK, ScheduleTypeOK', NEW n \in Nodes, NEW kind \in {"run", "deactivate"},
           NEW fails \in BOOLEAN, Signals(n, kind, fails), NEW m \in Nodes
    PROVE  /\ Waiting(m)' <= Waiting(m) + 1
           /\ ~(n = m /\ kind = "run") => Waiting(m)' = Waiting(m)
<1> DEFINE sent == [node |-> n, kind |-> kind]
<1>1. toDjango \in Seq(Signal) /\ sent \in Signal /\ Waiting(m) \in Nat
  BY PendingSum DEF ScheduleTypeOK, Signal
<1>2. CASE fails
  BY <1>1, <1>2 DEF Signals, Waiting
<1>3. CASE ~fails
  <2>1. toDjango' = Append(toDjango, sent)
    BY <1>3 DEF Signals
  <2> HIDE DEF sent
  <2>2. Waiting(m)' = Waiting(m) + (IF sent = RunSignal(m) THEN 1 ELSE 0)
    BY <1>1, <2>1, PlacesAppend DEF Waiting
  <2>3. sent = RunSignal(m) <=> n = m /\ kind = "run"
    BY SameSignal DEF sent
  <2> QED
    BY <1>1, <2>2, <2>3
<1> QED
  BY <1>1, <1>2, <1>3

\* A step that does not touch what the property counts.
LEMMA OnceKept ==
    ASSUME ScheduleTypeOK, ScheduleTypeOK', NEW n \in Nodes, OnceOf(n),
           WishOf(row'[n]) = WishOf(row[n]), row'[n].cfg = row[n].cfg,
           ghost'[n].onceRan = ghost[n].onceRan, ghost'[n].stirred = ghost[n].stirred,
           bounds'.crashes = bounds.crashes,
           Once(n) /\ Alike(n) => /\ Pending(n)' + Armed(n)' <= Pending(n) + Armed(n)
                                  /\ Alike(n)'
    PROVE  OnceOf(n)'
<1>1. /\ Pending(n) \in Nat /\ Pending(n)' \in Nat /\ Armed(n) \in Nat /\ Armed(n)' \in Nat
      /\ ghost[n].onceRan \in Nat /\ bounds.crashes \in Nat
  <2>1. Pending(n) \in Nat /\ Pending(n)' \in Nat
    BY PendingSum
  <2>2. Armed(n) \in Nat /\ Armed(n)' \in Nat
    BY DEF Armed
  <2>3. ghost[n].onceRan \in Nat /\ bounds.crashes \in Nat
    BY DEF ScheduleTypeOK, Ghost
  <2> QED
    BY <2>1, <2>2, <2>3
<1>2. (ghost[n].onceRan <= 1 + bounds.crashes)'
  BY DEF OnceOf
<1>3. ASSUME Once(n)'
      PROVE  (ghost[n].onceRan + Pending(n) + Armed(n) <= 1 + bounds.crashes /\ Alike(n))'
  <2>1. Once(n)
    BY <1>3 DEF Once, WishOf
  <2>2. ghost[n].onceRan + Pending(n) + Armed(n) <= 1 + bounds.crashes /\ Alike(n)
    BY <2>1 DEF OnceOf
  <2>3. Pending(n)' + Armed(n)' <= Pending(n) + Armed(n) /\ Alike(n)'
    BY <2>1, <2>2
  <2>4. ghost'[n].onceRan + Pending(n)' + Armed(n)' <= 1 + bounds'.crashes
    BY <1>1, <2>2, <2>3
  <2> QED
    BY <2>3, <2>4
<1> QED
  BY <1>2, <1>3 DEF OnceOf

LEMMA ArmedKept ==
    ASSUME ScheduleAssumption, ScheduleTypeOK, ScheduleTypeOK', NEW n \in Nodes,
           row'[n].cfg = row[n].cfg, clock' >= clock,
           HasFired(n) => HasFired(n)'
    PROVE  Armed(n)' <= Armed(n)
<1>1. row[n].cfg.start \in Nat /\ clock \in Nat /\ clock' \in Nat
  BY DEF ScheduleTypeOK, Row, ScheduleAssumption
<1>2. Started(row[n].cfg) => Started(row[n].cfg)'
  BY <1>1 DEF Started
<1>3. HasFired(n) /\ Started(row[n].cfg) => (HasFired(n) /\ Started(row[n].cfg))'
  BY <1>2
<1>4. CASE HasFired(n) /\ Started(row[n].cfg)
  BY <1>3, <1>4 DEF Armed
<1>5. CASE ~(HasFired(n) /\ Started(row[n].cfg))
  BY <1>5 DEF Armed
<1> QED
  BY <1>4, <1>5

LEMMA AlikeKept ==
    ASSUME ScheduleTypeOK, ScheduleTypeOK', NEW n \in Nodes, Alike(n),
           row'[n].cfg = row[n].cfg, ghost'[n].onceRan = ghost[n].onceRan,
           jobs'[n] = jobs[n], unpublished'[n] = unpublished[n], Pending(n)' <= Pending(n),
           toManager' = toManager \/ toManager' = <<>>,
           snapshot' = snapshot \/ snapshot' = <<>>
    PROVE  Alike(n)'
<1>1. /\ jobs'[n] \in {NoJob, row'[n].cfg}
      /\ \A i \in 1..Len(unpublished'[n]) : unpublished'[n][i] = row'[n].cfg
  BY DEF Alike
<1>2. \A i \in 1..Len(toManager') : toManager'[i].node = n => toManager'[i].wish = row'[n].cfg
  BY DEF Alike
<1>3. ASSUME snapshot' # <<>>
      PROVE  \/ snapshot'[n] = row'[n].cfg
             \/ snapshot'[n] = NoJob /\ ghost'[n].onceRan + Pending(n)' = 0 /\ jobs'[n] = NoJob
  <2>1. Pending(n) \in Nat /\ Pending(n)' \in Nat /\ ghost[n].onceRan \in Nat
    <3>1. Pending(n) \in Nat /\ Pending(n)' \in Nat
      BY PendingSum
    <3> QED
      BY <3>1 DEF ScheduleTypeOK, Ghost
  <2>2. ghost[n].onceRan + Pending(n) = 0 => ghost'[n].onceRan + Pending(n)' = 0
    BY <2>1
  <2> QED
    BY <1>3, <2>2 DEF Alike
<1> QED
  BY <1>1, <1>2, <1>3 DEF Alike

LEMMA OnceElse ==
    ASSUME ScheduleAssumption, ScheduleTypeOK, ScheduleTypeOK', NEW n \in Nodes, OnceOf(n),
           WishOf(row'[n]) = WishOf(row[n]), row'[n].cfg = row[n].cfg,
           ghost'[n].onceRan = ghost[n].onceRan, ghost'[n].stirred = ghost[n].stirred,
           bounds'.crashes = bounds.crashes, clock' >= clock,
           jobs'[n] = jobs[n], n \in tracked <=> n \in tracked', firing'[n] = firing[n],
           unpublished'[n] = unpublished[n], Waiting(n)' <= Waiting(n),
           toManager' = toManager \/ toManager' = <<>>,
           snapshot' = snapshot \/ snapshot' = <<>>
    PROVE  OnceOf(n)'
<1>1. Pending(n)' <= Pending(n)
  <2>1. Running(n)' = Running(n)
    BY DEF Running
  <2> QED
    BY <2>1, PendingSum
<1>2. Armed(n)' <= Armed(n)
  <2>1. HasFired(n) => HasFired(n)'
    BY DEF HasFired
  <2> QED
    BY <2>1, ArmedKept
<1>3. Alike(n) => Alike(n)'
  BY <1>1, AlikeKept
<1>4. Pending(n)' + Armed(n)' <= Pending(n) + Armed(n)
  <2>1. Pending(n) \in Nat /\ Pending(n)' \in Nat /\ Armed(n) \in Nat /\ Armed(n)' \in Nat
    <3>1. Pending(n) \in Nat /\ Pending(n)' \in Nat
      BY PendingSum
    <3> QED
      BY <3>1 DEF Armed
  <2> QED
    BY <1>1, <1>2, <2>1
<1> QED
  BY <1>3, <1>4, OnceKept

\* A node at rest, before its next write: nothing of it is under way.
LEMMA OnceFresh ==
    ASSUME ScheduleTypeOK, ScheduleTypeOK', NEW n \in Nodes, AtRest(n),
           NEW r \in Row, row'[n] = r, unpublished'[n] = Append(unpublished[n], WishOf(r)),
           ghost'[n].onceRan = 0, WishOf(r) # NoJob, bounds'.crashes \in Nat,
           UNCHANGED <<toManager, toDjango, snapshot, jobs, firing>>
    PROVE  (ghost[n].onceRan + Pending(n) + Armed(n) <= 1 + bounds.crashes /\ Alike(n))'
<1>1. Waiting(n)' = 0
  <2>1. Places(toDjango', RunSignal(n)) = {}
    <3>1. ASSUME NEW i \in 1..Len(toDjango), toDjango[i] = RunSignal(n) PROVE FALSE
      <4>1. toDjango[i].node = n
        BY <3>1 DEF RunSignal
      <4> QED
        BY <4>1 DEF AtRest
    <3> QED
      BY <3>1 DEF Places
  <2> QED
    BY <2>1, FS_EmptySet DEF Waiting
<1>2. Running(n)' = 0
  BY DEF Running, AtRest
<1>3. Pending(n)' = 0
  BY <1>1, <1>2, PendingSum
<1>4. Armed(n)' \in {0, 1}
  BY DEF Armed
<1>5. WishOf(r) = r.cfg
  BY DEF WishOf
<1>6. \A i \in 1..Len(unpublished'[n]) : unpublished'[n][i] = r.cfg
  <2>1. unpublished[n] = <<>> /\ unpublished'[n] = <<r.cfg>>
    BY <1>5 DEF AtRest
  <2> QED
    BY <2>1
<1>7. /\ \A i \in 1..Len(toManager') : toManager'[i].node # n
      /\ snapshot' # <<>> => snapshot'[n] = NoJob
      /\ jobs'[n] = NoJob
  BY DEF AtRest
<1>8. Alike(n)'
  BY <1>3, <1>6, <1>7 DEF Alike
<1> QED
  BY <1>3, <1>4, <1>8

\* A write of a user.
LEMMA OnceCommit ==
    ASSUME ScheduleAssumption, ScheduleTypeOK, ScheduleTypeOK', OnceInv, NEW n \in Nodes,
           NEW r \in Row, NEW reset \in BOOLEAN, NEW inherited \in Nat,
           Commit(n, r, reset, inherited), bounds'.crashes = bounds.crashes,
           UNCHANGED <<clock, toManager, toDjango, managerVars, jobVars, fireVars>>
    PROVE  OnceInv'
<1> USE DEF managerVars, jobVars, fireVars
<1>1. /\ row'[n] = r /\ unpublished'[n] = Append(unpublished[n], WishOf(r))
      /\ \A m \in Nodes \ {n} : /\ row'[m] = row[m] /\ unpublished'[m] = unpublished[m]
                                /\ ghost'[m] = ghost[m]
  BY DEF Commit, ScheduleTypeOK
<1>2. ghost'[n].onceRan = 0 /\ ghost'[n].stirred = ~AtRest(n)
  <2>1. ghost[n] \in Ghost
    BY DEF ScheduleTypeOK
  <2>2. PICK a, b : ghost'[n] = [ghost[n] EXCEPT !.ran = a, !.uncounted = b,
                                                 !.inherited = inherited, !.onceRan = 0,
                                                 !.stirred = ~AtRest(n)]
    BY DEF Commit, ScheduleTypeOK
  <2> QED
    BY <2>1, <2>2 DEF Ghost
<1>3. ASSUME NEW m \in Nodes \ {n} PROVE OnceOf(m)'
  <2>1. Waiting(m)' = Waiting(m) /\ Waiting(m) \in Nat
    BY PendingSum DEF Waiting
  <2>2. OnceOf(m) /\ clock' >= clock
    BY DEF OnceInv, ScheduleTypeOK
  <2> QED
    BY <1>1, <2>1, <2>2, OnceElse
<1>4. OnceOf(n)'
  <2>1. bounds'.crashes \in Nat /\ (ghost[n].onceRan <= 1 + bounds.crashes)'
    BY <1>2 DEF ScheduleTypeOK
  <2>2. ASSUME Once(n)'
        PROVE  (ghost[n].onceRan + Pending(n) + Armed(n) <= 1 + bounds.crashes /\ Alike(n))'
    <3>1. AtRest(n) /\ WishOf(r) # NoJob
      BY <1>1, <1>2, <2>2 DEF Once, WishOf
    <3> QED
      BY <1>1, <1>2, <2>1, <3>1, OnceFresh
  <2> QED
    BY <2>1, <2>2 DEF OnceOf
<1> QED
  BY <1>3, <1>4 DEF OnceInv

\* An update of a node is published.
LEMMA OncePublish ==
    ASSUME ScheduleAssumption, ScheduleTypeOK, ScheduleTypeOK', OnceInv, NEW n \in Nodes,
           NEW i \in 1..Len(unpublished[n]), NEW fails \in BOOLEAN, PublishRow(n, i, fails)
    PROVE  OnceInv'
<1> USE DEF managerVars, rowVars, fireVars, jobVars
<1> DEFINE wish == unpublished[n][i]
           update == [node |-> n, wish |-> wish]
<1>1. UNCHANGED <<clock, row, toDjango, pc, hearing, snapshot, jobs, tracked, flags, firing, ending>>
  BY DEF PublishRow
<1>2. toManager' = toManager \/ toManager' = Append(toManager, update)
  BY DEF PublishRow
<1>3. \A m \in Nodes : ghost'[m].onceRan = ghost[m].onceRan /\ ghost'[m].stirred = ghost[m].stirred
  <2> DEFINE untold == fails \/ wish # WishOf(row[n])
  <2>1. ghost' = [ghost EXCEPT ![n] = [ghost[n] EXCEPT !.untold = untold]]
    BY DEF PublishRow, ScheduleTypeOK
  <2>2. ghost[n] \in Ghost
    BY DEF ScheduleTypeOK
  <2> HIDE DEF untold
  <2>3. [ghost[n] EXCEPT !.untold = untold].onceRan = ghost[n].onceRan
        /\ [ghost[n] EXCEPT !.untold = untold].stirred = ghost[n].stirred
    BY <2>2 DEF Ghost
  <2> QED
    BY <2>1, <2>3 DEF ScheduleTypeOK
<1>4. bounds'.crashes = bounds.crashes
  BY EventType DEF PublishRow
<1>5. wish \in Wish /\ unpublished[n] \in Seq(Wish) /\ update \in Update /\ toManager \in Seq(Update)
  BY DEF ScheduleTypeOK, Update
<1>6. ASSUME NEW m \in Nodes
      PROVE  Pending(m)' = Pending(m) /\ Pending(m) \in Nat /\ Armed(m)' = Armed(m) /\ Armed(m) \in Nat
  <2>1. Waiting(m)' = Waiting(m) /\ Running(m)' = Running(m)
    BY <1>1 DEF Waiting, Running
  <2>2. Pending(m)' = Pending(m) /\ Pending(m) \in Nat
    BY <2>1, PendingSum
  <2> QED
    BY <1>1, <2>2 DEF Armed, HasFired, Started
<1>7. ASSUME NEW m \in Nodes, Alike(m) PROVE Alike(m)'
  <2> DEFINE cfg == row[m].cfg
  <2>1. \A k \in 1..Len(unpublished'[m]) : unpublished'[m][k] = cfg
    <3>1. CASE m # n
      BY <1>7, <3>1 DEF Alike, PublishRow, ScheduleTypeOK
    <3>2. CASE m = n
      <4> DEFINE s == unpublished[n]
      <4>1. unpublished'[n] = SubSeq(s, 1, i - 1) \o SubSeq(s, i + 1, Len(s))
        BY DEF PublishRow, ScheduleTypeOK
      <4>2. Len(s) \in Nat /\ \A k \in 1..Len(s) : s[k] = cfg
        BY <1>5, <1>7, <3>2 DEF Alike
      <4>3. unpublished'[n] \in Seq({cfg})
        <5> HIDE DEF s, cfg
        <5>1. i \in 1..Len(s) /\ Len(s) \in Nat
          BY <4>2 DEF s
        <5>2. SubSeq(s, 1, i - 1) \in Seq({cfg})
          <6>1. \A k \in 1..i - 1 : s[k] \in {cfg}
            BY <4>2, <5>1
          <6> QED
            BY <5>1, <6>1, SubSeqProperties
        <5>3. SubSeq(s, i + 1, Len(s)) \in Seq({cfg})
          <6>1. \A k \in i + 1..Len(s) : s[k] \in {cfg}
            BY <4>2, <5>1
          <6> QED
            BY <5>1, <6>1, SubSeqProperties
        <5> QED
          BY <4>1, <5>2, <5>3
      <4> QED
        BY <3>2, <4>3
    <3> QED
      BY <3>1, <3>2
  <2>2. \A k \in 1..Len(toManager') : toManager'[k].node = m => toManager'[k].wish = cfg
    <3>1. CASE toManager' = toManager
      BY <1>7, <3>1 DEF Alike
    <3>2. CASE toManager' = Append(toManager, update)
      <4>1. /\ Len(toManager') = Len(toManager) + 1 /\ Len(toManager) \in Nat
            /\ toManager'[Len(toManager) + 1] = update
            /\ \A k \in 1..Len(toManager) : toManager'[k] = toManager[k]
        BY <1>5, <3>2, Appended
      <4>2. m = n => wish = cfg
        BY <1>7 DEF Alike
      <4>3. update.node = n /\ update.wish = wish
        OBVIOUS
      <4>4. \A k \in 1..Len(toManager') : k \in 1..Len(toManager) \/ k = Len(toManager) + 1
        BY <4>1
      <4>5. \A k \in 1..Len(toManager) : toManager[k].node = m => toManager[k].wish = cfg
        BY <1>7 DEF Alike
      <4> HIDE DEF update, wish, cfg
      <4> QED
        BY <4>1, <4>2, <4>3, <4>4, <4>5
    <3> QED
      BY <1>2, <3>1, <3>2
  <2> QED
    BY <1>1, <1>3, <1>6, <1>7, <2>1, <2>2 DEF Alike
<1>8. ASSUME NEW m \in Nodes PROVE OnceOf(m)'
  <2>1. Once(m) /\ Alike(m) => Pending(m)' + Armed(m)' <= Pending(m) + Armed(m) /\ Alike(m)'
    BY <1>6, <1>7
  <2>2. OnceOf(m) /\ WishOf(row'[m]) = WishOf(row[m]) /\ row'[m].cfg = row[m].cfg
    BY <1>1 DEF OnceInv
  <2> QED
    BY <1>3, <1>4, <2>1, <2>2, OnceKept
<1> QED
  BY <1>8 DEF OnceInv

\* The listener takes a signal of a node: the others are left alone.
LEMMA OnceOthers ==
    ASSUME ScheduleAssumption, ScheduleTypeOK, ScheduleTypeOK', OnceInv, NEW n \in Nodes,
           NEW kind, Take(n, kind), bounds'.crashes = bounds.crashes,
           NEW m \in Nodes, m # n \/ WishOf(row'[m]) = WishOf(row[m]), row'[m].cfg = row[m].cfg,
           m # n => row'[m] = row[m],
           unpublished'[m] = unpublished[m], ghost'[m].onceRan = ghost[m].onceRan,
           ghost'[m].stirred = ghost[m].stirred
    PROVE  OnceOf(m)'
<1>1. UNCHANGED <<clock, toManager, snapshot, jobs, tracked, firing>>
  BY DEF Take, managerVars, jobVars, fireVars
<1>2. Waiting(m)' <= Waiting(m)
  <2>1. Waiting(m) \in Nat /\ Waiting(m)' \in Nat
    BY PendingSum
  <2> QED
    BY <2>1, WaitingTaken
<1>3. OnceOf(m) /\ clock' >= clock /\ WishOf(row'[m]) = WishOf(row[m])
  BY <1>1 DEF OnceInv, ScheduleTypeOK
<1> QED
  BY <1>1, <1>2, <1>3, OnceElse

\* The listener switches a node off.
LEMMA OnceOff ==
    ASSUME ScheduleAssumption, ScheduleTypeOK, ScheduleTypeOK', OnceInv, NEW n \in Nodes,
           NEW runs \in Nat, NEW kind, Take(n, kind), SwitchOff(n, runs),
           bounds'.crashes = bounds.crashes, ghost'[n].onceRan <= 1 + bounds.crashes,
           \A m \in Nodes \ {n} : ghost'[m] = ghost[m]
    PROVE  OnceInv'
<1>1. /\ row'[n].on = FALSE
      /\ \A m \in Nodes \ {n} : row'[m] = row[m] /\ unpublished'[m] = unpublished[m]
  BY SwitchedRow
<1>2. \A m \in Nodes \ {n} : OnceOf(m)'
  BY <1>1, OnceOthers
<1>3. OnceOf(n)'
  BY <1>1 DEF OnceOf, Once, WishOf
<1> QED
  BY <1>2, <1>3 DEF OnceInv

\* The listener starts a session, counted or not.
LEMMA OnceStarted ==
    ASSUME ScheduleAssumption, ScheduleTypeOK, ScheduleTypeOK', OnceInv, NEW n \in Nodes,
           NEW uncounted \in {0, 1}, Take(n, "run"), Remember(n, uncounted), CanStart(n),
           bounds'.crashes = bounds.crashes
    PROVE  /\ ghost'[n].onceRan <= 1 + bounds.crashes
           /\ \A m \in Nodes \ {n} : ghost'[m] = ghost[m]
           /\ (\A m \in Nodes : /\ WishOf(row'[m]) = WishOf(row[m]) /\ row'[m].cfg = row[m].cfg
                                /\ unpublished'[m] = unpublished[m]
                                /\ m # n => row'[m] = row[m])
              => OnceInv'
<1>1. /\ ghost'[n].onceRan = IF row[n].cfg.mode = "once" /\ ~ghost[n].stirred
                             THEN ghost[n].onceRan + 1 ELSE 0
      /\ ghost'[n].stirred = ghost[n].stirred
      /\ \A m \in Nodes \ {n} : ghost'[m] = ghost[m]
  BY Remembered
<1>2. WishOf(row[n]) # NoJob
  BY DEF CanStart, Skips
<1>3. /\ Pending(n) \in Nat /\ Armed(n) \in Nat /\ ghost[n].onceRan \in Nat /\ bounds.crashes \in Nat
      /\ Pending(n) = Pending(n)' + 1 /\ Pending(n)' \in Nat
  <2>1. Waiting(n) = Waiting(n)' + 1
    BY WaitingTaken
  <2>2. Running(n)' = Running(n)
    BY DEF Running, Take, fireVars
  <2>3. Pending(n) = Pending(n)' + 1 /\ Pending(n)' \in Nat /\ Pending(n) \in Nat
    BY <2>1, <2>2, PendingSum
  <2> QED
    BY <2>3 DEF Armed, ScheduleTypeOK, Ghost
<1>4. OnceOf(n)
  BY DEF OnceInv
<1>5. ghost'[n].onceRan <= 1 + bounds.crashes
  <2>1. CASE Once(n)
    BY <1>1, <1>3, <1>4, <2>1 DEF OnceOf, Once
  <2>2. CASE ~Once(n)
    <3>1. ~(row[n].cfg.mode = "once" /\ ~ghost[n].stirred)
      BY <1>2, <2>2 DEF Once
    <3> QED
      BY <1>1, <1>3, <3>1
  <2> QED
    BY <2>1, <2>2
<1>6. ASSUME \A m \in Nodes : /\ WishOf(row'[m]) = WishOf(row[m]) /\ row'[m].cfg = row[m].cfg
                              /\ unpublished'[m] = unpublished[m]
                              /\ m # n => row'[m] = row[m]
      PROVE  OnceInv'
  <2>1. \A m \in Nodes \ {n} : OnceOf(m)'
    BY <1>1, <1>6, OnceOthers
  <2>2. UNCHANGED <<clock, toManager, snapshot, jobs, tracked>>
    BY DEF Take, managerVars, jobVars
  <2>3. ASSUME Once(n)'
        PROVE  (ghost[n].onceRan + Pending(n) + Armed(n) <= 1 + bounds.crashes /\ Alike(n))'
    <3>1. Once(n)
      BY <1>1, <1>6, <2>3 DEF Once, WishOf
    <3>2. ghost[n].onceRan + Pending(n) + Armed(n) <= 1 + bounds.crashes /\ Alike(n)
      BY <1>4, <3>1 DEF OnceOf
    <3>3. Armed(n)' = Armed(n)
      BY <1>6, <2>2 DEF Armed, HasFired, Started
    <3>4. ghost'[n].onceRan + Pending(n)' + Armed(n)' <= 1 + bounds'.crashes
      BY <1>1, <1>3, <3>1, <3>2, <3>3 DEF Once
    <3>5. ghost[n].onceRan + Pending(n) # 0
      BY <1>3
    <3>6. Alike(n)'
      BY <1>6, <2>2, <3>2, <3>5 DEF Alike
    <3> QED
      BY <3>4, <3>6
  <2> QED
    BY <1>5, <2>1, <2>3 DEF OnceInv, OnceOf
<1> QED
  BY <1>1, <1>5, <1>6

\* A job fires; of a node that runs once it is the last time.
LEMMA OnceFired ==
    ASSUME ScheduleAssumption, ScheduleTypeOK, ScheduleTypeOK', ManagerInv, OnceInv,
           NEW n \in Nodes, NEW runs \in BOOLEAN, NEW last \in BOOLEAN, Fire(n, runs, last)
    PROVE  OnceInv'
<1>1. UNCHANGED <<clock, row, unpublished, toManager, toDjango, snapshot, ghost>>
  BY DEF Fire, rowVars, managerVars
<1>2. bounds'.crashes = bounds.crashes
  <2>1. Possibly(jobs[n] # NoJob /\ jobs[n].mode = "repeat")
    BY DEF Fire
  <2> QED
    BY <2>1 DEF Possibly, Event, ScheduleTypeOK
<1>3. /\ jobs[n] # NoJob /\ Started(jobs[n])
      /\ runs => firing[n] = "no"
      /\ jobs[n].endType # "onDate" => last = (jobs[n].mode = "once")
      /\ last => JobEnds(n)
      /\ ~last => UNCHANGED <<jobs, tracked>>
      /\ \A m \in Nodes : m # n \/ ~runs => firing'[m] = firing[m]
      /\ jobs[n] \in Configs
  BY DEF Fire, jobVars, ScheduleTypeOK, Wish
<1>4. \A m \in Nodes : Waiting(m)' = Waiting(m) /\ Waiting(m) \in Nat
  BY <1>1, PendingSum DEF Waiting
<1>5. ASSUME NEW m \in Nodes \ {n} PROVE OnceOf(m)'
  <2>1. jobs'[m] = jobs[m] /\ (m \in tracked <=> m \in tracked') /\ firing'[m] = firing[m]
    <3>1. CASE last
      BY <1>3, <3>1, JobGone
    <3>2. CASE ~last
      BY <1>3, <3>2
    <3> QED
      BY <3>1, <3>2
  <2>2. /\ OnceOf(m) /\ clock' >= clock /\ WishOf(row'[m]) = WishOf(row[m])
        /\ row'[m].cfg = row[m].cfg /\ ghost'[m] = ghost[m] /\ Waiting(m)' <= Waiting(m)
        /\ unpublished'[m] = unpublished[m]
    BY <1>1, <1>4 DEF OnceInv, ScheduleTypeOK
  <2> QED
    BY <1>1, <1>2, <2>1, <2>2, OnceElse
<1>6. ASSUME Once(n), Alike(n)
      PROVE  Pending(n)' + Armed(n)' <= Pending(n) + Armed(n) /\ Alike(n)'
  <2>1. jobs[n] = row[n].cfg /\ row[n].cfg.mode = "once"
    BY <1>3, <1>6 DEF Alike, Once
  <2>2. jobs[n].endType # "onDate" /\ last
    BY <1>3, <2>1 DEF ScheduleAssumption, Accepted
  <2>3. n \in flags /\ n \in tracked
    BY <1>3, <2>1 DEF ManagerInv
  <2>4. jobs'[n] = NoJob /\ n \in tracked'
    BY <1>3, <2>2, <2>3, JobGone
  <2>5. Armed(n) = 1 /\ Armed(n)' = 0
    <3>1. ~HasFired(n) /\ HasFired(n)'
      BY <1>3, <2>4 DEF HasFired
    <3>2. Started(row[n].cfg)'
      BY <1>1, <1>3, <2>1 DEF Started
    <3> QED
      BY <3>1, <3>2 DEF Armed
  <2>6. Running(n)' <= Running(n) + 1 /\ Running(n) \in Nat /\ Running(n)' \in Nat
    BY DEF Running
  <2>7. Pending(n)' + Armed(n)' <= Pending(n) + Armed(n)
    BY <1>4, <2>5, <2>6, PendingSum
  <2>8. Alike(n)'
    BY <1>1, <1>3, <1>6, <2>4 DEF Alike
  <2> QED
    BY <2>7, <2>8
<1>7. OnceOf(n)'
  <2>1. OnceOf(n) /\ WishOf(row'[n]) = WishOf(row[n]) /\ row'[n].cfg = row[n].cfg
    BY <1>1 DEF OnceInv
  <2> QED
    BY <1>1, <1>2, <1>6, <2>1, OnceKept
<1> QED
  BY <1>5, <1>7 DEF OnceInv

\* The manager publishes a signal: a run moves from the job to the channel, or is lost.
LEMMA OnceSignal ==
    ASSUME ScheduleAssumption, ScheduleTypeOK, ScheduleTypeOK', OnceInv, NEW n \in Nodes,
           NEW fails \in BOOLEAN,
           PublishRun(n, fails) \/ PublishOnce(n, fails) \/ PublishEnd(n, fails)
    PROVE  OnceInv'
<1>1. PICK kind \in {"run", "deactivate"} :
         /\ Signals(n, kind, fails)
         /\ \A m \in Nodes \ {n} : firing'[m] = firing[m]
         /\ \/ kind = "run" /\ firing[n] \in {"run", "runOnce"} /\ firing'[n] \in {"no", "deactivate"}
            \/ kind = "deactivate" /\ (firing'[n] = firing[n] \/ firing'[n] = "no")
  <2>1. CASE PublishRun(n, fails)
    BY <2>1 DEF PublishRun, AfterRun, ScheduleTypeOK
  <2>2. CASE PublishOnce(n, fails)
    BY <2>2 DEF PublishOnce, ScheduleTypeOK
  <2>3. CASE PublishEnd(n, fails)
    BY <2>3 DEF PublishEnd
  <2> QED
    BY <2>1, <2>2, <2>3
<1>2. UNCHANGED <<clock, row, unpublished, toManager, snapshot, jobs, tracked>>
  BY <1>1 DEF Signals, rowVars, managerVars, jobVars
<1>3. bounds'.crashes = bounds.crashes
  BY <1>1, EventType DEF Signals
<1>4. \A m \in Nodes : ghost'[m].onceRan = ghost[m].onceRan /\ ghost'[m].stirred = ghost[m].stirred
  <2>1. ghost' = ghost \/ ghost' = [ghost EXCEPT ![n] = [ghost[n] EXCEPT !.mute = TRUE]]
    BY <1>1 DEF Signals, ScheduleTypeOK
  <2>2. [ghost[n] EXCEPT !.mute = TRUE].onceRan = ghost[n].onceRan
        /\ [ghost[n] EXCEPT !.mute = TRUE].stirred = ghost[n].stirred
    BY DEF ScheduleTypeOK, Ghost
  <2> QED
    BY <2>1, <2>2 DEF ScheduleTypeOK
<1>5. ASSUME NEW m \in Nodes PROVE Pending(m)' <= Pending(m)
  <2>1. Waiting(m)' <= Waiting(m) + 1 /\ (~(n = m /\ kind = "run") => Waiting(m)' = Waiting(m))
    BY <1>1, WaitingSent
  <2>2. /\ Running(m)' <= Running(m)
        /\ n = m /\ kind = "run" => Running(m) = 1 /\ Running(m)' = 0
    BY <1>1 DEF Running
  <2> QED
    BY <2>1, <2>2, PendingSum
<1>6. ASSUME NEW m \in Nodes PROVE OnceOf(m)'
  <2>1. Armed(m)' = Armed(m) /\ Armed(m) \in Nat
    BY <1>2 DEF Armed, HasFired, Started
  <2>2. Pending(m) \in Nat /\ Pending(m)' \in Nat
    BY PendingSum
  <2>3. Alike(m) => Alike(m)'
    BY <1>2, <1>4, <1>5, AlikeKept
  <2>4. Pending(m)' + Armed(m)' <= Pending(m) + Armed(m)
    BY <1>5, <2>1, <2>2
  <2>5. OnceOf(m) /\ WishOf(row'[m]) = WishOf(row[m]) /\ row'[m].cfg = row[m].cfg
    BY <1>2 DEF OnceInv
  <2> QED
    BY <1>3, <1>4, <2>3, <2>4, <2>5, OnceKept
<1> QED
  BY <1>6 DEF OnceInv

LEMMA OnceLost ==
    ASSUME ScheduleAssumption, ScheduleTypeOK, ScheduleTypeOK', OnceInv, LoseSignals
    PROVE  OnceInv'
<1>1. UNCHANGED <<clock, row, unpublished, toManager, snapshot, jobs, tracked, firing>>
  BY DEF LoseSignals, rowVars, managerVars, jobVars, fireVars
<1>2. bounds'.crashes = bounds.crashes
  BY EventType DEF LoseSignals
<1>3. \A m \in Nodes : ghost'[m].onceRan = ghost[m].onceRan /\ ghost'[m].stirred = ghost[m].stirred
  <2> SUFFICES ASSUME NEW m \in Nodes
               PROVE  ghost'[m].onceRan = ghost[m].onceRan /\ ghost'[m].stirred = ghost[m].stirred
    OBVIOUS
  <2>1. ghost[m] \in Ghost
    BY DEF ScheduleTypeOK
  <2>2. PICK mute : ghost'[m] = [ghost[m] EXCEPT !.mute = mute]
    BY DEF LoseSignals
  <2> QED
    BY <2>1, <2>2 DEF Ghost
<1>4. ASSUME NEW m \in Nodes PROVE OnceOf(m)'
  <2>1. Waiting(m)' = 0
    <3>1. Places(toDjango', RunSignal(m)) = {}
      BY DEF LoseSignals, Places
    <3> QED
      BY <3>1, FS_EmptySet DEF Waiting
  <2>2. Waiting(m)' <= Waiting(m)
    <3>1. Waiting(m) \in Nat
      BY PendingSum
    <3> QED
      BY <2>1, <3>1
  <2>3. OnceOf(m) /\ clock' >= clock /\ WishOf(row'[m]) = WishOf(row[m]) /\ row'[m].cfg = row[m].cfg
    BY <1>1 DEF OnceInv, ScheduleTypeOK
  <2> QED
    BY <1>1, <1>2, <1>3, <2>2, <2>3, OnceElse
<1> QED
  BY <1>4 DEF OnceInv

\* A step that changes nothing the property speaks of, but for what the manager may forget.
LEMMA OnceQuiet ==
    ASSUME ScheduleAssumption, ScheduleTypeOK, ScheduleTypeOK', OnceInv,
           UNCHANGED <<row, unpublished, toDjango, jobs, tracked, firing, ghost>>,
           bounds'.crashes = bounds.crashes, clock' >= clock,
           toManager' = toManager \/ toManager' = <<>>,
           snapshot' = snapshot \/ snapshot' = <<>>
    PROVE  OnceInv'
<1>1. ASSUME NEW m \in Nodes PROVE OnceOf(m)'
  <2>1. Waiting(m)' <= Waiting(m)
    BY PendingSum DEF Waiting
  <2>2. /\ OnceOf(m) /\ WishOf(row'[m]) = WishOf(row[m]) /\ row'[m].cfg = row[m].cfg
        /\ ghost'[m] = ghost[m] /\ unpublished'[m] = unpublished[m]
    BY DEF OnceInv
  <2> QED
    BY <2>1, <2>2, OnceElse
<1> QED
  BY <1>1 DEF OnceInv

\* The manager reads the rows.
LEMMA OnceRead ==
    ASSUME ScheduleAssumption, ScheduleTypeOK, ScheduleTypeOK', OnceInv, ReadRows
    PROVE  OnceInv'
<1>1. UNCHANGED <<clock, row, unpublished, toManager, toDjango, jobs, tracked, firing, bounds>>
  BY DEF ReadRows, rowVars, jobVars, fireVars
<1>2. ASSUME NEW m \in Nodes
      PROVE  ghost'[m].onceRan = ghost[m].onceRan /\ ghost'[m].stirred = ghost[m].stirred
  <2> DEFINE untold == ghost[m].untold /\ \E i \in 1..Len(toManager) : toManager[i].node = m
  <2>1. ghost'[m] = [ghost[m] EXCEPT !.untold = untold] /\ ghost[m] \in Ghost
    BY DEF ReadRows, ScheduleTypeOK
  <2> HIDE DEF untold
  <2> QED
    BY <2>1 DEF Ghost
<1>3. ASSUME NEW m \in Nodes PROVE OnceOf(m)'
  <2>1. Waiting(m)' = Waiting(m) /\ Running(m)' = Running(m)
    BY <1>1 DEF Waiting, Running
  <2>2. Pending(m)' = Pending(m) /\ Pending(m) \in Nat
    BY <2>1, PendingSum
  <2>3. Armed(m)' = Armed(m) /\ Armed(m) \in Nat
    BY <1>1 DEF Armed, HasFired, Started
  <2>4. ASSUME Once(m), Alike(m) PROVE Alike(m)'
    <3>1. snapshot'[m] = row[m].cfg
      BY <2>4 DEF ReadRows, Once, WishOf
    <3> QED
      BY <1>1, <2>4, <3>1 DEF Alike
  <2>5. OnceOf(m) /\ WishOf(row'[m]) = WishOf(row[m]) /\ row'[m].cfg = row[m].cfg
    BY <1>1 DEF OnceInv
  <2> QED
    BY <1>1, <1>2, <2>2, <2>3, <2>4, <2>5, OnceKept
<1> QED
  BY <1>3 DEF OnceInv

\* The manager applies what it read: a job that fired stays gone while its row says so.
LEMMA OnceLoaded ==
    ASSUME ScheduleAssumption, ScheduleTypeOK, ScheduleTypeOK', ManagerInv, OnceInv,
           snapshot # <<>>, NEW A \in SUBSET Nodes, NEW R \in SUBSET Nodes,
           Reschedule(A, R, snapshot), snapshot' = <<>>,
           UNCHANGED <<clock, row, unpublished, toManager, toDjango, firing, ghost, bounds>>,
           \A n \in A : n \in Wanted /\ (NeedsReschedule(n) \/ n \notin tracked),
           \A n \in R : n \notin Wanted
    PROVE  OnceInv'
<1>1. snapshot \in [Nodes -> Wish]
  BY DEF ScheduleTypeOK
<1>2. ASSUME NEW m \in Nodes, Once(m), OnceOf(m)
      PROVE  (ghost[m].onceRan + Pending(m) + Armed(m) <= 1 + bounds.crashes /\ Alike(m))'
  <2> DEFINE cfg == row[m].cfg
  <2>1. /\ Pending(m)' = Pending(m) /\ Pending(m) \in Nat
        /\ Armed(m) \in {0, 1} /\ Armed(m)' \in {0, 1}
        /\ ghost[m].onceRan \in Nat /\ bounds.crashes \in Nat
    <3>1. Waiting(m)' = Waiting(m) /\ Running(m)' = Running(m)
      BY DEF Waiting, Running
    <3>2. Pending(m)' = Pending(m) /\ Pending(m) \in Nat
      BY <3>1, PendingSum
    <3>3. ghost[m].onceRan \in Nat /\ bounds.crashes \in Nat
      BY DEF ScheduleTypeOK, Ghost
    <3> QED
      BY <3>2, <3>3 DEF Armed
  <2>2. ghost[m].onceRan + Pending(m) + Armed(m) <= 1 + bounds.crashes /\ Alike(m)
    BY <1>2 DEF OnceOf
  <2>3. jobs'[m] \in {NoJob, cfg} /\ ghost[m].onceRan + Pending(m) + Armed(m)' <= 1 + bounds.crashes
    <3>1. CASE m \in A
      <4>1. snapshot[m] = cfg /\ cfg.mode = "once" /\ cfg # NoJob
        BY <1>2, <2>2, <3>1 DEF Alike, Wanted, Once, WishOf
      <4>2. jobs'[m] = cfg
        BY <1>1, <3>1, <4>1, Rescheduled
      <4>3. ~HasFired(m) \/ ~Started(cfg)
        BY <3>1, <4>1 DEF HasFired, NeedsReschedule
      <4>4. Armed(m) = 1
        BY <4>3 DEF Armed
      <4> QED
        BY <2>1, <2>2, <4>2, <4>4
    <3>2. CASE m \notin A /\ m \in R
      <4>1. snapshot[m] = NoJob /\ cfg # NoJob
        BY <1>2, <3>2 DEF Wanted, Once, WishOf
      <4>2. ghost[m].onceRan + Pending(m) = 0 /\ jobs[m] = NoJob
        BY <2>2, <4>1 DEF Alike
      <4>3. jobs'[m] = NoJob
        BY <1>1, <3>2, <4>2, Rescheduled
      <4> QED
        BY <2>1, <4>2, <4>3
    <3>3. CASE m \notin A /\ m \notin R
      <4>1. jobs'[m] = jobs[m] /\ (m \in tracked' <=> m \in tracked)
        BY <1>1, <3>3, Rescheduled
      <4>2. HasFired(m)' <=> HasFired(m)
        BY <4>1 DEF HasFired
      <4>3. Started(row[m].cfg)' <=> Started(row[m].cfg)
        BY DEF Started
      <4>4. Armed(m)' = Armed(m)
        BY <4>2, <4>3 DEF Armed
      <4> QED
        BY <2>2, <4>1, <4>4 DEF Alike
    <3> QED
      BY <3>1, <3>2, <3>3
  <2>4. Alike(m)'
    BY <2>2, <2>3 DEF Alike
  <2> QED
    BY <2>1, <2>3, <2>4
<1>3. ASSUME NEW m \in Nodes PROVE OnceOf(m)'
  <2>1. OnceOf(m)
    BY DEF OnceInv
  <2>2. Once(m)' => Once(m)
    BY DEF Once, WishOf
  <2> QED
    BY <1>2, <2>1, <2>2 DEF OnceOf
<1> QED
  BY <1>3 DEF OnceInv

\* The manager hears of a node: one that fired is armed again only if it is stirred.
LEMMA OnceHeard ==
    ASSUME ScheduleAssumption, ScheduleTypeOK, ScheduleTypeOK', ManagerInv, OnceInv, Hear
    PROVE  OnceInv'
<1> DEFINE u == Head(toManager)
<1>1. /\ UNCHANGED <<clock, row, unpublished, toDjango, snapshot, firing, bounds>>
      /\ snapshot = <<>> /\ toManager # <<>> /\ toManager' = Tail(toManager)
  BY DEF Hear, rowVars, managerVars, fireVars, ManagerInv
<1>2. /\ toManager \in Seq(Update) /\ u.node \in Nodes
      /\ Len(toManager) \in Nat /\ Len(toManager) >= 1 /\ u = toManager[1]
      /\ Len(toManager') = Len(toManager) - 1
      /\ \A i \in 1..Len(toManager') : toManager'[i] = toManager[i + 1] /\ i + 1 \in 1..Len(toManager)
  <2>1. toManager \in Seq(Update)
    BY DEF ScheduleTypeOK
  <2>2. u.node \in Nodes
    BY HeardJobs
  <2> QED
    BY <1>1, <2>1, <2>2, Tailed
<1>3. ASSUME NEW m \in Nodes, OnceOf(m) PROVE OnceOf(m)'
  <2>1. /\ Pending(m)' = Pending(m) /\ Pending(m) \in Nat
        /\ Armed(m) \in {0, 1} /\ Armed(m)' \in {0, 1}
        /\ ghost[m].onceRan \in Nat /\ bounds.crashes \in Nat
    <3>1. Waiting(m)' = Waiting(m) /\ Running(m)' = Running(m)
      BY <1>1 DEF Waiting, Running
    <3>2. Pending(m)' = Pending(m) /\ Pending(m) \in Nat
      BY <3>1, PendingSum
    <3>3. ghost[m].onceRan \in Nat /\ bounds.crashes \in Nat
      BY DEF ScheduleTypeOK, Ghost
    <3> QED
      BY <3>2, <3>3 DEF Armed
  <2>2. ghost'[m] = ghost[m] \/ (m = u.node /\ ghost'[m].stirred /\ ghost'[m].onceRan = 0)
    BY HeardGhost
  <2>3. (ghost[m].onceRan <= 1 + bounds.crashes)'
    BY <1>1, <1>3, <2>1, <2>2 DEF OnceOf
  <2>4. ASSUME Once(m)'
        PROVE  (ghost[m].onceRan + Pending(m) + Armed(m) <= 1 + bounds.crashes /\ Alike(m))'
    <3>1. ghost'[m] = ghost[m] /\ (m = u.node => ~HasFired(m))
      BY <2>2, <2>4, HeardGhost DEF Once
    <3>2. Once(m)
      BY <1>1, <2>4, <3>1 DEF Once, WishOf
    <3>3. ghost[m].onceRan + Pending(m) + Armed(m) <= 1 + bounds.crashes /\ Alike(m)
      BY <1>3, <3>2 DEF OnceOf
    <3>4. \A i \in 1..Len(toManager') : toManager'[i].node = m => toManager'[i].wish = row'[m].cfg
      BY <1>1, <1>2, <3>3 DEF Alike
    <3>5. jobs'[m] \in {NoJob, row[m].cfg} /\ Armed(m)' <= Armed(m)
      <4>1. CASE m = u.node
        <5>1. u.wish = row[m].cfg /\ jobs'[m] = u.wish
          <6>1. 1 \in 1..Len(toManager)
            BY <1>2
          <6>2. u.wish = row[m].cfg
            BY <1>2, <3>3, <4>1, <6>1 DEF Alike
          <6> QED
            BY <4>1, <6>2, HeardJobs
        <5>2. Armed(m) = 1
          BY <3>1, <4>1 DEF Armed
        <5> QED
          BY <2>1, <5>1, <5>2
      <4>2. CASE m # u.node
        <5>1. jobs'[m] = jobs[m] /\ (m \in tracked' <=> m \in tracked)
          BY <4>2, HeardJobs
        <5>2. HasFired(m)' <=> HasFired(m)
          BY <5>1 DEF HasFired
        <5>3. Started(row[m].cfg)' <=> Started(row[m].cfg)
          BY <1>1 DEF Started
        <5>4. Armed(m)' = Armed(m)
          BY <5>2, <5>3 DEF Armed
        <5> QED
          BY <2>1, <3>3, <5>1, <5>4 DEF Alike
      <4> QED
        BY <4>1, <4>2
    <3>6. Alike(m)'
      BY <1>1, <3>3, <3>4, <3>5 DEF Alike
    <3>7. (ghost[m].onceRan + Pending(m) + Armed(m) <= 1 + bounds.crashes)'
      <4>1. /\ ghost'[m].onceRan = ghost[m].onceRan /\ bounds'.crashes = bounds.crashes
            /\ Pending(m)' = Pending(m) /\ Armed(m)' <= Armed(m)
        BY <1>1, <2>1, <3>1, <3>5
      <4> HIDE DEF Pending, Armed
      <4> QED
        BY ONLY <2>1, <3>3, <4>1
    <3> QED
      BY <3>6, <3>7
  <2> QED
    BY <2>3, <2>4 DEF OnceOf
<1> QED
  BY <1>3 DEF OnceInv

\* The manager dies: what it forgets it may do again, once for each crash.
LEMMA OnceCrashed ==
    ASSUME ScheduleTypeOK, ScheduleTypeOK', OnceInv, Crash
    PROVE  OnceInv'
<1>1. /\ UNCHANGED <<row, unpublished, toDjango>> /\ toManager' = <<>> /\ snapshot' = <<>>
      /\ jobs' = [n \in Nodes |-> NoJob] /\ firing' = [n \in Nodes |-> "no"]
      /\ bounds'.crashes = bounds.crashes + 1
  BY DEF Crash, rowVars, ScheduleTypeOK
<1>2. ASSUME NEW m \in Nodes
      PROVE  ghost'[m].onceRan = ghost[m].onceRan /\ ghost'[m].stirred = ghost[m].stirred
  <2> DEFINE mute == ghost[m].mute \/ firing[m] # "no"
  <2>1. ghost'[m] = [ghost[m] EXCEPT !.mute = mute] /\ ghost[m] \in Ghost
    BY DEF Crash, ScheduleTypeOK
  <2> HIDE DEF mute
  <2> QED
    BY <2>1 DEF Ghost
<1>3. ASSUME NEW m \in Nodes, OnceOf(m) PROVE OnceOf(m)'
  <2>1. ghost[m].onceRan \in Nat /\ bounds.crashes \in Nat
    BY DEF ScheduleTypeOK, Ghost
  <2>2. (ghost[m].onceRan <= 1 + bounds.crashes)'
    BY <1>1, <1>2, <1>3, <2>1 DEF OnceOf
  <2>3. ASSUME Once(m)'
        PROVE  (ghost[m].onceRan + Pending(m) + Armed(m) <= 1 + bounds.crashes /\ Alike(m))'
    <3>1. Once(m)
      BY <1>1, <1>2, <2>3 DEF Once, WishOf
    <3>2. ghost[m].onceRan + Pending(m) + Armed(m) <= 1 + bounds.crashes /\ Alike(m)
      BY <1>3, <3>1 DEF OnceOf
    <3>3. Pending(m)' <= Pending(m) /\ Pending(m) \in Nat /\ Pending(m)' \in Nat
      <4>1. Waiting(m)' = Waiting(m) /\ Running(m)' = 0 /\ Running(m) >= 0
        BY <1>1 DEF Waiting, Running
      <4> QED
        BY <4>1, PendingSum
    <3>4. Armed(m) \in {0, 1} /\ Armed(m)' \in {0, 1}
      BY DEF Armed
    <3>5. (ghost[m].onceRan + Pending(m) + Armed(m) <= 1 + bounds.crashes)'
      BY <1>1, <1>2, <2>1, <3>2, <3>3, <3>4
    <3>6. Alike(m)'
      BY <1>1, <3>2 DEF Alike
    <3> QED
      BY <3>5, <3>6
  <2> QED
    BY <2>2, <2>3 DEF OnceOf
<1> QED
  BY <1>3 DEF OnceInv

\* Every step keeps the bound on what a node that runs once may start.
LEMMA OnceStep ==
    ASSUME ScheduleAssumption, ScheduleTypeOK, ScheduleTypeOK', ManagerInv, OnceInv,
           [ScheduleNext]_scheduleVars
    PROVE  OnceInv'
<1> USE DEF rowVars, managerVars, jobVars, fireVars
<1>0. clock \in Nat /\ clock >= clock
  BY DEF ScheduleTypeOK
<1>1. CASE Tick
  <2>1. /\ UNCHANGED <<row, unpublished, toDjango, jobs, tracked, firing, ghost, bounds, toManager,
                       snapshot>>
        /\ clock' >= clock
    BY <1>0, <1>1 DEF Tick
  <2> QED
    BY <2>1, OnceQuiet
<1>2. CASE \/ \E e \in Editors, n \in Nodes, on \in BOOLEAN, c \in Configs : BeginEdit(e, n, on, c)
           \/ \E e \in Editors : SaveEdit(e) \/ AbandonEdit(e)
           \/ UNCHANGED scheduleVars
           \/ \E b \in BOOLEAN : Boot(b)
           \/ Resubscribe \/ Disconnect
  <2>1. /\ UNCHANGED <<clock, row, unpublished, toDjango, jobs, tracked, firing, ghost>>
        /\ toManager' = toManager \/ toManager' = <<>>
        /\ snapshot' = snapshot \/ snapshot' = <<>>
        /\ bounds' = bounds \/ Event
    BY <1>2 DEF BeginEdit, SaveEdit, AbandonEdit, scheduleVars, Boot, Resubscribe, Disconnect
  <2>2. bounds'.crashes = bounds.crashes /\ clock' >= clock
    <3>1. Event => bounds'.crashes = bounds.crashes
      BY EventType
    <3> QED
      BY <1>0, <2>1, <3>1
  <2> QED
    BY <2>1, <2>2, OnceQuiet
<1>3. ASSUME NEW n \in Nodes, NEW on \in BOOLEAN, NEW c \in Configs, Create(n, on, c)
      PROVE  OnceInv'
  <2>1. [state |-> "live", on |-> on, cfg |-> c, runs |-> 0] \in Row
    BY DEF Row
  <2>2. UNCHANGED <<clock, toManager, toDjango, managerVars, jobVars, fireVars, bounds>>
    BY <1>3 DEF Create
  <2> QED
    BY <1>3, <2>1, <2>2, OnceCommit DEF Create
<1>4. ASSUME NEW e \in Editors, CommitEdit(e) PROVE OnceInv'
  <2> DEFINE d == edit[e]
             r == [state |-> "live", on |-> d.on, cfg |-> d.cfg,
                   runs |-> IF Restarts(d) THEN 0 ELSE d.copy.runs]
  <2>1. d \in Edit
    BY <1>4 DEF CommitEdit, ScheduleTypeOK
  <2>2. d.node \in Nodes /\ r \in Row /\ Restarts(d) \in BOOLEAN
    BY <2>1 DEF Edit, Row, Restarts
  <2>3. Commit(d.node, r, Restarts(d), Inherits(d)) /\ Inherits(d) \in Nat
    BY <1>4, <2>1, InheritsType DEF CommitEdit
  <2>4. UNCHANGED <<clock, toManager, toDjango, managerVars, jobVars, fireVars, bounds>>
    BY <1>4 DEF CommitEdit
  <2> QED
    BY <2>2, <2>3, <2>4, OnceCommit
<1>5. ASSUME NEW n \in Nodes, Bin(n) \/ Restore(n) \/ Delete(n) PROVE OnceInv'
  <2>1. PICK to \in {"live", "binned", "gone"} :
           /\ Commit(n, [row[n] EXCEPT !.state = to], FALSE, ghost[n].inherited)
           /\ Event
           /\ UNCHANGED <<clock, toManager, toDjango, managerVars, jobVars, fireVars>>
    BY <1>5 DEF Bin, Restore, Delete, Move
  <2>2. [row[n] EXCEPT !.state = to] \in Row /\ ghost[n].inherited \in Nat
    BY RowFields, InheritedType DEF ScheduleTypeOK
  <2>3. bounds'.crashes = bounds.crashes
    BY <2>1, EventType
  <2> QED
    BY <2>1, <2>2, <2>3, OnceCommit
<1>6. ASSUME NEW n \in Nodes, NEW i \in 1..Len(unpublished[n]), NEW fails \in BOOLEAN,
             PublishRow(n, i, fails)
      PROVE  OnceInv'
  BY <1>6, OncePublish
<1>7. ASSUME NEW n \in Nodes, NEW kind, Take(n, kind), UNCHANGED <<row, unpublished, ghost, bounds>>
      PROVE  OnceInv'
  <2>1. \A m \in Nodes : OnceOf(m)'
    BY <1>7, OnceOthers
  <2> QED
    BY <2>1 DEF OnceInv
<1>8. ASSUME NEW n \in Nodes, NEW kind, Take(n, kind), SwitchOff(n, row[n].runs),
             UNCHANGED <<ghost, bounds>>
      PROVE  OnceInv'
  <2>1. row[n].runs \in Nat /\ ghost'[n].onceRan <= 1 + bounds.crashes
    BY <1>8 DEF OnceInv, OnceOf, ScheduleTypeOK, Row
  <2> QED
    BY <1>8, <2>1, OnceOff
<1>9. ASSUME NEW n \in Nodes, DropRun(n) \/ EndByDate(n) \/ Deactivate(n) PROVE OnceInv'
  BY <1>7, <1>8, <1>9 DEF DropRun, EndByDate, Deactivate
<1>10. ASSUME NEW n \in Nodes, StartRun(n) PROVE OnceInv'
  <2>1. Take(n, "run") /\ CanStart(n) /\ Remember(n, 0) /\ bounds' = bounds
    BY <1>10 DEF StartRun
  <2>2. row[n] \in Row /\ row[n].runs + 1 \in Nat
    <3>1. row[n] \in Row
      BY ONLY ScheduleTypeOK, n \in Nodes DEF ScheduleTypeOK
    <3> QED
      BY <3>1 DEF Row
  <2>3. CASE SwitchOff(n, row[n].runs + 1)
    <3>1. ghost'[n].onceRan <= 1 + bounds.crashes /\ \A m \in Nodes \ {n} : ghost'[m] = ghost[m]
      BY <2>1, OnceStarted
    <3> QED
      BY <2>1, <2>2, <2>3, <3>1, OnceOff
  <2>4. CASE row' = [row EXCEPT ![n].runs = @ + 1] /\ UNCHANGED unpublished
    <3>1. \A m \in Nodes : m # n => row'[m] = row[m]
      BY <2>4 DEF ScheduleTypeOK
    <3>2. WishOf(row'[n]) = WishOf(row[n]) /\ row'[n].cfg = row[n].cfg
      BY <2>2, <2>4 DEF WishOf, ScheduleTypeOK, Row
    <3>3. \A m \in Nodes : WishOf(row'[m]) = WishOf(row[m]) /\ row'[m].cfg = row[m].cfg
      BY <3>1, <3>2
    <3> QED
      BY <2>1, <2>4, <3>1, <3>3, OnceStarted
  <2> QED
    BY <1>10, <2>3, <2>4 DEF StartRun
<1>11. ASSUME NEW n \in Nodes, RollBackRun(n) PROVE OnceInv'
  <2>1. Take(n, "run") /\ CanStart(n) /\ Remember(n, 1) /\ UNCHANGED <<row, unpublished>>
    BY <1>11 DEF RollBackRun
  <2>2. bounds'.crashes = bounds.crashes
    BY <1>11, EventType DEF RollBackRun
  <2> QED
    BY <2>1, <2>2, OnceStarted
<1>11a. ASSUME NEW n \in Nodes, NEW kind \in {"run", "deactivate"}, FailSignal(n, kind)
       PROVE  OnceInv'
  <2>1. Take(n, kind) /\ UNCHANGED <<row, unpublished>>
    BY <1>11a DEF FailSignal
  <2>2. bounds'.crashes = bounds.crashes
    BY <1>11a, EventType DEF FailSignal
  <2>3. \A m \in Nodes : ghost'[m].onceRan = ghost[m].onceRan /\ ghost'[m].stirred = ghost[m].stirred
    BY <1>11a, FailedGhost
  <2>4. \A m \in Nodes : OnceOf(m)'
    BY <2>1, <2>2, <2>3, OnceOthers
  <2> QED
    BY <2>4 DEF OnceInv
<1>12. CASE LoseSignals
  BY <1>12, OnceLost
<1>13. ASSUME NEW n \in Nodes, NEW runs \in BOOLEAN, NEW last \in BOOLEAN, Fire(n, runs, last)
       PROVE  OnceInv'
  BY <1>13, OnceFired
<1>14. ASSUME NEW n \in Nodes, NEW fails \in BOOLEAN,
              PublishRun(n, fails) \/ PublishOnce(n, fails) \/ PublishEnd(n, fails)
       PROVE  OnceInv'
  BY <1>14, OnceSignal
<1>15. CASE ReadRows
  BY <1>15, OnceRead
<1>16. CASE Load
  <2>1. /\ Reschedule(Wanted, {}, snapshot) /\ snapshot # <<>> /\ snapshot' = <<>>
        /\ UNCHANGED <<clock, row, unpublished, toManager, toDjango, firing, ghost, bounds>>
    BY <1>16 DEF Load
  <2>2. Wanted \in SUBSET Nodes /\ {} \in SUBSET Nodes /\ tracked = {}
    BY <1>16 DEF Load, Wanted, ManagerInv
  <2> QED
    BY <2>1, <2>2, OnceLoaded
<1>17. CASE Reconcile
  <2> DEFINE A == {n \in Wanted : NeedsReschedule(n)}
             R == Nodes \ Wanted
  <2>1. /\ Reschedule(A, R, snapshot) /\ snapshot # <<>> /\ snapshot' = <<>>
        /\ UNCHANGED <<clock, row, unpublished, toManager, toDjango, firing, ghost, bounds>>
    BY <1>17 DEF Reconcile
  <2>2. A \in SUBSET Nodes /\ R \in SUBSET Nodes
    BY DEF Wanted
  <2>3. (\A n \in A : n \in Wanted /\ NeedsReschedule(n)) /\ \A n \in R : n \notin Wanted
    OBVIOUS
  <2> HIDE DEF A, R
  <2> QED
    BY <2>1, <2>2, <2>3, OnceLoaded
<1>18. CASE Hear
  BY <1>18, OnceHeard
<1>19. CASE Crash
  BY <1>19, OnceCrashed
<1> QED
  BY <1>1, <1>2, <1>3, <1>4, <1>5, <1>6, <1>9, <1>10, <1>11, <1>11a, <1>12, <1>13, <1>14, <1>15, <1>16,
     <1>17, <1>18, <1>19, ScheduleActions

-----------------------------------------------------------------------------
(* The theorems *)

LEMMA ScheduleStarts == ScheduleAssumption /\ ScheduleInit => ScheduleInv
<1> SUFFICES ASSUME ScheduleAssumption, ScheduleInit PROVE ScheduleInv
  OBVIOUS
<1>1. ScheduleTypeOK
  BY InitType
<1>2. CapHolds /\ CopiesInv
  <2>1. \A n \in Nodes : row[n] \in Row /\ row[n].runs = 0 /\ ghost[n].ran = 0 /\ ghost[n].uncounted = 0
    BY <1>1 DEF ScheduleInit, ScheduleTypeOK
  <2>2. \A n \in Nodes : CapKept(row[n], ghost[n].inherited)
    BY <2>1 DEF CapKept, Row, ScheduleAssumption, ScheduleInit
  <2>3. \A e \in Editors : edit[e] = NoEdit
    BY DEF ScheduleInit
  <2> QED
    BY <2>1, <2>2, <2>3 DEF CapHolds, CopiesInv
<1>3. ManagerInv
  BY DEF ScheduleInit, ManagerInv
<1>4. JobsInv
  BY DEF ScheduleInit, JobsInv, JobOf, LastUpdate
<1>5. OnceInv
  BY DEF ScheduleInit, OnceInv, OnceOf, Once, WishOf
<1> QED
  BY <1>1, <1>2, <1>3, <1>4, <1>5 DEF ScheduleInv

LEMMA ScheduleSteps == ScheduleAssumption /\ ScheduleInv /\ [ScheduleNext]_scheduleVars => ScheduleInv'
<1> SUFFICES ASSUME ScheduleAssumption, ScheduleInv, [ScheduleNext]_scheduleVars PROVE ScheduleInv'
  OBVIOUS
<1> USE DEF ScheduleInv
<1>1. ScheduleTypeOK'
  BY TypeStep
<1>2. CapHolds' /\ CopiesInv'
  BY CapStep
<1>3. ManagerInv'
  BY ManagerStep
<1>4. JobsInv'
  BY JobsStep
<1>5. OnceInv'
  BY <1>1, OnceStep
<1> QED
  BY <1>1, <1>2, <1>3, <1>4, <1>5

\* Whatever the users, the listener and the manager do, and whatever is lost, the invariant
\* holds: the types, the caps, the copies of the editors, the manager's own state, what it
\* was told and what may still run (schedule_service.py, schedule_trigger_service.py).
THEOREM ScheduleInductive == ScheduleSpec => []ScheduleInv
<1>1. ScheduleInit => ScheduleInv
  BY ScheduleStarts, ScheduleAssumption
<1>2. ScheduleInv /\ [ScheduleNext]_scheduleVars => ScheduleInv'
  BY ScheduleSteps, ScheduleAssumption
<1> QED
  BY <1>1, <1>2, PTL DEF ScheduleSpec

\* A node's counter never passes its cap, and counts its sessions but for those rolled back
\* or written over (schedule_trigger_service.py:58-75, 77-144).
THEOREM CapAlwaysHolds == ScheduleSpec => []CapHolds
<1>1. ScheduleInv => CapHolds
  BY DEF ScheduleInv
<1> QED
  BY <1>1, ScheduleInductive, PTL

\* A node that runs once, switched on at rest and not heard of again, starts one session,
\* and one more for each crash of the manager (schedule_service.py:155-184, 351-357).
THEOREM OnceAlwaysRunsOnce == ScheduleSpec => []OnceRunsOnce
<1>1. ScheduleInv => OnceRunsOnce
  BY DEF ScheduleInv, OnceInv, OnceOf, OnceRunsOnce
<1> QED
  BY <1>1, ScheduleInductive, PTL

\* When nothing of a node is under way, the manager's job is what the row asks for
\* (schedule_service.py:312-357).
THEOREM JobsAlwaysFollow == ScheduleSpec => []JobsFollow
<1>1. ScheduleInv => JobsFollow
  BY JobsAgree DEF ScheduleInv
<1> QED
  BY <1>1, ScheduleInductive, PTL
=============================================================================
