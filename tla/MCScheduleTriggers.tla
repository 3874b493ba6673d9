------------------------- MODULE MCScheduleTriggers -------------------------
(* ScheduleTriggers on a small instance: one node and one editor, a schedule of *)
(* each kind.  What runs once starts at 1; what ends by date ends at 1, and has  *)
(* the cap of what ends after one run in its max_runs, too.                     *)
EXTENDS ScheduleTriggers

Once1 == [mode |-> "once", start |-> 1, endType |-> "never", ends |-> 0, cap |-> 0]
Forever == [mode |-> "repeat", start |-> 0, endType |-> "never", ends |-> 0, cap |-> 0]
AfterOneRun == [mode |-> "repeat", start |-> 0, endType |-> "afterRuns", ends |-> 0, cap |-> 1]
Until1 == [mode |-> "repeat", start |-> 0, endType |-> "onDate", ends |-> 1, cap |-> 1]

EachKind == {Once1, AfterOneRun, Until1}
OnceOrForever == {Once1, Forever}

\* A bound of the safety run: how much is under way at once.
FewOnTheWay ==
    /\ Len(toManager) <= 2 /\ Len(toDjango) <= 2
    /\ \A n \in Nodes : Len(unpublished[n]) <= 2
=============================================================================
