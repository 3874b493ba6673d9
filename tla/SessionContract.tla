--------------------------- MODULE SessionContract ---------------------------
(***************************************************************************)
(* What a session promises whoever started it, whichever process ends it:   *)
(* it opens once, it finishes once, and the callback receiver is told of    *)
(* one end only, the one that was decided, after the session had finished.  *)
(***************************************************************************)
EXTENDS Naturals

CONSTANTS Sessions, Verdicts, Undecided

VARIABLES
    phase,      \* absent, open or finished
    decided,    \* the end the receiver is to be told
    told        \* the ends it was told

contractVars == <<phase, decided, told>>

Init ==
    /\ phase = [s \in Sessions |-> "absent"]
    /\ decided = [s \in Sessions |-> Undecided]
    /\ told = [s \in Sessions |-> {}]

Open(s) ==
    /\ phase[s] = "absent"
    /\ phase' = [phase EXCEPT ![s] = "open"]
    /\ UNCHANGED <<decided, told>>

Finish(s) ==
    /\ phase[s] = "open"
    /\ phase' = [phase EXCEPT ![s] = "finished"]
    /\ UNCHANGED <<decided, told>>

\* The end is decided when the session finishes, or later.
Decide(s, v) ==
    /\ phase[s] \in {"open", "finished"}
    /\ decided[s] = Undecided
    /\ phase' = [phase EXCEPT ![s] = "finished"]
    /\ decided' = [decided EXCEPT ![s] = v]
    /\ UNCHANGED told

\* The receiver may be told more than once.
Tell(s) ==
    /\ decided[s] # Undecided
    /\ told' = [told EXCEPT ![s] = @ \cup {decided[s]}]
    /\ UNCHANGED <<phase, decided>>

Next ==
    \E s \in Sessions :
        \/ Open(s)
        \/ Finish(s)
        \/ \E v \in Verdicts : Decide(s, v)
        \/ Tell(s)

Spec == Init /\ [][Next]_contractVars
=============================================================================
