----------------------------- MODULE MessageLog -----------------------------
(***************************************************************************)
(* What the message stream promises a reader of a session: a message is     *)
(* charged to its session's token total at most once, and only once it was  *)
(* kept; the live views are told of a message only when everything a        *)
(* reader of the database would see of it is there.                         *)
(***************************************************************************)
CONSTANT Messages

VARIABLES
    metered,    \* the messages that carry token usage; never changes
    kept,       \* messages stored at some time
    charged,    \* messages whose usage is in the running total
    told        \* messages the live views were told

logVars == <<metered, kept, charged, told>>

Init == metered \subseteq Messages /\ kept = {} /\ charged = {} /\ told = {}

Keep(M) == kept' = kept \cup M /\ UNCHANGED <<metered, charged, told>>

Charge(M) ==
    /\ M \subseteq kept \cap metered
    /\ charged' = charged \cup M
    /\ UNCHANGED <<metered, kept, told>>

Tell(M) ==
    /\ M \subseteq kept
    /\ M \cap metered \subseteq charged
    /\ told' = told \cup M
    /\ UNCHANGED <<metered, kept, charged>>

Next == \E M \in SUBSET Messages : Keep(M) \/ Charge(M) \/ Tell(M)

Spec == Init /\ [][Next]_logVars
=============================================================================
