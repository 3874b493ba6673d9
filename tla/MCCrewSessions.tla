--------------------------- MODULE MCCrewSessions ---------------------------
(* CrewSessions on small instances; the sessions are interchangeable. *)
EXTENDS CrewSessions, TLC

Symmetry == Permutations(Sessions)
=============================================================================
