--------------------------- MODULE MCSessionLedger ---------------------------
(* SessionLedger on small instances. *)
EXTENDS SessionLedger

\* time_to_live never, and in the future.
ZeroAndPositive == {0, 1}
=============================================================================
