--------------------------- MODULE MCGraphMessages ---------------------------
(* GraphMessages on small instances. *)
EXTENDS GraphMessages

CONSTANT s1

Three == 1..3
OneSession == [m \in Three |-> s1]

\* A run with a subgraph, and the ways a message can be unfit beside one that is.
Stories == {<<"start", "inner", "end">>, <<"metered", "rejected", "malformed">>,
            <<"metered", "unsummable", "end">>, <<"metered", "poison", "plain">>}

Poison == {<<"plain", "poison", "plain">>}
=============================================================================
