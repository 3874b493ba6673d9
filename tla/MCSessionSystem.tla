--------------------------- MODULE MCSessionSystem ---------------------------
EXTENDS SessionSystem, Integers

ZeroOnly == {0}
PositiveOnly == {1}
NegativeOnly == {-1}
ZeroAndPositive == {0, 1}
=============================================================================
