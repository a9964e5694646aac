------------------------------- MODULE MCPump -------------------------------
(* Small pumps for TLC: a litre of two drops, a tank of four litres with   *)
(* three in it.                                                            *)
EXTENDS Pump

\* what a stack slot may hold: zero, an old amount, values far out of the
\* tank on either side, and no number at all
AnyResidue  == {0, 3, -20, 20, NaN}
ZeroResidue == {0}

NoDeliveries == {}
SomeDeliveries == {1, 2, Word - 1}
SomeLitres == {0, Word - 1}
=============================================================================
