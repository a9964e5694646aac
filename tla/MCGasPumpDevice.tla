-------------------------- MODULE MCGasPumpDevice ---------------------------
(* A device with a tank of two litres of one drop each, and every kind of  *)
(* message the callback tells apart.                                       *)
EXTENDS GasPumpDevice

Message(t, a) == [json |-> TRUE, type |-> t, authorization |-> a]

Granted  == Message(SUPPLY_AUTHORIZED, TRUE)
Refused  == Message(SUPPLY_AUTHORIZED, FALSE)
Garbled  == NoMessage

EveryKind == {Granted, Garbled, Message(PUMP_INIT, FALSE), Message(UNKNOWN, FALSE)}
Answers   == {Granted, Refused}
OnlyGranted == {Granted}

ZeroResidue == {0}
AnyResidue == {0, 5, NaN}
NoDeliveries == {}
SomeLitres == {0}
=============================================================================
