----------------------------- MODULE MCDittoTwin -----------------------------
(* A tank for one supply and two orders, one of them read twice: orders    *)
(* that authorise a supply, and orders of a type the device does not know. *)
(* Events of the other types come from its own uplinks.                    *)
EXTENDS DittoTwin

SomeTypes == {SUPPLY_AUTHORIZED, UNKNOWN}
=============================================================================
