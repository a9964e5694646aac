--------------------------- MODULE SupplyService ----------------------------
(***************************************************************************)
(* What the gas pump promises the supply manager, with nothing said of     *)
(* locks, buttons, messages or connections: fuel flows only under an       *)
(* authorisation, one authorisation is good for at most one supply, and a  *)
(* supply that was completed is signalled at most once.                    *)
(***************************************************************************)
EXTENDS Naturals

VARIABLES
  phase,    \* "idle", "authorised", or "done": completed and not signalled
  flowing,  \* the motor runs
  served,   \* supplies completed
  reported  \* completions signalled

serviceVars == <<phase, flowing, served, reported>>

ServiceInit == phase = "idle" /\ ~flowing /\ served = 0 /\ reported = 0

Authorise ==
  /\ phase = "idle" /\ ~flowing
  /\ phase' = "authorised" /\ UNCHANGED <<flowing, served, reported>>

Flow ==
  /\ phase = "authorised"
  /\ flowing' \in BOOLEAN /\ UNCHANGED <<phase, served, reported>>

Complete ==
  /\ phase = "authorised" /\ ~flowing
  /\ phase' = "done" /\ served' = served + 1 /\ UNCHANGED <<flowing, reported>>

Decline ==
  /\ phase = "authorised" /\ ~flowing
  /\ phase' = "idle" /\ UNCHANGED <<flowing, served, reported>>

\* A signal may get lost; the service does not notice.
Signal ==
  /\ phase = "done"
  /\ phase' = "idle" /\ reported' \in {reported, reported + 1}
  /\ UNCHANGED <<flowing, served>>

Restart ==
  /\ phase' = "idle" /\ ~flowing' /\ UNCHANGED <<served, reported>>

ServiceNext == Authorise \/ Flow \/ Complete \/ Decline \/ Signal \/ Restart

ServiceSpec == ServiceInit /\ [][ServiceNext]_serviceVars

(* Fuel flows only under an authorisation, and every signal stands for a   *)
(* supply of its own.                                                      *)
ServiceSafe ==
  /\ flowing => phase = "authorised"
  /\ reported + (IF phase = "done" THEN 1 ELSE 0) <= served
=============================================================================
