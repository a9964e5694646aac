------------------------ MODULE SupplyServiceProofs -------------------------
(* The promise of SupplyService, proved of the service itself: a program    *)
(* that refines the service inherits it.                                    *)
EXTENDS SupplyService, TLAPS

(* Flow and count are separate halves of the promise: no action moves both. *)
FlowInv == flowing => phase = "authorised"

CountInv ==
  /\ phase \in {"idle", "authorised", "done"}
  /\ served \in Nat /\ reported \in Nat
  /\ reported + (IF phase = "done" THEN 1 ELSE 0) <= served

LEMMA FlowStep == FlowInv /\ [ServiceNext]_serviceVars => FlowInv'
<1> USE DEF FlowInv
<1>1. FlowInv /\ Authorise => FlowInv'
  BY Zenon DEF Authorise
<1>2. FlowInv /\ Flow => FlowInv'
  BY Zenon DEF Flow
<1>3. FlowInv /\ (Complete \/ Decline) => FlowInv'
  BY Zenon DEF Complete, Decline
<1>4. FlowInv /\ Signal => FlowInv'
  <2> SUFFICES ASSUME FlowInv, Signal PROVE FlowInv'
    OBVIOUS
  <2>1. phase # "authorised" /\ flowing' = flowing
    BY DEF Signal
  <2> QED
    BY <2>1, Zenon
<1>5. FlowInv /\ Restart => FlowInv'
  BY Zenon DEF Restart
<1>6. FlowInv /\ UNCHANGED serviceVars => FlowInv'
  BY Zenon DEF serviceVars
<1> QED
  BY <1>1, <1>2, <1>3, <1>4, <1>5, <1>6, Zenon DEF ServiceNext

LEMMA CountStep == CountInv /\ [ServiceNext]_serviceVars => CountInv'
<1> SUFFICES ASSUME CountInv, [ServiceNext]_serviceVars PROVE CountInv'
  OBVIOUS
<1> USE DEF CountInv
<1>1. CASE Authorise
  BY <1>1 DEF Authorise
<1>2. CASE Flow
  BY <1>2 DEF Flow
<1>3. CASE Complete
  BY <1>3 DEF Complete
<1>4. CASE Decline
  BY <1>4 DEF Decline
<1>5. CASE Signal
  <2>1. phase = "done" /\ phase' = "idle" /\ served' = served
    BY <1>5 DEF Signal
  <2>2. reported' = reported \/ reported' = reported + 1
    BY <1>5, Zenon DEF Signal
  <2> QED
    BY <2>1, <2>2
<1>6. CASE Restart
  BY <1>6 DEF Restart
<1>7. CASE UNCHANGED serviceVars
  BY <1>7 DEF serviceVars
<1> QED
  BY <1>1, <1>2, <1>3, <1>4, <1>5, <1>6, <1>7 DEF ServiceNext

(* Fuel flows only under an authorisation, and no supply is signalled      *)
(* twice, at any length of the service's life.                             *)
THEOREM ServiceIsSafe == ServiceSpec => []ServiceSafe
<1>1. ServiceInit => FlowInv /\ CountInv
  <2>1. ServiceInit => FlowInv
    BY Zenon DEF ServiceInit, FlowInv
  <2>2. ServiceInit => CountInv
    BY DEF ServiceInit, CountInv
  <2> QED
    BY <2>1, <2>2
<1>2. FlowInv /\ CountInv => ServiceSafe
  BY DEF FlowInv, CountInv, ServiceSafe
<1> QED
  BY <1>1, <1>2, FlowStep, CountStep, PTL DEF ServiceSpec
=============================================================================
