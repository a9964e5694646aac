---------------------------- MODULE DittoTwinProofs ----------------------------
(***************************************************************************)
(* The authorisations and the answers of DittoTwin, for any stock, orders  *)
(* and bounds. The invariant counts: every answer made and every           *)
(* authorisation that waits for the callback is an authorisation that was  *)
(* sent, and no document of the device is one, wherever it is.             *)
(***************************************************************************)
EXTENDS DittoTwin, FiniteSetTheorems, FunctionTheorems, TLAPS

Events == [type : 0..6]
Documents == Document \cup {null}

(* The places of the events that the callback will answer.                 *)
IsAuthorization(event) == get_message_type(event) = SUPPLY_AUTHORIZED
Authorizing(events) == {i \in 1..Len(events) : IsAuthorization(events[i])}
Waiting(events) == Cardinality(Authorizing(events))

Kept == \* what the manager and Ditto hold
  /\ orders \in Seq(OrderTypes) /\ Len(orders) <= MaxOrders /\ offset \in 0..Len(orders)
  /\ twin \in [Features -> [type : 0..6, stock : 0..Stock]]

OnTheWay ==
  /\ echo \in BOOLEAN /\ linked \in BOOLEAN /\ online \in BOOLEAN
  /\ uplink \in Seq(Documents) /\ retained \in Documents \cup {None}
  /\ response \in Documents \cup {None} /\ stock \in 0..Stock
  /\ downlink \in Seq(Events)

Counted ==
  /\ emitted \in Nat /\ answered \in Nat
  /\ answered + Waiting(downlink) <= emitted

Inv == Kept /\ OnTheWay /\ Counted

-----------------------------------------------------------------------------
LEMMA NothingWaits == <<>> \in Seq(Events) /\ Waiting(<<>>) = 0
  <1>1. Authorizing(<<>>) = {}
    BY DEF Authorizing
  <1> QED
    BY <1>1, FS_EmptySet DEF Waiting

LEMMA WaitingIsFinite ==
  ASSUME NEW events \in Seq(Events)
  PROVE  IsFiniteSet(Authorizing(events)) /\ Waiting(events) \in Nat
  <1>1. IsFiniteSet(1..Len(events))
    BY FS_Interval
  <1>2. Authorizing(events) \in SUBSET (1..Len(events))
    BY DEF Authorizing
  <1> QED
    BY <1>1, <1>2, FS_Subset, FS_CardinalityType DEF Waiting

LEMMA WaitingGrows ==
  ASSUME NEW events \in Seq(Events), NEW event \in Events
  PROVE  /\ Append(events, event) \in Seq(Events)
         /\ Waiting(Append(events, event)) = Waiting(events) + (IF IsAuthorization(event) THEN 1 ELSE 0)
  <1> DEFINE n == Len(events) + 1
  <1>1. /\ IsAuthorization(event) => Authorizing(Append(events, event)) = Authorizing(events) \cup {n}
        /\ ~IsAuthorization(event) => Authorizing(Append(events, event)) = Authorizing(events)
    BY DEF Authorizing
  <1>2. n \notin Authorizing(events)
    BY DEF Authorizing
  <1> HIDE DEF n
  <1>3. Cardinality(Authorizing(events) \cup {n}) = Cardinality(Authorizing(events)) + 1
    BY <1>2, WaitingIsFinite, FS_AddElement
  <1>4. Waiting(events) \in Nat /\ Append(events, event) \in Seq(Events)
    BY WaitingIsFinite
  <1>5. CASE IsAuthorization(event)
    BY <1>1, <1>3, <1>4, <1>5 DEF Waiting
  <1>6. CASE ~IsAuthorization(event)
    BY <1>1, <1>4, <1>6 DEF Waiting
  <1> QED
    BY <1>5, <1>6

(* Taking the first event moves the others up by one.                      *)
LEMMA WaitingShrinks ==
  ASSUME NEW events \in Seq(Events), events # <<>>
  PROVE  /\ Head(events) \in Events /\ Tail(events) \in Seq(Events)
         /\ Waiting(events) = Waiting(Tail(events)) + (IF IsAuthorization(Head(events)) THEN 1 ELSE 0)
  <1> DEFINE rest == Authorizing(Tail(events))
             later == Authorizing(events) \ {1}
             up == [i \in rest |-> i + 1]
  <1>1. Head(events) \in Events /\ Tail(events) \in Seq(Events)
        /\ (1 \in Authorizing(events) <=> IsAuthorization(Head(events)))
    BY DEF Authorizing
  <1>2. \A i \in rest : i \in Nat /\ i + 1 \in later
    BY DEF Authorizing
  <1>3. \A j \in later : j - 1 \in rest /\ (j - 1) + 1 = j
    BY DEF Authorizing
  <1>4. IsFiniteSet(rest) /\ IsFiniteSet(Authorizing(events)) /\ Waiting(events) \in Nat /\ Waiting(Tail(events)) \in Nat
    BY <1>1, WaitingIsFinite
  <1> HIDE DEF rest, later
  <1>5. up \in [rest -> later]
    BY <1>2
  <1>6. \A i, j \in rest : up[i] = up[j] => i = j
    BY <1>2
  <1>7. \A j \in later : \E i \in rest : up[i] = j
    BY <1>3
  <1>8. up \in Bijection(rest, later)
    BY <1>5, <1>6, <1>7, Fun_IsBij
  <1>9. Cardinality(later) = Cardinality(rest)
    BY <1>4, <1>8, Fun_ExistsBij, FS_Bijection
  <1>10. Cardinality(later) = IF 1 \in Authorizing(events) THEN Cardinality(Authorizing(events)) - 1
                              ELSE Cardinality(Authorizing(events))
    BY <1>4, FS_RemoveElement DEF later
  <1>11. Waiting(Tail(events)) = Cardinality(rest) /\ Waiting(events) = Cardinality(Authorizing(events))
    BY DEF Waiting, rest
  <1> QED
    BY <1>1, <1>4, <1>9, <1>10, <1>11

(* What is left of the events when the connection is lost.                 *)
LEMMA WaitingPrefix ==
  ASSUME NEW events \in Seq(Events), NEW n \in 0..Len(events)
  PROVE  SubSeq(events, 1, n) \in Seq(Events) /\ Waiting(SubSeq(events, 1, n)) <= Waiting(events)
  <1>1. SubSeq(events, 1, n) \in Seq(Events)
    OBVIOUS
  <1>2. Authorizing(SubSeq(events, 1, n)) \in SUBSET Authorizing(events)
    BY DEF Authorizing
  <1> QED
    BY <1>1, <1>2, WaitingIsFinite, FS_Subset DEF Waiting

(* An event is sent to the device, or lost because it is away.             *)
LEMMA EmitCounts ==
  ASSUME OnTheWay, NEW event \in Events, Emit(event)
  PROVE  /\ downlink' \in Seq(Events)
         /\ Waiting(downlink') <= Waiting(downlink) + (IF IsAuthorization(event) THEN 1 ELSE 0)
         /\ Waiting(downlink') \in Nat /\ Waiting(downlink) \in Nat
  <1>1. downlink \in Seq(Events) /\ Waiting(downlink) \in Nat
    BY WaitingIsFinite DEF OnTheWay
  <1>2. CASE online
    BY <1>1, <1>2, WaitingGrows, WaitingIsFinite DEF Emit
  <1>3. CASE ~online
    BY <1>1, <1>3 DEF Emit
  <1> QED
    BY <1>2, <1>3

(* The documents of the device; none of them is an authorisation.          *)
LEMMA NoDocumentAuthorizes ==
  ASSUME NEW doc \in Documents
  PROVE  /\ doc.type \in 0..6 /\ ~IsAuthorization(Event(doc.type)) /\ Event(doc.type) \in Events
         /\ doc \in [type : 0..6, stock : 0..Stock] /\ doc # None
  BY StockAssumption DEF Documents, Document, null, None, IsAuthorization, get_message_type, Event, Events,
     PUMP_INIT, SUPPLY_AUTHORIZED, SUPPLY_COMPLETED, SUPPLY_ERROR, ABSENT

LEMMA Made ==
  /\ \A s \in 0..Stock : create_pump_init_message(s) \in Documents /\ create_supply_completed_message(s) \in Documents
  /\ create_supply_error_message \in Documents /\ null \in Documents
  BY StockAssumption DEF create_pump_init_message, create_supply_completed_message, create_supply_error_message,
     Documents, Document

-----------------------------------------------------------------------------
LEMMA InitInv == Init => Inv
  <1> SUFFICES ASSUME Init PROVE Inv
    OBVIOUS
  <1>1. response \in Documents /\ stock \in 0..Stock
    BY Made, StockAssumption DEF Init
  <1>2. Kept
    <2>1. null \in [type : 0..6, stock : 0..Stock]
      BY Made, NoDocumentAuthorizes
    <2> QED
      BY <2>1, BoundsAssumption DEF Init, Kept
  <1>3. OnTheWay
    BY <1>1, NothingWaits DEF Init, OnTheWay
  <1>4. Counted
    BY NothingWaits DEF Init, Counted
  <1> QED
    BY <1>2, <1>3, <1>4 DEF Inv

LEMMA ManagerInv == Inv /\ PlaceOrder => Inv'
  <1> SUFFICES ASSUME Inv, PlaceOrder PROVE Inv'
    OBVIOUS
  <1>1. Kept'
    <2>1. PICK type \in OrderTypes : orders' = Append(orders, type)
      BY DEF PlaceOrder
    <2>2. orders' \in Seq(OrderTypes) /\ Len(orders') = Len(orders) + 1
      BY <2>1 DEF Inv, Kept
    <2>3. Len(orders) \in Nat /\ Len(orders) + 1 <= MaxOrders
      BY BoundsAssumption DEF PlaceOrder, Inv, Kept
    <2>4. UNCHANGED <<offset, twin>>
      BY DEF PlaceOrder
    <2> QED
      BY <2>2, <2>3, <2>4 DEF Inv, Kept
  <1>2. OnTheWay' /\ Counted'
    BY DEF PlaceOrder, Inv, OnTheWay, Counted, brokerVars, deviceVars, history
  <1> QED
    BY <1>1, <1>2 DEF Inv

(* An order of whatever type becomes an event; an authorisation counts.    *)
LEMMA OrderInv == Inv /\ ConsumeOrder => Inv'
  <1> SUFFICES ASSUME Inv, ConsumeOrder PROVE Inv'
    OBVIOUS
  <1> DEFINE type == orders[offset + 1]
  <1>1. /\ offset < Len(orders) /\ offset' \in {offset, offset + 1}
        /\ twin' = [twin EXCEPT !["authorize_supply"] = [type |-> type, stock |-> 0]]
        /\ Emit(Event(type))
        /\ emitted' = emitted + (IF type = SUPPLY_AUTHORIZED THEN 1 ELSE 0)
        /\ UNCHANGED <<orders, echo, linked, uplink, retained, online, stock, response, answered>>
    BY DEF ConsumeOrder, brokerVars
  <1>2. type \in 0..6
    <2>1. orders \in Seq(OrderTypes) /\ offset \in 0..Len(orders)
      BY DEF Inv, Kept
    <2>2. Len(orders) \in Nat /\ offset + 1 \in 1..Len(orders)
      BY <1>1, <2>1
    <2>3. type \in OrderTypes
      BY <2>1, <2>2
    <2> QED
      BY <2>3, OrderAssumption
  <1>3. Event(type) \in Events /\ (IsAuthorization(Event(type)) <=> type = SUPPLY_AUTHORIZED)
    BY <1>2 DEF Event, Events, IsAuthorization, get_message_type, SUPPLY_AUTHORIZED, PUMP_INIT, ABSENT
  <1>4. [type |-> type, stock |-> 0] \in [type : 0..6, stock : 0..Stock]
    BY <1>2, StockAssumption
  <1> HIDE DEF type
  <1>5. Kept'
    <2>1. twin' \in [Features -> [type : 0..6, stock : 0..Stock]]
      BY <1>1, <1>4 DEF Inv, Kept
    <2>2. offset' \in 0..Len(orders)
      BY <1>1 DEF Inv, Kept
    <2> QED
      BY <1>1, <2>1, <2>2 DEF Inv, Kept
  <1>6. OnTheWay' /\ Counted'
    BY <1>1, <1>3, EmitCounts DEF Inv, OnTheWay, Counted
  <1> QED
    BY <1>5, <1>6 DEF Inv

(* What the device published becomes the event of a feature at most, and   *)
(* that is no authorisation.                                               *)
LEMMA UplinkInv == Inv /\ MapUplink => Inv'
  <1> SUFFICES ASSUME Inv, MapUplink PROVE Inv'
    OBVIOUS
  <1> DEFINE doc == Head(uplink)
             channel == Channel(doc.type)
  <1>1. /\ uplink # <<>> /\ uplink' = Tail(uplink)
        /\ UNCHANGED <<orders, offset, echo, linked, retained, online, stock, response, emitted, answered>>
    BY DEF MapUplink, managerVars
  <1>2. doc \in Documents /\ uplink' \in Seq(Documents)
    BY <1>1 DEF Inv, OnTheWay
  <1> HIDE DEF doc
  <1>3. CASE UNCHANGED <<twin, downlink>>
    BY <1>1, <1>2, <1>3 DEF Inv, Kept, OnTheWay, Counted
  <1>4. CASE /\ twin' = [twin EXCEPT ![channel] = doc]
             /\ Emit(Event(doc.type)) \/ UNCHANGED downlink
    <2>1. Kept'
      BY <1>1, <1>2, <1>4, NoDocumentAuthorizes DEF Inv, Kept
    <2>2. CASE Emit(Event(doc.type))
      BY <1>1, <1>2, <1>4, <2>1, <2>2, NoDocumentAuthorizes, EmitCounts DEF Inv, OnTheWay, Counted
    <2>3. CASE UNCHANGED downlink
      BY <1>1, <1>2, <1>4, <2>1, <2>3 DEF Inv, OnTheWay, Counted
    <2> QED
      BY <1>4, <2>2, <2>3
  <1> QED
    BY <1>3, <1>4 DEF MapUplink, doc

LEMMA LinkInv == Inv /\ (DittoConnects \/ DittoDrops) => Inv'
  <1> SUFFICES ASSUME Inv, DittoConnects \/ DittoDrops PROVE Inv'
    OBVIOUS
  <1>1. /\ uplink' = <<>> \/ (retained # None /\ uplink' = <<retained>>)
        /\ linked' \in BOOLEAN
        /\ UNCHANGED <<orders, offset, twin, echo, retained, online, downlink, stock, response, emitted, answered>>
    BY DEF DittoConnects, DittoDrops, managerVars, deviceVars, history
  <1>2. uplink' \in Seq(Documents)
    <2>1. <<>> \in Seq(Documents) /\ \A doc \in Documents : <<doc>> \in Seq(Documents)
      OBVIOUS
    <2> QED
      BY <1>1, <2>1 DEF Inv, OnTheWay
  <1> QED
    BY <1>1, <1>2 DEF Inv, Kept, OnTheWay, Counted

LEMMA OfflineInv == Inv /\ DeviceOffline => Inv'
  <1> SUFFICES ASSUME Inv, DeviceOffline PROVE Inv'
    OBVIOUS
  <1>1. PICK n \in 0..Len(downlink) : downlink' = SubSeq(downlink, 1, n)
    BY DEF DeviceOffline
  <1>2. online' \in BOOLEAN
        /\ UNCHANGED <<orders, offset, twin, echo, linked, uplink, retained, stock, response, emitted, answered>>
    BY DEF DeviceOffline, managerVars, brokerVars, history
  <1>3. /\ downlink' \in Seq(Events) /\ Waiting(downlink') <= Waiting(downlink)
        /\ Waiting(downlink) \in Nat /\ Waiting(downlink') \in Nat
    BY <1>1, WaitingPrefix, WaitingIsFinite DEF Inv, OnTheWay
  <1> QED
    BY <1>2, <1>3 DEF Inv, Kept, OnTheWay, Counted

(* An answer is made to the authorisation that is taken from the downlink. *)
LEMMA CallbackInv == Inv /\ Callback => Inv'
  <1> SUFFICES ASSUME Inv, Callback PROVE Inv'
    OBVIOUS
  <1> DEFINE event == Head(downlink)
  <1>1. /\ downlink # <<>> /\ downlink' = Tail(downlink)
        /\ UNCHANGED <<orders, offset, twin, echo, linked, uplink, retained, online, emitted>>
    BY DEF Callback, managerVars, brokerVars
  <1>2. /\ downlink' \in Seq(Events)
        /\ Waiting(downlink) = Waiting(downlink') + (IF IsAuthorization(event) THEN 1 ELSE 0)
        /\ Waiting(downlink') \in Nat
    BY <1>1, WaitingShrinks, WaitingIsFinite DEF Inv, OnTheWay
  <1>3. /\ response' \in Documents \cup {None} /\ stock' \in 0..Stock
        /\ answered' = answered + (IF IsAuthorization(event) THEN 1 ELSE 0)
    <2>1. CASE IsAuthorization(event) /\ SupplyFuel
      <3>1. CASE stock > 0 /\ \E s \in 0..(stock - 1) : stock' = s /\ response' = create_supply_completed_message(s)
        <4>1. PICK s \in 0..(stock - 1) : stock' = s /\ response' = create_supply_completed_message(s)
          BY <3>1
        <4>2. s \in 0..Stock
          BY <3>1, StockAssumption DEF Inv, OnTheWay
        <4> QED
          BY <2>1, <4>1, <4>2, Made DEF SupplyFuel
      <3>2. CASE response' = create_supply_error_message /\ UNCHANGED stock
        BY <2>1, <3>2, Made DEF SupplyFuel, Inv, OnTheWay
      <3> QED
        BY <2>1, <3>1, <3>2 DEF SupplyFuel
    <2>2. CASE ~IsAuthorization(event) /\ UNCHANGED <<stock, answered>> /\ response' \in {response, null}
      BY <2>2, Made DEF Inv, OnTheWay, Counted
    <2> QED
      BY <2>1, <2>2 DEF Callback, IsAuthorization, SUPPLY_AUTHORIZED, UNKNOWN
  <1> HIDE DEF event
  <1> QED
    BY <1>1, <1>2, <1>3 DEF Inv, Kept, OnTheWay, Counted

LEMMA PublishInv == Inv /\ publish_message => Inv'
  <1> SUFFICES ASSUME Inv, publish_message PROVE Inv'
    OBVIOUS
  <1>1. /\ response \in Documents /\ response' = None
        /\ retained' \in {retained, response} /\ uplink' \in {uplink, Append(uplink, response)}
        /\ UNCHANGED <<orders, offset, twin, echo, linked, online, downlink, stock, emitted, answered>>
    BY DEF publish_message, Retain, managerVars, Inv, OnTheWay
  <1>2. uplink' \in Seq(Documents)
    BY <1>1 DEF Inv, OnTheWay
  <1> QED
    BY <1>1, <1>2 DEF Inv, Kept, OnTheWay, Counted

LEMMA StartInv == Inv /\ (connect_mqtt \/ Restart) => Inv'
  <1> SUFFICES ASSUME Inv, connect_mqtt \/ Restart PROVE Inv'
    OBVIOUS
  <1>1. online' \in BOOLEAN
        /\ UNCHANGED <<orders, offset, twin, echo, linked, uplink, retained, emitted, answered>>
    BY DEF connect_mqtt, Restart, managerVars, brokerVars, history
  <1>2. CASE UNCHANGED <<downlink, stock, response>>
    BY <1>1, <1>2 DEF Inv, Kept, OnTheWay, Counted
  <1>3. CASE downlink' = <<>> /\ stock' = Stock /\ response' = create_pump_init_message(Stock)
    <2>1. response' \in Documents /\ stock' \in 0..Stock
      BY <1>3, Made, StockAssumption
    <2>2. Waiting(downlink) \in Nat
      BY WaitingIsFinite DEF Inv, OnTheWay
    <2>3. Counted'
      BY <1>1, <1>3, <2>2, NothingWaits DEF Inv, Counted
    <2> QED
      BY <1>1, <1>3, <2>1, <2>3, NothingWaits DEF Inv, Kept, OnTheWay
  <1> QED
    BY <1>2, <1>3 DEF connect_mqtt, Restart

LEMMA StepInv == Inv /\ [Next]_vars => Inv'
  <1>1. Inv /\ UNCHANGED vars => Inv'
    BY DEF vars, Inv, Kept, OnTheWay, Counted
  <1> QED
    BY <1>1, ManagerInv, OrderInv, UplinkInv, LinkInv, OfflineInv, CallbackInv, PublishInv, StartInv
       DEF Next, Device, Ditto

LEMMA Invariance == Spec => []Inv
  BY InitInv, StepInv, PTL DEF Spec

-----------------------------------------------------------------------------
(* Every variable keeps its type: no order, document or event is of a kind *)
(* that the enumeration does not have.                                     *)
THEOREM TwinTyped == Spec => []TwinTypeOK
  <1>1. Inv => TwinTypeOK
    BY DEF Inv, Kept, OnTheWay, Counted, TwinTypeOK, Documents
  <1> QED
    BY <1>1, Invariance, PTL

(* The device answers authorisations only, whatever the manager writes and *)
(* however its own uplinks come back to it, with any losses, restarts and  *)
(* repeated orders.                                                        *)
THEOREM AuthorizationsOnly == Spec => []OnlyAuthorizations
  <1>1. Inv => OnlyAuthorizations
    BY WaitingIsFinite DEF Inv, OnTheWay, Counted, OnlyAuthorizations
  <1> QED
    BY <1>1, Invariance, PTL
=============================================================================
