------------------------------ MODULE DittoTwin ------------------------------
(***************************************************************************)
(* The gas pump and its digital twin: an authorisation travels from a      *)
(* Kafka topic through a payload mapping into the twin, as an event of the *)
(* twin to the device, and the device's answer travels back through the    *)
(* broker and the other payload mapping                                    *)
(* (kafkaIncomingJavaScriptMapping.js, mqttIncomingJavaScriptMapping.js,   *)
(* Message.cpp, main.cpp, CommsHandler.cpp).                               *)
(*                                                                         *)
(* Both MQTT hops are QoS 0: what is on its way when a side loses its      *)
(* connection is lost. The broker keeps the last uplink, because           *)
(* CommsHandler publishes with the length in the place of `retained`.      *)
(***************************************************************************)
EXTENDS Integers, Sequences

CONSTANTS
  Stock,       \* what the pump holds after a start, in supplies
  OrderTypes,  \* the msgType of the orders a manager writes
  MaxOrders,   \* bound: orders
  Redelivered, \* bound: orders Ditto reads again, its offset not committed
  TwinDrops,   \* bound: connections Ditto loses to the broker
  DeviceDrops, \* bound: connections the device loses to the broker
  Restarts     \* bound: starts of the device

ASSUME StockAssumption == Stock \in Nat
ASSUME BoundsAssumption == {MaxOrders, Redelivered, TwinDrops, DeviceDrops, Restarts} \subseteq Nat

(* enum MESSAGE_TYPE                                                       *)
PUMP_INIT == 0
SUPPLY_AUTHORIZED == 1
SUPPLY_COMPLETED == 2
FUEL_REPLENISHMENT == 3
SUPPLY_ERROR == 4
UNKNOWN == 5
ABSENT == 6  \* no member msgType in the document

ASSUME OrderAssumption == OrderTypes \subseteq 0..6

(* A document as the device publishes it. `null` is an empty JsonDocument  *)
(* serialised: it is four characters long, so publish_message sends it.    *)
Document == [type : {PUMP_INIT, SUPPLY_COMPLETED, SUPPLY_ERROR}, stock : 0..Stock]
create_pump_init_message(s)        == [type |-> PUMP_INIT, stock |-> s]
create_supply_completed_message(s) == [type |-> SUPPLY_COMPLETED, stock |-> s]
create_supply_error_message        == [type |-> SUPPLY_ERROR, stock |-> 0]
null == [type |-> ABSENT, stock |-> 0]
None == [type |-> -1, stock |-> 0]  \* no document at all

(* An event of the twin as the device receives it.                         *)
Event(type) == [type |-> type]

VARIABLES
  orders,    \* the orders in the Kafka topic, by offset
  offset,    \* the orders Ditto has committed
  twin,      \* the twin: what each feature was last modified to
  echo,      \* external: the events of its own uplinks are sent to the device too
  linked,    \* Ditto's MQTT connection
  uplink,    \* on its way from the broker to Ditto
  retained,  \* what the broker holds for the uplink topic
  online,    \* the device's MQTT connection, subscribed
  downlink,  \* on its way to the device's callback
  stock,     \* pump.get_stock()
  response,  \* what the callback or announce_pump is about to publish
  left,      \* what is left of the bounds
  emitted,   \* history: authorisations sent to the device
  answered,  \* history: answers the device made to authorisations
  last       \* history: the last document the device handed to the broker

vars == <<orders, offset, twin, echo, linked, uplink, retained, online, downlink, stock, response, left, emitted, answered, last>>
managerVars == <<orders, offset>>
brokerVars  == <<echo, linked, uplink, retained>>
deviceVars  == <<online, downlink, stock, response>>
history     == <<emitted, answered, last>>

Features == {"pump_init", "authorize_supply", "supply_completed", "fuel_replenishment", "supply_error"}

Init ==
  /\ orders = <<>> /\ offset = 0
  /\ twin = [f \in Features |-> null]
  /\ echo \in BOOLEAN /\ linked \in BOOLEAN /\ uplink = <<>> /\ retained = None
  /\ online = TRUE /\ downlink = <<>>
  /\ stock = Stock /\ response = create_pump_init_message(Stock)
  /\ left = [redelivered |-> Redelivered, twin |-> TwinDrops, device |-> DeviceDrops, restarts |-> Restarts]
  /\ emitted = 0 /\ answered = 0 /\ last = None

-----------------------------------------------------------------------------
(* External: the manager, the twin's event to the device, and the broker.  *)
PlaceOrder ==
  /\ Len(orders) < MaxOrders
  /\ \E type \in OrderTypes : orders' = Append(orders, type)
  /\ UNCHANGED <<offset, twin, brokerVars, deviceVars, left, history>>

Emit(event) == downlink' = IF online THEN Append(downlink, event) ELSE downlink

(* kafkaIncomingJavaScriptMapping.js: whatever the order's type, it        *)
(* modifies authorize_supply. The order is read again when its offset was  *)
(* not committed.                                                          *)
ConsumeOrder ==
  /\ offset < Len(orders)
  /\ LET type == orders[offset + 1] IN
       /\ twin' = [twin EXCEPT !["authorize_supply"] = [type |-> type, stock |-> 0]]
       /\ Emit(Event(type))
       /\ emitted' = emitted + (IF type = SUPPLY_AUTHORIZED THEN 1 ELSE 0)
  /\ \/ offset' = offset + 1 /\ UNCHANGED left
     \/ left.redelivered > 0 /\ left' = [left EXCEPT !.redelivered = @ - 1] /\ UNCHANGED offset
  /\ UNCHANGED <<orders, brokerVars, online, stock, response, answered, last>>

(* mqttIncomingJavaScriptMapping.js: a throw, as on the empty document,    *)
(* drops the message.                                                      *)
Thrown == "thrown"
ChannelOfNull(type) == IF type = ABSENT THEN "pump_init" ELSE IF type \in {SUPPLY_COMPLETED, SUPPLY_ERROR} THEN "supply_completed" ELSE "pump_init" \* mutant
Channel(type) == CASE type = PUMP_INIT -> "pump_init"
                   [] type = SUPPLY_COMPLETED -> "supply_completed"
                   [] type = FUEL_REPLENISHMENT -> "fuel_replenishment"
                   [] type = SUPPLY_ERROR -> "supply_error"
                   [] OTHER -> Thrown

MapUplink ==
  /\ linked /\ uplink # <<>>
  /\ LET doc == Head(uplink) channel == Channel(doc.type) IN
       \/ channel = Thrown /\ UNCHANGED <<twin, downlink>>
       \/ /\ channel # Thrown
          /\ twin' = [twin EXCEPT ![channel] = doc]
          /\ IF echo THEN Emit(Event(doc.type)) ELSE UNCHANGED downlink
  /\ uplink' = Tail(uplink)
  /\ UNCHANGED <<managerVars, echo, linked, retained, online, stock, response, left, emitted, answered, last>>

(* Ditto's connection comes back with a new subscription, for which the    *)
(* broker sends what it retained.                                          *)
DittoConnects ==
  /\ ~linked /\ linked' = TRUE
  /\ uplink' = IF retained = None THEN <<>> ELSE <<retained>>
  /\ UNCHANGED <<managerVars, twin, echo, retained, deviceVars, left, history>>

DittoDrops ==
  /\ linked /\ left.twin > 0
  /\ linked' = FALSE /\ uplink' = <<>> /\ left' = [left EXCEPT !.twin = @ - 1]
  /\ UNCHANGED <<managerVars, twin, echo, retained, deviceVars, history>>

(* What the client has in its buffer is still handled, the rest is lost.   *)
DeviceOffline ==
  /\ online /\ left.device > 0
  /\ online' = FALSE /\ left' = [left EXCEPT !.device = @ - 1]
  /\ \E n \in 0..Len(downlink) : downlink' = SubSeq(downlink, 1, n)
  /\ UNCHANGED <<managerVars, twin, brokerVars, stock, response, history>>

-----------------------------------------------------------------------------
(* The device. mqtt_message_callback on one message, up to its publish: an *)
(* authorisation runs a supply, UNKNOWN is dropped, and every other type   *)
(* leaves the response as the empty document it was declared.              *)
UncheckedType(event) == IF event.type \in {SUPPLY_COMPLETED, ABSENT} THEN SUPPLY_AUTHORIZED ELSE event.type \* mutant
get_message_type(event) == IF event.type = ABSENT THEN PUMP_INIT ELSE event.type

(* It fails on an empty tank, and when nobody presses the button.          *)
SupplyFuelSilently == \* mutant
  /\ answered' = answered
  /\ \/ stock > 0 /\ stock' = stock - 1 /\ response' = create_supply_completed_message(stock - 1)
     \/ response' = None /\ UNCHANGED stock
SupplyFuel ==
  /\ answered' = answered + 1
  /\ \/ /\ stock > 0
        /\ \E s \in 0..(stock - 1) : stock' = s /\ response' = create_supply_completed_message(s)
     \/ response' = create_supply_error_message /\ UNCHANGED stock

Callback ==
  /\ response = None /\ downlink # <<>>
  /\ downlink' = Tail(downlink)
  /\ LET event == Head(downlink) type == get_message_type(event) IN
       \/ type = SUPPLY_AUTHORIZED /\ SupplyFuel
       \/ type = UNKNOWN /\ UNCHANGED <<stock, response, answered>>
       \/ type \notin {SUPPLY_AUTHORIZED, UNKNOWN} /\ response' = null /\ UNCHANGED <<stock, answered>>
  /\ UNCHANGED <<managerVars, twin, brokerVars, online, left, emitted, last>>

(* publish_message: retained, at QoS 0; without a connection it is false,  *)
(* which neither caller looks at.                                          *)
RetainNothing(doc) == None \* mutant
Retain(doc) == doc

publish_message ==
  /\ response # None
  /\ IF online
     THEN /\ retained' = Retain(response) /\ last' = response
          /\ uplink' = IF linked THEN Append(uplink, response) ELSE uplink
     ELSE UNCHANGED <<retained, uplink, last>>
  /\ response' = None
  /\ UNCHANGED <<managerVars, twin, echo, linked, online, downlink, stock, left, emitted, answered>>

(* connect_mqtt: nothing is published and nothing asked of the twin.       *)
connect_mqtt ==
  /\ ~online /\ response = None /\ online' = TRUE
  /\ UNCHANGED <<managerVars, twin, brokerVars, downlink, stock, response, left, history>>

(* setup() after a loss of power: the stock is the constant of the build   *)
(* again, and announce_pump tells it.                                      *)
Restart ==
  /\ left.restarts > 0 /\ left' = [left EXCEPT !.restarts = @ - 1]
  /\ online' = TRUE /\ downlink' = <<>> /\ stock' = Stock
  /\ response' = create_pump_init_message(Stock)
  /\ UNCHANGED <<managerVars, twin, brokerVars, history>>

Device == Callback \/ publish_message \/ connect_mqtt
Ditto == ConsumeOrder \/ MapUplink \/ DittoConnects
Next == Device \/ Ditto \/ PlaceOrder \/ DittoDrops \/ DeviceOffline \/ Restart

Spec == Init /\ [][Next]_vars
Fairness == WF_vars(Callback) /\ WF_vars(publish_message) /\ WF_vars(connect_mqtt)
            /\ WF_vars(ConsumeOrder) /\ WF_vars(MapUplink) /\ WF_vars(DittoConnects)
FairSpec == Spec /\ Fairness

-----------------------------------------------------------------------------
TwinTypeOK ==
  /\ orders \in Seq(OrderTypes) /\ Len(orders) <= MaxOrders /\ offset \in 0..Len(orders)
  /\ \A f \in Features : twin[f] \in [type : 0..6, stock : 0..Stock]
  /\ {echo, linked, online} \subseteq BOOLEAN
  /\ uplink \in Seq(Document \cup {null}) /\ retained \in Document \cup {null, None}
  /\ response \in Document \cup {null, None} /\ stock \in 0..Stock
  /\ \A n \in {emitted, answered} : n \in Nat

(* The device answers authorisations only: neither the events of its own   *)
(* uplinks nor an order of another kind make it run the pump or report a   *)
(* supply, though all of them arrive on the one downlink topic.            *)
OnlyAuthorizations == answered <= emitted

(* The answers do not feed themselves: an event of an uplink makes the     *)
(* device publish an empty document, on which the mapping throws, so the   *)
(* traffic that an order starts comes to an end.                           *)
Settles == <>[](uplink = <<>> /\ downlink = <<>> /\ response = None)

(* What the device published last reaches its feature of the twin, though  *)
(* Ditto was away when it was sent: the broker retains it. (The empty      *)
(* document has no feature, and takes the place of what was retained.)     *)
CatchesUp == <>[](last \notin {None, null} => twin[Channel(last.type)] = last)

(* While the device's connection stays up, every authorisation gets its    *)
(* answer, a repeated one too.                                             *)
Undisturbed == left.device = DeviceDrops /\ left.restarts = Restarts
OrdersAnswered == []Undisturbed => <>[](answered = emitted)

(* "Only handle authorized_supply messages"                                *)
(* (kafkaIncomingJavaScriptMapping.js).                                    *)
OnlyAuthorizationsMapped == twin["authorize_supply"] \in {null, [type |-> SUPPLY_AUTHORIZED, stock |-> 0]}
=============================================================================
