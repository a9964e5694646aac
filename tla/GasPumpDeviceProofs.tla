------------------------ MODULE GasPumpDeviceProofs -------------------------
(* Safety of the firmware's thread, and its refinement of SupplyService,   *)
(* for every tank, message set and bound.                                  *)
EXTENDS GasPumpDevice, PumpProofs

(* Whatever the thread or its environment does, the pump sees a step of    *)
(* its own specification or the restart after a payload that did not parse.*)
LEMMA PumpSide ==
  ASSUME [DeviceNext]_allVars
  PROVE  [Next]_vars \/ (Start("PAYLOAD") /\ UNCHANGED button)
<1>1. ASSUME NEW r \in Residue, Supply(r) PROVE Next
  BY <1>1 DEF Supply, PumpStep, Next
<1>2. CASE DuringSupply \/ SetupPump
  BY <1>2 DEF DuringSupply, SetupPump, PumpStep, Next
<1>3. CASE Customer \/ LosePower
  BY <1>3 DEF Customer, LosePower, Next
<1>4. CASE Malformed
  BY <1>4 DEF Malformed
<1>5. CASE \/ WifiConnected \/ NtpReady \/ EnterMqtt \/ SocketOpens \/ ConnAck
           \/ SendSubscribe \/ SubscribeRefused \/ SubAck
           \/ Announce \/ LoopTop \/ Update \/ UpdateDone \/ Discard \/ Dispatch
           \/ Ignore \/ OtherType \/ Supplied \/ Publish \/ Failures
           \/ WifiUp \/ WifiDown \/ BrokerAccepts \/ BrokerSubscribes \/ BrokerDrops
  BY <1>5 DEF WifiConnected, NtpReady, EnterMqtt, SocketOpens, ConnAck, SendSubscribe,
     SubscribeRefused, SubAck, Announce, LoopTop, Update, UpdateDone, Discard, Dispatch, Ignore, OtherType, Supplied,
     Publish, PublishRefused, PublishSent, PublishFails, Failures, ConnectFails,
     SubscribeFails, UpdateFails, SocketCloses, SocketReopens, WifiUp, WifiDown, BrokerAccepts,
     BrokerSubscribes, BrokerDrops, Arrives
<1>6. ASSUME NEW m \in Downlinks, Deliver(m) PROVE UNCHANGED vars
  BY <1>6 DEF Deliver, Arrives
<1>7. ASSUME NEW known \in BOOLEAN, NtpEvent(known) PROVE UNCHANGED vars
  BY <1>7 DEF NtpEvent
<1>8. CASE UNCHANGED allVars
  BY <1>8 DEF allVars
<1> QED
  BY <1>1, <1>2, <1>3, <1>4, <1>5, <1>6, <1>7, <1>8 DEF DeviceNext, Thread, Environment

LEMMA PumpKept == PumpInv /\ [DeviceNext]_allVars => PumpInv'
<1> SUFFICES ASSUME PumpInv, [DeviceNext]_allVars PROVE PumpInv'
  OBVIOUS
<1>1. CASE [Next]_vars
  BY <1>1, NextInv
<1>2. CASE Start("PAYLOAD") /\ UNCHANGED button
  BY <1>2, StartInv DEF PumpInv, TypeOK
<1> QED
  BY <1>1, <1>2, PumpSide

-----------------------------------------------------------------------------
(* Where the thread is. The pump is unlocked only inside a supply, which   *)
(* only an authorisation starts; a pump not yet initialised means that     *)
(* setup has not got past init_pump; before that the client has either no  *)
(* callback registered or is done reading for now; and nothing beyond the  *)
(* wait for the time server happens without the time.                      *)
Starting == {"wifi", "ntp", "mqtt", "connect", "connack", "subscribe", "suback", "init"}
Working  == {"loop", "update", "yield", "callback", "supply", "respond"}

PlaceInv ==
  /\ pc = "reset" => setup /\ at \in Starting
  /\ at = "announce" => pc = "ready"
  /\ at = "init" => setup
  /\ at \in Working => ~setup
  /\ setup /\ registered => at \in {"init", "announce"}
  /\ pc \in {"press", "pour", "settle"} => at = "supply"
  /\ at = "supply" => Authorization
  /\ clock \/ at \in {"wifi", "ntp"}

(* A restart establishes the invariant, whatever the thread was doing.     *)
LEMMA ForgetPlace == Forget /\ pc' = "reset" => PlaceInv'
  BY DEF Forget, PlaceInv, Starting, Working

(* A step of the pump in a thread that is at a supply or at init_pump.     *)
LEMMA PumpStepPlace ==
  ASSUME PumpInv, PumpInv', DeviceTypeOK, PlaceInv,
         NEW ACTION A, NEW place \in {"supply", "announce"}, PumpStep(A, place),
         place = "supply" => at \in {"callback", "supply"} /\ Authorization,
         place = "announce" => at = "init" /\ (pc' # "reset" => pc' = "ready")
  PROVE  PlaceInv'
<1>1. CASE pc' = "reset"
  BY <1>1, ForgetPlace DEF PumpStep
<1>2. CASE pc' # "reset"
  BY <1>2 DEF PumpStep, linkVars, PlaceInv, Starting, Working, Authorization
<1> QED
  BY <1>1, <1>2

LEMMA PlaceKept ==
  PumpInv /\ PumpInv' /\ DeviceTypeOK /\ PlaceInv /\ [DeviceNext]_allVars => PlaceInv'
<1> SUFFICES ASSUME PumpInv, PumpInv', DeviceTypeOK, PlaceInv, [DeviceNext]_allVars
             PROVE  PlaceInv'
  OBVIOUS
<1> USE DEF PlaceInv, Starting, Working, Reading, Arrives
<1>1. ASSUME NEW r \in Residue, Supply(r) PROVE PlaceInv'
  BY <1>1, PumpStepPlace DEF Supply
<1>2. CASE DuringSupply
  BY <1>2, PumpStepPlace DEF DuringSupply
<1>3. CASE SetupPump
  <2>1. pc' # "reset" => pc' = "ready"
    BY <1>3 DEF SetupPump, PumpStep, InitPump, ErrorCheck, Start, Constructed
  <2> QED
    BY <1>3, <2>1, PumpStepPlace DEF SetupPump
<1>4. CASE Customer
  BY <1>4 DEF Customer, Press, Release, pumpVars, deviceVars, threadVars, linkVars, Authorization
<1>5. CASE LosePower
  BY <1>5, ForgetPlace DEF LosePower, PowerCycle, Start, Constructed
<1>6. CASE Malformed
  BY <1>6, ForgetPlace DEF Malformed, Start, Constructed
<1>7. CASE \/ WifiConnected \/ NtpReady \/ LoopTop \/ Update \/ UpdateDone
  BY <1>7 DEF WifiConnected, NtpReady, LoopTop, Update, UpdateDone, TimeKnown, GoTo,
     vars, pumpVars, linkVars
<1>8. CASE EnterMqtt \/ SocketOpens \/ ConnAck \/ SendSubscribe
  BY <1>8 DEF EnterMqtt, SocketOpens, ConnAck, SendSubscribe, AfterMqtt, AfterConnect, GoTo,
     KeepTime, vars, pumpVars, Authorization
<1>17. CASE SubscribeRefused \/ SubAck \/ Discard
  BY <1>17 DEF SubscribeRefused, SubAck, Discard, Finds, Awaited, AfterMqtt, GoTo, KeepTime,
     vars, pumpVars, linkVars, Authorization
<1>9. CASE Failures
  BY <1>9 DEF Failures, ConnectFails, SubscribeFails, UpdateFails, SocketCloses, SocketReopens,
     AfterMqtt, GoTo, KeepTime, CloseClient, vars, pumpVars, threadVars, Authorization
<1>10. CASE Dispatch
  BY <1>10 DEF Dispatch, KeepTime, vars, pumpVars, DeviceTypeOK
<1>11. CASE Supplied \/ Ignore \/ OtherType \/ Announce
  BY <1>11 DEF Supplied, Ignore, OtherType, Announce, vars, pumpVars, linkVars,
     DeviceTypeOK, ThreadTypeOK
<1>12. CASE Publish
  BY <1>12 DEF Publish, PublishRefused, PublishSent, PublishFails, Resume, KeepTime, CloseClient,
     vars, pumpVars, linkVars, DeviceTypeOK, ThreadTypeOK
<1>13. CASE WifiUp \/ WifiDown \/ BrokerAccepts \/ BrokerSubscribes \/ BrokerDrops
  BY <1>13 DEF WifiUp, WifiDown, BrokerAccepts, BrokerSubscribes, BrokerDrops, KeepTime,
     vars, pumpVars, threadVars, Authorization
<1>14. ASSUME NEW m \in Downlinks, Deliver(m) PROVE PlaceInv'
  BY <1>14 DEF Deliver, KeepTime, vars, pumpVars, threadVars, Authorization
<1>15. ASSUME NEW known \in BOOLEAN, NtpEvent(known) PROVE PlaceInv'
  BY <1>15 DEF NtpEvent, vars, pumpVars, threadVars, Authorization
<1>16. CASE UNCHANGED allVars
  BY <1>16 DEF allVars, deviceVars, vars, pumpVars, threadVars, linkVars, Authorization
<1> QED
  BY <1>1, <1>2, <1>3, <1>4, <1>5, <1>6, <1>7, <1>8, <1>9, <1>10, <1>11, <1>12, <1>13,
     <1>14, <1>15, <1>16, <1>17
  DEF DeviceNext, Thread, Environment

-----------------------------------------------------------------------------
LEMMA ConstantsTyped ==
  /\ NoMessage \in Downlink /\ Ack("CONNACK") \in Packet /\ Ack("SUBACK") \in Packet
  /\ NoDocument \in [type : 0..5, amount : Double, stock : Nat]
  BY DEF Ack, Packet, NoMessage, NoDocument, Downlink, Double, UNKNOWN

LEMMA TypesKept ==
  /\ ThreadTypeOK /\ UNCHANGED threadVars => ThreadTypeOK'
  /\ LinkTypeOK /\ UNCHANGED linkVars => LinkTypeOK'
  /\ CountTypeOK /\ UNCHANGED countVars => CountTypeOK'
  BY DEF ThreadTypeOK, threadVars, LinkTypeOK, linkVars, CountTypeOK, countVars

LEMMA GoToTyped ==
  ASSUME ThreadTypeOK, NEW place \in Places, GoTo(place)
  PROVE  ThreadTypeOK'
  BY DEF ThreadTypeOK, GoTo

LEMMA ForgetTyped == DeviceTypeOK /\ Forget /\ outages' \in Nat => DeviceTypeOK'
<1> SUFFICES ASSUME DeviceTypeOK, Forget, outages' \in Nat PROVE DeviceTypeOK'
  OBVIOUS
<1>1. ThreadTypeOK'
  BY ConstantsTyped DEF Forget, ThreadTypeOK, Places
<1>2. clock' \in BOOLEAN /\ inbox' \in Seq(Packet)
  BY DEF Forget
<1>3. LinkTypeOK'
  BY <1>2 DEF Forget, DeviceTypeOK, LinkTypeOK
<1>4. CountTypeOK'
  BY DEF Forget, DeviceTypeOK, CountTypeOK
<1> QED
  BY <1>1, <1>3, <1>4 DEF DeviceTypeOK

LEMMA PumpStepTyped ==
  ASSUME DeviceTypeOK, NEW ACTION A, NEW place \in {"supply", "announce"}, PumpStep(A, place)
  PROVE  DeviceTypeOK'
<1>1. CASE pc' = "reset"
  BY <1>1, ForgetTyped DEF PumpStep, DeviceTypeOK, CountTypeOK
<1>2. CASE pc' # "reset"
  <2>1. ThreadTypeOK'
    BY <1>2 DEF PumpStep, DeviceTypeOK, ThreadTypeOK, Places
  <2> QED
    BY <1>2, <2>1, TypesKept DEF PumpStep, DeviceTypeOK
<1> QED
  BY <1>1, <1>2

LEMMA DeviceNextTyped == TypeOK /\ DeviceTypeOK /\ [DeviceNext]_allVars => DeviceTypeOK'
<1> SUFFICES ASSUME TypeOK, ThreadTypeOK, LinkTypeOK, CountTypeOK, [DeviceNext]_allVars
             PROVE  ThreadTypeOK' /\ LinkTypeOK' /\ CountTypeOK'
  BY DEF DeviceTypeOK
<1> DEFINE Typed == ThreadTypeOK' /\ LinkTypeOK' /\ CountTypeOK'
<1>0. DeviceTypeOK
  BY DEF DeviceTypeOK
<1>1. ASSUME NEW r \in Residue, Supply(r) PROVE Typed
  BY <1>0, <1>1, PumpStepTyped DEF Supply, DeviceTypeOK
<1>2. CASE DuringSupply \/ SetupPump
  BY <1>0, <1>2, PumpStepTyped DEF DuringSupply, SetupPump, DeviceTypeOK
<1>3. CASE LosePower \/ Malformed
  BY <1>0, <1>3, ForgetTyped DEF LosePower, Malformed, DeviceTypeOK, CountTypeOK
<1>4. CASE Customer
  BY <1>4, TypesKept DEF Customer, deviceVars
<1>5. CASE WifiConnected \/ NtpReady \/ LoopTop \/ Update \/ UpdateDone \/ SubscribeRefused
  <2>1. PICK place \in Places : GoTo(place)
    BY <1>5 DEF WifiConnected, NtpReady, LoopTop, Update, UpdateDone, SubscribeRefused,
       AfterMqtt, Places
  <2>2. UNCHANGED <<linkVars, countVars>>
    BY <1>5 DEF WifiConnected, NtpReady, LoopTop, Update, UpdateDone, SubscribeRefused
  <2> QED
    BY <2>1, <2>2, GoToTyped, TypesKept
<1>6. CASE EnterMqtt \/ SocketOpens \/ ConnAck \/ SendSubscribe \/ SubAck
  <2>1. PICK place \in Places : GoTo(place)
    BY <1>6 DEF EnterMqtt, SocketOpens, ConnAck, SendSubscribe, SubAck, AfterMqtt, AfterConnect,
       Places
  <2>2. UNCHANGED countVars
    BY <1>6 DEF EnterMqtt, SocketOpens, ConnAck, SendSubscribe, SubAck
  <2>3. inbox' \in Seq(Packet)
    BY <1>6 DEF EnterMqtt, SocketOpens, ConnAck, SendSubscribe, SubAck, Finds, LinkTypeOK
  <2>4. LinkTypeOK'
    BY <1>6, <2>3 DEF EnterMqtt, SocketOpens, ConnAck, SendSubscribe, SubAck, KeepTime, LinkTypeOK
  <2> QED
    BY <2>1, <2>2, <2>4, GoToTyped, TypesKept
<1>7. CASE ConnectFails \/ SubscribeFails \/ UpdateFails
  <2>1. PICK place \in Places : GoTo(place)
    BY <1>7 DEF ConnectFails, SubscribeFails, UpdateFails, AfterMqtt, Places
  <2>2. UNCHANGED countVars
    BY <1>7 DEF ConnectFails, SubscribeFails, UpdateFails
  <2>3. LinkTypeOK'
    BY <1>7 DEF ConnectFails, SubscribeFails, UpdateFails, KeepTime, CloseClient, LinkTypeOK
  <2> QED
    BY <2>1, <2>2, <2>3, GoToTyped, TypesKept
<1>8. CASE Discard \/ Dispatch
  <2>1. inbox' \in Seq(Packet)
    <3>1. inbox \in Seq(Packet) /\ inbox # <<>> /\ inbox' = Tail(inbox)
      BY <1>8 DEF Discard, Dispatch, Finds, LinkTypeOK
    <3> QED
      BY <3>1
  <2>2. LinkTypeOK'
    BY <1>8, <2>1 DEF Discard, Dispatch, KeepTime, LinkTypeOK
  <2>3. UNCHANGED countVars
    BY <1>8 DEF Discard, Dispatch
  <2>4. CASE Discard
    BY <2>2, <2>3, <2>4, TypesKept DEF Discard, ThreadTypeOK
  <2>5. CASE Dispatch
    <3>1. Head(inbox) \in Packet
      BY <2>5 DEF Dispatch, Finds, LinkTypeOK
    <3>2. msg' \in Downlink
      BY <2>5, <3>1 DEF Dispatch, Packet
    <3>3. ThreadTypeOK'
      BY <2>5, <3>2 DEF Dispatch, Reading, ThreadTypeOK, Places
    <3> QED
      BY <2>2, <2>3, <3>3, TypesKept
  <2> QED
    BY <1>8, <2>4, <2>5
<1>9. CASE Supplied
  <2>1. GetStock \subseteq Nat /\ amount \in Double /\ 0 \in Double
    BY GetStockTyped DEF TypeOK, Double
  <2>2. response' \in [type : 0..5, amount : Double, stock : Nat]
    BY <1>9, <2>1 DEF Supplied, Report, SUPPLY_COMPLETED, SUPPLY_ERROR
  <2>3. ThreadTypeOK'
    BY <1>9, <2>2 DEF Supplied, ThreadTypeOK, Places
  <2>4. CountTypeOK'
    BY <1>9 DEF Supplied, CountTypeOK
  <2> QED
    BY <1>9, <2>3, <2>4, TypesKept DEF Supplied
<1>10. CASE Announce
  <2>1. GetStock \subseteq Nat /\ 0 \in Double
    BY GetStockTyped DEF TypeOK, Double
  <2>2. response' \in [type : 0..5, amount : Double, stock : Nat]
    BY <1>10, <2>1 DEF Announce, Report, PUMP_INIT
  <2>3. ThreadTypeOK'
    BY <1>10, <2>2 DEF Announce, ThreadTypeOK, Places
  <2> QED
    BY <1>10, <2>3, TypesKept DEF Announce
<1>11. CASE Ignore \/ OtherType
  <2>1. ThreadTypeOK'
    BY <1>11, ConstantsTyped DEF Ignore, OtherType, ThreadTypeOK, Places
  <2> QED
    BY <1>11, <2>1, TypesKept DEF Ignore, OtherType
<1>12. CASE Publish
  <2>1. Resume
    BY <1>12 DEF Publish, PublishRefused, PublishSent, PublishFails
  <2>2. ThreadTypeOK'
    BY <2>1, ConstantsTyped DEF Resume, ThreadTypeOK, Places
  <2>3. CASE PublishRefused
    BY <2>2, <2>3, TypesKept DEF PublishRefused
  <2>4. CASE PublishFails
    <3>1. LinkTypeOK'
      BY <2>4 DEF PublishFails, KeepTime, CloseClient, LinkTypeOK
    <3> QED
      BY <2>2, <2>4, <3>1, TypesKept DEF PublishFails
  <2>5. CASE PublishSent
    <3>1. reported' \in Nat /\ announced' \in BOOLEAN
      BY <2>5 DEF PublishSent, CountTypeOK
    <3>2. CountTypeOK'
      BY <2>5, <3>1 DEF PublishSent, CountTypeOK
    <3> QED
      BY <2>2, <2>5, <3>2, TypesKept DEF PublishSent
  <2> QED
    BY <1>12, <2>3, <2>4, <2>5 DEF Publish
<1>13. CASE WifiUp \/ WifiDown \/ BrokerDrops \/ SocketCloses \/ SocketReopens
  <2>1. LinkTypeOK'
    BY <1>13 DEF WifiUp, WifiDown, BrokerDrops, SocketCloses, SocketReopens,
       KeepTime, LinkTypeOK
  <2> QED
    BY <1>13, <2>1, TypesKept DEF WifiUp, WifiDown, BrokerDrops, SocketCloses, SocketReopens
<1>14. ASSUME NEW packet \in Packet, Arrives(packet),
              session' \in {"none", "open", "accepted", "subscribed"}, sent' \in Nat
       PROVE  Typed
  <2>1. inbox' \in Seq(Packet)
    BY <1>14 DEF Arrives, LinkTypeOK
  <2>2. LinkTypeOK'
    BY <1>14, <2>1 DEF Arrives, KeepTime, LinkTypeOK
  <2> QED
    BY <1>14, <2>2, TypesKept DEF Arrives
<1>15. CASE BrokerAccepts \/ BrokerSubscribes
  BY <1>14, <1>15, ConstantsTyped DEF BrokerAccepts, BrokerSubscribes, LinkTypeOK
<1>16. ASSUME NEW m \in Downlinks, Deliver(m) PROVE Typed
  <2>1. [kind |-> "PUBLISH", body |-> m] \in Packet
    BY MessageAssumption DEF Packet
  <2> QED
    BY <1>14, <1>16, <2>1 DEF Deliver, LinkTypeOK
<1>17. ASSUME NEW known \in BOOLEAN, NtpEvent(known) PROVE Typed
  <2>1. LinkTypeOK'
    BY <1>17 DEF NtpEvent, LinkTypeOK
  <2> QED
    BY <1>17, <2>1, TypesKept DEF NtpEvent
<1>18. CASE UNCHANGED allVars
  BY <1>18, TypesKept DEF allVars, deviceVars
<1> QED
  BY <1>1, <1>2, <1>3, <1>4, <1>5, <1>6, <1>7, <1>8, <1>9, <1>10, <1>11, <1>12, <1>13,
     <1>15, <1>16, <1>17, <1>18
  DEF DeviceNext, Thread, Failures, Environment

-----------------------------------------------------------------------------
(* The subscription. SUBSCRIBE was sent on every socket that is open,      *)
(* unless a read opened it again, or the client is still inside connect(), *)
(* perhaps in a callback made from there, or about to subscribe; then      *)
(* is_connected is set, so that subscribe() can only be refused when the   *)
(* socket is closed.                                                       *)
LinkInv ==
  /\ ws => \/ asked \/ reopened \/ at \in {"connack", "subscribe"}
           \/ at \in {"callback", "supply", "respond"} /\ resume = "connack"
  /\ at = "subscribe" => is_connected

LEMMA LinkKept == DeviceTypeOK /\ LinkInv /\ [DeviceNext]_allVars => LinkInv'
<1> SUFFICES ASSUME DeviceTypeOK, LinkInv, [DeviceNext]_allVars PROVE LinkInv'
  OBVIOUS
<1> USE DEF LinkInv, KeepTime
<1>1. CASE Forget
  BY <1>1 DEF Forget
<1>2. ASSUME NEW ACTION A, NEW place \in {"supply", "announce"}, PumpStep(A, place),
             at \in {"init", "callback", "supply"}, at = "init" <=> place = "announce"
      PROVE  LinkInv'
  BY <1>1, <1>2 DEF PumpStep, linkVars
<1>3. CASE WifiConnected \/ NtpReady \/ LoopTop \/ Update \/ UpdateDone
  BY <1>3 DEF WifiConnected, NtpReady, LoopTop, Update, UpdateDone, GoTo, linkVars
<1>4. CASE EnterMqtt \/ SocketOpens \/ ConnAck \/ SendSubscribe
  BY <1>4 DEF EnterMqtt, SocketOpens, ConnAck, SendSubscribe, AfterMqtt, AfterConnect, GoTo
<1>5. CASE SubscribeRefused \/ SubAck
  BY <1>5 DEF SubscribeRefused, SubAck, Connected, AfterMqtt, GoTo, linkVars
<1>6. CASE Failures
  BY <1>6 DEF Failures, ConnectFails, SubscribeFails, UpdateFails, SocketCloses, SocketReopens,
     AfterMqtt, GoTo, CloseClient, threadVars
<1>7. CASE Discard \/ Dispatch
  BY <1>7 DEF Discard, Dispatch, Reading
<1>8. CASE Supplied \/ Ignore \/ OtherType \/ Announce
  BY <1>8 DEF Supplied, Ignore, OtherType, Announce, linkVars, DeviceTypeOK, ThreadTypeOK
<1>9. CASE Publish
  BY <1>9 DEF Publish, PublishRefused, PublishSent, PublishFails, Resume, CloseClient,
     linkVars, DeviceTypeOK, ThreadTypeOK
<1>10. CASE WifiUp \/ WifiDown \/ BrokerDrops
  BY <1>10 DEF WifiUp, WifiDown, BrokerDrops, threadVars
<1>13. ASSUME NEW packet, Arrives(packet) PROVE LinkInv'
  BY <1>13 DEF Arrives, threadVars
<1>14. ASSUME NEW known \in BOOLEAN, NtpEvent(known) PROVE LinkInv'
  BY <1>14 DEF NtpEvent, threadVars
<1>11. CASE Customer \/ UNCHANGED allVars
  BY <1>11 DEF Customer, allVars, deviceVars, threadVars, linkVars
<1>12. CASE LosePower \/ Malformed
  BY <1>1, <1>12 DEF LosePower, Malformed
<1> QED
  BY <1>2, <1>3, <1>4, <1>5, <1>6, <1>7, <1>8, <1>9, <1>10, <1>11, <1>12, <1>13, <1>14
  DEF DeviceNext, Thread, Environment, Supply, DuringSupply, SetupPump, BrokerAccepts,
  BrokerSubscribes, Deliver

-----------------------------------------------------------------------------
(* The invariant of the device: the pump's own, and the four above. The    *)
(* report that is about to go out counts as one of the supplies served.    *)
DeviceInv == PumpInv /\ DeviceTypeOK /\ PlaceInv /\ LinkInv /\ NoPhantomReports

(* A step the service does not see: it leaves the motor, the counts and    *)
(* the document alone, and is not in a supply or a report, or stays there. *)
Unseen ==
  /\ UNCHANGED <<relay, served, reported, response>>
  /\ at' = at \/ (at \notin {"supply", "respond"} /\ at' \notin {"supply", "respond"})

(* All the steps but those below are unseen.                               *)
Seen ==
  \/ \E r \in Residue : Supply(r)
  \/ DuringSupply \/ SetupPump \/ LosePower \/ Malformed
  \/ Supplied \/ Announce \/ OtherType \/ Publish

LEMMA SeenOrUnseen ==
  ASSUME DeviceTypeOK, [DeviceNext]_allVars
  PROVE  Seen \/ Unseen
<1> USE DEF Unseen
<1>1. CASE Customer
  BY <1>1 DEF Customer, Press, Release, pumpVars, deviceVars, threadVars, countVars
<1>2. CASE \/ WifiConnected \/ NtpReady \/ LoopTop \/ Update \/ UpdateDone
  BY <1>2 DEF WifiConnected, NtpReady, LoopTop, Update, UpdateDone, GoTo,
     vars, pumpVars, countVars
<1>3. CASE \/ EnterMqtt \/ SocketOpens \/ ConnAck \/ SendSubscribe \/ SubscribeRefused
           \/ SubAck \/ Discard
  BY <1>3 DEF EnterMqtt, SocketOpens, ConnAck, SendSubscribe, SubscribeRefused, SubAck, Discard,
     AfterMqtt, AfterConnect, GoTo, vars, pumpVars, countVars
<1>4. CASE Failures
  BY <1>4 DEF Failures, ConnectFails, SubscribeFails, UpdateFails, SocketCloses, SocketReopens,
     AfterMqtt, GoTo, vars, pumpVars, threadVars, countVars
<1>5. CASE Dispatch
  BY <1>5 DEF Dispatch, Reading, vars, pumpVars, countVars
<1>6. CASE Ignore
  BY <1>6 DEF Ignore, vars, pumpVars, countVars, DeviceTypeOK, ThreadTypeOK
<1>7. CASE WifiUp \/ WifiDown \/ BrokerAccepts \/ BrokerSubscribes \/ BrokerDrops
  BY <1>7 DEF WifiUp, WifiDown, BrokerAccepts, BrokerSubscribes, BrokerDrops, Arrives,
     vars, pumpVars, threadVars, countVars
<1>8. ASSUME NEW m \in Downlinks, Deliver(m) PROVE Unseen
  BY <1>8 DEF Deliver, Arrives, vars, pumpVars, threadVars, countVars
<1>9. ASSUME NEW known \in BOOLEAN, NtpEvent(known) PROVE Unseen
  BY <1>9 DEF NtpEvent, vars, pumpVars, threadVars, countVars
<1>10. CASE UNCHANGED allVars
  BY <1>10 DEF allVars, deviceVars, vars, pumpVars, threadVars, countVars
<1> QED
  BY <1>1, <1>2, <1>3, <1>4, <1>5, <1>6, <1>7, <1>8, <1>9, <1>10
  DEF DeviceNext, Thread, Environment, Seen

LEMMA ReportsKept ==
  ASSUME DeviceInv, [DeviceNext]_allVars
  PROVE  NoPhantomReports'
<1> USE DEF DeviceInv, NoPhantomReports
<1>0. served \in Nat /\ reported \in Nat
  BY DEF DeviceTypeOK, CountTypeOK
<1>1. CASE Unseen
  BY <1>1 DEF Unseen
<1>2. ASSUME NEW ACTION A, NEW place, PumpStep(A, place) PROVE NoPhantomReports'
  BY <1>0, <1>2 DEF PumpStep, Forget, NoDocument, countVars, SUPPLY_COMPLETED, UNKNOWN
<1>3. CASE LosePower \/ Malformed
  BY <1>0, <1>3 DEF LosePower, Malformed, Forget, NoDocument, SUPPLY_COMPLETED, UNKNOWN
<1>4. CASE Supplied
  BY <1>0, <1>4 DEF Supplied, Report, SUPPLY_COMPLETED, SUPPLY_ERROR
<1>5. CASE Announce \/ OtherType
  BY <1>0, <1>5 DEF Announce, OtherType, NoDocument, Report, countVars,
     SUPPLY_COMPLETED, PUMP_INIT, UNKNOWN
<1>6. CASE Publish
  BY <1>0, <1>6 DEF Publish, PublishRefused, PublishSent, PublishFails, Resume, NoDocument,
     countVars, SUPPLY_COMPLETED, UNKNOWN
<1> QED
  BY <1>1, <1>2, <1>3, <1>4, <1>5, <1>6, SeenOrUnseen
  DEF Seen, Supply, DuringSupply, SetupPump

LEMMA DeviceStep == DeviceInv /\ [DeviceNext]_allVars => DeviceInv'
  BY PumpKept, DeviceNextTyped, PlaceKept, LinkKept, ReportsKept DEF DeviceInv, PumpInv

LEMMA DeviceStart == DeviceInit => DeviceInv
<1> SUFFICES ASSUME DeviceInit PROVE DeviceInv
  OBVIOUS
<1>1. PumpInv
  BY InitInv DEF DeviceInit
<1>2. inbox \in Seq(Packet)
  BY DEF DeviceInit
<1>3. DeviceTypeOK
  BY <1>2, ConstantsTyped DEF DeviceInit, DeviceTypeOK, ThreadTypeOK, LinkTypeOK, CountTypeOK, Places
<1>4. PlaceInv
  BY DEF DeviceInit, Init, Constructed, PlaceInv, Starting, Working
<1>5. NoPhantomReports
  BY DEF DeviceInit, NoPhantomReports, NoDocument, SUPPLY_COMPLETED, UNKNOWN
<1>6. LinkInv
  BY DEF DeviceInit, LinkInv
<1> QED
  BY <1>1, <1>3, <1>4, <1>5, <1>6 DEF DeviceInv

LEMMA DeviceInvariant == DeviceSpec => []DeviceInv
  BY DeviceStart, DeviceStep, PTL DEF DeviceSpec

-----------------------------------------------------------------------------
(* The variables of the thread and the link keep their types.              *)
THEOREM DeviceTyped == DeviceSpec => []DeviceTypeOK
<1>1. DeviceInv => DeviceTypeOK
  BY DEF DeviceInv
<1> QED
  BY <1>1, DeviceInvariant, PTL

(* No ESP_ERROR_CHECK of the pump fires in the whole program either: the   *)
(* callback and setup use the class as its own specification asks.         *)
THEOREM DeviceNeverAborts == DeviceSpec => []NeverAborts
<1>1. DeviceInv => NeverAborts
  BY DEF DeviceInv, PumpInv
<1> QED
  BY <1>1, DeviceInvariant, PTL

(* The callback never runs on a pump that is not initialised or is busy.   *)
THEOREM DeviceCallsOnReadyPump == DeviceSpec => []CallsOnReadyPump
<1>1. DeviceInv => CallsOnReadyPump
  BY DEF DeviceInv, PumpInv, TypeOK, PlaceInv, CallsOnReadyPump, Starting
<1> QED
  BY <1>1, DeviceInvariant, PTL

(* The pump is unlocked only while an authorisation is being handled.      *)
THEOREM DeviceOpenOnlyForAuthorization == DeviceSpec => []OpenOnlyForAuthorization
<1>1. DeviceInv => OpenOnlyForAuthorization
  BY DEF DeviceInv, PlaceInv, OpenOnlyForAuthorization, Authorization
<1> QED
  BY <1>1, DeviceInvariant, PTL

(* The pump is locked, dark and still whenever the thread is anywhere else.*)
THEOREM DeviceQuietWhenReporting == DeviceSpec => []QuietWhenReporting
<1>1. DeviceInv => QuietWhenReporting
  BY DEF DeviceInv, PumpInv, Levels, TypeOK, PlaceInv, QuietWhenReporting, Starting
<1> QED
  BY <1>1, DeviceInvariant, PTL

(* The broker never counts more completions than there were supplies.      *)
THEOREM DeviceNoPhantomReports == DeviceSpec => []NoPhantomReports
<1>1. DeviceInv => NoPhantomReports
  BY DEF DeviceInv
<1> QED
  BY <1>1, DeviceInvariant, PTL

(* No message is built before the clock is set.                            *)
THEOREM DeviceTimestampsAreReal == DeviceSpec => []TimestampsAreReal
<1>1. DeviceInv => TimestampsAreReal
  BY DEF DeviceInv, PlaceInv, TimestampsAreReal
<1> QED
  BY <1>1, DeviceInvariant, PTL

(* A loop that believes it is connected has asked for its subscription.    *)
THEOREM DeviceSubscribedInLoop == DeviceSpec => []SubscribedInLoop
<1>1. DeviceInv => SubscribedInLoop
  BY DEF DeviceInv, LinkInv, SubscribedInLoop, Connected
<1> QED
  BY <1>1, DeviceInvariant, PTL

-----------------------------------------------------------------------------
(* The refinement: what each step of the device is to the service.         *)

LEMMA IdleIsStill ==
  ASSUME DeviceInv, phase # "authorised"
  PROVE  relay # "HIGH"
<1>1. at # "supply"
  BY DEF phase
<1> QED
  BY <1>1 DEF DeviceInv, PumpInv, TypeOK, Levels, PlaceInv

LEMMA RestartRefines ==
  ASSUME DeviceInv', Forget, pc' = "reset"
  PROVE  Service!Restart
<1>1. relay' # "HIGH"
  BY DEF DeviceInv, PumpInv, Levels
<1> QED
  BY <1>1 DEF Service!Restart, Forget, phase

LEMMA StepRefines ==
  ASSUME DeviceInv, DeviceInv', [DeviceNext]_allVars
  PROVE  [Service!ServiceNext]_(Service!serviceVars)
<1> USE DEF Service!ServiceNext
<1>1. CASE Unseen
  <2>1. phase' = phase
    BY <1>1 DEF Unseen, phase
  <2> QED
    BY <1>1, <2>1 DEF Unseen, Service!serviceVars
<1>2. ASSUME NEW r \in Residue, Supply(r) PROVE Service!ServiceNext
  <2>1. CASE pc' = "reset"
    BY <1>2, <2>1, RestartRefines DEF Supply, PumpStep
  <2>2. CASE pc' # "reset"
    <3>1. phase = "idle" /\ phase' = "authorised" /\ UNCHANGED <<served, reported>>
      BY <1>2, <2>2 DEF Supply, PumpStep, phase, countVars
    <3>2. relay # "HIGH"
      BY <3>1, IdleIsStill
    <3>3. relay' = relay
      BY <1>2, <2>2 DEF Supply, PumpStep, RefuseSupply, AdmitSupply, ErrorCheck, Start, Constructed
    <3> QED
      BY <3>1, <3>2, <3>3 DEF Service!Authorise
  <2> QED
    BY <2>1, <2>2
<1>3. CASE DuringSupply
  <2>1. CASE pc' = "reset"
    BY <1>3, <2>1, RestartRefines DEF DuringSupply, PumpStep
  <2>2. CASE pc' # "reset"
    <3>1. phase = "authorised" /\ phase' = "authorised" /\ UNCHANGED <<served, reported>>
      BY <1>3, <2>2 DEF DuringSupply, PumpStep, phase, countVars
    <3> QED
      BY <3>1 DEF Service!Flow
  <2> QED
    BY <2>1, <2>2
<1>4. CASE SetupPump
  <2>1. CASE pc' = "reset"
    BY <1>4, <2>1, RestartRefines DEF SetupPump, PumpStep
  <2>2. CASE pc' # "reset"
    <3>1. phase = "idle" /\ phase' = "idle" /\ UNCHANGED <<served, reported>>
      BY <1>4, <2>2 DEF SetupPump, PumpStep, phase, countVars
    <3>2. relay # "HIGH" /\ relay' # "HIGH"
      BY <3>1, IdleIsStill, <1>4, <2>2
      DEF SetupPump, PumpStep, InitPump, ErrorCheck, Start, Constructed
    <3> QED
      BY <3>1, <3>2 DEF Service!serviceVars
  <2> QED
    BY <2>1, <2>2
<1>5. CASE LosePower \/ Malformed
  BY <1>5, RestartRefines DEF LosePower, PowerCycle, Malformed, Start, Constructed
<1>6. CASE Supplied
  <2>1. phase = "authorised" /\ UNCHANGED <<relay, reported>> /\ pc = "ready"
    BY <1>6 DEF Supplied, phase, vars, pumpVars
  <2>2. relay # "HIGH"
    BY <2>1 DEF DeviceInv, PumpInv, Levels
  <2>3. CASE ret = "OK"
    <3>1. phase' = "done" /\ served' = served + 1
      BY <1>6, <2>3 DEF Supplied, phase, Report
    <3> QED
      BY <2>1, <2>2, <3>1 DEF Service!Complete
  <2>4. CASE ret # "OK"
    <3>1. phase' = "idle" /\ served' = served
      BY <1>6, <2>4 DEF Supplied, phase, Report, SUPPLY_ERROR, SUPPLY_COMPLETED
    <3> QED
      BY <2>1, <2>2, <3>1 DEF Service!Decline
  <2> QED
    BY <2>3, <2>4
<1>7. CASE Announce \/ OtherType
  <2>1. phase = "idle" /\ phase' = "idle" /\ UNCHANGED <<relay, served, reported>>
    BY <1>7 DEF Announce, OtherType, NoDocument, Report, phase, vars, pumpVars, countVars,
       SUPPLY_COMPLETED, PUMP_INIT, UNKNOWN
  <2> QED
    BY <2>1 DEF Service!serviceVars
<1>8. CASE Publish
  <2>1. phase' = "idle" /\ UNCHANGED <<relay, served>>
    BY <1>8 DEF Publish, PublishRefused, PublishSent, PublishFails, Resume, DeviceInv,
       DeviceTypeOK, ThreadTypeOK, phase, vars, pumpVars, countVars
  <2>2. CASE response.type = SUPPLY_COMPLETED
    <3>1. phase = "done" /\ reported' \in {reported, reported + 1}
      BY <1>8, <2>2 DEF Publish, PublishRefused, PublishSent, PublishFails, phase, countVars
    <3> QED
      BY <2>1, <3>1 DEF Service!Signal
  <2>3. CASE response.type # SUPPLY_COMPLETED
    <3>1. phase = "idle" /\ reported' = reported
      BY <1>8, <2>3 DEF Publish, PublishRefused, PublishSent, PublishFails, phase, countVars
    <3> QED
      BY <2>1, <3>1 DEF Service!serviceVars
  <2> QED
    BY <2>2, <2>3
<1> QED
  BY <1>1, <1>2, <1>3, <1>4, <1>5, <1>6, <1>7, <1>8, SeenOrUnseen DEF Seen, DeviceInv

(* The device implements the service: fuel flows only under an             *)
(* authorisation, and a completed supply is signalled at most once.        *)
THEOREM DeviceKeepsPromise == DeviceSpec => KeepsPromise
<1>1. DeviceInit => Service!ServiceInit
  BY DEF DeviceInit, Init, Constructed, phase, Service!ServiceInit
<1>2. DeviceInv /\ DeviceInv' /\ [DeviceNext]_allVars
        => [Service!ServiceNext]_(Service!serviceVars)
  BY StepRefines
<1> QED
  BY <1>1, <1>2, DeviceInvariant, PTL DEF DeviceSpec, KeepsPromise, Service!ServiceSpec
=============================================================================
