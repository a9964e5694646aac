---------------------------- MODULE GasPumpDevice ----------------------------
(***************************************************************************)
(* The firmware's one thread: setup and loop, the connection handling they *)
(* call, and the message callback that runs a supply on the pump and       *)
(* publishes its outcome (main.cpp, CommsHandler.cpp, Message.cpp).        *)
(*                                                                         *)
(* The callback runs inside the MQTT client: inside update() called from   *)
(* loop, and inside connect() and subscribe() while they wait for their    *)
(* acknowledgement, because the bytes received before a connection was     *)
(* lost stay in the client's buffer.                                       *)
(***************************************************************************)
EXTENDS Pump, Sequences

CONSTANTS
  Downlinks,  \* the messages the broker may deliver on the downlink topic
  MaxInbox,   \* bound: packets waiting in the client's buffer
  MaxSent,    \* bound: messages ever delivered
  MaxOutages  \* bound: losses of power

(* enum MESSAGE_TYPE                                                       *)
PUMP_INIT == 0
SUPPLY_AUTHORIZED == 1
SUPPLY_COMPLETED == 2
FUEL_REPLENISHMENT == 3
SUPPLY_ERROR == 4
UNKNOWN == 5

(* A payload that does not parse has json = FALSE. A missing msgType reads *)
(* as 0, a number beyond the enumeration matches no case of the switch.    *)
Downlink == [json : BOOLEAN, type : 0..6, authorization : BOOLEAN]
NoMessage == [json |-> FALSE, type |-> UNKNOWN, authorization |-> FALSE]

(* What the client finds in its buffer: messages and acknowledgements.     *)
Packet == [kind : {"PUBLISH", "CONNACK", "SUBACK"}, body : Downlink]
Ack(kind) == [kind |-> kind, body |-> NoMessage]

ASSUME MessageAssumption == Downlinks \in SUBSET Downlink
ASSUME BoundAssumption == MaxInbox \in Nat /\ MaxSent \in Nat /\ MaxOutages \in Nat

VARIABLES
  at,          \* where the thread is in main.cpp and CommsHandler.cpp
  setup,       \* setup() has not returned
  resume,      \* where the client goes on when the callback returns
  msg,         \* the message being handled
  response,    \* the document the callback or announce_pump will publish
  waited,      \* a packet was handled since the wait for an answer began
  wifi,        \* WiFi.status() is WL_CONNECTED
  synced,      \* syncEventTriggered
  clock,       \* the year is no longer 1970
  ws,          \* webSockClient.isConnected()
  is_connected,\* the MQTT client's member of that name
  registered,  \* the callback is in the client's map
  inbox,       \* complete packets in the client's buffer
  asked,       \* SUBSCRIBE was sent on this WebSocket
  reopened,    \* history: this WebSocket was opened inside a read, without CONNECT
  session,     \* external: what the broker holds for this WebSocket
  sent,        \* external: messages delivered so far
  outages,     \* history: losses of power
  served,      \* history: supplies that returned ESP_OK
  reported,    \* history: SUPPLY_COMPLETED messages the broker received
  announced    \* history: PUMP_INIT reached the broker since the last start

threadVars == <<at, setup, resume, msg, response, waited>>
linkVars   == <<wifi, synced, clock, ws, is_connected, registered, inbox, asked, reopened, session, sent>>
countVars  == <<outages, served, reported, announced>>
deviceVars == <<threadVars, linkVars, countVars>>
allVars    == <<vars, deviceVars>>

NoDocument == [type |-> UNKNOWN, amount |-> 0, stock |-> 0]
Report(type, a, s) == [type |-> type, amount |-> a, stock |-> s]

DeviceInit ==
  /\ Init
  /\ at = "wifi" /\ setup = TRUE /\ resume = "update"
  /\ msg = NoMessage /\ response = NoDocument /\ waited = FALSE
  /\ wifi \in BOOLEAN /\ synced = FALSE /\ clock = FALSE
  /\ ws = FALSE /\ is_connected = FALSE /\ registered = FALSE
  /\ inbox = <<>> /\ asked = FALSE /\ reopened = FALSE /\ session = "none" /\ sent = 0
  /\ outages = 0 /\ served = 0 /\ reported = 0 /\ announced = FALSE

(* A restart loses everything in memory. The time of day survives an abort *)
(* but not a loss of power.                                                *)
Forget ==
  /\ at' = "wifi" /\ setup' = TRUE /\ resume' = "update"
  /\ msg' = NoMessage /\ response' = NoDocument /\ waited' = FALSE
  /\ synced' = FALSE /\ clock' = (clock /\ reason' # "POWER")
  /\ ws' = FALSE /\ is_connected' = FALSE /\ registered' = FALSE
  /\ inbox' = <<>> /\ asked' = FALSE /\ reopened' = FALSE
  /\ session' = "none" /\ announced' = FALSE
  /\ UNCHANGED <<wifi, sent, served, reported>>

LosePower == PowerCycle /\ Forget /\ outages < MaxOutages /\ outages' = outages + 1

(* A step of the pump inside the thread; a failed check takes all of it.   *)
PumpStep(A, place) ==
  /\ A
  /\ IF pc' = "reset"
     THEN Forget /\ UNCHANGED outages
     ELSE /\ at' = place
          /\ UNCHANGED <<setup, resume, msg, response, waited, linkVars, countVars>>

-----------------------------------------------------------------------------
(* CommsHandler: connect_wifi with the NTP wait at its end.                *)

GoTo(place) == at' = place /\ waited' = FALSE /\ UNCHANGED <<setup, resume, msg, response>>

WifiConnected ==
  /\ at = "wifi" /\ wifi
  /\ GoTo("ntp") /\ UNCHANGED <<vars, linkVars, countVars>>

(* The flag alone is not enough: any event of the NTP client sets it.      *)
TimeEvent == synced \* mutant
TimeKnown == synced /\ clock

NtpReady ==
  /\ at = "ntp" /\ TimeKnown
  /\ GoTo(IF setup THEN "mqtt" ELSE "update")
  /\ UNCHANGED <<vars, linkVars, countVars>>

(* The NTP client calls back from a task of its own, also on errors.       *)
NtpEvent(known) ==
  /\ at # "wifi" /\ wifi
  /\ synced' = TRUE /\ clock' = (clock \/ known)
  /\ UNCHANGED <<vars, threadVars, countVars,
                 wifi, ws, is_connected, registered, inbox, asked, reopened, session, sent>>

-----------------------------------------------------------------------------
(* connect_mqtt. The socket is closed first and opened again by the client *)
(* library's loop; each attempt of connect() that fails closes it.         *)

Connected == ws /\ is_connected
AfterMqttNoInit == "loop" \* mutant
AfterMqtt == IF setup THEN "init" ELSE "loop"
CloseClient == ws' = FALSE /\ is_connected' = FALSE /\ session' = "none"
KeepTime == UNCHANGED <<wifi, synced, clock>>

EnterMqtt ==
  /\ at = "mqtt"
  /\ IF wifi
     THEN GoTo("connect") /\ ws' = FALSE /\ session' = "none"
     ELSE GoTo(AfterMqtt) /\ UNCHANGED <<ws, session>>
  /\ KeepTime
  /\ UNCHANGED <<vars, countVars, is_connected, registered, inbox, asked, reopened, sent>>

(* The handshake of the WebSocket, and CONNECT sent on it.                 *)
SocketOpens ==
  /\ at = "connect" /\ wifi
  /\ ws' = TRUE /\ session' = "open" /\ asked' = FALSE /\ reopened' = FALSE
  /\ GoTo("connack") /\ KeepTime
  /\ UNCHANGED <<vars, countVars, is_connected, registered, inbox, sent>>

(* The places where the client takes packets out of its buffer. It does so *)
(* even when the socket they came from is gone.                            *)
Reading == {"yield", "connack", "suback"}
Awaited == CASE at = "connack" -> "CONNACK" [] at = "suback" -> "SUBACK" [] OTHER -> "none"
Finds(kind) == inbox # <<>> /\ Head(inbox).kind = kind

SkipSubscribe == IF registered THEN AfterMqtt ELSE "subscribe" \* mutant
AfterConnect == "subscribe"

ConnAck ==
  /\ at = "connack" /\ Finds("CONNACK")
  /\ is_connected' = TRUE /\ inbox' = Tail(inbox)
  /\ GoTo(AfterConnect) /\ KeepTime
  /\ UNCHANGED <<vars, countVars, ws, registered, asked, reopened, session, sent>>

(* The clock, and in update() the count of bytes, is looked at while       *)
(* nothing comes and after each packet: one that is there is always read.  *)
MayStop == inbox = <<>> \/ waited

(* CONNECT cannot be written, or is not answered in time.                  *)
ConnectFails ==
  /\ (at = "connect" /\ wifi) \/ (at = "connack" /\ MayStop)
  /\ CloseClient
  /\ GoTo("connect") /\ KeepTime
  /\ UNCHANGED <<vars, countVars, registered, inbox, asked, reopened, sent>>

SendSubscribe ==
  /\ at = "subscribe" /\ Connected
  /\ asked' = TRUE
  /\ GoTo("suback") /\ KeepTime
  /\ UNCHANGED <<vars, countVars, ws, is_connected, registered, inbox, reopened, session, sent>>

SubAck ==
  /\ at = "suback" /\ Finds("SUBACK")
  /\ registered' = TRUE /\ inbox' = Tail(inbox)
  /\ GoTo(AfterMqtt) /\ KeepTime
  /\ UNCHANGED <<vars, countVars, ws, is_connected, asked, reopened, session, sent>>

(* connect_mqtt does not look at the result of subscribe().                *)
SubscribeRefused ==
  /\ at = "subscribe" /\ ~Connected
  /\ GoTo(AfterMqtt)
  /\ UNCHANGED <<vars, linkVars, countVars>>

SubscribeFails ==
  /\ (at = "subscribe" /\ Connected) \/ (at = "suback" /\ MayStop)
  /\ CloseClient
  /\ GoTo(AfterMqtt) /\ KeepTime
  /\ UNCHANGED <<vars, countVars, registered, inbox, asked, reopened, sent>>

(* A message read before the first subscription finds no callback, and an  *)
(* acknowledgement nobody waits for is dropped.                            *)
Discard ==
  /\ at \in Reading /\ inbox # <<>>
  /\ ~Finds(Awaited) /\ (Finds("PUBLISH") => ~registered)
  /\ inbox' = Tail(inbox) /\ waited' = TRUE
  /\ KeepTime
  /\ UNCHANGED <<vars, at, setup, resume, msg, response, countVars,
                 ws, is_connected, registered, asked, reopened, session, sent>>

-----------------------------------------------------------------------------
(* setup and loop (main.cpp)                                               *)

SetupPump == at = "init" /\ PumpStep(InitPump, "announce")

LoopTop ==
  /\ at = "loop"
  /\ GoTo(IF wifi THEN "update" ELSE "wifi")
  /\ UNCHANGED <<vars, linkVars, countVars>>

UpdateOnly == \* mutant
  /\ at = "update"
  /\ GoTo(IF Connected THEN "yield" ELSE "loop")
  /\ UNCHANGED <<vars, linkVars, countVars>>
Update ==
  /\ at = "update"
  /\ GoTo(IF Connected THEN "yield" ELSE "mqtt")
  /\ UNCHANGED <<vars, linkVars, countVars>>

UpdateFails ==
  /\ at = "yield" /\ MayStop
  /\ CloseClient
  /\ GoTo("mqtt") /\ KeepTime
  /\ UNCHANGED <<vars, countVars, registered, inbox, asked, reopened, sent>>

(* One call handles what was there when it began; the rest has to wait.    *)
UpdateDone ==
  /\ at = "yield" /\ MayStop
  /\ GoTo(IF Connected THEN "loop" ELSE "mqtt")
  /\ UNCHANGED <<vars, linkVars, countVars>>

-----------------------------------------------------------------------------
(* mqtt_message_callback, called wherever the client reads its buffer.     *)

Dispatch ==
  /\ at \in Reading /\ registered /\ Finds("PUBLISH")
  /\ msg' = Head(inbox).body /\ inbox' = Tail(inbox) /\ waited' = TRUE
  /\ resume' = at /\ at' = "callback"
  /\ KeepTime
  /\ UNCHANGED <<vars, countVars, setup, response, ws, is_connected, registered, asked, reopened,
                 session, sent>>

Malformed ==
  /\ at = "callback" /\ ~msg.json
  /\ Start("PAYLOAD") /\ Forget /\ UNCHANGED <<button, outages>>

AnyKnownType == msg.json /\ msg.type # UNKNOWN \* mutant
Authorization == msg.json /\ msg.type = SUPPLY_AUTHORIZED

Supply(r) ==
  /\ at = "callback" /\ Authorization
  /\ PumpStep(RefuseSupply(r) \/ AdmitSupply(r), "supply")

DuringSupply == at = "supply" /\ PumpStep(Proceed, "supply")

SuppliedUnchecked == \* mutant
  /\ at = "supply" /\ pc = "ready"
  /\ \E s \in GetStock : response' = Report(SUPPLY_COMPLETED, amount, s)
  /\ served' = IF ret = "OK" THEN served + 1 ELSE served
  /\ at' = "respond"
  /\ UNCHANGED <<vars, linkVars, setup, resume, msg, waited, outages, reported, announced>>
Supplied ==
  /\ at = "supply" /\ pc = "ready"
  /\ IF ret = "OK"
     THEN \E s \in GetStock : response' = Report(SUPPLY_COMPLETED, amount, s)
     ELSE response' = Report(SUPPLY_ERROR, 0, 0)
  /\ served' = IF ret = "OK" THEN served + 1 ELSE served
  /\ at' = "respond"
  /\ UNCHANGED <<vars, linkVars, setup, resume, msg, waited, outages, reported, announced>>

Ignore ==
  /\ at = "callback" /\ msg.json /\ msg.type = UNKNOWN
  /\ at' = resume /\ msg' = NoMessage
  /\ UNCHANGED <<vars, linkVars, countVars, setup, resume, response, waited>>

(* Every other type leaves the switch with an empty document.              *)
OtherType ==
  /\ at = "callback" /\ msg.json /\ msg.type \notin {SUPPLY_AUTHORIZED, UNKNOWN}
  /\ at' = "respond" /\ response' = NoDocument
  /\ UNCHANGED <<vars, linkVars, countVars, setup, resume, msg, waited>>

Announce ==
  /\ at = "announce"
  /\ \E s \in GetStock : response' = Report(PUMP_INIT, 0, s)
  /\ at' = "respond" /\ resume' = "loop" /\ setup' = FALSE
  /\ UNCHANGED <<vars, linkVars, countVars, msg, waited>>

-----------------------------------------------------------------------------
(* publish_message: the caller goes on whatever the result.                *)

Resume ==
  /\ at' = resume /\ resume' = "update" /\ msg' = NoMessage /\ response' = NoDocument
  /\ UNCHANGED <<setup, waited>>

PublishRefused ==
  /\ at = "respond" /\ ~(wifi /\ Connected)
  /\ Resume
  /\ UNCHANGED <<vars, linkVars, countVars>>

(* QoS 0: the write succeeds whether or not the broker still listens.      *)
PublishSent ==
  /\ at = "respond" /\ wifi /\ Connected
  /\ LET arrives == session # "none" IN
     /\ reported' = IF arrives /\ response.type = SUPPLY_COMPLETED
                    THEN reported + 1 ELSE reported
     /\ announced' = (announced \/ (arrives /\ response.type = PUMP_INIT))
  /\ Resume
  /\ UNCHANGED <<vars, linkVars, outages, served>>

PublishFails ==
  /\ at = "respond" /\ wifi /\ Connected
  /\ CloseClient /\ Resume /\ KeepTime
  /\ UNCHANGED <<vars, countVars, registered, inbox, asked, reopened, sent>>

-----------------------------------------------------------------------------
(* The environment: customer, radio, broker.                               *)

Customer == (Press \/ Release) /\ UNCHANGED deviceVars

WifiUp ==
  /\ ~wifi /\ wifi' = TRUE
  /\ UNCHANGED <<vars, threadVars, countVars,
                 synced, clock, ws, is_connected, registered, inbox, asked, reopened, session, sent>>

WifiDown ==
  /\ wifi /\ wifi' = FALSE /\ session' = "none"
  /\ UNCHANGED <<vars, threadVars, countVars,
                 synced, clock, ws, is_connected, registered, inbox, asked, reopened, sent>>

(* What the broker sends reaches the buffer while the client reads; until  *)
(* then it is on its way, and lost with the connection.                    *)
Arrives(packet) ==
  /\ at \in Reading /\ ws /\ Len(inbox) < MaxInbox
  /\ inbox' = Append(inbox, packet)
  /\ KeepTime
  /\ UNCHANGED <<vars, threadVars, countVars, ws, is_connected, registered, asked, reopened>>

BrokerAccepts ==
  /\ session = "open" /\ Arrives(Ack("CONNACK"))
  /\ session' = "accepted" /\ UNCHANGED sent

BrokerSubscribes ==
  /\ session = "accepted" /\ asked /\ Arrives(Ack("SUBACK"))
  /\ session' = "subscribed" /\ UNCHANGED sent

Deliver(m) ==
  /\ session = "subscribed" /\ sent < MaxSent
  /\ Arrives([kind |-> "PUBLISH", body |-> m])
  /\ sent' = sent + 1 /\ UNCHANGED session

(* The broker gives a session up: a broken connection, its own restart, or *)
(* no keep-alive for one and a half times the agreed 100 seconds, which a  *)
(* long supply is enough for. The firmware is not told.                    *)
BrokerDrops ==
  /\ session # "none" /\ session' = "none"
  /\ KeepTime
  /\ UNCHANGED <<vars, threadVars, countVars, ws, is_connected, registered, inbox, asked, reopened, sent>>

(* The WebSocket library learns of a closed connection when it is called.  *)
SocketCloses ==
  /\ at \in Reading /\ ws /\ session = "none"
  /\ ws' = FALSE
  /\ KeepTime
  /\ UNCHANGED <<vars, threadVars, countVars, is_connected, registered, inbox, asked, reopened, session, sent>>

(* Every read calls the library's loop, which opens the socket again when   *)
(* it is closed; a read that finds its bytes in the buffer does not look.   *)
(* With enough packets there, handled slowly enough, the handshake is over  *)
(* before the buffer is empty, and the broker is never sent a CONNECT.      *)
SocketReopens ==
  /\ at \in Reading /\ ~ws /\ wifi /\ inbox # <<>> /\ waited
  /\ ws' = TRUE /\ asked' = FALSE /\ reopened' = TRUE
  /\ KeepTime
  /\ UNCHANGED <<vars, threadVars, countVars, is_connected, registered, inbox, session, sent>>

-----------------------------------------------------------------------------
Publish == PublishRefused \/ PublishSent \/ PublishFails

Thread ==
  \/ WifiConnected \/ NtpReady \/ EnterMqtt \/ SocketOpens \/ ConnAck
  \/ SendSubscribe \/ SubscribeRefused \/ SubAck
  \/ SetupPump \/ Announce \/ LoopTop \/ Update \/ UpdateDone \/ Discard \/ Dispatch
  \/ Malformed \/ Ignore \/ OtherType \/ (\E r \in Residue : Supply(r))
  \/ DuringSupply \/ Supplied \/ Publish

Failures == ConnectFails \/ SubscribeFails \/ UpdateFails \/ SocketCloses \/ SocketReopens

Environment ==
  \/ Customer \/ WifiUp \/ WifiDown \/ BrokerAccepts \/ BrokerSubscribes \/ BrokerDrops \/ LosePower
  \/ (\E m \in Downlinks : Deliver(m))
  \/ (\E known \in BOOLEAN : NtpEvent(known))

DeviceNext == Thread \/ Failures \/ Environment

DeviceSpec == DeviceInit /\ [][DeviceNext]_allVars

(* The thread runs; the customer lets go of the button and the pouring     *)
(* loop sees it; while there is WiFi the time server answers; the broker   *)
(* answers a client that keeps trying, and a client whose broker is gone   *)
(* runs into a timeout or an unanswered ping.                              *)
DeviceFairSpec ==
  /\ DeviceSpec
  /\ WF_allVars(Thread)
  /\ WF_allVars(Release /\ UNCHANGED deviceVars)
  /\ SF_allVars(at = "supply" /\ PumpStep(MotorOff, "supply"))
  /\ WF_allVars(NtpEvent(TRUE))
  /\ SF_allVars(BrokerAccepts) /\ SF_allVars(BrokerSubscribes)
  /\ SF_allVars(Dispatch \/ Discard)
  /\ SF_allVars(ConnAck) /\ SF_allVars(SendSubscribe) /\ SF_allVars(SubAck)
  /\ SF_allVars(session = "none" /\ (ConnectFails \/ SubscribeFails \/ UpdateFails))

-----------------------------------------------------------------------------
Places == {"wifi", "ntp", "mqtt", "connect", "connack", "subscribe", "suback", "init", "announce",
           "loop", "update", "yield", "callback", "supply", "respond"}
ThreadTypeOK ==
  /\ at \in Places /\ setup \in BOOLEAN
  /\ resume \in {"yield", "connack", "suback", "loop", "update"}
  /\ msg \in Downlink /\ waited \in BOOLEAN
  /\ response \in [type : 0..5, amount : Double, stock : Nat]
LinkTypeOK ==
  /\ wifi \in BOOLEAN /\ synced \in BOOLEAN /\ clock \in BOOLEAN
  /\ ws \in BOOLEAN /\ is_connected \in BOOLEAN /\ registered \in BOOLEAN
  /\ inbox \in Seq(Packet) /\ asked \in BOOLEAN /\ reopened \in BOOLEAN
  /\ session \in {"none", "open", "accepted", "subscribed"} /\ sent \in Nat
CountTypeOK ==
  outages \in Nat /\ served \in Nat /\ reported \in Nat /\ announced \in BOOLEAN
DeviceTypeOK == ThreadTypeOK /\ LinkTypeOK /\ CountTypeOK

(* The callback never meets a pump that is not initialised or is busy: the *)
(* subscription comes before init_pump (main.cpp 141, 144), so a message   *)
(* that is already in the buffer must not be handled in between.           *)
CallsOnReadyPump == at = "callback" => pc = "ready"

(* The pump is unlocked only while the callback handles an authorisation,  *)
(* whichever of the three places of the client the callback was called     *)
(* from and whatever happened to the connection since (main.cpp 72-75).    *)
OpenOnlyForAuthorization ==
  pc \in {"press", "pour", "settle"} =>
    at = "supply" /\ msg.json /\ msg.type = SUPPLY_AUTHORIZED

(* Nothing is published, and no other message is handled, before the pump  *)
(* is locked again with the motor off (main.cpp 75-95).                    *)
QuietWhenReporting ==
  at \in {"respond", "callback", "update", "yield", "loop"} =>
    locked /\ relay = "LOW" /\ led = "LOW"

(* What the broker counts as supplies completed were supplies: at most one *)
(* report for each, even across lost connections and restarts.             *)
NoPhantomReports ==
  reported + (IF response.type = SUPPLY_COMPLETED THEN 1 ELSE 0) <= served

(* A timestamp is taken only once the clock is set, although the flag that *)
(* connect_wifi waits for is raised by errors too (CommsHandler.cpp 139)   *)
(* and WiFi may be lost and found again in any order.                      *)
TimestampsAreReal == at \in {"callback", "supply", "respond", "announce"} => clock

(* A loop that believes it is connected has asked for its subscription on  *)
(* this very connection, although the result of subscribe() is ignored,    *)
(* is_connected may be a leftover and old acknowledgements may be taken    *)
(* for new ones (CommsHandler.cpp 54-78): it cannot go deaf unnoticed,     *)
(* unless the socket was opened again behind its back.                     *)
SubscribedInLoop == at \in {"loop", "update"} /\ Connected /\ ~reopened => asked

(* The device keeps the promise of SupplyService: the phase is read off    *)
(* the place of the thread and the document it is about to publish.        *)
phase == CASE at = "supply" -> "authorised"
           [] at = "respond" /\ response.type = SUPPLY_COMPLETED -> "done"
           [] OTHER -> "idle"
Service == INSTANCE SupplyService WITH flowing <- relay = "HIGH"
KeepsPromise == Service!ServiceSpec

(* If WiFi eventually stays and the broker stops giving sessions up, the   *)
(* firmware keeps coming back to its loop with a connection on which it    *)
(* has subscribed, through every failure of connect, subscribe, publish and update and whatever is left  *)
(* in the buffer (CommsHandler.cpp 34-79, main.cpp 152-162).               *)
Recovers ==
  <>[]wifi /\ <>[][~BrokerDrops]_allVars => []<>(at = "loop" /\ Connected /\ asked)

(* A message that is taken out of the buffer is dealt with.                *)
CallbackReturns == at = "callback" ~> at \notin {"callback", "supply", "respond"}

-----------------------------------------------------------------------------
(* Statements of the documentation that the code does not keep.            *)

(* "Boolean signalling True, to concede authorization or False otherwise"  *)
AuthorizationHonoured == at = "supply" /\ pc # "ready" => msg.authorization

(* "Number of liters supplied."                                            *)
AmountIsWhatWasPoured == response.type = SUPPLY_COMPLETED => response.amount = poured

(* "Announce the gas pump operation to Ditto"                              *)
AnnouncedAfterSetup == at = "loop" => announced

(* "wait for connack packet": connect() returns true once the broker has   *)
(* accepted the connection.                                                *)
AcceptedWhenConnected == at = "subscribe" /\ ws => session # "open"

(* "After the supply is completed, the pump will signal the supply manager"*)
CompletionReported == served > reported ~> served = reported
=============================================================================
