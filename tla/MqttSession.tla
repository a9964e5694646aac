------------------------------ MODULE MqttSession ------------------------------
(***************************************************************************)
(* The commands of the MQTT client, packet by packet: PubSubClient over    *)
(* lwmqtt against a broker. A command sends its packet and then handles    *)
(* whatever is in its receive buffer until a packet of the type it waits   *)
(* for turns up; update() handles what was there when it began. The buffer *)
(* outlives the connections, the broker may leave at any time, and only an *)
(* application that calls one command at a time is assumed.                *)
(***************************************************************************)
EXTENDS Integers, Sequences, FiniteSets

CONSTANTS
  MaxPacketId,  \* the largest packet id, 65535
  QosLevels,    \* quality of service of the messages either side publishes
  MaxConnects, MaxPublishes, MaxMessages \* bounds: connections, messages out and in

ASSUME SessionAssumption ==
  /\ MaxPacketId \in Nat \ {0} /\ QosLevels \subseteq 0..2
  /\ MaxConnects \in Nat /\ MaxPublishes \in Nat /\ MaxMessages \in Nat

Types == {"CONNECT", "CONNACK", "PUBLISH", "PUBACK", "PUBREC", "PUBREL", "PUBCOMP", "SUBSCRIBE",
          "SUBACK", "UNSUBSCRIBE", "UNSUBACK", "PINGREQ", "PINGRESP", "DISCONNECT"}
(* msg tells messages apart; ok is the return code of CONNACK and SUBACK.  *)
Packet == [type : Types, id : 0..MaxPacketId, qos : 0..2, msg : Nat, ok : BOOLEAN]
Plain(type, id)  == [type |-> type, id |-> id, qos |-> 0, msg |-> 0, ok |-> TRUE]
Answer(type, id, ok) == [Plain(type, id) EXCEPT !.ok = ok]
Message(id, qos, msg) == [Plain("PUBLISH", id) EXCEPT !.qos = qos, !.msg = msg]

VARIABLES
  link,           \* external: the broker's end of the WebSocket is open
  ws,             \* client->isConnected()
  is_connected,   \* PubSubClient's member
  last_packet_id, \* lwmqtt's
  pong_pending,   \* lwmqtt's
  callback,       \* the topic is in the map of callbacks
  pc,             \* where the thread is in the library
  cmd,            \* the command that waits for an answer
  left,           \* packets that were available when update() began
  buffer,         \* packets in the receive buffer
  toClient,       \* packets on their way from the broker
  toBroker,       \* packets on their way to it
  broker,         \* external: what the broker holds for the client
  history         \* what the properties look back at

clientVars  == <<ws, is_connected, last_packet_id, pong_pending, callback>>
threadVars  == <<pc, cmd, left>>
channels    == <<toClient, toBroker>>
sessionVars == <<link, clientVars, threadVars, buffer, channels, broker, history>>

NoCommand == [name |-> "none", needle |-> "none", msg |-> 0]

SessionInit ==
  /\ link = FALSE /\ ws = FALSE /\ is_connected = FALSE
  /\ last_packet_id = 1 /\ pong_pending = FALSE /\ callback = FALSE
  /\ pc = "idle" /\ cmd = NoCommand /\ left = 0
  /\ buffer = <<>> /\ toClient = <<>> /\ toBroker = <<>>
  /\ broker = [accepted |-> FALSE, subscribed |-> FALSE, received |-> {}, awaiting |-> {},
               sent |-> 0, misled |-> FALSE]
  /\ history = [connects |-> 0, published |-> 0, confirmed |-> {}, spoken |-> "nothing",
                clean |-> TRUE, reopened |-> FALSE, here |-> FALSE, waited |-> FALSE]

-----------------------------------------------------------------------------
(* PubSubClient and lwmqtt                                                 *)

IsConnected == ws /\ is_connected

NextPacketId == IF last_packet_id = MaxPacketId THEN 1 ELSE last_packet_id + 1

(* A packet is written to the socket; whether the broker still reads it is *)
(* not known here. What is said first on a connection is recorded.         *)
Speaks(p) ==
  CASE history.spoken = "nothing" /\ p.type = "CONNECT" -> "connect"
    [] history.spoken = "connect" /\ p.type # "CONNECT" -> "connect"
    [] OTHER                                            -> "broken"
Written(p) == toBroker' = IF link THEN Append(toBroker, p) ELSE toBroker

(* close(): what was written before may still arrive at the broker.        *)
Close ==
  /\ is_connected' = FALSE /\ ws' = FALSE /\ link' = FALSE
  /\ pc' = "idle" /\ cmd' = NoCommand /\ left' = 0
  /\ toClient' = <<>>
  /\ UNCHANGED <<last_packet_id, pong_pending, callback>>

Open == \* the library's loop makes a new WebSocket
  /\ history.connects < MaxConnects
  /\ link' = TRUE /\ ws' = TRUE /\ toClient' = <<>> /\ toBroker' = <<>>
  /\ broker' = [broker EXCEPT !.accepted = FALSE, !.misled = FALSE]

(* connect(): a connection that is believed in is closed first, then the   *)
(* socket is waited for.                                                   *)
ConnectStillOpen == \* mutant
  /\ pc = "idle" /\ pc' = "opening"
  /\ UNCHANGED <<link, clientVars, cmd, left, buffer, channels, broker, history>>
Connect ==
  /\ pc = "idle"
  /\ IF IsConnected
     THEN is_connected' = FALSE /\ ws' = FALSE /\ link' = FALSE /\ toClient' = <<>>
     ELSE UNCHANGED <<is_connected, ws, link, toClient>>
  /\ pc' = "opening"
  /\ UNCHANGED <<last_packet_id, pong_pending, callback, cmd, left, buffer, toBroker, broker, history>>

Opens ==
  /\ pc = "opening" /\ ~ws /\ Open
  /\ history' = [history EXCEPT !.connects = @ + 1, !.spoken = "nothing", !.reopened = FALSE]
  /\ UNCHANGED <<is_connected, last_packet_id, pong_pending, callback, threadVars, buffer>>

OpeningTimesOut ==
  /\ pc = "opening" /\ ~ws
  /\ pc' = "idle"
  /\ UNCHANGED <<link, clientVars, cmd, left, buffer, channels, broker, history>>

(* The packet of a command is written, and its answer waited for.          *)
Ask(p, name, needle) ==
  /\ Written(p)
  /\ pc' = "waiting" /\ cmd' = [name |-> name, needle |-> needle, msg |-> p.msg]
  /\ UNCHANGED <<link, ws, is_connected, callback, left, buffer, toClient, broker>>
Said(p) == [history EXCEPT !.spoken = Speaks(p), !.waited = FALSE]

AskConnect ==
  /\ pc = "opening" /\ ws
  /\ Ask(Plain("CONNECT", 0), "connect", "CONNACK")
  /\ pong_pending' = FALSE
  /\ history' = [Said(Plain("CONNECT", 0)) EXCEPT !.clean = buffer = <<>>, !.here = FALSE]
  /\ UNCHANGED last_packet_id

Publish(qos) ==
  LET id == IF qos = 0 THEN 0 ELSE NextPacketId
      p == Message(id, qos, history.published + 1)
  IN /\ pc = "idle" /\ IsConnected /\ p.msg <= MaxPublishes
     /\ IF qos = 0
        THEN Written(p) /\ UNCHANGED <<link, clientVars, threadVars, buffer, toClient, broker>>
        ELSE /\ Ask(p, "publish", IF qos = 1 THEN "PUBACK" ELSE "PUBCOMP")
             /\ last_packet_id' = id /\ UNCHANGED pong_pending
     /\ history' = [Said(p) EXCEPT !.published = p.msg]

Request(type, name, needle) == \* subscribe() and unsubscribe()
  /\ pc = "idle" /\ IsConnected
  /\ Ask(Plain(type, NextPacketId), name, needle)
  /\ last_packet_id' = NextPacketId
  /\ history' = Said(Plain(type, NextPacketId))
  /\ UNCHANGED pong_pending
Subscribe   == Request("SUBSCRIBE", "subscribe", "SUBACK")
Unsubscribe == Request("UNSUBSCRIBE", "unsubscribe", "UNSUBACK")

Disconnect ==
  /\ pc = "idle" /\ IsConnected
  /\ Written(Plain("DISCONNECT", 0))
  /\ Close
  /\ history' = Said(Plain("DISCONNECT", 0))
  /\ UNCHANGED <<buffer, broker>>

(* The write of a command, or of its payload, can fail once the broker is  *)
(* gone: the command closes the client and returns false.                  *)
WriteFails ==
  /\ \/ pc = "opening" /\ ws
     \/ pc = "idle" /\ IsConnected
  /\ ~link /\ Close
  /\ UNCHANGED <<buffer, toBroker, broker, history>>

Update ==
  /\ pc = "idle" /\ IsConnected
  /\ pc' = "updating"
  /\ UNCHANGED <<link, clientVars, cmd, left, buffer, channels, broker, history>>

(* What loop() does to a socket the library holds: packets are appended to *)
(* the buffer, or the end of the connection is seen.                       *)
InLoop == pc \in {"updating", "yielding", "waiting"}
Receive ==
  /\ InLoop /\ ws /\ toClient # <<>>
  /\ buffer' = Append(buffer, Head(toClient)) /\ toClient' = Tail(toClient)
  /\ UNCHANGED <<link, clientVars, threadVars, toBroker, broker, history>>
LoopSeesTheEnd ==
  /\ InLoop /\ ws /\ ~link
  /\ ws' = FALSE
  /\ UNCHANGED <<link, is_connected, last_packet_id, pong_pending, callback, threadVars, buffer,
                 channels, broker, history>>

(* ... and a closed one is opened again, also by the loop() of a read that *)
(* finds its bytes in the buffer and so does not look at the connection.   *)
LoopReopens ==
  /\ pc \in {"yielding", "waiting"} /\ ~ws /\ buffer # <<>> /\ history.waited
  /\ Open
  /\ history' = [history EXCEPT !.connects = @ + 1, !.spoken = "nothing", !.reopened = TRUE]
  /\ UNCHANGED <<is_connected, last_packet_id, pong_pending, callback, threadVars, buffer>>

Yield ==
  /\ pc = "updating"
  /\ pc' = IF buffer = <<>> THEN "pinging" ELSE "yielding"
  /\ left' = Len(buffer)
  /\ history' = [history EXCEPT !.waited = FALSE]
  /\ UNCHANGED <<link, clientVars, cmd, buffer, channels, broker>>

-----------------------------------------------------------------------------
(* lwmqtt_cycle_once, with the packet it takes from the buffer, and what   *)
(* lwmqtt_cycle_until and the command make of it.                          *)
ReplyOnce(p) == IF p.type = "PUBLISH" /\ p.qos = 2 THEN <<Plain("PUBCOMP", p.id)>> ELSE <<>> \* mutant
Reply(p) ==
  CASE p.type = "PUBLISH" /\ p.qos = 1 -> <<Plain("PUBACK", p.id)>>
    [] p.type = "PUBLISH" /\ p.qos = 2 -> <<Plain("PUBREC", p.id)>>
    [] p.type = "PUBREC"               -> <<Plain("PUBREL", p.id)>>
    [] p.type = "PUBREL"               -> <<Plain("PUBCOMP", p.id)>>
    [] OTHER                           -> <<>>

(* The answer to a command: its packet id is decoded and not compared.     *)
Completed(p) ==
  /\ pc' = "idle" /\ cmd' = NoCommand
  /\ is_connected' = (is_connected \/ cmd.name = "connect")
  /\ callback' = (cmd.name = "subscribe" \/ (callback /\ cmd.name # "unsubscribe"))
  /\ history' = [history EXCEPT
       !.confirmed = IF cmd.name = "publish"
                     THEN @ \cup {[msg |-> cmd.msg, clean |-> history.clean]} ELSE @,
       !.here = cmd.name = "subscribe" \/ (@ /\ cmd.name # "unsubscribe")]
  /\ UNCHANGED <<link, ws, last_packet_id, pong_pending, left, channels>>

GoesOn(p) ==
  /\ pc' = IF pc = "yielding" /\ left = 1 THEN "pinging" ELSE pc
  /\ left' = IF pc = "yielding" THEN left - 1 ELSE left
  /\ pong_pending' = (pong_pending /\ p.type # "PINGRESP")
  /\ UNCHANGED <<link, ws, is_connected, last_packet_id, callback, cmd, toClient>>

Found(p) == pc = "waiting" /\ p.type = cmd.needle
SucceedsAnyway(p) == TRUE \* mutant
Succeeds(p) == p.ok

Cycle ==
  /\ pc \in {"yielding", "waiting"} /\ buffer # <<>>
  /\ buffer' = Tail(buffer)
  /\ LET p == Head(buffer) IN
     \/ /\ Reply(p) = <<>> /\ ~Found(p)
        /\ history' = [history EXCEPT !.waited = TRUE]
        /\ GoesOn(p) /\ UNCHANGED toBroker
     \/ /\ Reply(p) # <<>> /\ ws
        /\ Written(Head(Reply(p)))
        /\ history' = [history EXCEPT !.waited = TRUE, !.spoken = Speaks(Head(Reply(p)))]
        /\ GoesOn(p)
     \/ /\ IF Found(p) THEN ~Succeeds(p) ELSE Reply(p) # <<>> /\ ~(ws /\ link)
        /\ Close /\ UNCHANGED <<toBroker, history>>
     \/ Found(p) /\ Succeeds(p) /\ Completed(p)
  /\ UNCHANGED broker

(* No packet before the deadline, or the read finds the connection gone:   *)
(* the command fails. update() gives up too, but does not fail. (A packet  *)
(* of which only a part is there is the business of LwmqttFraming.)        *)
KeepOpen == \* mutant
  /\ pc = "waiting" /\ (buffer = <<>> \/ history.waited)
  /\ pc' = "idle" /\ cmd' = NoCommand
  /\ UNCHANGED <<link, clientVars, left, buffer, channels, broker, history>>
TimesOut ==
  /\ pc = "waiting" /\ (buffer = <<>> \/ history.waited)
  /\ Close
  /\ UNCHANGED <<buffer, toBroker, broker, history>>
YieldTimesOut ==
  /\ pc = "yielding" /\ history.waited
  /\ pc' = "pinging" /\ left' = 0
  /\ UNCHANGED <<link, clientVars, cmd, buffer, channels, broker, history>>

(* The end of update(): lwmqtt_keep_alive. When a ping is due is the       *)
(* business of MqttKeepAlive.                                              *)
NoPingDue ==
  /\ pc = "pinging"
  /\ pc' = "idle" /\ left' = 0
  /\ UNCHANGED <<link, clientVars, cmd, buffer, channels, broker, history>>
PingOrClose ==
  /\ pc = "pinging"
  /\ \/ /\ pong_pending \/ ~(ws /\ link)
        /\ Close /\ UNCHANGED <<toBroker, history>>
     \/ /\ ~pong_pending /\ ws
        /\ Written(Plain("PINGREQ", 0))
        /\ pong_pending' = TRUE
        /\ pc' = "idle" /\ left' = 0
        /\ history' = Said(Plain("PINGREQ", 0))
        /\ UNCHANGED <<link, ws, is_connected, last_packet_id, callback, cmd, toClient>>
  /\ UNCHANGED <<buffer, broker>>

-----------------------------------------------------------------------------
(* External: a broker that answers each packet in order, as MQTT 3.1.1     *)
(* asks it to, and before CONNECT answers none. The session is clean, as   *)
(* the client sets it by default.                                          *)
Says(packets) == toClient' = IF link THEN toClient \o packets ELSE toClient
BrokerKeeps == UNCHANGED <<link, clientVars, threadVars, buffer, history>>

OnConnect(ok) ==
  /\ broker' = [broker EXCEPT !.accepted = ok, !.awaiting = {}, !.subscribed = FALSE]
  /\ Says(<<Answer("CONNACK", 0, ok)>>)
OnPublish(p) ==
  /\ broker' = [broker EXCEPT !.received = @ \cup {p.msg}]
  /\ Says(CASE p.qos = 0 -> <<>>
            [] p.qos = 1 -> <<Plain("PUBACK", p.id)>>
            [] OTHER     -> <<Plain("PUBREC", p.id)>>)
OnSubscribe(p, ok) ==
  /\ broker' = [broker EXCEPT !.subscribed = @ \/ ok]
  /\ Says(<<Answer("SUBACK", p.id, ok)>>)
OnUnsubscribe(p) ==
  /\ broker' = [broker EXCEPT !.subscribed = FALSE]
  /\ Says(<<Plain("UNSUBACK", p.id)>>)
Acknowledges(p) == p.type \in {"PUBACK", "PUBREC", "PUBCOMP"}
Awaited(p) == [id |-> p.id, type |-> p.type] \in broker.awaiting
OnAck(p) ==
  /\ broker' = [broker EXCEPT
       !.awaiting = (@ \ {[id |-> p.id, type |-> p.type]})
                    \cup (IF p.type = "PUBREC" THEN {[id |-> p.id, type |-> "PUBCOMP"]} ELSE {}),
       !.misled = @ \/ ~Awaited(p)]
  /\ Says(IF p.type = "PUBREC" THEN <<Plain("PUBREL", p.id)>> ELSE <<>>)

BrokerReads ==
  /\ toBroker # <<>> /\ toBroker' = Tail(toBroker)
  /\ LET p == Head(toBroker) IN
     IF ~broker.accepted /\ p.type # "CONNECT"
     THEN broker' = [broker EXCEPT !.misled = @ \/ Acknowledges(p)] /\ UNCHANGED toClient
     ELSE \/ p.type = "CONNECT" /\ \E ok \in BOOLEAN : OnConnect(ok)
          \/ p.type = "PUBLISH" /\ OnPublish(p)
          \/ p.type = "PUBREL" /\ Says(<<Plain("PUBCOMP", p.id)>>) /\ UNCHANGED broker
          \/ p.type = "SUBSCRIBE" /\ \E ok \in BOOLEAN : OnSubscribe(p, ok)
          \/ p.type = "UNSUBSCRIBE" /\ OnUnsubscribe(p)
          \/ p.type = "PINGREQ" /\ Says(<<Plain("PINGRESP", 0)>>) /\ UNCHANGED broker
          \/ Acknowledges(p) /\ OnAck(p)
          \/ p.type = "DISCONNECT" /\ UNCHANGED <<broker, toClient>>
  /\ BrokerKeeps

BrokerPublishes(qos) ==
  LET n == broker.sent + 1 IN
  /\ link /\ broker.accepted /\ broker.subscribed /\ n <= MaxMessages
  /\ Says(<<Message(IF qos = 0 THEN 0 ELSE n, qos, n)>>)
  /\ broker' = [broker EXCEPT !.sent = n,
       !.awaiting = @ \cup CASE qos = 1 -> {[id |-> n, type |-> "PUBACK"]}
                             [] qos = 2 -> {[id |-> n, type |-> "PUBREC"]}
                             [] OTHER   -> {}]
  /\ UNCHANGED toBroker /\ BrokerKeeps

LinkDrops ==
  /\ link /\ link' = FALSE
  /\ toClient' = <<>> /\ toBroker' = <<>>
  /\ UNCHANGED <<clientVars, threadVars, buffer, broker, history>>

-----------------------------------------------------------------------------
Command == Connect \/ (\E q \in QosLevels : Publish(q)) \/ Subscribe \/ Unsubscribe \/ Disconnect \/ Update
Thread ==
  \/ Opens \/ OpeningTimesOut \/ AskConnect \/ WriteFails
  \/ Receive \/ LoopSeesTheEnd \/ LoopReopens \/ Yield \/ Cycle
  \/ TimesOut \/ YieldTimesOut \/ NoPingDue \/ PingOrClose
Broker == BrokerReads \/ (\E q \in QosLevels : BrokerPublishes(q)) \/ LinkDrops

SessionNext == Command \/ Thread \/ Broker
SessionSpec == SessionInit /\ [][SessionNext]_sessionVars

-----------------------------------------------------------------------------
Names == {"none", "connect", "publish", "subscribe", "unsubscribe"}
Awaitable == [id : Nat, type : Types]
(* Every variable keeps its type, and a packet id is never zero            *)
(* (lwmqtt_get_next_packet_id).                                            *)
SessionTypeOK ==
  /\ {link, ws, is_connected, pong_pending, callback} \subseteq BOOLEAN
  /\ last_packet_id \in 1..MaxPacketId
  /\ pc \in {"idle", "opening", "waiting", "updating", "yielding", "pinging"}
  /\ cmd \in [name : Names, needle : Types \cup {"none"}, msg : 0..MaxPublishes]
  /\ left \in Nat
  /\ \A q \in {buffer, toClient, toBroker} : \A i \in DOMAIN q : q[i] \in Packet
  /\ broker.awaiting \subseteq Awaitable
  /\ broker.received \subseteq 1..MaxPublishes
  /\ \A c \in history.confirmed : c.msg \in 1..MaxPublishes

(* connect() opens every connection it makes with one CONNECT and says no  *)
(* other: packets left over from an earlier connection are answered only   *)
(* afterwards. (A WebSocket made by a read is excepted: it gets none.)     *)
OpensWithConnect == ~history.reopened => history.spoken # "broken"

(* publish() at QoS 1 or 2 returned true: the broker has that message,     *)
(* although no packet id is compared, when connect() found an empty        *)
(* receive buffer.                                                         *)
ConfirmedReceived == \A c \in history.confirmed : c.clean => c.msg \in broker.received

(* While the client calls itself connected, on a connection that connect() *)
(* made with an empty receive buffer and no read has reopened: the broker  *)
(* serves the topic just when the last subscribe() or unsubscribe() that   *)
(* succeeded on this connection was a subscribe(), and the callback of a   *)
(* topic it serves so is registered. (The map of callbacks outlives the    *)
(* connection and says nothing of it.)                                     *)
RegisteredIsSubscribed ==
  pc = "idle" /\ IsConnected /\ history.clean /\ ~history.reopened
    => /\ broker.accepted
       /\ broker.subscribed <=> history.here
       /\ history.here => callback

(* What the client acknowledges, on a connection that connect() made with  *)
(* an empty receive buffer and no read has reopened: nothing the broker    *)
(* does not wait for - no second PUBACK, no PUBCOMP without a PUBREL,      *)
(* nothing before CONNECT, nothing of an older connection - and, once      *)
(* every packet has been read and handled, all that it does wait for.      *)
Settles ==
  pc = "idle" /\ IsConnected /\ link /\ broker.accepted
    /\ buffer = <<>> /\ toClient = <<>> /\ toBroker = <<>>
AcksAwaited ==
  history.clean /\ ~history.reopened =>
    ~broker.misled /\ (Settles => broker.awaiting = {})

(* What lwmqtt.h says of lwmqtt_publish, whatever the buffer held.         *)
PublishAcknowledged == \A c \in history.confirmed : c.msg \in broker.received
=============================================================================
