--------------------------- MODULE MqttSessionProofs ---------------------------
(***************************************************************************)
(* What holds of the MQTT client's commands for any number of connections, *)
(* messages and packet ids: which packet opens a connection, what a        *)
(* publication and a subscription that succeeded mean, and what the client *)
(* acknowledges to the broker.                                             *)
(***************************************************************************)
EXTENDS MqttSession, TLAPS

(* A socket is new to the client only inside connect(); everywhere else    *)
(* one that is open has been spoken on, unless a read opened it.           *)
Recorded ==
  history = [connects |-> history.connects, published |-> history.published, confirmed |-> history.confirmed,
             spoken |-> history.spoken, clean |-> history.clean, reopened |-> history.reopened,
             here |-> history.here, waited |-> history.waited]
Opening ==
  /\ Recorded /\ ws \in BOOLEAN /\ is_connected \in BOOLEAN /\ history.reopened \in BOOLEAN
  /\ pc \in {"idle", "opening", "waiting", "updating", "yielding", "pinging"}
  /\ history.spoken \in {"nothing", "connect", "broken"}
  /\ pc = "idle" /\ ws => is_connected
  /\ pc = "opening" /\ ws => history.spoken = "nothing" /\ ~history.reopened
  /\ pc = "waiting" => is_connected \/ cmd.name = "connect"
  /\ pc \in {"updating", "yielding", "pinging"} => is_connected
  /\ ws /\ history.spoken = "nothing" /\ ~history.reopened => pc = "opening"
  /\ history.spoken = "broken" => history.reopened

LEMMA InitOpening == SessionInit => Opening
  <1> SUFFICES ASSUME SessionInit PROVE Opening
    OBVIOUS
  <1>1. Recorded
    BY SMT DEF SessionInit, Recorded
  <1>2. ~ws /\ ~is_connected /\ ws \in BOOLEAN /\ is_connected \in BOOLEAN /\ pc = "idle"
    BY DEF SessionInit
  <1>3. history.spoken = "nothing" /\ ~history.reopened /\ history.reopened \in BOOLEAN
    BY DEF SessionInit
  <1> QED
    BY <1>1, <1>2, <1>3 DEF Opening

(* Closing leaves what was said as it was.                                 *)
LEMMA CloseOpening == Opening /\ Close /\ UNCHANGED history => Opening'
  BY DEF Opening, Recorded, Close

(* A packet other than CONNECT, on a connection that was spoken on.        *)
LEMMA OtherSpoken ==
  ASSUME Opening, NEW p, p.type # "CONNECT", ws, pc # "opening"
  PROVE  /\ Speaks(p) \in {"connect", "broken"}
         /\ Speaks(p) = "broken" => history.reopened
  BY DEF Opening, Speaks

LEMMA PlainTyped ==
  ASSUME NEW type, NEW id
  PROVE  Plain(type, id).type = type
  BY DEF Plain

LEMMA ConnectOpening == Opening /\ (Connect \/ Opens \/ OpeningTimesOut \/ AskConnect) => Opening'
  <1> SUFFICES ASSUME Opening, Connect \/ Opens \/ OpeningTimesOut \/ AskConnect PROVE Opening'
    OBVIOUS
  <1>1. CASE Connect
    BY <1>1 DEF Connect, IsConnected, Opening, Recorded
  <1>2. CASE Opens
    BY <1>2 DEF Opens, Open, threadVars, Opening, Recorded
  <1>3. CASE OpeningTimesOut
    BY <1>3 DEF OpeningTimesOut, clientVars, Opening, Recorded
  <1>4. CASE AskConnect
    <2>1. Speaks(Plain("CONNECT", 0)) = "connect"
      BY <1>4, PlainTyped DEF AskConnect, Opening, Speaks
    <2> QED
      BY <1>4, <2>1 DEF AskConnect, Ask, Said, Opening, Recorded
  <1> QED
    BY <1>1, <1>2, <1>3, <1>4

LEMMA CommandOpening ==
  ASSUME Opening, Publish(0) \/ Publish(1) \/ Publish(2) \/ Subscribe \/ Unsubscribe \/ Disconnect \/ Update
  PROVE  Opening'
  <1>1. ASSUME NEW qos \in 0..2, Publish(qos) PROVE Opening'
    <2> DEFINE p == Message(IF qos = 0 THEN 0 ELSE NextPacketId, qos, history.published + 1)
    <2>1. p.type = "PUBLISH" /\ ws /\ is_connected /\ pc = "idle"
      BY <1>1 DEF Publish, IsConnected, Message, Plain
    <2>2. Speaks(p) \in {"connect", "broken"} /\ (Speaks(p) = "broken" => history.reopened)
      BY <2>1, OtherSpoken
    <2>3. history' = [Said(p) EXCEPT !.published = p.msg]
      BY <1>1 DEF Publish
    <2> HIDE DEF p
    <2>4. CASE qos = 0
      BY <1>1, <2>1, <2>2, <2>3, <2>4 DEF Publish, Said, clientVars, threadVars, Opening, Recorded
    <2>5. CASE qos # 0
      BY <1>1, <2>1, <2>2, <2>3, <2>5 DEF Publish, Ask, Said, Opening, Recorded
    <2> QED
      BY <2>4, <2>5
  <1>2. ASSUME NEW type, NEW name, NEW needle, type # "CONNECT", Request(type, name, needle) PROVE Opening'
    <2> DEFINE p == Plain(type, NextPacketId)
    <2>1. p.type # "CONNECT" /\ ws /\ is_connected /\ pc = "idle"
      BY <1>2, PlainTyped DEF Request, IsConnected
    <2>2. Speaks(p) \in {"connect", "broken"} /\ (Speaks(p) = "broken" => history.reopened)
      BY <2>1, OtherSpoken
    <2>3. history' = Said(p)
      BY <1>2 DEF Request
    <2>4. pc' = "waiting" /\ UNCHANGED <<ws, is_connected>>
      BY <1>2 DEF Request, Ask
    <2> HIDE DEF p
    <2> QED
      BY <2>1, <2>2, <2>3, <2>4 DEF Said, Opening, Recorded
  <1>3. CASE Disconnect
    <2>1. ws /\ is_connected /\ pc = "idle" /\ Close /\ history' = Said(Plain("DISCONNECT", 0))
      BY <1>3 DEF Disconnect, IsConnected
    <2>2. /\ Speaks(Plain("DISCONNECT", 0)) \in {"connect", "broken"}
          /\ Speaks(Plain("DISCONNECT", 0)) = "broken" => history.reopened
      BY <2>1, OtherSpoken, PlainTyped
    <2> QED
      BY <2>1, <2>2 DEF Close, Said, Opening, Recorded
  <1>4. CASE Update
    BY <1>4 DEF Update, IsConnected, clientVars, Opening, Recorded
  <1> QED
    BY <1>1, <1>2, <1>3, <1>4 DEF Subscribe, Unsubscribe

(* The loop of the library may lose or make a socket under a command.      *)
LEMMA LoopOpening ==
  ASSUME Opening, Receive \/ LoopSeesTheEnd \/ LoopReopens \/ Yield
  PROVE  Opening'
  <1>1. CASE Receive
    BY <1>1 DEF Receive, clientVars, threadVars, Opening, Recorded
  <1>2. CASE LoopSeesTheEnd
    BY <1>2 DEF LoopSeesTheEnd, threadVars, Opening, Recorded
  <1>3. CASE LoopReopens
    BY <1>3 DEF LoopReopens, Open, threadVars, Opening, Recorded
  <1>4. CASE Yield
    BY <1>4 DEF Yield, clientVars, Opening, Recorded
  <1> QED
    BY <1>1, <1>2, <1>3, <1>4

LEMMA ReplyTyped ==
  ASSUME NEW p, Reply(p) # <<>>
  PROVE  Head(Reply(p)).type # "CONNECT"
  BY DEF Reply, Plain

LEMMA CycleOpening ==
  ASSUME Opening, Cycle
  PROVE  Opening'
  <1> DEFINE p == Head(buffer)
  <1>1. pc \in {"yielding", "waiting"}
    BY DEF Cycle
  <1>2. CASE history' = [history EXCEPT !.waited = TRUE] /\ GoesOn(p)
    BY <1>1, <1>2 DEF GoesOn, Opening, Recorded
  <1>3. CASE /\ Reply(p) # <<>> /\ ws /\ GoesOn(p)
             /\ history' = [history EXCEPT !.waited = TRUE, !.spoken = Speaks(Head(Reply(p)))]
    <2>1. /\ Speaks(Head(Reply(p))) \in {"connect", "broken"}
          /\ Speaks(Head(Reply(p))) = "broken" => history.reopened
      BY <1>1, <1>3, OtherSpoken, ReplyTyped
    <2> QED
      BY <1>1, <1>3, <2>1 DEF GoesOn, Opening, Recorded
  <1>4. CASE Close /\ UNCHANGED history
    BY <1>4, CloseOpening
  <1>5. CASE Found(p) /\ Completed(p)
    <2>1. pc = "waiting" /\ pc' = "idle" /\ ws' = ws /\ is_connected' = (is_connected \/ cmd.name = "connect")
      BY <1>5 DEF Found, Completed
    <2>2. is_connected'
      BY <2>1 DEF Opening
    <2>3. /\ Recorded' /\ history'.spoken = history.spoken /\ history'.reopened = history.reopened
      BY <1>5 DEF Completed, Opening, Recorded
    <2> QED
      BY <2>1, <2>2, <2>3 DEF Opening
  <1> QED
    BY <1>2, <1>3, <1>4, <1>5 DEF Cycle

LEMMA EndOpening ==
  ASSUME Opening, WriteFails \/ TimesOut \/ YieldTimesOut \/ NoPingDue \/ PingOrClose
  PROVE  Opening'
  <1>1. CASE Close /\ UNCHANGED history
    BY <1>1, CloseOpening
  <1>2. CASE YieldTimesOut \/ NoPingDue
    BY <1>2 DEF YieldTimesOut, NoPingDue, clientVars, Opening, Recorded
  <1>3. CASE /\ pc = "pinging" /\ ws /\ pc' = "idle" /\ UNCHANGED <<ws, is_connected, cmd>>
             /\ history' = Said(Plain("PINGREQ", 0))
    <2>1. /\ Speaks(Plain("PINGREQ", 0)) \in {"connect", "broken"}
          /\ Speaks(Plain("PINGREQ", 0)) = "broken" => history.reopened
      BY <1>3, OtherSpoken, PlainTyped
    <2> QED
      BY <1>3, <2>1 DEF Said, Opening, Recorded
  <1> QED
    BY <1>1, <1>2, <1>3 DEF WriteFails, TimesOut, PingOrClose

LEMMA BrokerOpening ==
  ASSUME Opening, Broker \/ UNCHANGED sessionVars
  PROVE  Opening'
  <1>1. UNCHANGED <<clientVars, threadVars, history>>
    BY DEF Broker, BrokerReads, BrokerPublishes, BrokerKeeps, LinkDrops, sessionVars
  <1> QED
    BY <1>1 DEF clientVars, threadVars, Opening, Recorded

LEMMA StepOpening == Opening /\ [SessionNext]_sessionVars => Opening'
  <1> SUFFICES ASSUME Opening, [SessionNext]_sessionVars PROVE Opening'
    OBVIOUS
  <1>1. CASE Command
    BY <1>1, ConnectOpening, CommandOpening, SessionAssumption DEF Command
  <1>2. CASE Thread
    BY <1>2, ConnectOpening, LoopOpening, CycleOpening, EndOpening DEF Thread
  <1>3. CASE Broker \/ UNCHANGED sessionVars
    BY <1>3, BrokerOpening
  <1> QED
    BY <1>1, <1>2, <1>3 DEF SessionNext

(* PubSubClient.h, connect() and update(); lwmqtt/client.c, the commands:  *)
(* connect() opens every connection it makes with one CONNECT, whatever    *)
(* was left in the buffer, however often the broker leaves, and for any    *)
(* number of packet ids, messages and connections.                         *)
THEOREM ConnectionsOpenWithConnect == SessionSpec => []OpensWithConnect
  <1>1. Opening => OpensWithConnect
    BY DEF Opening, OpensWithConnect
  <1> QED
    BY <1>1, StepOpening, InitOpening, PTL DEF SessionSpec

-----------------------------------------------------------------------------
(* A publication at QoS 1 or 2 is one thing that moves: the PUBLISH on its *)
(* way to the broker, then the PUBACK, or the PUBREC, the PUBREL and the   *)
(* PUBCOMP. There is at most one at a time, and when it comes back the     *)
(* broker has the message.                                                 *)
AnyPacket == [type : Types, id : Nat, qos : 0..2, msg : Nat, ok : BOOLEAN]
Typed ==
  /\ broker = [accepted |-> broker.accepted, subscribed |-> broker.subscribed, received |-> broker.received,
               awaiting |-> broker.awaiting, sent |-> broker.sent, misled |-> broker.misled]
  /\ history.published \in Nat /\ broker.sent \in Nat /\ last_packet_id \in Nat
  /\ buffer \in Seq(AnyPacket) /\ toClient \in Seq(AnyPacket) /\ toBroker \in Seq(AnyPacket)

Up(p)   == (p.type = "PUBLISH" /\ p.qos # 0) \/ p.type = "PUBREL"
Down(p) == p.type \in {"PUBACK", "PUBREC", "PUBCOMP"}
NoUp(q)    == \A i \in 1..Len(q) : ~Up(q[i])
NoDown(q)  == \A i \in 1..Len(q) : ~Down(q[i])
OneUp(q)   == \A i, j \in 1..Len(q) : Up(q[i]) /\ Up(q[j]) => i = j
OneDown(q) == \A i, j \in 1..Len(q) : Down(q[i]) /\ Down(q[j]) => i = j

Quiet == NoDown(buffer) /\ NoDown(toClient) /\ NoUp(toBroker)
Alone ==
  /\ OneDown(buffer) /\ OneDown(toClient) /\ OneUp(toBroker)
  /\ NoDown(buffer) \/ NoDown(toClient)
  /\ NoDown(buffer) \/ NoUp(toBroker)
  /\ NoDown(toClient) \/ NoUp(toBroker)
(* Everything on its way to the broker that is not settled is message m.   *)
OnlyMessage(q, m) == \A i \in 1..Len(q) : Up(q[i]) => q[i].type = "PUBLISH" /\ q[i].msg = m
NotYet == NoDown(buffer) /\ NoDown(toClient) /\ OnlyMessage(toBroker, cmd.msg)

(* A connection that connect() opened with an empty buffer and that the    *)
(* client still works on.                                                  *)
Active == history.clean /\ pc # "opening" /\ (pc = "idle" => ws)
Publishing == pc = "waiting" /\ cmd.name = "publish"
Alternating ==
  /\ pc = "opening" /\ ws => toBroker = <<>> /\ toClient = <<>> /\ ~broker.accepted
  /\ Publishing => cmd.needle \in {"PUBACK", "PUBCOMP"}
  /\ Active /\ ~Publishing => Quiet
  /\ Active /\ Publishing => Alone /\ (cmd.msg \in broker.received \/ NotYet)
Delivery == Opening /\ Typed /\ Alternating /\ ConfirmedReceived

LEMMA EmptyTokens ==
  NoDown(<<>>) /\ NoUp(<<>>) /\ OneDown(<<>>) /\ OneUp(<<>>) /\ \A m : OnlyMessage(<<>>, m)
  BY DEF NoDown, NoUp, OneDown, OneUp, OnlyMessage

LEMMA NoneIsOne == \A q : (NoDown(q) => OneDown(q)) /\ (NoUp(q) => OneUp(q) /\ \A m : OnlyMessage(q, m))
  BY DEF NoDown, NoUp, OneDown, OneUp, OnlyMessage

LEMMA TailTokens ==
  ASSUME NEW q \in Seq(AnyPacket), q # <<>>
  PROVE  /\ Head(q) \in AnyPacket /\ Tail(q) \in Seq(AnyPacket)
         /\ NoDown(q) => NoDown(Tail(q)) /\ ~Down(Head(q))
         /\ OneDown(q) => OneDown(Tail(q))
         /\ OneDown(q) /\ Down(Head(q)) => NoDown(Tail(q))
         /\ NoUp(q) => NoUp(Tail(q)) /\ ~Up(Head(q))
         /\ OneUp(q) => OneUp(Tail(q))
         /\ OneUp(q) /\ Up(Head(q)) => NoUp(Tail(q))
         /\ \A m : OnlyMessage(q, m) =>
              /\ OnlyMessage(Tail(q), m)
              /\ Up(Head(q)) => Head(q).type = "PUBLISH" /\ Head(q).msg = m
  <1>1. Len(q) \in Nat \ {0} /\ Head(q) = q[1] /\ Head(q) \in AnyPacket /\ Tail(q) \in Seq(AnyPacket)
    OBVIOUS
  <1>2. Len(Tail(q)) = Len(q) - 1 /\ \A k \in 1..Len(Tail(q)) : Tail(q)[k] = q[k + 1]
    OBVIOUS
  <1>3. 1 \in 1..Len(q) /\ \A k \in 1..Len(Tail(q)) : k + 1 \in 1..Len(q) /\ k + 1 # 1
    BY <1>1, <1>2
  <1>4. \A j, k \in 1..Len(Tail(q)) : j + 1 = k + 1 => j = k
    OBVIOUS
  <1>5. /\ NoDown(q) => NoDown(Tail(q)) /\ ~Down(Head(q))
        /\ NoUp(q) => NoUp(Tail(q)) /\ ~Up(Head(q))
    BY <1>1, <1>2, <1>3 DEF NoDown, NoUp
  <1>6. (OneDown(q) => OneDown(Tail(q))) /\ (OneUp(q) => OneUp(Tail(q)))
    BY <1>2, <1>3, <1>4 DEF OneDown, OneUp
  <1>7. /\ OneDown(q) /\ Down(Head(q)) => NoDown(Tail(q))
        /\ OneUp(q) /\ Up(Head(q)) => NoUp(Tail(q))
    BY <1>1, <1>2, <1>3 DEF OneDown, OneUp, NoDown, NoUp
  <1>8. ASSUME NEW m, OnlyMessage(q, m)
        PROVE  /\ OnlyMessage(Tail(q), m)
               /\ Up(Head(q)) => Head(q).type = "PUBLISH" /\ Head(q).msg = m
    BY <1>1, <1>2, <1>3, <1>8 DEF OnlyMessage
  <1> QED
    BY <1>1, <1>5, <1>6, <1>7, <1>8

LEMMA AppendTokens ==
  ASSUME NEW q \in Seq(AnyPacket), NEW p \in AnyPacket
  PROVE  /\ Append(q, p) \in Seq(AnyPacket)
         /\ NoDown(q) => OneDown(Append(q, p))
         /\ ~Down(p) => (NoDown(q) => NoDown(Append(q, p))) /\ (OneDown(q) => OneDown(Append(q, p)))
         /\ NoUp(q) => OneUp(Append(q, p))
         /\ ~Up(p) => (NoUp(q) => NoUp(Append(q, p))) /\ (OneUp(q) => OneUp(Append(q, p)))
         /\ \A m : OnlyMessage(q, m) /\ (Up(p) => p.type = "PUBLISH" /\ p.msg = m)
                     => OnlyMessage(Append(q, p), m)
  <1>1. Append(q, p) \in Seq(AnyPacket) /\ Len(q) \in Nat /\ Len(Append(q, p)) = Len(q) + 1
    OBVIOUS
  <1>2. \A k \in 1..Len(Append(q, p)) :
          (k \in 1..Len(q) /\ Append(q, p)[k] = q[k]) \/ (k = Len(q) + 1 /\ Append(q, p)[k] = p)
    OBVIOUS
  <1>3. /\ NoDown(q) => OneDown(Append(q, p))
        /\ NoUp(q) => OneUp(Append(q, p))
    BY <1>1, <1>2 DEF NoDown, OneDown, NoUp, OneUp
  <1>4. ~Down(p) => (NoDown(q) => NoDown(Append(q, p))) /\ (OneDown(q) => OneDown(Append(q, p)))
    BY <1>1, <1>2 DEF NoDown, OneDown
  <1>5. ~Up(p) => (NoUp(q) => NoUp(Append(q, p))) /\ (OneUp(q) => OneUp(Append(q, p)))
    BY <1>1, <1>2 DEF NoUp, OneUp
  <1>6. ASSUME NEW m, OnlyMessage(q, m), Up(p) => p.type = "PUBLISH" /\ p.msg = m
        PROVE  OnlyMessage(Append(q, p), m)
    BY <1>1, <1>2, <1>6 DEF OnlyMessage
  <1> QED
    BY <1>1, <1>3, <1>4, <1>5, <1>6

LEMMA PacketsTyped ==
  /\ \A type \in Types, id \in Nat : Plain(type, id) \in AnyPacket
  /\ \A type \in Types, id \in Nat, ok \in BOOLEAN : Answer(type, id, ok) \in AnyPacket
  /\ \A id \in Nat, qos \in 0..2, msg \in Nat : Message(id, qos, msg) \in AnyPacket
  /\ \A id, qos, msg : /\ Message(id, qos, msg).type = "PUBLISH"
                       /\ Message(id, qos, msg).qos = qos /\ Message(id, qos, msg).msg = msg
  /\ \A type, id, ok : Answer(type, id, ok).type = type
  <1>1. ASSUME NEW type \in Types, NEW id \in Nat PROVE Plain(type, id) \in AnyPacket
    BY <1>1 DEF Plain, AnyPacket
  <1>2. ASSUME NEW type \in Types, NEW id \in Nat, NEW ok \in BOOLEAN PROVE Answer(type, id, ok) \in AnyPacket
    BY <1>2 DEF Plain, Answer, AnyPacket
  <1>3. ASSUME NEW id \in Nat, NEW qos \in 0..2, NEW msg \in Nat PROVE Message(id, qos, msg) \in AnyPacket
    <2>1. Plain("PUBLISH", id) \in AnyPacket
      BY <1>1 DEF Types
    <2> QED
      BY <2>1, <1>3 DEF Message, AnyPacket
  <1>4. ASSUME NEW id, NEW qos, NEW msg
        PROVE  /\ Message(id, qos, msg).type = "PUBLISH"
               /\ Message(id, qos, msg).qos = qos /\ Message(id, qos, msg).msg = msg
    BY SMT DEF Message, Plain
  <1>5. ASSUME NEW type, NEW id, NEW ok PROVE Answer(type, id, ok).type = type
    BY DEF Answer, Plain
  <1> QED
    BY <1>1, <1>2, <1>3, <1>4, <1>5

LEMMA InitDelivery == SessionInit => Delivery
  <1> SUFFICES ASSUME SessionInit PROVE Delivery
    OBVIOUS
  <1>1. buffer = <<>> /\ toClient = <<>> /\ toBroker = <<>> /\ ~ws /\ pc = "idle"
    BY DEF SessionInit
  <1>2. Typed
    BY SMT DEF SessionInit, Typed
  <1>3. Alternating
    BY <1>1 DEF Alternating, Active, Publishing
  <1>4. ConfirmedReceived
    BY DEF SessionInit, ConfirmedReceived
  <1> QED
    BY <1>2, <1>3, <1>4, InitOpening DEF Delivery

(* What leaves the packets, the broker and the confirmations alone.        *)
Silent ==
  /\ UNCHANGED <<buffer, channels, broker, last_packet_id>>
  /\ UNCHANGED history.published /\ UNCHANGED history.confirmed /\ UNCHANGED history.clean
LEMMA SilentDelivery ==
  ASSUME Delivery, Silent, Active' => Active, pc' = "opening" => (pc = "opening" /\ UNCHANGED ws) \/ ~ws',
         Publishing' <=> Publishing, Publishing => UNCHANGED cmd
  PROVE  Typed' /\ Alternating' /\ ConfirmedReceived'
  <1>1. Typed' /\ ConfirmedReceived'
    BY DEF Delivery, Silent, Typed, ConfirmedReceived, channels
  <1>2. /\ Quiet => Quiet'
        /\ Alone => Alone'
        /\ NotYet /\ UNCHANGED cmd => NotYet'
    BY DEF Silent, Quiet, Alone, NotYet, channels
  <1>3. Alternating'
    BY <1>2 DEF Delivery, Alternating, Silent, channels
  <1> QED
    BY <1>1, <1>3

LEMMA ThreadDelivery ==
  ASSUME Delivery, OpeningTimesOut \/ Update \/ LoopSeesTheEnd \/ Yield \/ YieldTimesOut \/ NoPingDue
  PROVE  Typed' /\ Alternating' /\ ConfirmedReceived'
  <1>1. Silent
    <2>1. UNCHANGED <<buffer, channels, broker, last_packet_id>>
      BY DEF OpeningTimesOut, Update, LoopSeesTheEnd, Yield, YieldTimesOut, NoPingDue, clientVars
    <2>2. UNCHANGED history \/ history' = [history EXCEPT !.waited = FALSE]
      BY DEF OpeningTimesOut, Update, LoopSeesTheEnd, Yield, YieldTimesOut, NoPingDue
    <2> QED
      BY <2>1, <2>2, SMT DEF Silent, Delivery, Opening, Recorded
  <1>2. pc' # "opening" /\ (pc = "opening" => ~ws /\ UNCHANGED ws /\ pc' = "idle")
    BY DEF OpeningTimesOut, Update, LoopSeesTheEnd, Yield, YieldTimesOut, NoPingDue, clientVars, threadVars, InLoop
  <1>3. (Publishing' <=> Publishing) /\ (Publishing => UNCHANGED cmd)
    BY DEF OpeningTimesOut, Update, LoopSeesTheEnd, Yield, YieldTimesOut, NoPingDue, threadVars, Publishing
  <1>4. Active' => Active
    BY <1>1, <1>2 DEF OpeningTimesOut, Update, LoopSeesTheEnd, Yield, YieldTimesOut, NoPingDue, clientVars, threadVars,
                      Active, Silent, IsConnected, InLoop
  <1> QED
    BY <1>1, <1>2, <1>3, <1>4, SilentDelivery

(* Closing, whatever was written before it.                                *)
LEMMA CloseDelivery ==
  ASSUME Delivery, Close, UNCHANGED broker, buffer' \in Seq(AnyPacket), toBroker' \in Seq(AnyPacket),
         UNCHANGED history.confirmed, UNCHANGED history.published
  PROVE  Typed' /\ Alternating' /\ ConfirmedReceived'
  BY DEF Delivery, Close, Typed, Alternating, Active, Publishing, ConfirmedReceived

(* A packet that is written is appended, or lost with the connection.      *)
LEMMA WrittenTokens ==
  ASSUME Typed, NEW p \in AnyPacket, Written(p)
  PROVE  /\ toBroker' \in Seq(AnyPacket)
         /\ NoUp(toBroker) => OneUp(toBroker')
         /\ ~Up(p) => (NoUp(toBroker) => NoUp(toBroker')) /\ (OneUp(toBroker) => OneUp(toBroker'))
         /\ \A m : OnlyMessage(toBroker, m) /\ (Up(p) => p.type = "PUBLISH" /\ p.msg = m)
                     => OnlyMessage(toBroker', m)
  BY AppendTokens, NoneIsOne DEF Written, Typed

LEMMA ConnectDelivery ==
  ASSUME Delivery, Connect \/ Opens \/ AskConnect
  PROVE  Typed' /\ Alternating' /\ ConfirmedReceived'
  <1>1. CASE Connect
    <2>1. ~ws'
      BY <1>1 DEF Connect, IsConnected, Delivery, Opening
    <2>2. /\ UNCHANGED <<last_packet_id, buffer, toBroker, broker, history>> /\ pc' = "opening"
          /\ toClient' = <<>> \/ UNCHANGED toClient
      BY <1>1 DEF Connect
    <2>3. Typed'
      <3>1. <<>> \in Seq(AnyPacket) /\ toClient \in Seq(AnyPacket)
        BY DEF Delivery, Typed
      <3> QED
        BY <2>2, <3>1 DEF Delivery, Typed
    <2> QED
      BY <2>1, <2>2, <2>3 DEF Delivery, Alternating, Active, Publishing, ConfirmedReceived
  <1>2. CASE Opens
    <2>1. toClient' = <<>> /\ toBroker' = <<>> /\ buffer' = buffer /\ pc' = "opening"
      BY <1>2 DEF Opens, Open, threadVars
    <2>2. broker' = [broker EXCEPT !.accepted = FALSE, !.misled = FALSE]
      BY <1>2 DEF Opens, Open
    <2>3. history' = [history EXCEPT !.connects = @ + 1, !.spoken = "nothing", !.reopened = FALSE]
      BY <1>2 DEF Opens
    <2>4. Typed'
      <3>1. history'.published = history.published
        BY <2>3, SMT DEF Delivery, Opening, Recorded
      <3>2. last_packet_id' = last_packet_id /\ <<>> \in Seq(AnyPacket)
        BY <1>2 DEF Opens
      <3>3. /\ broker'.sent = broker.sent
            /\ broker' = [accepted |-> broker'.accepted, subscribed |-> broker'.subscribed,
                          received |-> broker'.received, awaiting |-> broker'.awaiting,
                          sent |-> broker'.sent, misled |-> broker'.misled]
        BY <2>2 DEF Delivery, Typed
      <3> QED
        BY <2>1, <3>1, <3>2, <3>3 DEF Delivery, Typed
    <2>5. ~broker'.accepted /\ broker'.received = broker.received
      BY <2>2 DEF Delivery, Typed
    <2>6. ConfirmedReceived'
      BY <2>3, <2>5, SMT DEF Delivery, ConfirmedReceived, Opening, Recorded
    <2>7. Alternating'
      BY <2>1, <2>5 DEF Alternating, Active, Publishing
    <2> QED
      BY <2>4, <2>6, <2>7
  <1>3. CASE AskConnect
    <2> DEFINE p == Plain("CONNECT", 0)
    <2>1. p \in AnyPacket /\ ~Up(p)
      BY PacketsTyped, PlainTyped DEF Types, Up
    <2>2. Written(p) /\ pc' = "waiting" /\ cmd'.name = "connect" /\ UNCHANGED <<buffer, toClient, broker, last_packet_id>>
      BY <1>3 DEF AskConnect, Ask
    <2>3. toBroker = <<>> /\ toClient = <<>>
      BY <1>3 DEF AskConnect, Delivery, Alternating
    <2>4. /\ history'.clean = (buffer = <<>>) /\ history'.confirmed = history.confirmed
          /\ history'.published = history.published
      BY <1>3, SMT DEF AskConnect, Said, Delivery, Opening, Recorded
    <2> HIDE DEF p
    <2>5. Typed'
      BY <2>1, <2>2, <2>4, WrittenTokens DEF Delivery, Typed
    <2>6. ConfirmedReceived'
      BY <2>2, <2>4 DEF Delivery, ConfirmedReceived
    <2>7. NoUp(toBroker')
      BY <2>1, <2>2, <2>3, EmptyTokens, WrittenTokens DEF Delivery
    <2>8. Alternating'
      BY <2>2, <2>3, <2>4, <2>7, EmptyTokens DEF Alternating, Active, Publishing, Quiet
    <2> QED
      BY <2>5, <2>6, <2>8
  <1> QED
    BY <1>1, <1>2, <1>3

(* A command begins when nothing of an earlier one is under way.           *)
LEMMA NextIdTyped == Typed => NextPacketId \in Nat
  BY SessionAssumption DEF Typed, NextPacketId

LEMMA PublishDelivery ==
  ASSUME Delivery, NEW qos \in 0..2, Publish(qos)
  PROVE  Typed' /\ Alternating' /\ ConfirmedReceived'
  <1> DEFINE id == IF qos = 0 THEN 0 ELSE NextPacketId
             p == Message(id, qos, history.published + 1)
  <1>1. id \in Nat /\ history.published + 1 \in Nat
    BY NextIdTyped DEF Delivery, Typed
  <1>2. p \in AnyPacket /\ p.type = "PUBLISH" /\ p.qos = qos /\ p.msg = history.published + 1
    BY <1>1, PacketsTyped
  <1>3. ws /\ pc = "idle" /\ Written(p) /\ UNCHANGED <<buffer, toClient, broker>>
    BY DEF Publish, Ask, IsConnected
  <1>4. history' = [Said(p) EXCEPT !.published = p.msg]
    BY DEF Publish
  <1>5. IF qos = 0
        THEN UNCHANGED <<pc, cmd, ws, last_packet_id>>
        ELSE /\ pc' = "waiting" /\ last_packet_id' = id
             /\ cmd' = [name |-> "publish", needle |-> IF qos = 1 THEN "PUBACK" ELSE "PUBCOMP", msg |-> p.msg]
    BY DEF Publish, Ask, threadVars, clientVars
  <1> HIDE DEF p, id
  <1>6. history'.published = p.msg /\ history'.confirmed = history.confirmed /\ history'.clean = history.clean
    BY <1>4, SMT DEF Said, Delivery, Opening, Recorded
  <1>7. Typed'
    BY <1>1, <1>2, <1>3, <1>5, <1>6, WrittenTokens DEF Delivery, Typed
  <1>8. ConfirmedReceived'
    BY <1>3, <1>6 DEF Delivery, ConfirmedReceived
  <1>9. Alternating'
    <2>1. CASE ~history.clean
      <3>1. ~Active' /\ pc' # "opening"
        BY <2>1, <1>3, <1>5, <1>6 DEF Active
      <3>2. Publishing' => cmd'.needle \in {"PUBACK", "PUBCOMP"}
        BY <1>3, <1>5 DEF Publishing
      <3> QED
        BY <3>1, <3>2 DEF Alternating
    <2>2. CASE history.clean /\ qos = 0
      <3>1. Quiet /\ ~Up(p)
        BY <2>2, <1>2, <1>3 DEF Delivery, Alternating, Active, Publishing, Up
      <3>2. Quiet'
        BY <3>1, <1>2, <1>3, WrittenTokens DEF Quiet, Delivery
      <3> QED
        BY <2>2, <3>2, <1>3, <1>5 DEF Alternating, Active, Publishing
    <2>3. CASE history.clean /\ qos # 0
      <3>1. Quiet
        BY <2>3, <1>3 DEF Delivery, Alternating, Active, Publishing
      <3>2. NoDown(buffer') /\ NoDown(toClient') /\ OneUp(toBroker') /\ OnlyMessage(toBroker', p.msg)
        BY <3>1, <1>2, <1>3, WrittenTokens, NoneIsOne DEF Quiet, Delivery
      <3>3. Alone' /\ NotYet'
        BY <2>3, <3>2, <1>5, NoneIsOne DEF Alone, NotYet
      <3> QED
        BY <2>3, <3>3, <1>5 DEF Alternating, Active, Publishing
    <2> QED
      BY <2>1, <2>2, <2>3
  <1> QED
    BY <1>7, <1>8, <1>9

(* Another packet of the client, which is not part of a publication.       *)
LEMMA SpokenDelivery ==
  ASSUME Delivery, NEW p \in AnyPacket, ~Up(p), Written(p), ws, pc # "opening",
         UNCHANGED <<buffer, toClient, broker>>, last_packet_id' \in Nat,
         UNCHANGED history.confirmed, UNCHANGED history.clean, UNCHANGED history.published,
         pc' # "opening", ~Publishing, ~Publishing'
  PROVE  Typed' /\ Alternating' /\ ConfirmedReceived'
  <1>1. Typed'
    BY WrittenTokens DEF Delivery, Typed
  <1>2. ConfirmedReceived'
    BY DEF Delivery, ConfirmedReceived
  <1>3. ASSUME Active' PROVE Quiet'
    <2>1. Quiet
      BY <1>3 DEF Delivery, Alternating, Active
    <2> QED
      BY <2>1, WrittenTokens DEF Quiet, Delivery
  <1> QED
    BY <1>1, <1>2, <1>3 DEF Alternating

LEMMA RequestDelivery ==
  ASSUME Delivery, Subscribe \/ Unsubscribe
  PROVE  Typed' /\ Alternating' /\ ConfirmedReceived'
  <1>1. PICK type \in {"SUBSCRIBE", "UNSUBSCRIBE"}, name \in {"subscribe", "unsubscribe"}, needle \in Types :
          Request(type, name, needle)
    BY DEF Subscribe, Unsubscribe, Types
  <1> DEFINE p == Plain(type, NextPacketId)
  <1>2. p \in AnyPacket /\ ~Up(p) /\ NextPacketId \in Nat
    BY PacketsTyped, PlainTyped, NextIdTyped DEF Types, Up, Delivery
  <1>3. /\ ws /\ pc = "idle" /\ Written(p) /\ UNCHANGED <<buffer, toClient, broker>>
        /\ pc' = "waiting" /\ cmd'.name = name /\ last_packet_id' = NextPacketId /\ history' = Said(p)
    BY <1>1 DEF Request, Ask, IsConnected
  <1> HIDE DEF p
  <1>4. UNCHANGED history.confirmed /\ UNCHANGED history.clean /\ UNCHANGED history.published
    BY <1>3, SMT DEF Said, Delivery, Opening, Recorded
  <1>5. ~Publishing /\ ~Publishing'
    BY <1>3 DEF Publishing
  <1> QED
    BY <1>2, <1>3, <1>4, <1>5, SpokenDelivery

LEMMA EndDelivery ==
  ASSUME Delivery, Disconnect \/ WriteFails \/ TimesOut \/ PingOrClose
  PROVE  Typed' /\ Alternating' /\ ConfirmedReceived'
  <1>1. CASE Disconnect
    <2> DEFINE p == Plain("DISCONNECT", 0)
    <2>1. p \in AnyPacket
      BY PacketsTyped DEF Types
    <2>2. Written(p) /\ Close /\ history' = Said(p) /\ UNCHANGED <<buffer, broker>>
      BY <1>1 DEF Disconnect
    <2> HIDE DEF p
    <2>3. toBroker' \in Seq(AnyPacket) /\ buffer' \in Seq(AnyPacket)
      BY <2>1, <2>2, WrittenTokens DEF Delivery, Typed
    <2>4. UNCHANGED history.confirmed /\ UNCHANGED history.published
      BY <2>2, SMT DEF Said, Delivery, Opening, Recorded
    <2> QED
      BY <2>2, <2>3, <2>4, CloseDelivery
  <1>2. CASE Close /\ UNCHANGED <<buffer, toBroker, broker, history>>
    BY <1>2, CloseDelivery DEF Delivery, Typed
  <1>3. CASE /\ pc = "pinging" /\ ws /\ Written(Plain("PINGREQ", 0)) /\ pc' = "idle"
             /\ history' = Said(Plain("PINGREQ", 0)) /\ UNCHANGED <<last_packet_id, buffer, toClient, broker>>
    <2> DEFINE p == Plain("PINGREQ", 0)
    <2>1. p \in AnyPacket /\ ~Up(p)
      BY PacketsTyped, PlainTyped DEF Types, Up
    <2>2. Written(p) /\ history' = Said(p)
      BY <1>3
    <2> HIDE DEF p
    <2>3. UNCHANGED history.confirmed /\ UNCHANGED history.clean /\ UNCHANGED history.published
      BY <2>2, SMT DEF Said, Delivery, Opening, Recorded
    <2>4. ~Publishing /\ ~Publishing' /\ last_packet_id' \in Nat
      BY <1>3 DEF Publishing, Delivery, Typed
    <2> QED
      BY <1>3, <2>1, <2>2, <2>3, <2>4, SpokenDelivery
  <1> QED
    BY <1>1, <1>2, <1>3 DEF WriteFails, TimesOut, PingOrClose

(* Both ends of the connection forget what was on its way.                 *)
LEMMA LostDelivery ==
  ASSUME Delivery, toClient' = <<>>, toBroker' = <<>>, UNCHANGED <<last_packet_id, threadVars, buffer>>,
         broker'.received = broker.received, broker'.sent = broker.sent,
         broker' = [accepted |-> broker'.accepted, subscribed |-> broker'.subscribed,
                    received |-> broker'.received, awaiting |-> broker'.awaiting,
                    sent |-> broker'.sent, misled |-> broker'.misled],
         UNCHANGED history.confirmed, UNCHANGED history.clean, UNCHANGED history.published,
         Active' => Active, pc = "opening" /\ ws' => ~broker'.accepted
  PROVE  Typed' /\ Alternating' /\ ConfirmedReceived'
  <1>1. <<>> \in Seq(AnyPacket)
    OBVIOUS
  <1>2. Typed' /\ ConfirmedReceived'
    BY <1>1 DEF Delivery, Typed, ConfirmedReceived
  <1>3. (Publishing' <=> Publishing) /\ UNCHANGED <<pc, cmd, buffer>>
    BY DEF Publishing, threadVars
  <1>4. (Quiet => Quiet') /\ (Alone => Alone') /\ (NotYet => NotYet')
    BY <1>3, EmptyTokens DEF Quiet, Alone, NotYet
  <1>5. Alternating'
    BY <1>3, <1>4 DEF Delivery, Alternating
  <1> QED
    BY <1>2, <1>5

LEMMA LossDelivery ==
  ASSUME Delivery, LoopReopens \/ LinkDrops
  PROVE  Typed' /\ Alternating' /\ ConfirmedReceived'
  <1>1. CASE LoopReopens
    <2>1. /\ toClient' = <<>> /\ toBroker' = <<>> /\ pc \in {"yielding", "waiting"}
          /\ UNCHANGED <<last_packet_id, threadVars, buffer>>
          /\ broker' = [broker EXCEPT !.accepted = FALSE, !.misled = FALSE]
      BY <1>1 DEF LoopReopens, Open
    <2>2. /\ broker'.received = broker.received /\ broker'.sent = broker.sent
          /\ broker' = [accepted |-> broker'.accepted, subscribed |-> broker'.subscribed,
                        received |-> broker'.received, awaiting |-> broker'.awaiting,
                        sent |-> broker'.sent, misled |-> broker'.misled]
      BY <2>1 DEF Delivery, Typed
    <2>3. history' = [history EXCEPT !.connects = @ + 1, !.spoken = "nothing", !.reopened = TRUE]
      BY <1>1 DEF LoopReopens
    <2>4. UNCHANGED history.confirmed /\ UNCHANGED history.clean /\ UNCHANGED history.published
      BY <2>3, SMT DEF Delivery, Opening, Recorded
    <2>5. Active' => Active
      BY <2>1, <2>4 DEF Active, threadVars
    <2> QED
      BY <2>1, <2>2, <2>4, <2>5, LostDelivery
  <1>2. CASE LinkDrops
    <2>1. /\ toClient' = <<>> /\ toBroker' = <<>> /\ UNCHANGED <<last_packet_id, threadVars, buffer>>
          /\ UNCHANGED <<broker, history, ws, pc>>
      BY <1>2 DEF LinkDrops, clientVars, threadVars
    <2>2. (Active' => Active) /\ (pc = "opening" /\ ws' => ~broker'.accepted)
      BY <2>1 DEF Active, Delivery, Alternating
    <2>3. broker' = [accepted |-> broker'.accepted, subscribed |-> broker'.subscribed,
                     received |-> broker'.received, awaiting |-> broker'.awaiting,
                     sent |-> broker'.sent, misled |-> broker'.misled]
      BY <2>1 DEF Delivery, Typed
    <2> QED
      BY <2>1, <2>2, <2>3, LostDelivery
  <1> QED
    BY <1>1, <1>2

LEMMA ReceiveDelivery ==
  ASSUME Delivery, Receive
  PROVE  Typed' /\ Alternating' /\ ConfirmedReceived'
  <1> DEFINE p == Head(toClient)
  <1>1. /\ InLoop /\ toClient # <<>> /\ toClient \in Seq(AnyPacket) /\ buffer \in Seq(AnyPacket)
        /\ buffer' = Append(buffer, p) /\ toClient' = Tail(toClient)
        /\ UNCHANGED <<pc, cmd, ws, last_packet_id, toBroker, broker, history>>
    BY DEF Receive, clientVars, threadVars, Delivery, Typed
  <1>2. /\ p \in AnyPacket /\ toClient' \in Seq(AnyPacket)
        /\ NoDown(toClient) => NoDown(toClient') /\ ~Down(p)
        /\ OneDown(toClient) => OneDown(toClient')
        /\ OneDown(toClient) /\ Down(p) => NoDown(toClient')
    BY <1>1, TailTokens
  <1> HIDE DEF p
  <1>3. /\ buffer' \in Seq(AnyPacket)
        /\ NoDown(buffer) => OneDown(buffer')
        /\ ~Down(p) => (NoDown(buffer) => NoDown(buffer')) /\ (OneDown(buffer) => OneDown(buffer'))
    BY <1>1, <1>2, AppendTokens
  <1>4. Typed' /\ ConfirmedReceived'
    BY <1>1, <1>2, <1>3 DEF Delivery, Typed, ConfirmedReceived
  <1>5. (Quiet => Quiet') /\ (NotYet => NotYet')
    BY <1>1, <1>2, <1>3 DEF Quiet, NotYet
  <1>6. Alone => Alone'
    BY <1>1, <1>2, <1>3 DEF Alone
  <1>7. (Active' <=> Active) /\ (Publishing' <=> Publishing) /\ pc # "opening"
    BY <1>1 DEF Active, Publishing, InLoop
  <1>8. Alternating'
    BY <1>1, <1>5, <1>6, <1>7 DEF Delivery, Alternating
  <1> QED
    BY <1>4, <1>8

(* What the client makes of a packet: only a PUBREC of the broker calls    *)
(* for a packet that goes on with a publication.                           *)
LEMMA ReplyTokens ==
  ASSUME NEW p \in AnyPacket, Reply(p) # <<>>
  PROVE  Head(Reply(p)) \in AnyPacket /\ (Up(Head(Reply(p))) => Down(p) /\ p.type = "PUBREC")
  <1>1. p.id \in Nat
    BY DEF AnyPacket
  <1>2. \/ p.type = "PUBREC" /\ Reply(p) = <<Plain("PUBREL", p.id)>>
        \/ \E type \in {"PUBACK", "PUBREC", "PUBCOMP"} : Reply(p) = <<Plain(type, p.id)>>
    BY DEF Reply
  <1>3. CASE p.type = "PUBREC" /\ Reply(p) = <<Plain("PUBREL", p.id)>>
    BY <1>1, <1>3, PacketsTyped DEF Types, Down
  <1>4. ASSUME NEW type \in {"PUBACK", "PUBREC", "PUBCOMP"}, Reply(p) = <<Plain(type, p.id)>>
        PROVE  Head(Reply(p)) \in AnyPacket /\ ~Up(Head(Reply(p)))
    BY <1>1, <1>4, PacketsTyped, PlainTyped DEF Types, Up
  <1> QED
    BY <1>2, <1>3, <1>4

LEMMA CycleDelivery ==
  ASSUME Delivery, Cycle
  PROVE  Typed' /\ Alternating' /\ ConfirmedReceived'
  <1> DEFINE p == Head(buffer)
  <1>1. /\ pc \in {"yielding", "waiting"} /\ buffer # <<>> /\ buffer \in Seq(AnyPacket)
        /\ buffer' = Tail(buffer) /\ broker' = broker
    BY DEF Cycle, Delivery, Typed
  <1>2. /\ p \in AnyPacket /\ buffer' \in Seq(AnyPacket)
        /\ NoDown(buffer) => NoDown(buffer') /\ ~Down(p)
        /\ OneDown(buffer) => OneDown(buffer')
        /\ OneDown(buffer) /\ Down(p) => NoDown(buffer')
    BY <1>1, TailTokens
  <1>3. \/ Close /\ UNCHANGED <<toBroker, history>>
        \/ GoesOn(p) /\ UNCHANGED toBroker /\ history' = [history EXCEPT !.waited = TRUE]
        \/ /\ GoesOn(p) /\ Reply(p) # <<>> /\ Written(Head(Reply(p)))
           /\ history' = [history EXCEPT !.waited = TRUE, !.spoken = Speaks(Head(Reply(p)))]
        \/ Found(p) /\ Completed(p)
    BY DEF Cycle
  <1> HIDE DEF p
  <1>4. CASE Close /\ UNCHANGED <<toBroker, history>>
    BY <1>1, <1>2, <1>4, CloseDelivery DEF Delivery, Typed
  <1>5. ASSUME GoesOn(p), toBroker' \in Seq(AnyPacket),
               NoUp(toBroker) /\ ~Down(p) => NoUp(toBroker'),
               OneUp(toBroker) /\ ~Down(p) => OneUp(toBroker'),
               NoUp(toBroker) => OneUp(toBroker'),
               OnlyMessage(toBroker, cmd.msg) /\ ~Down(p) => OnlyMessage(toBroker', cmd.msg),
               UNCHANGED history.confirmed, UNCHANGED history.clean, UNCHANGED history.published
        PROVE  Typed' /\ Alternating' /\ ConfirmedReceived'
    <2>1. UNCHANGED <<ws, cmd, toClient, last_packet_id>> /\ pc' \in {"yielding", "waiting", "pinging"}
          /\ (pc' = "waiting" <=> pc = "waiting")
      BY <1>1, <1>5 DEF GoesOn
    <2>2. Typed' /\ ConfirmedReceived'
      BY <1>1, <1>2, <1>5, <2>1 DEF Delivery, Typed, ConfirmedReceived
    <2>3. (Quiet => Quiet') /\ (NotYet => NotYet')
      BY <1>1, <1>2, <1>5, <2>1 DEF Quiet, NotYet
    <2>4. Alone => Alone'
      BY <1>1, <1>2, <1>5, <2>1 DEF Alone
    <2>5. (Active' <=> Active) /\ (Publishing' <=> Publishing)
      BY <1>1, <1>5, <2>1 DEF Active, Publishing
    <2> QED
      BY <1>1, <2>1, <2>2, <2>3, <2>4, <2>5 DEF Delivery, Alternating
  <1>6. CASE GoesOn(p) /\ UNCHANGED toBroker /\ history' = [history EXCEPT !.waited = TRUE]
    <2>1. UNCHANGED history.confirmed /\ UNCHANGED history.clean /\ UNCHANGED history.published
      BY <1>6, SMT DEF Delivery, Opening, Recorded
    <2> QED
      BY <1>5, <1>6, <2>1, NoneIsOne DEF Delivery, Typed
  <1>7. CASE /\ GoesOn(p) /\ Reply(p) # <<>> /\ Written(Head(Reply(p)))
             /\ history' = [history EXCEPT !.waited = TRUE, !.spoken = Speaks(Head(Reply(p)))]
    <2>1. UNCHANGED history.confirmed /\ UNCHANGED history.clean /\ UNCHANGED history.published
      BY <1>7, SMT DEF Delivery, Opening, Recorded
    <2>2. Head(Reply(p)) \in AnyPacket /\ (~Down(p) => ~Up(Head(Reply(p))))
      BY <1>2, <1>7, ReplyTokens
    <2>3. /\ toBroker' \in Seq(AnyPacket)
          /\ NoUp(toBroker) /\ ~Down(p) => NoUp(toBroker')
          /\ OneUp(toBroker) /\ ~Down(p) => OneUp(toBroker')
          /\ NoUp(toBroker) => OneUp(toBroker')
          /\ OnlyMessage(toBroker, cmd.msg) /\ ~Down(p) => OnlyMessage(toBroker', cmd.msg)
      BY <1>7, <2>2, WrittenTokens DEF Delivery
    <2> QED
      BY <1>5, <1>7, <2>1, <2>3
  <1>8. CASE Found(p) /\ Completed(p)
    <2>1. /\ pc = "waiting" /\ p.type = cmd.needle /\ pc' = "idle"
          /\ UNCHANGED <<ws, last_packet_id, toClient, toBroker>>
      BY <1>8 DEF Found, Completed, channels
    <2>2. /\ history'.clean = history.clean /\ history'.published = history.published
          /\ history'.confirmed = IF cmd.name = "publish"
                                  THEN history.confirmed \cup {[msg |-> cmd.msg, clean |-> history.clean]}
                                  ELSE history.confirmed
      BY <1>8, SMT DEF Completed, Delivery, Opening, Recorded
    <2>3. Typed'
      BY <1>1, <1>2, <2>1, <2>2 DEF Delivery, Typed
    <2>4. Active' => Active
      BY <2>1, <2>2 DEF Active
    <2>5. CASE cmd.name = "publish"
      <3>1. Publishing /\ Down(p)
        BY <2>1, <2>5 DEF Publishing, Delivery, Alternating, Down
      <3>2. history.clean => Alone /\ cmd.msg \in broker.received
        BY <1>2, <2>1, <3>1 DEF Delivery, Alternating, Active, NotYet
      <3>3. ConfirmedReceived'
        BY <1>1, <2>2, <2>5, <3>2 DEF Delivery, ConfirmedReceived
      <3>4. Alone => Quiet'
        BY <1>2, <2>1, <3>1 DEF Alone, Quiet
      <3> QED
        BY <2>1, <2>2, <2>3, <3>2, <3>3, <3>4 DEF Alternating, Active, Publishing
    <2>6. CASE cmd.name # "publish"
      <3>1. ConfirmedReceived'
        BY <1>1, <2>2, <2>6 DEF Delivery, ConfirmedReceived
      <3>2. Active => Quiet'
        BY <1>1, <1>2, <2>1, <2>6 DEF Delivery, Alternating, Publishing, Quiet
      <3> QED
        BY <2>1, <2>3, <2>4, <3>1, <3>2 DEF Alternating, Publishing
    <2> QED
      BY <2>5, <2>6
  <1> QED
    BY <1>3, <1>4, <1>6, <1>7, <1>8

(* The broker takes a packet and says at most one.                         *)
LEMMA AnsweredDelivery ==
  ASSUME Delivery, toBroker # <<>>, toBroker' = Tail(toBroker), BrokerKeeps,
         toClient' = toClient \/
           \E a \in AnyPacket :
             /\ toClient' = Append(toClient, a)
             /\ Down(a) => /\ Up(Head(toBroker))
                           /\ Head(toBroker).type = "PUBLISH" => Head(toBroker).msg \in broker'.received,
         broker.received \subseteq broker'.received, broker'.sent = broker.sent,
         broker' = [accepted |-> broker'.accepted, subscribed |-> broker'.subscribed,
                    received |-> broker'.received, awaiting |-> broker'.awaiting,
                    sent |-> broker'.sent, misled |-> broker'.misled]
  PROVE  Typed' /\ Alternating' /\ ConfirmedReceived'
  <1> DEFINE p == Head(toBroker)
  <1>1. toBroker \in Seq(AnyPacket) /\ toClient \in Seq(AnyPacket)
        /\ UNCHANGED <<pc, cmd, ws, last_packet_id, buffer, history>>
    BY DEF Delivery, Typed, BrokerKeeps, clientVars, threadVars
  <1>2. /\ p \in AnyPacket /\ toBroker' \in Seq(AnyPacket)
        /\ NoUp(toBroker) => NoUp(toBroker') /\ ~Up(p)
        /\ OneUp(toBroker) => OneUp(toBroker')
        /\ OneUp(toBroker) /\ Up(p) => NoUp(toBroker')
        /\ OnlyMessage(toBroker, cmd.msg) => /\ OnlyMessage(toBroker', cmd.msg)
                                             /\ Up(p) => p.type = "PUBLISH" /\ p.msg = cmd.msg
    BY <1>1, TailTokens
  <1>3. /\ toClient' \in Seq(AnyPacket)
        /\ NoDown(toClient) => OneDown(toClient')
        /\ ~Up(p) => (NoDown(toClient) => NoDown(toClient')) /\ (OneDown(toClient) => OneDown(toClient'))
        /\ NoDown(toClient) => NoDown(toClient') \/ (Up(p) /\ (p.type = "PUBLISH" => p.msg \in broker'.received))
    BY <1>1, AppendTokens, NoneIsOne
  <1> HIDE DEF p
  <1>4. Typed' /\ ConfirmedReceived'
    BY <1>1, <1>2, <1>3 DEF Delivery, Typed, ConfirmedReceived
  <1>5. Quiet => Quiet'
    BY <1>1, <1>2, <1>3 DEF Quiet
  <1>6. Alone => Alone'
    BY <1>1, <1>2, <1>3 DEF Alone
  <1>7. NotYet => NotYet' \/ cmd.msg \in broker'.received
    BY <1>1, <1>2, <1>3 DEF NotYet
  <1>8. (Active' <=> Active) /\ (Publishing' <=> Publishing)
    BY <1>1 DEF Active, Publishing
  <1>9. ~(pc = "opening" /\ ws)
    BY DEF Delivery, Alternating
  <1> QED
    BY <1>1, <1>4, <1>5, <1>6, <1>7, <1>8, <1>9 DEF Delivery, Alternating

LEMMA SaysTokens ==
  ASSUME Typed
  PROVE  /\ Says(<<>>) => toClient' = toClient
         /\ \A a \in AnyPacket : Says(<<a>>) => toClient' = toClient \/ toClient' = Append(toClient, a)
  <1>1. toClient \in Seq(AnyPacket)
    BY DEF Typed
  <1>2. ASSUME Says(<<>>) PROVE toClient' = toClient
    BY <1>1, <1>2 DEF Says
  <1>3. ASSUME NEW a \in AnyPacket, Says(<<a>>)
        PROVE  toClient' = toClient \/ toClient' = Append(toClient, a)
    BY <1>1, <1>3 DEF Says
  <1> QED
    BY <1>2, <1>3

LEMMA BrokerDelivery ==
  ASSUME Delivery, BrokerReads
  PROVE  Typed' /\ Alternating' /\ ConfirmedReceived'
  <1> DEFINE p == Head(toBroker)
             Whole(b) == b = [accepted |-> b.accepted, subscribed |-> b.subscribed, received |-> b.received,
                              awaiting |-> b.awaiting, sent |-> b.sent, misled |-> b.misled]
             Said1 == toClient' = toClient \/
                        \E a \in AnyPacket :
                          /\ toClient' = Append(toClient, a)
                          /\ Down(a) => Up(p) /\ (p.type = "PUBLISH" => p.msg \in broker'.received)
             Kept1 == broker.received \subseteq broker'.received /\ broker'.sent = broker.sent /\ Whole(broker')
  <1>1. toBroker # <<>> /\ toBroker' = Tail(toBroker) /\ BrokerKeeps /\ Typed
    BY DEF BrokerReads, Delivery
  <1>2. p \in AnyPacket /\ p.id \in Nat /\ p.qos \in 0..2 /\ p.type \in Types
    <2>1. p \in AnyPacket
      BY <1>1, TailTokens DEF Typed
    <2> QED
      BY <2>1 DEF AnyPacket
  <1>3. Whole(broker)
    BY <1>1 DEF Typed
  <1>4. UNCHANGED broker => Kept1
    BY <1>3
  <1> SUFFICES Said1 /\ Kept1
    BY <1>1, AnsweredDelivery
  <1> HIDE DEF Said1, Kept1
  <1>5. CASE /\ UNCHANGED toClient
             /\ UNCHANGED broker \/ broker' = [broker EXCEPT !.misled = @ \/ Acknowledges(p)]
    BY <1>3, <1>4, <1>5 DEF Kept1, Said1
  <1>6. ASSUME NEW ok \in BOOLEAN, OnConnect(ok) PROVE Said1 /\ Kept1
    <2>1. Answer("CONNACK", 0, ok) \in AnyPacket /\ ~Down(Answer("CONNACK", 0, ok))
      BY PacketsTyped DEF Types, Down
    <2>2. broker' = [broker EXCEPT !.accepted = ok, !.awaiting = {}, !.subscribed = FALSE]
      BY <1>6 DEF OnConnect
    <2>3. Kept1
      BY <1>3, <2>2 DEF Kept1
    <2> QED
      BY <1>1, <1>6, <2>1, <2>3, SaysTokens DEF OnConnect, Said1
  <1>7. CASE p.type = "PUBLISH" /\ OnPublish(p)
    <2>1. broker' = [broker EXCEPT !.received = @ \cup {p.msg}]
      BY <1>7 DEF OnPublish
    <2>2. Kept1 /\ p.msg \in broker'.received
      BY <1>3, <2>1 DEF Kept1
    <2>3. CASE p.qos = 0
      <3>1. Says(<<>>)
        BY <1>7, <2>3 DEF OnPublish
      <3> QED
        BY <1>1, <2>2, <3>1, SaysTokens DEF Said1
    <2>4. CASE p.qos # 0
      <3>1. PICK type \in {"PUBACK", "PUBREC"} : Says(<<Plain(type, p.id)>>)
        BY <1>7, <1>2, <2>4 DEF OnPublish
      <3>2. Plain(type, p.id) \in AnyPacket /\ Up(p)
        BY <1>2, <1>7, <2>4, PacketsTyped DEF Types, Up
      <3> QED
        BY <1>1, <2>2, <3>1, <3>2, SaysTokens DEF Said1
    <2> QED
      BY <2>2, <2>3, <2>4
  <1>8. CASE p.type = "PUBREL" /\ Says(<<Plain("PUBCOMP", p.id)>>) /\ UNCHANGED broker
    <2>1. Plain("PUBCOMP", p.id) \in AnyPacket /\ Up(p) /\ p.type # "PUBLISH"
      BY <1>2, <1>8, PacketsTyped DEF Types, Up
    <2> QED
      BY <1>1, <1>4, <1>8, <2>1, SaysTokens DEF Said1
  <1>9. ASSUME NEW ok \in BOOLEAN, OnSubscribe(p, ok) PROVE Said1 /\ Kept1
    <2>1. Answer("SUBACK", p.id, ok) \in AnyPacket /\ ~Down(Answer("SUBACK", p.id, ok))
      BY <1>2, PacketsTyped DEF Types, Down
    <2>2. broker' = [broker EXCEPT !.subscribed = @ \/ ok]
      BY <1>9 DEF OnSubscribe
    <2>3. Kept1
      BY <1>3, <2>2 DEF Kept1
    <2> QED
      BY <1>1, <1>9, <2>1, <2>3, SaysTokens DEF OnSubscribe, Said1
  <1>10. CASE OnUnsubscribe(p)
    <2>1. Plain("UNSUBACK", p.id) \in AnyPacket /\ ~Down(Plain("UNSUBACK", p.id))
      BY <1>2, PacketsTyped, PlainTyped DEF Types, Down
    <2>2. broker' = [broker EXCEPT !.subscribed = FALSE]
      BY <1>10 DEF OnUnsubscribe
    <2>3. Kept1
      BY <1>3, <2>2 DEF Kept1
    <2> QED
      BY <1>1, <1>10, <2>1, <2>3, SaysTokens DEF OnUnsubscribe, Said1
  <1>11. CASE Says(<<Plain("PINGRESP", 0)>>) /\ UNCHANGED broker
    <2>1. Plain("PINGRESP", 0) \in AnyPacket /\ ~Down(Plain("PINGRESP", 0))
      BY PacketsTyped, PlainTyped DEF Types, Down
    <2> QED
      BY <1>1, <1>4, <1>11, <2>1, SaysTokens DEF Said1
  <1>12. CASE OnAck(p)
    <2>1. Plain("PUBREL", p.id) \in AnyPacket /\ ~Down(Plain("PUBREL", p.id))
      BY <1>2, PacketsTyped, PlainTyped DEF Types, Down
    <2>2. broker'.received = broker.received /\ broker'.sent = broker.sent /\ Whole(broker')
      BY <1>3, <1>12 DEF OnAck
    <2>3. Says(<<Plain("PUBREL", p.id)>>) \/ Says(<<>>)
      BY <1>12 DEF OnAck
    <2> QED
      BY <1>1, <2>1, <2>2, <2>3, SaysTokens DEF Kept1, Said1
  <1> HIDE DEF p
  <1>13. \/ /\ UNCHANGED toClient
            /\ UNCHANGED broker \/ broker' = [broker EXCEPT !.misled = @ \/ Acknowledges(p)]
         \/ \E ok \in BOOLEAN : OnConnect(ok) \/ OnSubscribe(p, ok)
         \/ p.type = "PUBLISH" /\ OnPublish(p)
         \/ p.type = "PUBREL" /\ Says(<<Plain("PUBCOMP", p.id)>>) /\ UNCHANGED broker
         \/ OnUnsubscribe(p) \/ OnAck(p)
         \/ Says(<<Plain("PINGRESP", 0)>>) /\ UNCHANGED broker
    BY DEF BrokerReads, p
  <1> QED
    BY <1>5, <1>6, <1>7, <1>8, <1>9, <1>10, <1>11, <1>12, <1>13

LEMMA MessageDelivery ==
  ASSUME Delivery, NEW qos \in 0..2, BrokerPublishes(qos)
  PROVE  Typed' /\ Alternating' /\ ConfirmedReceived'
  <1> DEFINE n == broker.sent + 1
             p == Message(IF qos = 0 THEN 0 ELSE n, qos, n)
  <1>1. p \in AnyPacket /\ ~Down(p) /\ n \in Nat
    <2>1. n \in Nat /\ (IF qos = 0 THEN 0 ELSE n) \in Nat
      BY DEF Delivery, Typed
    <2>2. p \in AnyPacket /\ p.type = "PUBLISH"
      BY <2>1, PacketsTyped
    <2> QED
      BY <2>1, <2>2 DEF Down
  <1>2. /\ UNCHANGED <<pc, cmd, ws, last_packet_id, buffer, toBroker, history>>
        /\ broker.accepted /\ Says(<<p>>)
    BY DEF BrokerPublishes, BrokerKeeps, clientVars, threadVars
  <1>3. broker'.received = broker.received /\ broker'.sent = n
        /\ broker' = [accepted |-> broker'.accepted, subscribed |-> broker'.subscribed,
                      received |-> broker'.received, awaiting |-> broker'.awaiting,
                      sent |-> broker'.sent, misled |-> broker'.misled]
    BY DEF BrokerPublishes, Delivery, Typed
  <1> HIDE DEF p, n
  <1>4. /\ toClient' \in Seq(AnyPacket)
        /\ NoDown(toClient) => NoDown(toClient')
        /\ OneDown(toClient) => OneDown(toClient')
    BY <1>1, <1>2, SaysTokens, AppendTokens DEF Delivery, Typed
  <1>5. Typed' /\ ConfirmedReceived'
    BY <1>1, <1>2, <1>3, <1>4 DEF Delivery, Typed, ConfirmedReceived
  <1>6. (Quiet => Quiet') /\ (Alone => Alone') /\ (NotYet => NotYet')
    BY <1>2, <1>4 DEF Quiet, Alone, NotYet
  <1>7. (Active' <=> Active) /\ (Publishing' <=> Publishing)
    BY <1>2 DEF Active, Publishing
  <1> QED
    BY <1>2, <1>3, <1>5, <1>6, <1>7 DEF Delivery, Alternating

LEMMA StepDelivery == Delivery /\ [SessionNext]_sessionVars => Delivery'
  <1> SUFFICES ASSUME Delivery, [SessionNext]_sessionVars PROVE Typed' /\ Alternating' /\ ConfirmedReceived'
    BY StepOpening DEF Delivery
  <1>1. CASE Command
    <2>1. CASE \E q \in QosLevels : Publish(q)
      BY <2>1, PublishDelivery, SessionAssumption
    <2> QED
      BY <1>1, <2>1, ConnectDelivery, RequestDelivery, EndDelivery, ThreadDelivery DEF Command
  <1>2. CASE Thread
    BY <1>2, ConnectDelivery, ThreadDelivery, EndDelivery, LossDelivery, ReceiveDelivery, CycleDelivery DEF Thread
  <1>3. CASE Broker
    <2>1. CASE \E q \in QosLevels : BrokerPublishes(q)
      BY <2>1, MessageDelivery, SessionAssumption
    <2> QED
      BY <1>3, <2>1, BrokerDelivery, LossDelivery DEF Broker
  <1>4. CASE UNCHANGED sessionVars
    <2>1. Silent /\ (Active' <=> Active) /\ (Publishing' <=> Publishing) /\ UNCHANGED <<pc, ws, cmd>>
      BY <1>4 DEF sessionVars, clientVars, threadVars, channels, Silent, Active, Publishing
    <2> QED
      BY <2>1, SilentDelivery
  <1> QED
    BY <1>1, <1>2, <1>3, <1>4 DEF SessionNext

(* PubSubClient.h:330 and lwmqtt/client.c:432: a publish() at QoS 1 or 2   *)
(* that returns true means that the broker has the message, although no    *)
(* packet id is compared, provided connect() found an empty receive        *)
(* buffer; for any number of messages, connections and packet ids.         *)
THEOREM PublicationsReceived == SessionSpec => []ConfirmedReceived
  <1>1. Delivery => ConfirmedReceived
    BY DEF Delivery
  <1> QED
    BY <1>1, StepDelivery, InitDelivery, PTL DEF SessionSpec

-----------------------------------------------------------------------------
(* Packets of a set on their way: requests U to the broker, and what they  *)
(* are answered with, D, back to the client. None is under way, or one at  *)
(* most, in one place.                                                     *)
NoneIn(q, S) == \A i \in 1..Len(q) : q[i] \notin S
OneIn(q, S)  == \A i, j \in 1..Len(q) : q[i] \in S /\ q[j] \in S => i = j
None(b, c, t, U, D) == NoneIn(b, D) /\ NoneIn(c, D) /\ NoneIn(t, U)
Single(b, c, t, U, D) ==
  /\ OneIn(b, D) /\ OneIn(c, D) /\ OneIn(t, U)
  /\ NoneIn(b, D) \/ NoneIn(c, D)
  /\ NoneIn(b, D) \/ NoneIn(t, U)
  /\ NoneIn(c, D) \/ NoneIn(t, U)

LEMMA EmptyHolds == \A S : NoneIn(<<>>, S) /\ OneIn(<<>>, S)
  BY DEF NoneIn, OneIn

LEMMA Fewer ==
  ASSUME NEW q, NEW S
  PROVE  /\ NoneIn(q, S) => OneIn(q, S)
         /\ \A T : T \subseteq S => (NoneIn(q, S) => NoneIn(q, T))
  BY DEF NoneIn, OneIn

LEMMA TailHolds ==
  ASSUME NEW q \in Seq(AnyPacket), q # <<>>, NEW S
  PROVE  /\ NoneIn(q, S) => NoneIn(Tail(q), S) /\ Head(q) \notin S
         /\ OneIn(q, S) => OneIn(Tail(q), S)
         /\ OneIn(q, S) /\ Head(q) \in S => NoneIn(Tail(q), S)
  <1>1. Len(q) \in Nat \ {0} /\ Head(q) = q[1]
    OBVIOUS
  <1>2. Len(Tail(q)) = Len(q) - 1 /\ \A k \in 1..Len(Tail(q)) : Tail(q)[k] = q[k + 1]
    OBVIOUS
  <1>3. 1 \in 1..Len(q) /\ \A k \in 1..Len(Tail(q)) : k + 1 \in 1..Len(q) /\ k + 1 # 1
    BY <1>1, <1>2
  <1>4. \A j, k \in 1..Len(Tail(q)) : j + 1 = k + 1 => j = k
    OBVIOUS
  <1>5. NoneIn(q, S) => NoneIn(Tail(q), S) /\ Head(q) \notin S
    BY <1>1, <1>2, <1>3 DEF NoneIn
  <1>6. OneIn(q, S) => OneIn(Tail(q), S)
    BY <1>2, <1>3, <1>4 DEF OneIn
  <1>7. OneIn(q, S) /\ Head(q) \in S => NoneIn(Tail(q), S)
    BY <1>1, <1>2, <1>3 DEF OneIn, NoneIn
  <1> QED
    BY <1>5, <1>6, <1>7

LEMMA AppendHolds ==
  ASSUME NEW q \in Seq(AnyPacket), NEW p \in AnyPacket, NEW S
  PROVE  /\ p \notin S => (NoneIn(q, S) => NoneIn(Append(q, p), S)) /\ (OneIn(q, S) => OneIn(Append(q, p), S))
         /\ NoneIn(q, S) => OneIn(Append(q, p), S)
  <1>1. Len(q) \in Nat /\ Len(Append(q, p)) = Len(q) + 1
    OBVIOUS
  <1>2. \A k \in 1..Len(Append(q, p)) :
          (k \in 1..Len(q) /\ Append(q, p)[k] = q[k]) \/ (k = Len(q) + 1 /\ Append(q, p)[k] = p)
    OBVIOUS
  <1>3. p \notin S => (NoneIn(q, S) => NoneIn(Append(q, p), S)) /\ (OneIn(q, S) => OneIn(Append(q, p), S))
    BY <1>1, <1>2 DEF NoneIn, OneIn
  <1>4. NoneIn(q, S) => OneIn(Append(q, p), S)
    BY <1>1, <1>2 DEF NoneIn, OneIn
  <1> QED
    BY <1>3, <1>4

(* The moves of a packet: from the socket into the buffer, out of the      *)
(* buffer with an answer or without, out of the broker's end likewise, and *)
(* into the socket.                                                        *)
LEMMA ReceiveMoves ==
  ASSUME NEW b \in Seq(AnyPacket), NEW c \in Seq(AnyPacket), NEW t, NEW U, NEW D, c # <<>>
  PROVE  /\ None(b, c, t, U, D) => None(Append(b, Head(c)), Tail(c), t, U, D)
         /\ Single(b, c, t, U, D) => Single(Append(b, Head(c)), Tail(c), t, U, D)
         /\ NoneIn(b, D) /\ NoneIn(c, D) => NoneIn(Append(b, Head(c)), D) /\ NoneIn(Tail(c), D)
  <1>1. Head(c) \in AnyPacket
    OBVIOUS
  <1>2. /\ NoneIn(c, D) => NoneIn(Tail(c), D) /\ Head(c) \notin D
        /\ OneIn(c, D) => OneIn(Tail(c), D)
        /\ OneIn(c, D) /\ Head(c) \in D => NoneIn(Tail(c), D)
    BY TailHolds
  <1>3. /\ Head(c) \notin D => (NoneIn(b, D) => NoneIn(Append(b, Head(c)), D))
                               /\ (OneIn(b, D) => OneIn(Append(b, Head(c)), D))
        /\ NoneIn(b, D) => OneIn(Append(b, Head(c)), D)
    BY <1>1, AppendHolds
  <1> QED
    BY <1>2, <1>3 DEF None, Single

LEMMA TakeMoves ==
  ASSUME NEW b \in Seq(AnyPacket), NEW c, NEW t \in Seq(AnyPacket), NEW t2, NEW U, NEW D, b # <<>>,
         t2 = t \/ \E r \in AnyPacket : t2 = Append(t, r) /\ (r \in U => Head(b) \in D)
  PROVE  /\ None(b, c, t, U, D) => None(Tail(b), c, t2, U, D)
         /\ Single(b, c, t, U, D) => Single(Tail(b), c, t2, U, D)
         /\ Single(b, c, t, U, D) /\ Head(b) \in D /\ t2 = t => None(Tail(b), c, t2, U, D)
  <1>1. /\ NoneIn(b, D) => NoneIn(Tail(b), D) /\ Head(b) \notin D
        /\ OneIn(b, D) => OneIn(Tail(b), D)
        /\ OneIn(b, D) /\ Head(b) \in D => NoneIn(Tail(b), D)
    BY TailHolds
  <1>2. /\ Head(b) \notin D => (NoneIn(t, U) => NoneIn(t2, U)) /\ (OneIn(t, U) => OneIn(t2, U))
        /\ NoneIn(t, U) => OneIn(t2, U)
    BY AppendHolds, Fewer
  <1> QED
    BY <1>1, <1>2 DEF None, Single

LEMMA ReadMoves ==
  ASSUME NEW b, NEW c \in Seq(AnyPacket), NEW t \in Seq(AnyPacket), NEW c2, NEW U, NEW D, t # <<>>,
         c2 = c \/ \E a \in AnyPacket : c2 = Append(c, a) /\ (a \in D => Head(t) \in U)
  PROVE  /\ None(b, c, t, U, D) => None(b, c2, Tail(t), U, D)
         /\ Single(b, c, t, U, D) => Single(b, c2, Tail(t), U, D)
         /\ Single(b, c, t, U, D) /\ Head(t) \in U => None(b, c, Tail(t), U, D)
  <1>1. /\ NoneIn(t, U) => NoneIn(Tail(t), U) /\ Head(t) \notin U
        /\ OneIn(t, U) => OneIn(Tail(t), U)
        /\ OneIn(t, U) /\ Head(t) \in U => NoneIn(Tail(t), U)
    BY TailHolds
  <1>2. /\ Head(t) \notin U => (NoneIn(c, D) => NoneIn(c2, D)) /\ (OneIn(c, D) => OneIn(c2, D))
        /\ NoneIn(c, D) => OneIn(c2, D)
    BY AppendHolds, Fewer
  <1> QED
    BY <1>1, <1>2 DEF None, Single

LEMMA WriteMoves ==
  ASSUME NEW b, NEW c, NEW t \in Seq(AnyPacket), NEW t2, NEW U, NEW D,
         NEW p \in AnyPacket, t2 = t \/ t2 = Append(t, p)
  PROVE  /\ None(b, c, t, U, D) => Single(b, c, t2, U, D)
         /\ p \notin U => (None(b, c, t, U, D) => None(b, c, t2, U, D))
                          /\ (Single(b, c, t, U, D) => Single(b, c, t2, U, D))
                          /\ (NoneIn(t, U) => NoneIn(t2, U)) /\ (OneIn(t, U) => OneIn(t2, U))
  <1>1. /\ p \notin U => (NoneIn(t, U) => NoneIn(t2, U)) /\ (OneIn(t, U) => OneIn(t2, U))
        /\ NoneIn(t, U) => OneIn(t2, U)
    BY AppendHolds, Fewer
  <1>2. (NoneIn(b, D) => OneIn(b, D)) /\ (NoneIn(c, D) => OneIn(c, D))
    BY Fewer
  <1> QED
    BY <1>1, <1>2 DEF None, Single

(* A connection that ends loses what was on its way.                       *)
LEMMA LoseMoves ==
  ASSUME NEW b, NEW c, NEW t, NEW U, NEW D
  PROVE  /\ None(b, c, t, U, D) => None(b, <<>>, t, U, D) /\ None(b, <<>>, <<>>, U, D)
         /\ Single(b, c, t, U, D) => Single(b, <<>>, t, U, D) /\ Single(b, <<>>, <<>>, U, D)
  BY EmptyHolds DEF None, Single

LEMMA NoneIsSingle ==
  ASSUME NEW b, NEW c, NEW t, NEW U, NEW D
  PROVE  /\ None(b, c, t, U, D) => Single(b, c, t, U, D)
         /\ \A V, E : V \subseteq U /\ E \subseteq D => (None(b, c, t, U, D) => None(b, c, t, V, E))
  BY Fewer DEF None, Single

LEMMA SayMoves ==
  ASSUME NEW b, NEW c \in Seq(AnyPacket), NEW c2, NEW t, NEW U, NEW D,
         NEW a \in AnyPacket, c2 = c \/ c2 = Append(c, a)
  PROVE  /\ None(b, c, t, U, D) => Single(b, c2, t, U, D)
         /\ a \notin D => (None(b, c, t, U, D) => None(b, c2, t, U, D))
                          /\ (Single(b, c, t, U, D) => Single(b, c2, t, U, D))
                          /\ (NoneIn(c, D) => NoneIn(c2, D))
  <1>1. /\ a \notin D => (NoneIn(c, D) => NoneIn(c2, D)) /\ (OneIn(c, D) => OneIn(c2, D))
        /\ NoneIn(c, D) => OneIn(c2, D)
    BY AppendHolds, Fewer
  <1>2. (NoneIn(b, D) => OneIn(b, D)) /\ (NoneIn(t, U) => OneIn(t, U))
    BY Fewer
  <1> QED
    BY <1>1, <1>2 DEF None, Single

(* Messages of the broker at QoS 1 and 2 and what acknowledges them: of    *)
(* each id one packet at most is on its way, and the broker waits for what *)
(* it will be answered with.                                               *)
Ups   == {p \in AnyPacket : Up(p)}
Downs == {p \in AnyPacket : Down(p)}
UpOf(n)   == {p \in Ups : p.id = n}
DownOf(n) == {p \in Downs : p.id = n}
Due(p) == [id |-> p.id, type |-> IF p.type = "PUBREL" THEN "PUBCOMP" ELSE IF p.qos = 1 THEN "PUBACK" ELSE "PUBREC"]
Key(p) == [id |-> p.id, type |-> p.type]
Unowed(w, s)    == {p \in Ups : Due(p) \notin w \/ p.id > s}
Unawaited(w, s) == {p \in Downs : Key(p) \notin w \/ p.id > s}
InOrder(b, c, t, w, s) ==
  /\ \A n \in Nat : Single(b, c, t, DownOf(n), UpOf(n))
  /\ NoneIn(b, Unowed(w, s)) /\ NoneIn(c, Unowed(w, s)) /\ NoneIn(t, Unawaited(w, s))

LEMMA ReceiveInOrder ==
  ASSUME NEW b \in Seq(AnyPacket), NEW c \in Seq(AnyPacket), NEW t, NEW w, NEW s, c # <<>>,
         InOrder(b, c, t, w, s)
  PROVE  InOrder(Append(b, Head(c)), Tail(c), t, w, s)
  BY ReceiveMoves DEF InOrder

LEMMA TakeInOrder ==
  ASSUME NEW b \in Seq(AnyPacket), NEW c, NEW t \in Seq(AnyPacket), NEW t2, NEW w, NEW s, b # <<>>,
         InOrder(b, c, t, w, s),
         t2 = t \/ \E r \in AnyPacket : t2 = Append(t, r) /\ (Down(r) => Up(Head(b)) /\ Due(Head(b)) = Key(r))
  PROVE  InOrder(Tail(b), c, t2, w, s)
  <1>1. Head(b) \in AnyPacket /\ (t2 = t \/ \E r \in AnyPacket : t2 = Append(t, r))
    OBVIOUS
  <1>2. ASSUME NEW n \in Nat PROVE Single(Tail(b), c, t2, DownOf(n), UpOf(n))
    <2>1. t2 = t \/ \E r \in AnyPacket : t2 = Append(t, r) /\ (r \in DownOf(n) => Head(b) \in UpOf(n))
      BY <1>1 DEF DownOf, UpOf, Ups, Downs, Due, Key
    <2>2. Single(b, c, t, DownOf(n), UpOf(n))
      BY DEF InOrder
    <2> QED
      BY <2>1, <2>2, TakeMoves
  <1>3. NoneIn(Tail(b), Unowed(w, s)) /\ Head(b) \notin Unowed(w, s)
    BY TailHolds DEF InOrder
  <1>4. t2 = t \/ \E r \in AnyPacket : t2 = Append(t, r) /\ r \notin Unawaited(w, s)
    BY <1>1, <1>3 DEF Unawaited, Unowed, Ups, Downs, Due, Key
  <1>5. NoneIn(t2, Unawaited(w, s))
    BY <1>4, AppendHolds DEF InOrder
  <1> QED
    BY <1>2, <1>3, <1>5 DEF InOrder

LEMMA WriteInOrder ==
  ASSUME NEW b, NEW c, NEW t \in Seq(AnyPacket), NEW t2, NEW w, NEW s, NEW p \in AnyPacket, ~Down(p),
         t2 = t \/ t2 = Append(t, p), InOrder(b, c, t, w, s)
  PROVE  InOrder(b, c, t2, w, s)
  <1>1. p \notin Unawaited(w, s) /\ \A n \in Nat : p \notin DownOf(n)
    BY DEF Unawaited, DownOf, Downs
  <1>2. \A n \in Nat : Single(b, c, t2, DownOf(n), UpOf(n))
    BY <1>1, WriteMoves DEF InOrder
  <1>3. NoneIn(t2, Unawaited(w, s))
    BY <1>1, AppendHolds DEF InOrder
  <1> QED
    BY <1>2, <1>3 DEF InOrder

LEMMA LoseInOrder ==
  ASSUME NEW b, NEW c, NEW t, NEW w, NEW s, InOrder(b, c, t, w, s)
  PROVE  InOrder(b, <<>>, t, w, s) /\ InOrder(b, <<>>, <<>>, w, s)
  BY LoseMoves, EmptyHolds DEF InOrder

(* The broker takes a packet that acknowledges nothing.                    *)
LEMMA ReadInOrder ==
  ASSUME NEW b, NEW c \in Seq(AnyPacket), NEW t \in Seq(AnyPacket), NEW c2, NEW w, NEW s, t # <<>>,
         InOrder(b, c, t, w, s), c2 = c \/ \E a \in AnyPacket : c2 = Append(c, a) /\ ~Up(a)
  PROVE  InOrder(b, c2, Tail(t), w, s)
  <1>1. ASSUME NEW n \in Nat PROVE Single(b, c2, Tail(t), DownOf(n), UpOf(n))
    <2>1. c2 = c \/ \E a \in AnyPacket : c2 = Append(c, a) /\ (a \in UpOf(n) => Head(t) \in DownOf(n))
      BY DEF UpOf, Ups
    <2> QED
      BY <2>1, ReadMoves DEF InOrder
  <1>2. NoneIn(Tail(t), Unawaited(w, s))
    BY TailHolds DEF InOrder
  <1>3. NoneIn(c2, Unowed(w, s))
    <2>1. c2 = c \/ \E a \in AnyPacket : c2 = Append(c, a) /\ a \notin Unowed(w, s)
      BY DEF Unowed, Ups
    <2> QED
      BY <2>1, AppendHolds DEF InOrder
  <1> QED
    BY <1>1, <1>2, <1>3 DEF InOrder

(* The broker is told what it waits for, and goes on with a release.       *)
LEMMA AckInOrder ==
  ASSUME NEW b \in Seq(AnyPacket), NEW c \in Seq(AnyPacket), NEW t \in Seq(AnyPacket), NEW c2,
         NEW w, NEW w2, NEW s \in Nat, t # <<>>,
         InOrder(b, c, t, w, s), Down(Head(t)),
         w \ {Key(Head(t))} \subseteq w2,
         c2 = c \/ \E a \in AnyPacket : c2 = Append(c, a) /\ a.id = Head(t).id /\ Due(a) \in w2
  PROVE  Key(Head(t)) \in w /\ InOrder(b, c2, Tail(t), w2, s)
  <1> DEFINE p == Head(t)
             n == p.id
  <1>1. p \in AnyPacket /\ n \in Nat /\ p \in Downs /\ p \in DownOf(n)
    <2>1. p \in AnyPacket
      OBVIOUS
    <2> QED
      BY <2>1 DEF AnyPacket, Downs, DownOf
  <1>2. NoneIn(Tail(t), Unawaited(w, s)) /\ p \notin Unawaited(w, s)
    BY TailHolds DEF InOrder
  <1>3. Key(p) \in w /\ ~(n > s)
    BY <1>1, <1>2 DEF Unawaited
  <1>4. None(b, c, Tail(t), DownOf(n), UpOf(n))
    BY <1>1, ReadMoves DEF InOrder
  <1>5. \A q \in Ups : Due(q) = Key(p) => q \in UpOf(n)
    BY DEF UpOf, Due, Key
  <1>6. \A q \in Downs : Key(q) = Key(p) => q \in DownOf(n)
    BY DEF DownOf, Key
  <1> HIDE DEF p, n
  <1>7. Unowed(w2, s) \subseteq Unowed(w, s) \cup UpOf(n)
    BY <1>5 DEF Unowed, p
  <1>8. Unawaited(w2, s) \subseteq Unawaited(w, s) \cup DownOf(n)
    BY <1>6 DEF Unawaited, p
  <1>9. /\ NoneIn(b, Unowed(w2, s)) /\ NoneIn(c, Unowed(w2, s))
    BY <1>4, <1>7 DEF InOrder, None, NoneIn
  <1>10. NoneIn(Tail(t), Unawaited(w2, s))
    BY <1>2, <1>4, <1>8 DEF None, NoneIn
  <1>11. c2 = c \/ \E a \in AnyPacket : c2 = Append(c, a) /\ a.id = n /\ a \notin Unowed(w2, s)
    BY <1>1, <1>3 DEF Unowed, p, n
  <1>12. NoneIn(c2, Unowed(w2, s))
    BY <1>9, <1>11, AppendHolds
  <1>13. ASSUME NEW m \in Nat PROVE Single(b, c2, Tail(t), DownOf(m), UpOf(m))
    <2>1. CASE m = n
      <3>1. c2 = c \/ \E a \in AnyPacket : c2 = Append(c, a)
        BY <1>11
      <3> QED
        BY <1>4, <2>1, <3>1, SayMoves, NoneIsSingle
    <2>2. CASE m # n
      <3>1. c2 = c \/ \E a \in AnyPacket : c2 = Append(c, a) /\ a \notin UpOf(m)
        BY <1>11, <2>2 DEF UpOf
      <3>2. Single(b, c, t, DownOf(m), UpOf(m))
        BY DEF InOrder
      <3> QED
        BY <3>1, <3>2, ReadMoves
    <2> QED
      BY <2>1, <2>2
  <1> QED
    BY <1>3, <1>9, <1>10, <1>12, <1>13 DEF InOrder, p

(* The broker sends a new message, with an id that nothing has yet.        *)
LEMMA MessageInOrder ==
  ASSUME NEW b \in Seq(AnyPacket), NEW c \in Seq(AnyPacket), NEW t \in Seq(AnyPacket), NEW c2,
         NEW w, NEW w2, NEW s \in Nat, NEW a \in AnyPacket,
         InOrder(b, c, t, w, s), w \subseteq w2, c2 = c \/ c2 = Append(c, a),
         Up(a) => a.id = s + 1 /\ Due(a) \in w2
  PROVE  InOrder(b, c2, t, w2, s + 1)
  <1>1. \A q \in AnyPacket : q.id \in Nat
    BY DEF AnyPacket
  <1>2. Unowed(w2, s + 1) \subseteq Unowed(w, s) /\ UpOf(s + 1) \subseteq Unowed(w, s)
    BY <1>1 DEF Unowed, UpOf, Ups
  <1>3. Unawaited(w2, s + 1) \subseteq Unawaited(w, s) /\ DownOf(s + 1) \subseteq Unawaited(w, s)
    BY <1>1 DEF Unawaited, DownOf, Downs
  <1>4. NoneIn(b, Unowed(w2, s + 1)) /\ NoneIn(c, Unowed(w2, s + 1)) /\ NoneIn(t, Unawaited(w2, s + 1))
    BY <1>2, <1>3, Fewer DEF InOrder
  <1>5. None(b, c, t, DownOf(s + 1), UpOf(s + 1))
    BY <1>2, <1>3, Fewer DEF InOrder, None
  <1>6. a \notin Unowed(w2, s + 1)
    BY DEF Unowed, Ups
  <1>7. NoneIn(c2, Unowed(w2, s + 1))
    BY <1>4, <1>6, AppendHolds
  <1>8. ASSUME NEW n \in Nat PROVE Single(b, c2, t, DownOf(n), UpOf(n))
    <2>1. CASE n = s + 1
      BY <1>5, <2>1, SayMoves
    <2>2. CASE n # s + 1
      <3>1. a \notin UpOf(n)
        BY <2>2 DEF UpOf, Ups
      <3>2. Single(b, c, t, DownOf(n), UpOf(n))
        BY DEF InOrder
      <3> QED
        BY <3>1, <3>2, SayMoves
    <2> QED
      BY <2>1, <2>2
  <1> QED
    BY <1>4, <1>7, <1>8 DEF InOrder

LEMMA NewInOrder ==
  ASSUME NEW b, NEW c, NEW t, NEW w, NEW s, None(b, c, t, Downs, Ups)
  PROVE  InOrder(b, c, t, w, s)
  <1>1. Unowed(w, s) \subseteq Ups /\ Unawaited(w, s) \subseteq Downs
        /\ \A n \in Nat : DownOf(n) \subseteq Downs /\ UpOf(n) \subseteq Ups
    BY DEF Unowed, Unawaited, DownOf, UpOf
  <1>2. \A n \in Nat : Single(b, c, t, DownOf(n), UpOf(n))
    BY <1>1, NoneIsSingle
  <1> QED
    BY <1>1, <1>2, Fewer DEF InOrder, None

(* Requests of the client and their answers: one command at a time.        *)
Connects  == {p \in AnyPacket : p.type = "CONNECT"}
Requests  == {p \in AnyPacket : p.type \in {"CONNECT", "SUBSCRIBE", "UNSUBSCRIBE"}}
Answers   == {p \in AnyPacket : p.type \in {"CONNACK", "SUBACK", "UNSUBACK"}}
Successes == {p \in Answers : p.ok}
Asked(name) == CASE name = "connect" -> "CONNECT" [] name = "subscribe" -> "SUBSCRIBE" [] OTHER -> "UNSUBSCRIBE"
OtherRequests(name) == {p \in Requests : p.type # Asked(name)}
Commands == {<<"connect", "CONNACK">>, <<"subscribe", "SUBACK">>, <<"unsubscribe", "UNSUBACK">>,
             <<"publish", "PUBACK">>, <<"publish", "PUBCOMP">>}

(* What most steps do to the packets under way: they move or lose some,    *)
(* and add none that matters here.                                         *)
Kept(b, c, t, b2, c2, t2) ==
  /\ OneIn(t, Connects) => OneIn(t2, Connects)
  /\ NoneIn(t, Connects) => NoneIn(t2, Connects)
  /\ None(b, c, t, Downs, Ups) => None(b2, c2, t2, Downs, Ups)
  /\ \A w, s : InOrder(b, c, t, w, s) => InOrder(b2, c2, t2, w, s)
  /\ None(b, c, t, Requests, Answers) => None(b2, c2, t2, Requests, Answers)
  /\ Single(b, c, t, Requests, Answers) => Single(b2, c2, t2, Requests, Answers)
  /\ \A name : NoneIn(t, OtherRequests(name)) => NoneIn(t2, OtherRequests(name))
  /\ NoneIn(b, Successes) /\ NoneIn(c, Successes) => NoneIn(b2, Successes) /\ NoneIn(c2, Successes)

LEMMA KeptSame ==
  /\ \A b, c, t : Kept(b, c, t, b, c, t)
  /\ \A b, c, t, b2, c2, t2, b3, c3, t3 :
       Kept(b, c, t, b2, c2, t2) /\ Kept(b2, c2, t2, b3, c3, t3) => Kept(b, c, t, b3, c3, t3)
  <1>1. ASSUME NEW b, NEW c, NEW t PROVE Kept(b, c, t, b, c, t)
    BY DEF Kept
  <1>2. ASSUME NEW b, NEW c, NEW t, NEW b2, NEW c2, NEW t2, NEW b3, NEW c3, NEW t3,
               Kept(b, c, t, b2, c2, t2), Kept(b2, c2, t2, b3, c3, t3)
        PROVE  Kept(b, c, t, b3, c3, t3)
    BY <1>2 DEF Kept
  <1> QED
    BY <1>1, <1>2

LEMMA KeptLost ==
  ASSUME NEW b, NEW c, NEW t
  PROVE  Kept(b, c, t, b, <<>>, t) /\ Kept(b, c, t, b, <<>>, <<>>)
  BY LoseMoves, LoseInOrder, EmptyHolds DEF Kept

LEMMA KeptReceived ==
  ASSUME NEW b \in Seq(AnyPacket), NEW c \in Seq(AnyPacket), NEW t, c # <<>>
  PROVE  Kept(b, c, t, Append(b, Head(c)), Tail(c), t)
  BY ReceiveMoves, ReceiveInOrder DEF Kept

LEMMA KeptWritten ==
  ASSUME NEW b, NEW c, NEW t \in Seq(AnyPacket), NEW t2, NEW p \in AnyPacket, t2 = t \/ t2 = Append(t, p),
         ~Down(p), p \notin Requests
  PROVE  Kept(b, c, t, b, c, t2)
  <1>1. p \notin Downs /\ p \notin Connects /\ \A name : p \notin OtherRequests(name)
    BY DEF Downs, Connects, Requests, OtherRequests
  <1>2. \A w, s : InOrder(b, c, t, w, s) => InOrder(b, c, t2, w, s)
    BY WriteInOrder
  <1> QED
    BY <1>1, <1>2, WriteMoves DEF Kept

(* A packet is taken from the buffer and answered, or not.                 *)
LEMMA KeptTaken ==
  ASSUME NEW b \in Seq(AnyPacket), NEW c, NEW t \in Seq(AnyPacket), NEW t2, b # <<>>,
         t2 = t \/ \E r \in AnyPacket :
                     t2 = Append(t, r) /\ r \notin Requests /\ (Down(r) => Up(Head(b)) /\ Due(Head(b)) = Key(r))
  PROVE  Kept(b, c, t, Tail(b), c, t2)
  <1>1. Head(b) \in AnyPacket
    OBVIOUS
  <1>2. t2 = t \/ \E r \in AnyPacket : t2 = Append(t, r) /\ (r \in Downs => Head(b) \in Ups)
    BY <1>1 DEF Downs, Ups
  <1>3. t2 = t \/ \E r \in AnyPacket : t2 = Append(t, r) /\ r \notin Requests /\ (r \in Requests => Head(b) \in Answers)
    OBVIOUS
  <1>4. \A w, s : InOrder(b, c, t, w, s) => InOrder(Tail(b), c, t2, w, s)
    BY TakeInOrder
  <1>5. /\ None(b, c, t, Downs, Ups) => None(Tail(b), c, t2, Downs, Ups)
        /\ None(b, c, t, Requests, Answers) => None(Tail(b), c, t2, Requests, Answers)
        /\ Single(b, c, t, Requests, Answers) => Single(Tail(b), c, t2, Requests, Answers)
    BY <1>2, <1>3, TakeMoves
  <1>6. NoneIn(b, Successes) => NoneIn(Tail(b), Successes)
    BY TailHolds
  <1>7. ASSUME NEW S, S \subseteq Requests
        PROVE  (OneIn(t, S) => OneIn(t2, S)) /\ (NoneIn(t, S) => NoneIn(t2, S))
    BY <1>3, <1>7, AppendHolds
  <1>8. Connects \subseteq Requests /\ \A name : OtherRequests(name) \subseteq Requests
    BY DEF Connects, Requests, OtherRequests
  <1> QED
    BY <1>4, <1>5, <1>6, <1>7, <1>8 DEF Kept

(* The broker takes a packet that is no request of this kind and says one  *)
(* that is neither an answer nor a message.                                *)
LEMMA KeptRead ==
  ASSUME NEW b, NEW c \in Seq(AnyPacket), NEW t \in Seq(AnyPacket), NEW c2, t # <<>>,
         c2 = c \/ \E a \in AnyPacket : c2 = Append(c, a) /\ ~Up(a) /\ a \notin Answers
  PROVE  Kept(b, c, t, b, c2, Tail(t))
  <1>1. /\ c2 = c \/ \E a \in AnyPacket : c2 = Append(c, a) /\ (a \in Ups => Head(t) \in Downs)
        /\ c2 = c \/ \E a \in AnyPacket : c2 = Append(c, a) /\ (a \in Answers => Head(t) \in Requests)
        /\ c2 = c \/ \E a \in AnyPacket : c2 = Append(c, a) /\ a \notin Successes
    BY DEF Ups, Successes
  <1>2. \A w, s : InOrder(b, c, t, w, s) => InOrder(b, c2, Tail(t), w, s)
    BY ReadInOrder
  <1>3. /\ None(b, c, t, Downs, Ups) => None(b, c2, Tail(t), Downs, Ups)
        /\ None(b, c, t, Requests, Answers) => None(b, c2, Tail(t), Requests, Answers)
        /\ Single(b, c, t, Requests, Answers) => Single(b, c2, Tail(t), Requests, Answers)
    BY <1>1, ReadMoves
  <1>4. \A S : (OneIn(t, S) => OneIn(Tail(t), S)) /\ (NoneIn(t, S) => NoneIn(Tail(t), S))
    BY TailHolds
  <1>5. NoneIn(c, Successes) => NoneIn(c2, Successes)
    BY <1>1, AppendHolds
  <1> QED
    BY <1>2, <1>3, <1>4, <1>5 DEF Kept

-----------------------------------------------------------------------------
(* The acknowledgements the broker gets, and the request that is open.     *)
Acknowledging ==
  /\ OneIn(toBroker, Connects)
  /\ NoneIn(toBroker, Connects) \/ ~broker.accepted
  /\ history.clean =>
       /\ NoneIn(toBroker, Connects) \/ None(buffer, toClient, toBroker, Downs, Ups)
       /\ broker.accepted => InOrder(buffer, toClient, toBroker, broker.awaiting, broker.sent)

Live == Active /\ ~history.reopened
Asking == pc = "waiting" /\ cmd.name # "publish"
Granted ==
  /\ cmd.name = "connect" => broker.accepted /\ ~broker.subscribed
  /\ cmd.name = "subscribe" => broker.subscribed
  /\ cmd.name = "unsubscribe" => ~broker.subscribed
Settled ==
  /\ None(buffer, toClient, toBroker, Requests, Answers)
  /\ broker.accepted /\ (broker.subscribed <=> history.here) /\ (history.here => callback)
Pending ==
  /\ Single(buffer, toClient, toBroker, Requests, Answers)
  /\ NoneIn(toBroker, OtherRequests(cmd.name))
  /\ Granted \/ (NoneIn(buffer, Successes) /\ NoneIn(toClient, Successes))
  /\ cmd.name = "connect" => ~history.here
  /\ cmd.name # "connect" => broker.accepted
Registered ==
  /\ pc = "waiting" => <<cmd.name, cmd.needle>> \in Commands
  /\ Live => IF Asking THEN Pending ELSE Settled

KeptStep == Kept(buffer, toClient, toBroker, buffer', toClient', toBroker')
LEMMA SteadyAcknowledging ==
  ASSUME Acknowledging, KeptStep, UNCHANGED <<broker.accepted, broker.awaiting, broker.sent>>,
         UNCHANGED history.clean
  PROVE  Acknowledging'
  BY DEF Acknowledging, KeptStep, Kept

LEMMA SteadyRegistered ==
  ASSUME Registered, KeptStep, UNCHANGED <<broker.accepted, broker.subscribed, history.here, callback>>,
         pc' = "waiting" => <<cmd'.name, cmd'.needle>> \in Commands,
         Live' => Live /\ (Asking' <=> Asking) /\ (Asking => UNCHANGED cmd)
  PROVE  Registered'
  <1>1. Settled => Settled'
    BY DEF Settled, KeptStep, Kept
  <1>2. UNCHANGED cmd /\ Pending => Pending'
    BY DEF Pending, Granted, KeptStep, Kept
  <1> QED
    BY <1>1, <1>2 DEF Registered

Ordered == Delivery /\ Acknowledging /\ Registered

LEMMA InitOrdered == SessionInit => Acknowledging /\ Registered
  <1> SUFFICES ASSUME SessionInit PROVE Acknowledging /\ Registered
    OBVIOUS
  <1>1. /\ toBroker = <<>> /\ ~ws /\ pc = "idle"
        /\ ~broker.accepted
    BY DEF SessionInit
  <1> QED
    BY <1>1, EmptyHolds DEF Acknowledging, Registered, Live, Active

LEMMA StillOrdered ==
  ASSUME Ordered,
         Connect \/ OpeningTimesOut \/ Update \/ LoopSeesTheEnd \/ Yield \/ YieldTimesOut \/ NoPingDue
                 \/ UNCHANGED sessionVars
  PROVE  Acknowledging' /\ Registered'
  <1>1. UNCHANGED <<buffer, toBroker, broker, cmd, callback>> /\ (toClient' = toClient \/ toClient' = <<>>)
    BY DEF Connect, OpeningTimesOut, Update, LoopSeesTheEnd, Yield, YieldTimesOut, NoPingDue, sessionVars,
           channels, clientVars, threadVars
  <1>2. KeptStep
    BY <1>1, KeptSame, KeptLost DEF KeptStep
  <1>3. UNCHANGED history \/ history' = [history EXCEPT !.waited = FALSE]
    BY DEF Connect, OpeningTimesOut, Update, LoopSeesTheEnd, Yield, YieldTimesOut, NoPingDue, sessionVars
  <1>4. UNCHANGED <<history.clean, history.here, history.reopened>>
    BY <1>3, SMT DEF Ordered, Delivery, Opening, Recorded
  <1>6. pc' = "waiting" <=> pc = "waiting"
    BY DEF Connect, OpeningTimesOut, Update, LoopSeesTheEnd, Yield, YieldTimesOut, NoPingDue, sessionVars,
           threadVars
  <1>7. /\ pc' # "opening" /\ (pc' = "idle" => ws') => pc # "opening"
        /\ pc' # "opening" /\ (pc' = "idle" => ws') => (pc = "idle" => ws)
    BY DEF Connect, OpeningTimesOut, Update, LoopSeesTheEnd, Yield, YieldTimesOut, NoPingDue, sessionVars,
           clientVars, threadVars, IsConnected, InLoop
  <1>8. (Live' => Live) /\ (Asking' <=> Asking)
    BY <1>1, <1>4, <1>6, <1>7 DEF Live, Active, Asking
  <1>9. Acknowledging'
    BY <1>1, <1>2, <1>4, SteadyAcknowledging DEF Ordered
  <1>10. Registered'
    BY <1>1, <1>2, <1>4, <1>6, <1>8, SteadyRegistered DEF Ordered, Registered
  <1> QED
    BY <1>9, <1>10

LEMMA ReceiveOrdered ==
  ASSUME Ordered, Receive
  PROVE  Acknowledging' /\ Registered'
  <1>1. /\ toClient # <<>> /\ buffer \in Seq(AnyPacket) /\ toClient \in Seq(AnyPacket)
        /\ buffer' = Append(buffer, Head(toClient)) /\ toClient' = Tail(toClient)
        /\ UNCHANGED <<pc, cmd, ws, callback, toBroker, broker, history>>
    BY DEF Receive, clientVars, threadVars, Ordered, Delivery, Typed
  <1>2. KeptStep
    BY <1>1, KeptReceived DEF KeptStep
  <1>3. (Live' => Live) /\ (Asking' <=> Asking)
    BY <1>1 DEF Live, Active, Asking
  <1> QED
    BY <1>1, <1>2, <1>3, SteadyAcknowledging, SteadyRegistered DEF Ordered, Registered

(* A packet that asks for nothing is written.                              *)
LEMMA WrittenKept ==
  ASSUME Typed, NEW p \in AnyPacket, Written(p), ~Down(p), p \notin Requests, UNCHANGED buffer,
         toClient' = toClient \/ toClient' = <<>>
  PROVE  KeptStep
  <1>1. toBroker \in Seq(AnyPacket) /\ (toBroker' = toBroker \/ toBroker' = Append(toBroker, p))
    BY DEF Typed, Written
  <1>2. Kept(buffer, toClient, toBroker, buffer, toClient, toBroker')
    BY <1>1, KeptWritten
  <1>3. Kept(buffer, toClient, toBroker', buffer, <<>>, toBroker')
    BY KeptLost
  <1> QED
    BY <1>2, <1>3, KeptSame DEF KeptStep

LEMMA PublishOrdered ==
  ASSUME Ordered, NEW qos \in 0..2, Publish(qos)
  PROVE  Acknowledging' /\ Registered'
  <1> DEFINE id == IF qos = 0 THEN 0 ELSE NextPacketId
             p == Message(id, qos, history.published + 1)
  <1>1. id \in Nat /\ history.published + 1 \in Nat
    BY NextIdTyped DEF Ordered, Delivery, Typed
  <1>2. p \in AnyPacket /\ p.type = "PUBLISH"
    BY <1>1, PacketsTyped
  <1>3. ws /\ pc = "idle" /\ Written(p) /\ UNCHANGED <<buffer, toClient, broker, callback>>
    BY DEF Publish, Ask, IsConnected, clientVars
  <1>4. history' = [Said(p) EXCEPT !.published = p.msg]
    BY DEF Publish
  <1>5. IF qos = 0
        THEN UNCHANGED <<pc, cmd, ws>>
        ELSE pc' = "waiting" /\ cmd'.name = "publish" /\ cmd'.needle \in {"PUBACK", "PUBCOMP"}
    BY DEF Publish, Ask, threadVars, clientVars
  <1> HIDE DEF p, id
  <1>6. UNCHANGED <<history.clean, history.here, history.reopened>>
    BY <1>4, SMT DEF Said, Ordered, Delivery, Opening, Recorded
  <1>7. ~Down(p) /\ p \notin Requests
    BY <1>2 DEF Down, Requests
  <1>8. KeptStep
    BY <1>2, <1>3, <1>7, WrittenKept DEF Ordered, Delivery
  <1>9. (Live' => Live) /\ ~Asking /\ ~Asking' /\ pc' # "opening"
    BY <1>3, <1>5, <1>6 DEF Live, Active, Asking
  <1>10. pc' = "waiting" => <<cmd'.name, cmd'.needle>> \in Commands
    BY <1>3, <1>5 DEF Commands
  <1> QED
    BY <1>3, <1>6, <1>8, <1>9, <1>10, SteadyAcknowledging, SteadyRegistered DEF Ordered

(* subscribe() and unsubscribe() ask when nothing is open.                 *)
LEMMA RequestOrdered ==
  ASSUME Ordered, Subscribe \/ Unsubscribe
  PROVE  Acknowledging' /\ Registered'
  <1>1. PICK type \in {"SUBSCRIBE", "UNSUBSCRIBE"}, name \in {"subscribe", "unsubscribe"},
             needle \in {"SUBACK", "UNSUBACK"} :
          /\ Request(type, name, needle)
          /\ type = Asked(name) /\ <<name, needle>> \in Commands
    BY DEF Subscribe, Unsubscribe, Asked, Commands
  <1> DEFINE p == Plain(type, NextPacketId)
  <1>2. p \in AnyPacket /\ p.type = type
    BY PacketsTyped, PlainTyped, NextIdTyped DEF Types, Ordered, Delivery
  <1>3. /\ ws /\ pc = "idle" /\ Written(p) /\ UNCHANGED <<buffer, toClient, broker>>
        /\ pc' = "waiting" /\ cmd'.name = name /\ cmd'.needle = needle /\ history' = Said(p)
    BY <1>1 DEF Request, Ask, IsConnected
  <1> HIDE DEF p
  <1>4. UNCHANGED <<history.clean, history.here, history.reopened>>
    BY <1>3, SMT DEF Said, Ordered, Delivery, Opening, Recorded
  <1>5. ~Down(p) /\ p \notin Connects /\ p \notin OtherRequests(name)
    BY <1>1, <1>2 DEF Down, Connects, OtherRequests
  <1>6. /\ buffer \in Seq(AnyPacket) /\ toClient \in Seq(AnyPacket) /\ toBroker \in Seq(AnyPacket)
        /\ toBroker' = toBroker \/ toBroker' = Append(toBroker, p)
    BY <1>3 DEF Written, Ordered, Delivery, Typed
  <1>7. Acknowledging'
    <2>1. /\ OneIn(toBroker, Connects) => OneIn(toBroker', Connects)
          /\ NoneIn(toBroker, Connects) => NoneIn(toBroker', Connects)
      BY <1>2, <1>5, <1>6, WriteMoves
    <2>2. None(buffer, toClient, toBroker, Downs, Ups) => None(buffer, toClient, toBroker', Downs, Ups)
      BY <1>2, <1>5, <1>6, WriteMoves DEF Downs
    <2>3. \A w, s : InOrder(buffer, toClient, toBroker, w, s) => InOrder(buffer, toClient, toBroker', w, s)
      BY <1>2, <1>5, <1>6, WriteInOrder
    <2> QED
      BY <1>3, <1>4, <2>1, <2>2, <2>3 DEF Ordered, Acknowledging
  <1>8. Live' => Live /\ ~Asking
    BY <1>3, <1>4 DEF Live, Active, Asking
  <1>9. ASSUME Live' PROVE Pending'
    <2>1. Settled
      BY <1>8, <1>9 DEF Ordered, Registered
    <2>2. Single(buffer, toClient, toBroker', Requests, Answers)
      BY <1>2, <1>6, <2>1, WriteMoves DEF Settled
    <2>3. NoneIn(toBroker, OtherRequests(name)) /\ NoneIn(buffer, Successes) /\ NoneIn(toClient, Successes)
      BY <2>1, Fewer DEF Settled, None, OtherRequests, Successes
    <2>4. NoneIn(toBroker', OtherRequests(name))
      BY <1>2, <1>5, <1>6, <2>3, WriteMoves
    <2> QED
      BY <1>3, <1>4, <2>1, <2>2, <2>3, <2>4 DEF Pending, Settled
  <1>10. Asking'
    BY <1>3 DEF Asking
  <1>11. Registered'
    BY <1>1, <1>3, <1>9, <1>10 DEF Registered
  <1> QED
    BY <1>7, <1>11

(* connect() asks on a connection that nothing was said on.                *)
LEMMA AskConnectOrdered ==
  ASSUME Ordered, AskConnect
  PROVE  Acknowledging' /\ Registered'
  <1> DEFINE p == Plain("CONNECT", 0)
  <1>1. p \in AnyPacket /\ p.type = "CONNECT"
    BY PacketsTyped, PlainTyped DEF Types
  <1>2. /\ pc = "opening" /\ ws /\ Written(p) /\ UNCHANGED <<buffer, toClient, broker>>
        /\ pc' = "waiting" /\ cmd'.name = "connect" /\ cmd'.needle = "CONNACK"
        /\ history' = [Said(p) EXCEPT !.clean = buffer = <<>>, !.here = FALSE]
    BY DEF AskConnect, Ask
  <1> HIDE DEF p
  <1>3. toBroker = <<>> /\ toClient = <<>> /\ ~broker.accepted /\ ~history.reopened
    BY <1>2 DEF Ordered, Delivery, Alternating, Opening
  <1>4. /\ history'.clean = (buffer = <<>>) /\ history'.here = FALSE /\ history'.reopened = FALSE
    BY <1>2, <1>3, SMT DEF Said, Ordered, Delivery, Opening, Recorded
  <1>5. toBroker' = <<>> \/ toBroker' = Append(<<>>, p)
    BY <1>2, <1>3 DEF Written
  <1>6. ~Down(p) /\ p \notin OtherRequests("connect") /\ <<>> \in Seq(AnyPacket)
    BY <1>1 DEF Down, OtherRequests, Asked
  <1>7. \A U, D : None(<<>>, <<>>, <<>>, U, D)
    BY EmptyHolds DEF None
  <1>8. /\ OneIn(toBroker', Connects)
        /\ NoneIn(toBroker', OtherRequests("connect"))
        /\ None(<<>>, <<>>, toBroker', Downs, Ups)
        /\ Single(<<>>, <<>>, toBroker', Requests, Answers)
    <2>1. Single(<<>>, <<>>, toBroker', Requests, Answers) /\ Single(<<>>, <<>>, toBroker', Connects, Answers)
      BY <1>1, <1>5, <1>6, <1>7, WriteMoves
    <2>2. None(<<>>, <<>>, toBroker', Downs, Ups) /\ NoneIn(toBroker', OtherRequests("connect"))
      BY <1>1, <1>5, <1>6, <1>7, EmptyHolds, WriteMoves DEF Downs
    <2> QED
      BY <2>1, <2>2 DEF Single
  <1>9. Acknowledging'
    BY <1>2, <1>3, <1>4, <1>8 DEF Acknowledging
  <1>10. Live' => Pending'
    BY <1>2, <1>3, <1>4, <1>8, EmptyHolds DEF Live, Active, Pending
  <1>11. Asking' /\ <<"connect", "CONNACK">> \in Commands
    BY <1>2 DEF Asking, Commands
  <1> QED
    BY <1>2, <1>9, <1>10, <1>11 DEF Registered

(* Closing: nothing is asked any more, and what was written may arrive.    *)
LEMMA CloseOrdered ==
  ASSUME Ordered, Close, KeptStep, UNCHANGED broker, UNCHANGED history.clean
  PROVE  Acknowledging' /\ Registered'
  <1>1. pc' = "idle" /\ ~ws'
    BY DEF Close
  <1>2. Acknowledging'
    BY <1>1, SteadyAcknowledging DEF Ordered
  <1> QED
    BY <1>1, <1>2 DEF Registered, Live, Active

LEMMA EndOrdered ==
  ASSUME Ordered, Disconnect \/ WriteFails \/ TimesOut \/ PingOrClose
  PROVE  Acknowledging' /\ Registered'
  <1>1. CASE Disconnect
    <2> DEFINE p == Plain("DISCONNECT", 0)
    <2>1. p \in AnyPacket /\ ~Down(p) /\ p \notin Requests
      BY PacketsTyped, PlainTyped DEF Types, Down, Requests
    <2>2. Written(p) /\ Close /\ history' = Said(p) /\ UNCHANGED <<buffer, broker>> /\ toClient' = <<>>
      BY <1>1 DEF Disconnect, Close
    <2> HIDE DEF p
    <2>3. KeptStep
      BY <2>1, <2>2, WrittenKept DEF Ordered, Delivery
    <2>4. UNCHANGED history.clean
      BY <2>2, SMT DEF Said, Ordered, Delivery, Opening, Recorded
    <2> QED
      BY <2>2, <2>3, <2>4, CloseOrdered
  <1>2. CASE Close /\ UNCHANGED <<buffer, toBroker, broker, history>>
    <2>1. KeptStep
      BY <1>2, KeptLost DEF KeptStep, Close
    <2> QED
      BY <1>2, <2>1, CloseOrdered
  <1>3. CASE /\ pc = "pinging" /\ ws /\ Written(Plain("PINGREQ", 0)) /\ pc' = "idle"
             /\ history' = Said(Plain("PINGREQ", 0)) /\ UNCHANGED <<buffer, toClient, broker, callback>>
    <2> DEFINE p == Plain("PINGREQ", 0)
    <2>1. p \in AnyPacket /\ ~Down(p) /\ p \notin Requests
      BY PacketsTyped, PlainTyped DEF Types, Down, Requests
    <2>2. Written(p) /\ history' = Said(p)
      BY <1>3
    <2> HIDE DEF p
    <2>3. KeptStep
      BY <1>3, <2>1, <2>2, WrittenKept DEF Ordered, Delivery
    <2>4. UNCHANGED <<history.clean, history.here, history.reopened>>
      BY <2>2, SMT DEF Said, Ordered, Delivery, Opening, Recorded
    <2>5. (Live' => Live) /\ ~Asking /\ ~Asking'
      BY <1>3, <2>4 DEF Live, Active, Asking
    <2> QED
      BY <1>3, <2>3, <2>4, <2>5, SteadyAcknowledging, SteadyRegistered DEF Ordered
  <1> QED
    BY <1>1, <1>2, <1>3 DEF WriteFails, TimesOut, PingOrClose

(* A connection is opened, or lost.                                        *)
LEMMA OpenOrdered ==
  ASSUME Ordered, Opens \/ LoopReopens
  PROVE  Acknowledging' /\ Registered'
  <1>1. /\ toBroker' = <<>> /\ broker' = [broker EXCEPT !.accepted = FALSE, !.misled = FALSE]
        /\ UNCHANGED <<pc, cmd>>
    BY DEF Opens, LoopReopens, Open, threadVars
  <1>2. ~broker'.accepted
    BY <1>1 DEF Ordered, Delivery, Typed
  <1>3. pc' = "opening" \/ history'.reopened
    <2>1. CASE Opens
      BY <2>1 DEF Opens, threadVars
    <2>2. CASE LoopReopens
      <3>1. history' = [history EXCEPT !.connects = @ + 1, !.spoken = "nothing", !.reopened = TRUE]
        BY <2>2 DEF LoopReopens
      <3> QED
        BY <3>1, SMT DEF Ordered, Delivery, Opening, Recorded
    <2> QED
      BY <2>1, <2>2
  <1>4. Acknowledging'
    BY <1>1, <1>2, EmptyHolds DEF Acknowledging
  <1> QED
    BY <1>1, <1>3, <1>4 DEF Ordered, Registered, Live, Active

LEMMA DropOrdered ==
  ASSUME Ordered, LinkDrops
  PROVE  Acknowledging' /\ Registered'
  <1>1. /\ UNCHANGED <<pc, cmd, ws, callback, buffer, broker, history>>
        /\ toClient' = <<>> /\ toBroker' = <<>>
    BY DEF LinkDrops, clientVars, threadVars
  <1>2. KeptStep
    BY <1>1, KeptLost DEF KeptStep
  <1>3. (Live' => Live) /\ (Asking' <=> Asking)
    BY <1>1 DEF Live, Active, Asking
  <1> QED
    BY <1>1, <1>2, <1>3, SteadyAcknowledging, SteadyRegistered DEF Ordered, Registered

(* What the client answers is what the broker waits for.                   *)
LEMMA ReplyDue ==
  ASSUME NEW p \in AnyPacket, Reply(p) # <<>>
  PROVE  /\ Head(Reply(p)) \in AnyPacket /\ Head(Reply(p)) \notin Requests
         /\ Down(Head(Reply(p))) => Up(p) /\ Due(p) = Key(Head(Reply(p)))
  <1>1. p.id \in Nat
    BY DEF AnyPacket
  <1>2. PICK type \in {"PUBACK", "PUBREC", "PUBREL", "PUBCOMP"} :
          /\ Reply(p) = <<Plain(type, p.id)>>
          /\ \/ p.type = "PUBLISH" /\ p.qos = 1 /\ type = "PUBACK"
             \/ p.type = "PUBLISH" /\ p.qos = 2 /\ type = "PUBREC"
             \/ p.type = "PUBREC" /\ type = "PUBREL"
             \/ p.type = "PUBREL" /\ type = "PUBCOMP"
    BY DEF Reply
  <1> DEFINE r == Plain(type, p.id)
  <1>3. r \in AnyPacket /\ r.type = type /\ r.id = p.id
    BY <1>1, PacketsTyped DEF Types, Plain
  <1>4. Head(Reply(p)) = r
    BY <1>2
  <1> HIDE DEF r
  <1> QED
    BY <1>2, <1>3, <1>4 DEF Requests, Down, Up, Due, Key

LEMMA CycleOrdered ==
  ASSUME Ordered, Cycle
  PROVE  Acknowledging' /\ Registered'
  <1> DEFINE p == Head(buffer)
  <1>1. /\ pc \in {"yielding", "waiting"} /\ buffer # <<>> /\ buffer \in Seq(AnyPacket) /\ toBroker \in Seq(AnyPacket)
        /\ buffer' = Tail(buffer) /\ broker' = broker
    BY DEF Cycle, Ordered, Delivery, Typed
  <1>2. p \in AnyPacket
    BY <1>1
  <1>3. \/ Close /\ UNCHANGED <<toBroker, history>>
        \/ GoesOn(p) /\ UNCHANGED toBroker /\ history' = [history EXCEPT !.waited = TRUE]
        \/ /\ GoesOn(p) /\ Reply(p) # <<>> /\ Written(Head(Reply(p)))
           /\ history' = [history EXCEPT !.waited = TRUE, !.spoken = Speaks(Head(Reply(p)))]
        \/ Found(p) /\ p.ok /\ Completed(p)
    BY DEF Cycle, Succeeds
  <1>4. Kept(buffer, toClient, toBroker, buffer', toClient, toBroker)
    BY <1>1, KeptTaken
  <1>5. CASE Close /\ UNCHANGED <<toBroker, history>>
    <2>1. Kept(buffer', toClient, toBroker, buffer', <<>>, toBroker)
      BY KeptLost
    <2>2. KeptStep
      BY <1>4, <1>5, <2>1, KeptSame DEF KeptStep, Close
    <2> QED
      BY <1>1, <1>5, <2>2, CloseOrdered
  <1>6. ASSUME GoesOn(p), KeptStep, UNCHANGED <<history.clean, history.here, history.reopened>>
        PROVE  Acknowledging' /\ Registered'
    <2>1. UNCHANGED <<ws, cmd, callback>> /\ pc' \in {"yielding", "waiting", "pinging"} /\ (pc' = "waiting" <=> pc = "waiting")
      BY <1>1, <1>6 DEF GoesOn
    <2>2. (Live' => Live) /\ (Asking' <=> Asking)
      BY <1>1, <1>6, <2>1 DEF Live, Active, Asking
    <2> QED
      BY <1>1, <1>6, <2>1, <2>2, SteadyAcknowledging, SteadyRegistered DEF Ordered, Registered
  <1>7. CASE GoesOn(p) /\ UNCHANGED toBroker /\ history' = [history EXCEPT !.waited = TRUE]
    <2>1. UNCHANGED <<history.clean, history.here, history.reopened>>
      BY <1>7, SMT DEF Ordered, Delivery, Opening, Recorded
    <2>2. KeptStep
      BY <1>4, <1>7 DEF KeptStep, GoesOn
    <2> QED
      BY <1>6, <1>7, <2>1, <2>2
  <1>8. CASE /\ GoesOn(p) /\ Reply(p) # <<>> /\ Written(Head(Reply(p)))
             /\ history' = [history EXCEPT !.waited = TRUE, !.spoken = Speaks(Head(Reply(p)))]
    <2> DEFINE r == Head(Reply(p))
    <2>1. UNCHANGED <<history.clean, history.here, history.reopened>>
      BY <1>8, SMT DEF Ordered, Delivery, Opening, Recorded
    <2>2. r \in AnyPacket /\ r \notin Requests /\ (Down(r) => Up(p) /\ Due(p) = Key(r))
      BY <1>2, <1>8, ReplyDue
    <2>3. toBroker' = toBroker \/ toBroker' = Append(toBroker, r)
      BY <1>8 DEF Written
    <2> HIDE DEF r
    <2>4. KeptStep
      BY <1>1, <1>8, <2>2, <2>3, KeptTaken DEF KeptStep, GoesOn
    <2> QED
      BY <1>6, <1>8, <2>1, <2>4
  <1>9. CASE Found(p) /\ p.ok /\ Completed(p)
    <2>1. /\ pc = "waiting" /\ p.type = cmd.needle /\ pc' = "idle"
          /\ UNCHANGED <<ws, toClient, toBroker>>
      BY <1>9 DEF Found, Completed, channels
    <2>2. /\ UNCHANGED <<history.clean, history.reopened>>
          /\ history'.here = (cmd.name = "subscribe" \/ (history.here /\ cmd.name # "unsubscribe"))
          /\ callback' = (cmd.name = "subscribe" \/ (callback /\ cmd.name # "unsubscribe"))
      BY <1>9, SMT DEF Completed, Ordered, Delivery, Opening, Recorded
    <2>3. KeptStep
      BY <1>4, <2>1 DEF KeptStep
    <2>4. Acknowledging'
      BY <1>1, <2>1, <2>2, <2>3, SteadyAcknowledging DEF Ordered
    <2>5. Live' => Live
      BY <2>1, <2>2 DEF Live, Active
    <2>6. ~Asking' /\ pc' # "waiting"
      BY <2>1 DEF Asking
    <2>7. ASSUME Live PROVE Settled'
      <3>1. CASE Asking
        <4>1. Pending /\ p.type \in {"CONNACK", "SUBACK", "UNSUBACK"}
          BY <2>1, <2>7, <3>1 DEF Ordered, Registered, Commands, Asking
        <4>2. p \in Successes /\ p \in Answers
          BY <1>2, <1>9, <4>1 DEF Successes, Answers
        <4>3. ~NoneIn(buffer, Successes)
          BY <1>1, <4>2, TailHolds
        <4>4. Granted /\ (cmd.name = "connect" => ~history.here) /\ (cmd.name # "connect" => broker.accepted)
          BY <4>1, <4>3 DEF Pending
        <4>5. None(buffer', toClient, toBroker, Requests, Answers)
          BY <1>1, <4>1, <4>2, TakeMoves DEF Pending
        <4>6. cmd.name \in {"connect", "subscribe", "unsubscribe"}
          BY <2>1, <3>1 DEF Ordered, Registered, Commands, Asking
        <4> QED
          BY <1>1, <2>1, <2>2, <4>4, <4>5, <4>6 DEF Settled, Granted
      <3>2. CASE ~Asking
        <4>1. cmd.name = "publish" /\ Settled
          BY <2>1, <2>7, <3>2 DEF Ordered, Registered, Asking
        <4> QED
          BY <1>1, <2>1, <2>2, <2>3, <4>1 DEF Settled, KeptStep, Kept
      <3> QED
        BY <3>1, <3>2
    <2> QED
      BY <2>4, <2>5, <2>6, <2>7 DEF Registered
  <1> QED
    BY <1>3, <1>5, <1>7, <1>8, <1>9

(* The broker takes a packet that is no request and not an acknowledgement *)
(* of a message.                                                           *)
LEMMA ReadOrdered ==
  ASSUME Ordered, toBroker # <<>>, toBroker' = Tail(toBroker), BrokerKeeps,
         toClient' = toClient \/ \E a \in AnyPacket : toClient' = Append(toClient, a) /\ ~Up(a) /\ a \notin Answers,
         UNCHANGED <<broker.accepted, broker.subscribed, broker.awaiting, broker.sent>>
  PROVE  Acknowledging' /\ Registered'
  <1>1. UNCHANGED <<pc, cmd, ws, callback, buffer, history>> /\ toClient \in Seq(AnyPacket) /\ toBroker \in Seq(AnyPacket)
    BY DEF BrokerKeeps, clientVars, threadVars, Ordered, Delivery, Typed
  <1>2. Kept(buffer, toClient, toBroker, buffer, toClient', Tail(toBroker))
    BY <1>1, KeptRead
  <1>3. KeptStep
    BY <1>1, <1>2 DEF KeptStep
  <1>4. (Live' => Live) /\ (Asking' <=> Asking)
    BY <1>1 DEF Live, Active, Asking
  <1> QED
    BY <1>1, <1>3, <1>4, SteadyAcknowledging, SteadyRegistered DEF Ordered, Registered

(* ... and one that is: the answer a says whether it was granted.          *)
LEMMA AnswerOrdered ==
  ASSUME Ordered, toBroker # <<>>, toBroker' = Tail(toBroker), BrokerKeeps,
         Head(toBroker) \in Requests,
         Head(toBroker) \in Connects \/ broker.accepted,
         NEW a \in Answers, toClient' = toClient \/ toClient' = Append(toClient, a),
         UNCHANGED broker.sent,
         Head(toBroker) \in Connects \/ UNCHANGED <<broker.accepted, broker.awaiting>>,
         a.ok /\ Head(toBroker) \in Connects => broker'.accepted /\ ~broker'.subscribed,
         a.ok /\ Head(toBroker).type = "SUBSCRIBE" => broker'.subscribed,
         a.ok /\ Head(toBroker).type = "UNSUBSCRIBE" => ~broker'.subscribed
  PROVE  Acknowledging' /\ Registered'
  <1> DEFINE p == Head(toBroker)
  <1>1. /\ UNCHANGED <<pc, cmd, ws, callback, buffer, history>>
        /\ buffer \in Seq(AnyPacket) /\ toClient \in Seq(AnyPacket) /\ toBroker \in Seq(AnyPacket)
    BY DEF BrokerKeeps, clientVars, threadVars, Ordered, Delivery, Typed
  <1>2. a \in AnyPacket /\ ~Up(a) /\ a \notin Ups
    BY DEF Answers, Up, Ups
  <1>3. /\ None(buffer, toClient, toBroker, Downs, Ups) => None(buffer, toClient', Tail(toBroker), Downs, Ups)
        /\ Single(buffer, toClient, toBroker, Requests, Answers)
             => /\ Single(buffer, toClient', Tail(toBroker), Requests, Answers)
                /\ None(buffer, toClient, Tail(toBroker), Requests, Answers)
    BY <1>1, <1>2, ReadMoves
  <1>4. \A w, s : InOrder(buffer, toClient, toBroker, w, s) => InOrder(buffer, toClient', Tail(toBroker), w, s)
    BY <1>1, <1>2, ReadInOrder
  <1>5. OneIn(Tail(toBroker), Connects) /\ (NoneIn(toBroker, Connects) => NoneIn(Tail(toBroker), Connects))
        /\ (p \in Connects => NoneIn(Tail(toBroker), Connects) /\ ~NoneIn(toBroker, Connects))
    BY <1>1, TailHolds DEF Ordered, Acknowledging
  <1>6. Acknowledging'
    <2>2. NoneIn(Tail(toBroker), Connects)
      BY <1>5 DEF Ordered, Acknowledging
    <2>3. ASSUME history.clean, broker'.accepted
          PROVE  InOrder(buffer, toClient', Tail(toBroker), broker'.awaiting, broker'.sent)
      <3>1. CASE p \in Connects
        BY <1>3, <1>5, <2>3, <3>1, NewInOrder DEF Ordered, Acknowledging
      <3>2. CASE p \notin Connects
        BY <1>4, <2>3, <3>2 DEF Ordered, Acknowledging
      <3> QED
        BY <3>1, <3>2
    <2> QED
      BY <1>1, <1>5, <2>2, <2>3 DEF Ordered, Acknowledging
  <1>7. ASSUME Live PROVE Asking /\ Pending'
    <2>1. ~NoneIn(toBroker, Requests)
      BY <1>1, TailHolds
    <2>2. Asking /\ Pending
      BY <1>7, <2>1 DEF Ordered, Registered, Settled, None
    <2>3. p \notin OtherRequests(cmd.name) /\ NoneIn(Tail(toBroker), OtherRequests(cmd.name))
      BY <1>1, <2>2, TailHolds DEF Pending
    <2>4. p.type = Asked(cmd.name) /\ cmd.name \in {"connect", "subscribe", "unsubscribe"}
      BY <2>2, <2>3 DEF OtherRequests, Asking, Ordered, Registered, Commands
    <2>5. p \in AnyPacket /\ p.type = Asked(cmd.name)
      BY <2>4 DEF Requests
    <2>6. (p \in Connects <=> cmd.name = "connect") /\ (p.type = "SUBSCRIBE" <=> cmd.name = "subscribe")
          /\ (p.type = "UNSUBSCRIBE" <=> cmd.name = "unsubscribe")
      BY <2>4, <2>5 DEF Asked, Connects
    <2>7. Single(buffer, toClient', Tail(toBroker), Requests, Answers)
          /\ NoneIn(buffer, Successes) /\ NoneIn(toClient, Successes)
      <3>1. None(buffer, toClient, Tail(toBroker), Requests, Answers)
        BY <1>3, <2>2 DEF Pending
      <3> QED
        BY <1>3, <2>2, <3>1, Fewer DEF Pending, None, Successes
    <2>8. (a.ok => Granted') /\ (~a.ok => NoneIn(toClient', Successes))
      <3>1. a.ok => Granted'
        BY <1>1, <2>6 DEF Granted
      <3>2. ~a.ok => a \notin Successes
        BY DEF Successes
      <3> QED
        BY <1>1, <1>2, <2>7, <3>1, <3>2, AppendHolds
    <2>9. (cmd.name = "connect" => ~history.here) /\ (cmd.name # "connect" => broker'.accepted)
      BY <2>2, <2>6 DEF Pending
    <2> QED
      BY <1>1, <2>2, <2>3, <2>7, <2>8, <2>9 DEF Pending
  <1>8. (Live' <=> Live) /\ (Asking' <=> Asking)
    BY <1>1 DEF Live, Active, Asking
  <1> QED
    BY <1>1, <1>6, <1>7, <1>8 DEF Ordered, Registered

(* An acknowledgement the broker has waited for.                           *)
LEMMA AckOrdered ==
  ASSUME Ordered, toBroker # <<>>, toBroker' = Tail(toBroker), BrokerKeeps, broker.accepted,
         Head(toBroker).type \in {"PUBACK", "PUBREC", "PUBCOMP"}, OnAck(Head(toBroker))
  PROVE  Acknowledging' /\ Registered'
  <1> DEFINE p == Head(toBroker)
             a == Plain("PUBREL", p.id)
  <1>1. /\ UNCHANGED <<pc, cmd, ws, callback, buffer, history>>
        /\ buffer \in Seq(AnyPacket) /\ toClient \in Seq(AnyPacket) /\ toBroker \in Seq(AnyPacket)
        /\ broker.sent \in Nat
    BY DEF BrokerKeeps, clientVars, threadVars, Ordered, Delivery, Typed
  <1>2. p \in AnyPacket /\ p.id \in Nat /\ Down(p) /\ p \notin Connects
    <2>1. p \in AnyPacket
      BY <1>1
    <2> QED
      BY <2>1 DEF AnyPacket, Down, Connects
  <1>3. a \in AnyPacket /\ a.type = "PUBREL" /\ a.id = p.id /\ a \notin Answers
    <2>1. a \in AnyPacket
      BY <1>2, PacketsTyped DEF Types
    <2> QED
      BY <2>1 DEF Plain, Answers
  <1>4. toClient' = toClient \/ (p.type = "PUBREC" /\ toClient' = Append(toClient, a))
    <2>1. CASE p.type = "PUBREC"
      <3>1. Says(<<a>>)
        BY <2>1 DEF OnAck
      <3> QED
        BY <1>3, <2>1, <3>1, SaysTokens DEF Ordered, Delivery
    <2>2. CASE p.type # "PUBREC"
      BY <2>2, SaysTokens DEF OnAck, Ordered, Delivery
    <2> QED
      BY <2>1, <2>2
  <1>5. /\ UNCHANGED <<broker.accepted, broker.subscribed, broker.sent>>
        /\ broker'.awaiting = (broker.awaiting \ {Key(p)})
                              \cup (IF p.type = "PUBREC" THEN {[id |-> p.id, type |-> "PUBCOMP"]} ELSE {})
    BY DEF OnAck, Key, Ordered, Delivery, Typed
  <1>7. p.type = "PUBREC" => Due(a) \in broker'.awaiting
    BY <1>3, <1>5 DEF Due
  <1>8. broker.awaiting \ {Key(p)} \subseteq broker'.awaiting
    BY <1>5
  <1> HIDE DEF p, a
  <1>9. toClient' = toClient \/ \E r \in AnyPacket : toClient' = Append(toClient, r) /\ r.id = p.id /\ Due(r) \in broker'.awaiting
    BY <1>3, <1>4, <1>7
  <1>10. ASSUME history.clean
         PROVE  InOrder(buffer, toClient', Tail(toBroker), broker'.awaiting, broker.sent)
    <2>1. InOrder(buffer, toClient, toBroker, broker.awaiting, broker.sent)
      BY <1>10 DEF Ordered, Acknowledging
    <2> QED
      BY <1>1, <1>2, <1>8, <1>9, <2>1, AckInOrder DEF p
  <1>11. NoneIn(Tail(toBroker), Connects) /\ OneIn(Tail(toBroker), Connects)
    BY <1>1, TailHolds DEF Ordered, Acknowledging
  <1>13. Acknowledging'
    BY <1>1, <1>5, <1>10, <1>11 DEF Ordered, Acknowledging
  <1>14. /\ toClient' = toClient \/ \E r \in AnyPacket : toClient' = Append(toClient, r) /\ (r \in Answers => p \in Requests)
         /\ toClient' = toClient \/ \E r \in AnyPacket : toClient' = Append(toClient, r) /\ r \notin Successes
    BY <1>3, <1>4 DEF Successes
  <1>15. /\ None(buffer, toClient, toBroker, Requests, Answers) => None(buffer, toClient', Tail(toBroker), Requests, Answers)
         /\ Single(buffer, toClient, toBroker, Requests, Answers) => Single(buffer, toClient', Tail(toBroker), Requests, Answers)
    BY <1>1, <1>14, ReadMoves DEF p
  <1>16. /\ NoneIn(toBroker, OtherRequests(cmd.name)) => NoneIn(Tail(toBroker), OtherRequests(cmd.name))
         /\ NoneIn(toClient, Successes) => NoneIn(toClient', Successes)
    <2>1. NoneIn(toBroker, OtherRequests(cmd.name)) => NoneIn(Tail(toBroker), OtherRequests(cmd.name))
      BY <1>1, TailHolds
    <2>2. NoneIn(toClient, Successes) => NoneIn(toClient', Successes)
      BY <1>1, <1>14, AppendHolds
    <2> QED
      BY <2>1, <2>2
  <1>17. (Settled => Settled') /\ (Pending => Pending')
    BY <1>1, <1>5, <1>15, <1>16 DEF Settled, Pending, Granted
  <1>18. (Live' <=> Live) /\ (Asking' <=> Asking)
    BY <1>1 DEF Live, Active, Asking
  <1> QED
    BY <1>1, <1>13, <1>17, <1>18 DEF Ordered, Registered

LEMMA MessageOrdered ==
  ASSUME Ordered, NEW qos \in 0..2, BrokerPublishes(qos)
  PROVE  Acknowledging' /\ Registered'
  <1> DEFINE n == broker.sent + 1
             p == Message(IF qos = 0 THEN 0 ELSE n, qos, n)
  <1>1. /\ UNCHANGED <<pc, cmd, ws, callback, buffer, toBroker, history>>
        /\ buffer \in Seq(AnyPacket) /\ toClient \in Seq(AnyPacket) /\ toBroker \in Seq(AnyPacket)
        /\ broker.sent \in Nat /\ Says(<<p>>) /\ broker.accepted
    BY DEF BrokerPublishes, BrokerKeeps, clientVars, threadVars, Ordered, Delivery, Typed
  <1>2. /\ UNCHANGED <<broker.accepted, broker.subscribed>> /\ broker'.sent = n
        /\ broker'.awaiting = broker.awaiting \cup CASE qos = 1 -> {[id |-> n, type |-> "PUBACK"]}
                                                     [] qos = 2 -> {[id |-> n, type |-> "PUBREC"]}
                                                     [] OTHER   -> {}
    BY DEF BrokerPublishes, Ordered, Delivery, Typed
  <1>3. p \in AnyPacket /\ p.type = "PUBLISH" /\ p.qos = qos /\ p \notin Answers /\ p \notin Successes
    <2>1. n \in Nat /\ (IF qos = 0 THEN 0 ELSE n) \in Nat
      BY <1>1
    <2>2. p \in AnyPacket /\ p.type = "PUBLISH" /\ p.qos = qos
      BY <2>1, PacketsTyped
    <2> QED
      BY <2>2 DEF Answers, Successes
  <1>4. p.id = IF qos = 0 THEN 0 ELSE n
    BY SMT DEF Message, Plain
  <1>5. Up(p) => p.id = n /\ Due(p) \in broker'.awaiting
    BY <1>2, <1>3, <1>4 DEF Up, Due
  <1>6. toClient' = toClient \/ toClient' = Append(toClient, p)
    BY <1>1, <1>3, SaysTokens DEF Ordered, Delivery
  <1>7. broker.awaiting \subseteq broker'.awaiting
    BY <1>2
  <1> HIDE DEF p
  <1>8. InOrder(buffer, toClient, toBroker, broker.awaiting, broker.sent)
          => InOrder(buffer, toClient', toBroker, broker'.awaiting, n)
    BY <1>1, <1>3, <1>5, <1>6, <1>7, MessageInOrder
  <1>9. NoneIn(toBroker, Connects)
    BY <1>1 DEF Ordered, Acknowledging
  <1>10. Acknowledging'
    BY <1>1, <1>2, <1>8, <1>9 DEF Ordered, Acknowledging
  <1>11. /\ None(buffer, toClient, toBroker, Requests, Answers) => None(buffer, toClient', toBroker, Requests, Answers)
         /\ Single(buffer, toClient, toBroker, Requests, Answers) => Single(buffer, toClient', toBroker, Requests, Answers)
         /\ NoneIn(toClient, Successes) => NoneIn(toClient', Successes)
    BY <1>1, <1>3, <1>6, SayMoves
  <1>12. (Settled => Settled') /\ (Pending => Pending')
    BY <1>1, <1>2, <1>11 DEF Settled, Pending, Granted
  <1>13. (Live' <=> Live) /\ (Asking' <=> Asking)
    BY <1>1 DEF Live, Active, Asking
  <1> QED
    BY <1>1, <1>10, <1>12, <1>13 DEF Ordered, Registered

LEMMA BrokerOrdered ==
  ASSUME Ordered, BrokerReads
  PROVE  Acknowledging' /\ Registered'
  <1> DEFINE p == Head(toBroker)
             Harmless(a) == ~Up(a) /\ a \notin Answers
  <1>1. toBroker # <<>> /\ toBroker' = Tail(toBroker) /\ BrokerKeeps /\ toBroker \in Seq(AnyPacket) /\ Typed
    BY DEF BrokerReads, Ordered, Delivery, Typed
  <1>2. p \in AnyPacket /\ p.id \in Nat /\ p.qos \in 0..2
    <2>1. p \in AnyPacket
      BY <1>1
    <2> QED
      BY <2>1 DEF AnyPacket
  <1>3. ASSUME NEW type \in {"PUBACK", "PUBREC", "PUBCOMP", "PINGRESP"}, NEW id \in Nat
        PROVE  Plain(type, id) \in AnyPacket /\ Harmless(Plain(type, id))
    BY PacketsTyped, PlainTyped DEF Types, Up, Answers
  <1>4. ASSUME NEW type \in {"CONNACK", "SUBACK", "UNSUBACK"}, NEW id \in Nat, NEW ok \in BOOLEAN
        PROVE  Answer(type, id, ok) \in Answers /\ Answer(type, id, ok).ok = ok
    <2>1. Answer(type, id, ok) \in AnyPacket /\ Answer(type, id, ok).type = type
      BY PacketsTyped DEF Types
    <2>2. Answer(type, id, ok).ok = ok
      BY SMT DEF Answer, Plain
    <2> QED
      BY <2>1, <2>2 DEF Answers
  <1>5. Answers \subseteq AnyPacket
    BY DEF Answers
  <1>6. ASSUME toClient' = toClient \/ \E a \in AnyPacket : toClient' = Append(toClient, a) /\ Harmless(a),
               UNCHANGED <<broker.accepted, broker.subscribed, broker.awaiting, broker.sent>>
        PROVE  Acknowledging' /\ Registered'
    BY <1>1, <1>6, ReadOrdered
  <1> HIDE DEF Harmless
  <1>7. CASE /\ UNCHANGED toClient
             /\ UNCHANGED broker \/ broker' = [broker EXCEPT !.misled = @ \/ Acknowledges(p)]
    <2>1. UNCHANGED <<broker.accepted, broker.subscribed, broker.awaiting, broker.sent>>
      BY <1>1, <1>7 DEF Typed
    <2> QED
      BY <1>6, <1>7, <2>1
  <1>8. CASE p.type = "PUBREL" /\ Says(<<Plain("PUBCOMP", p.id)>>) /\ UNCHANGED broker
    BY <1>1, <1>2, <1>3, <1>6, <1>8, SaysTokens
  <1>9. CASE p.type = "PINGREQ" /\ Says(<<Plain("PINGRESP", 0)>>) /\ UNCHANGED broker
    BY <1>1, <1>3, <1>6, <1>9, SaysTokens
  <1>10. CASE OnPublish(p)
    <2>1. UNCHANGED <<broker.accepted, broker.subscribed, broker.awaiting, broker.sent>>
      BY <1>1, <1>10 DEF OnPublish, Typed
    <2>2. Says(<<>>) \/ \E type \in {"PUBACK", "PUBREC"} : Says(<<Plain(type, p.id)>>)
      BY <1>2, <1>10 DEF OnPublish
    <2> QED
      BY <1>1, <1>2, <1>3, <1>6, <2>1, <2>2, SaysTokens
  <1>11. ASSUME NEW ok \in BOOLEAN, p.type = "CONNECT", OnConnect(ok)
         PROVE  Acknowledging' /\ Registered'
    <2> DEFINE a == Answer("CONNACK", 0, ok)
    <2>1. a \in Answers /\ a.ok = ok
      BY <1>4
    <2>2. Says(<<a>>) /\ UNCHANGED broker.sent /\ broker'.accepted = ok /\ ~broker'.subscribed
      BY <1>1, <1>11 DEF OnConnect, Typed
    <2>3. p \in Connects /\ p \in Requests /\ p.type \notin {"SUBSCRIBE", "UNSUBSCRIBE"}
      BY <1>2, <1>11 DEF Connects, Requests
    <2> HIDE DEF a
    <2>4. toClient' = toClient \/ toClient' = Append(toClient, a)
      BY <1>1, <1>5, <2>1, <2>2, SaysTokens
    <2> QED
      BY <1>1, <2>1, <2>2, <2>3, <2>4, AnswerOrdered
  <1>12. ASSUME NEW ok \in BOOLEAN, broker.accepted, p.type = "SUBSCRIBE", OnSubscribe(p, ok)
         PROVE  Acknowledging' /\ Registered'
    <2> DEFINE a == Answer("SUBACK", p.id, ok)
    <2>1. a \in Answers /\ a.ok = ok
      BY <1>2, <1>4
    <2>2. /\ Says(<<a>>) /\ UNCHANGED <<broker.sent, broker.accepted, broker.awaiting>>
          /\ ok => broker'.subscribed
      BY <1>1, <1>12 DEF OnSubscribe, Typed
    <2>3. p \notin Connects /\ p \in Requests /\ p.type # "UNSUBSCRIBE"
      BY <1>2, <1>12 DEF Connects, Requests
    <2> HIDE DEF a
    <2>4. toClient' = toClient \/ toClient' = Append(toClient, a)
      BY <1>1, <1>5, <2>1, <2>2, SaysTokens
    <2> QED
      BY <1>1, <1>12, <2>1, <2>2, <2>3, <2>4, AnswerOrdered
  <1>13. ASSUME broker.accepted, p.type = "UNSUBSCRIBE", OnUnsubscribe(p)
         PROVE  Acknowledging' /\ Registered'
    <2> DEFINE a == Plain("UNSUBACK", p.id)
    <2>1. a \in Answers
      BY <1>2, PacketsTyped, PlainTyped DEF Types, Answers
    <2>2. Says(<<a>>) /\ UNCHANGED <<broker.sent, broker.accepted, broker.awaiting>> /\ ~broker'.subscribed
      BY <1>1, <1>13 DEF OnUnsubscribe, Typed
    <2>3. p \notin Connects /\ p \in Requests /\ p.type # "SUBSCRIBE"
      BY <1>2, <1>13 DEF Connects, Requests
    <2> HIDE DEF a
    <2>4. toClient' = toClient \/ toClient' = Append(toClient, a)
      BY <1>1, <1>5, <2>1, <2>2, SaysTokens
    <2> QED
      BY <1>1, <1>13, <2>1, <2>2, <2>3, <2>4, AnswerOrdered
  <1>14. ASSUME broker.accepted, p.type \in {"PUBACK", "PUBREC", "PUBCOMP"}, OnAck(p)
         PROVE  Acknowledging' /\ Registered'
    BY <1>1, <1>14, AckOrdered
  <1> HIDE DEF p
  <1>15. \/ /\ UNCHANGED toClient
            /\ UNCHANGED broker \/ broker' = [broker EXCEPT !.misled = @ \/ Acknowledges(p)]
         \/ p.type = "CONNECT" /\ \E ok \in BOOLEAN : OnConnect(ok)
         \/ p.type = "PUBLISH" /\ OnPublish(p)
         \/ p.type = "PUBREL" /\ Says(<<Plain("PUBCOMP", p.id)>>) /\ UNCHANGED broker
         \/ broker.accepted /\ p.type = "SUBSCRIBE" /\ \E ok \in BOOLEAN : OnSubscribe(p, ok)
         \/ broker.accepted /\ p.type = "UNSUBSCRIBE" /\ OnUnsubscribe(p)
         \/ p.type = "PINGREQ" /\ Says(<<Plain("PINGRESP", 0)>>) /\ UNCHANGED broker
         \/ broker.accepted /\ p.type \in {"PUBACK", "PUBREC", "PUBCOMP"} /\ OnAck(p)
    BY DEF BrokerReads, Acknowledges, p
  <1> QED
    BY <1>7, <1>8, <1>9, <1>10, <1>11, <1>12, <1>13, <1>14, <1>15

LEMMA StepOrdered == Ordered /\ [SessionNext]_sessionVars => Ordered'
  <1> SUFFICES ASSUME Ordered, [SessionNext]_sessionVars PROVE Acknowledging' /\ Registered'
    BY StepDelivery DEF Ordered
  <1>1. CASE Command
    <2>1. CASE \E q \in QosLevels : Publish(q)
      BY <2>1, PublishOrdered, SessionAssumption
    <2> QED
      BY <1>1, <2>1, StillOrdered, RequestOrdered, EndOrdered DEF Command
  <1>2. CASE Thread
    BY <1>2, StillOrdered, AskConnectOrdered, EndOrdered, OpenOrdered, ReceiveOrdered, CycleOrdered DEF Thread
  <1>3. CASE Broker
    <2>1. CASE \E q \in QosLevels : BrokerPublishes(q)
      BY <2>1, MessageOrdered, SessionAssumption
    <2> QED
      BY <1>3, <2>1, BrokerOrdered, DropOrdered DEF Broker
  <1>4. CASE UNCHANGED sessionVars
    BY <1>4, StillOrdered
  <1> QED
    BY <1>1, <1>2, <1>3, <1>4 DEF SessionNext

(* PubSubClient.h, subscribe() and unsubscribe(): on a connection that     *)
(* connect() made with an empty buffer and no read has reopened, the       *)
(* broker serves the topic just when the last of the two that succeeded    *)
(* there was a subscribe(), whatever the map of callbacks held before: an  *)
(* answer is not compared with its request, and still none can be taken    *)
(* for another's.                                                          *)
THEOREM RegistrationsHold == SessionSpec => []RegisteredIsSubscribed
  <1>1. Ordered => RegisteredIsSubscribed
    BY DEF Ordered, Registered, Live, Active, Asking, Settled, IsConnected, RegisteredIsSubscribed
  <1>2. SessionInit => Ordered
    BY InitDelivery, InitOrdered DEF Ordered
  <1> QED
    BY <1>1, <1>2, StepOrdered, PTL DEF SessionSpec

-----------------------------------------------------------------------------
(* What the broker waits for is under way: the message or release that asks *)
(* for it to the client, or it itself to the broker.                       *)
UpFor(w)   == {p \in Ups : Due(p) = w}
DownFor(w) == {p \in Downs : Key(p) = w}
Carried(b, c, t, w) == ~None(b, c, t, DownFor(w), UpFor(w))

(* Nothing that acknowledges is under way before the broker has accepted.  *)
Faithful ==
  /\ pc = "opening" /\ ws => ~broker.misled
  /\ history.clean /\ ~history.reopened =>
       ~broker.misled /\ (~broker.accepted => NoneIn(toBroker, Downs))
  /\ Live /\ ~broker.accepted => None(buffer, toClient, toBroker, Downs, Ups)
  /\ Live /\ link /\ broker.accepted =>
       \A w \in broker.awaiting : Carried(buffer, toClient, toBroker, w)

LEMMA TailKeeps ==
  ASSUME NEW q \in Seq(AnyPacket), q # <<>>, NEW S, Head(q) \notin S, NoneIn(Tail(q), S)
  PROVE  NoneIn(q, S)
  <1>1. Len(q) \in Nat \ {0} /\ Head(q) = q[1] /\ Len(Tail(q)) = Len(q) - 1
    OBVIOUS
  <1>2. \A k \in 1..Len(Tail(q)) : Tail(q)[k] = q[k + 1]
    OBVIOUS
  <1>3. ASSUME NEW k \in 1..Len(q) PROVE q[k] \notin S
    <2>1. CASE k = 1
      BY <1>1, <2>1
    <2>2. CASE k # 1
      <3>1. k - 1 \in 1..Len(Tail(q)) /\ (k - 1) + 1 = k
        BY <1>1, <2>2
      <3> QED
        BY <1>2, <3>1 DEF NoneIn
    <2> QED
      BY <2>1, <2>2
  <1> QED
    BY <1>3 DEF NoneIn

LEMMA AppendKeeps ==
  ASSUME NEW q \in Seq(AnyPacket), NEW p \in AnyPacket, NEW S, NoneIn(Append(q, p), S)
  PROVE  NoneIn(q, S) /\ p \notin S
  <1>1. Len(q) \in Nat /\ Len(Append(q, p)) = Len(q) + 1 /\ Append(q, p)[Len(q) + 1] = p
    OBVIOUS
  <1>2. \A k \in 1..Len(q) : k \in 1..Len(Append(q, p)) /\ Append(q, p)[k] = q[k]
    OBVIOUS
  <1>3. Len(q) + 1 \in 1..Len(Append(q, p))
    BY <1>1
  <1> QED
    BY <1>1, <1>2, <1>3 DEF NoneIn

(* Steps that leave the broker alone.                                      *)
LEMMA SteadyFaithful ==
  ASSUME Faithful, UNCHANGED broker,
         pc' = "opening" /\ ws' => pc = "opening" /\ ws,
         UNCHANGED <<history.clean, history.reopened>>,
         NoneIn(toBroker, Downs) => NoneIn(toBroker', Downs),
         Live' => /\ Live
                  /\ None(buffer, toClient, toBroker, Downs, Ups) => None(buffer', toClient', toBroker', Downs, Ups)
                  /\ link' => /\ link
                              /\ \A w : Carried(buffer, toClient, toBroker, w) => Carried(buffer', toClient', toBroker', w)
  PROVE  Faithful'
  BY DEF Faithful

(* A packet that acknowledges nothing is written, or nothing is.           *)
LEMMA WriteFaithful ==
  ASSUME Typed, NEW p \in AnyPacket, ~Down(p), toBroker' = toBroker \/ toBroker' = Append(toBroker, p),
         UNCHANGED <<buffer, toClient>>
  PROVE  /\ NoneIn(toBroker, Downs) => NoneIn(toBroker', Downs)
         /\ None(buffer, toClient, toBroker, Downs, Ups) => None(buffer', toClient', toBroker', Downs, Ups)
         /\ \A w : Carried(buffer, toClient, toBroker, w) => Carried(buffer', toClient', toBroker', w)
  <1>1. toBroker \in Seq(AnyPacket) /\ p \notin Downs
    BY DEF Typed, Downs
  <1>2. NoneIn(toBroker, Downs) => NoneIn(toBroker', Downs)
    BY <1>1, AppendHolds
  <1>3. \A S : NoneIn(toBroker', S) => NoneIn(toBroker, S)
    BY <1>1, AppendKeeps
  <1> QED
    BY <1>2, <1>3 DEF None, Carried

LEMMA StillFaithful ==
  ASSUME Ordered, Faithful,
         OpeningTimesOut \/ Update \/ LoopSeesTheEnd \/ Yield \/ YieldTimesOut \/ NoPingDue
                         \/ UNCHANGED sessionVars
  PROVE  Faithful'
  <1>1. UNCHANGED <<link, buffer, toClient, toBroker, broker>>
    BY DEF OpeningTimesOut, Update, LoopSeesTheEnd, Yield, YieldTimesOut, NoPingDue, sessionVars, channels
  <1>2. UNCHANGED history \/ history' = [history EXCEPT !.waited = FALSE]
    BY DEF OpeningTimesOut, Update, LoopSeesTheEnd, Yield, YieldTimesOut, NoPingDue, sessionVars
  <1>3. UNCHANGED <<history.clean, history.reopened>>
    BY <1>2, SMT DEF Ordered, Delivery, Opening, Recorded
  <1>4. pc' = "opening" /\ ws' => pc = "opening" /\ ws
    BY DEF OpeningTimesOut, Update, LoopSeesTheEnd, Yield, YieldTimesOut, NoPingDue, sessionVars,
           clientVars, threadVars, InLoop
  <1>5. /\ pc' # "opening" /\ (pc' = "idle" => ws') => pc # "opening"
        /\ pc' # "opening" /\ (pc' = "idle" => ws') => (pc = "idle" => ws)
    BY DEF OpeningTimesOut, Update, LoopSeesTheEnd, Yield, YieldTimesOut, NoPingDue, sessionVars,
           clientVars, threadVars, IsConnected, InLoop
  <1>6. Live' => Live
    BY <1>3, <1>5 DEF Live, Active
  <1> QED
    BY <1>1, <1>3, <1>4, <1>6, SteadyFaithful

(* connect() leaves an old connection, and asks on a new one.              *)
LEMMA ConnectFaithful ==
  ASSUME Ordered, Faithful, Connect \/ Opens \/ LoopReopens \/ AskConnect
  PROVE  Faithful'
  <1>1. CASE Connect
    <2>1. pc' = "opening" /\ UNCHANGED <<toBroker, broker, history>>
      BY <1>1 DEF Connect
    <2>2. ~ws'
      BY <1>1 DEF Connect, IsConnected, Ordered, Delivery, Opening
    <2> QED
      BY <2>1, <2>2 DEF Faithful, Live, Active
  <1>2. CASE Opens \/ LoopReopens
    <2>1. toBroker' = <<>> /\ broker' = [broker EXCEPT !.accepted = FALSE, !.misled = FALSE]
      BY <1>2 DEF Opens, LoopReopens, Open
    <2>2. ~broker'.accepted /\ ~broker'.misled
      BY <2>1 DEF Ordered, Delivery, Typed
    <2>3. pc' = "opening" \/ history'.reopened
      <3>1. CASE Opens
        BY <3>1 DEF Opens, threadVars
      <3>2. CASE LoopReopens
        <4>1. history' = [history EXCEPT !.connects = @ + 1, !.spoken = "nothing", !.reopened = TRUE]
          BY <3>2 DEF LoopReopens
        <4> QED
          BY <4>1, SMT DEF Ordered, Delivery, Opening, Recorded
      <3> QED
        BY <1>2, <3>1, <3>2
    <2> QED
      BY <2>1, <2>2, <2>3, EmptyHolds DEF Faithful, Live, Active
  <1>3. CASE AskConnect
    <2> DEFINE p == Plain("CONNECT", 0)
    <2>1. p \in AnyPacket /\ ~Down(p)
      BY PacketsTyped, PlainTyped DEF Types, Down
    <2>2. /\ pc = "opening" /\ ws /\ Written(p) /\ UNCHANGED <<buffer, toClient, broker>>
          /\ pc' = "waiting"
          /\ history' = [Said(p) EXCEPT !.clean = buffer = <<>>, !.here = FALSE]
      BY <1>3 DEF AskConnect, Ask
    <2>3. toBroker = <<>> /\ toClient = <<>> /\ ~broker.accepted /\ ~broker.misled /\ Typed
      BY <2>2 DEF Ordered, Delivery, Alternating, Faithful
    <2>4. history'.clean = (buffer = <<>>)
      BY <2>2, SMT DEF Said, Ordered, Delivery, Opening, Recorded
    <2>5. NoneIn(toBroker', Downs)
      BY <2>1, <2>2, <2>3, WriteFaithful, EmptyHolds DEF Written
    <2>6. buffer = <<>> => None(buffer', toClient', toBroker', Downs, Ups)
      BY <2>2, <2>3, <2>5, EmptyHolds DEF None
    <2> QED
      BY <2>2, <2>3, <2>4, <2>5, <2>6 DEF Faithful, Live, Active
  <1> QED
    BY <1>1, <1>2, <1>3

LEMMA ReceiveFaithful ==
  ASSUME Ordered, Faithful, Receive
  PROVE  Faithful'
  <1>1. /\ toClient # <<>> /\ buffer \in Seq(AnyPacket) /\ toClient \in Seq(AnyPacket)
        /\ buffer' = Append(buffer, Head(toClient)) /\ toClient' = Tail(toClient)
        /\ UNCHANGED <<link, pc, ws, toBroker, broker, history>>
    BY DEF Receive, clientVars, threadVars, Ordered, Delivery, Typed
  <1>2. Head(toClient) \in AnyPacket
    BY <1>1
  <1>3. \A S : NoneIn(buffer', S) /\ NoneIn(toClient', S) => NoneIn(buffer, S) /\ NoneIn(toClient, S)
    BY <1>1, <1>2, AppendKeeps, TailKeeps
  <1>4. \A w : Carried(buffer, toClient, toBroker, w) => Carried(buffer', toClient', toBroker', w)
    BY <1>1, <1>3 DEF Carried, None
  <1>5. None(buffer, toClient, toBroker, Downs, Ups) => None(buffer', toClient', toBroker', Downs, Ups)
    BY <1>1, ReceiveMoves
  <1>6. Live' => Live
    BY <1>1 DEF Live, Active
  <1> QED
    BY <1>1, <1>4, <1>5, <1>6, SteadyFaithful

(* Commands and pings write nothing that acknowledges.                     *)
LEMMA CommandFaithful ==
  ASSUME Ordered, Faithful,
         NEW p \in AnyPacket, ~Down(p), Written(p), UNCHANGED <<link, buffer, toClient, broker, ws>>,
         UNCHANGED <<history.clean, history.reopened>>,
         pc \in {"idle", "pinging"}, pc = "idle" => ws, pc' # "opening"
  PROVE  Faithful'
  <1>1. Typed /\ (toBroker' = toBroker \/ toBroker' = Append(toBroker, p))
    BY DEF Written, Ordered, Delivery
  <1>2. /\ NoneIn(toBroker, Downs) => NoneIn(toBroker', Downs)
        /\ None(buffer, toClient, toBroker, Downs, Ups) => None(buffer', toClient', toBroker', Downs, Ups)
        /\ \A w : Carried(buffer, toClient, toBroker, w) => Carried(buffer', toClient', toBroker', w)
    BY <1>1, WriteFaithful
  <1>3. Live' => Live
    BY DEF Live, Active
  <1> QED
    BY <1>2, <1>3, SteadyFaithful

(* A client that has closed has nothing under way to itself.               *)
LEMMA CloseFaithful ==
  ASSUME Faithful, Close, UNCHANGED broker, UNCHANGED <<history.clean, history.reopened>>,
         NoneIn(toBroker, Downs) => NoneIn(toBroker', Downs)
  PROVE  Faithful'
  <1>1. pc' = "idle" /\ ~ws'
    BY DEF Close
  <1> QED
    BY <1>1, SteadyFaithful DEF Live, Active

LEMMA AskFaithful ==
  ASSUME Ordered, Faithful,
         (\E q \in 0..2 : Publish(q)) \/ Subscribe \/ Unsubscribe \/ Disconnect \/ WriteFails \/ TimesOut \/ PingOrClose
  PROVE  Faithful'
  <1>1. ASSUME NEW qos \in 0..2, Publish(qos) PROVE Faithful'
    <2> DEFINE id == IF qos = 0 THEN 0 ELSE NextPacketId
               p == Message(id, qos, history.published + 1)
    <2>1. id \in Nat /\ history.published + 1 \in Nat
      BY NextIdTyped DEF Ordered, Delivery, Typed
    <2>2. p \in AnyPacket /\ ~Down(p)
      BY <2>1, PacketsTyped DEF Down
    <2>3. ws /\ pc = "idle" /\ Written(p) /\ UNCHANGED <<link, buffer, toClient, broker, ws>> /\ pc' # "opening"
      BY <1>1 DEF Publish, Ask, IsConnected, clientVars, threadVars
    <2>4. history' = [Said(p) EXCEPT !.published = p.msg]
      BY <1>1 DEF Publish
    <2> HIDE DEF p, id
    <2>5. UNCHANGED <<history.clean, history.reopened>>
      BY <2>4, SMT DEF Said, Ordered, Delivery, Opening, Recorded
    <2> QED
      BY <2>2, <2>3, <2>5, CommandFaithful
  <1>2. CASE Subscribe \/ Unsubscribe
    <2>1. PICK type \in {"SUBSCRIBE", "UNSUBSCRIBE"}, name \in Names, needle \in Types : Request(type, name, needle)
      BY <1>2 DEF Subscribe, Unsubscribe, Names, Types
    <2> DEFINE p == Plain(type, NextPacketId)
    <2>2. p \in AnyPacket /\ ~Down(p)
      BY PacketsTyped, PlainTyped, NextIdTyped DEF Types, Ordered, Delivery, Down
    <2>3. /\ ws /\ pc = "idle" /\ Written(p) /\ UNCHANGED <<link, buffer, toClient, broker, ws>>
          /\ pc' # "opening" /\ history' = Said(p)
      BY <2>1 DEF Request, Ask, IsConnected
    <2> HIDE DEF p
    <2>4. UNCHANGED <<history.clean, history.reopened>>
      BY <2>3, SMT DEF Said, Ordered, Delivery, Opening, Recorded
    <2> QED
      BY <2>2, <2>3, <2>4, CommandFaithful
  <1>3. CASE Disconnect
    <2> DEFINE p == Plain("DISCONNECT", 0)
    <2>1. p \in AnyPacket /\ p \notin Downs
      BY PacketsTyped, PlainTyped DEF Types, Down, Downs
    <2>2. Written(p) /\ Close /\ history' = Said(p) /\ UNCHANGED broker
      BY <1>3 DEF Disconnect
    <2> HIDE DEF p
    <2>3. UNCHANGED <<history.clean, history.reopened>>
      BY <2>2, SMT DEF Said, Ordered, Delivery, Opening, Recorded
    <2>4. NoneIn(toBroker, Downs) => NoneIn(toBroker', Downs)
      BY <2>1, <2>2, AppendHolds DEF Written, Ordered, Delivery, Typed
    <2> QED
      BY <2>2, <2>3, <2>4, CloseFaithful
  <1>4. CASE Close /\ UNCHANGED <<toBroker, broker, history>>
    BY <1>4, CloseFaithful
  <1>5. CASE /\ pc = "pinging" /\ ws /\ Written(Plain("PINGREQ", 0)) /\ pc' = "idle"
             /\ history' = Said(Plain("PINGREQ", 0)) /\ UNCHANGED <<link, buffer, toClient, broker, ws>>
    <2> DEFINE p == Plain("PINGREQ", 0)
    <2>1. p \in AnyPacket /\ ~Down(p)
      BY PacketsTyped, PlainTyped DEF Types, Down
    <2>2. Written(p) /\ history' = Said(p)
      BY <1>5
    <2> HIDE DEF p
    <2>3. UNCHANGED <<history.clean, history.reopened>>
      BY <2>2, SMT DEF Said, Ordered, Delivery, Opening, Recorded
    <2> QED
      BY <1>5, <2>1, <2>2, <2>3, CommandFaithful
  <1> QED
    BY <1>1, <1>2, <1>3, <1>4, <1>5 DEF WriteFails, TimesOut, PingOrClose

(* A packet is taken from the buffer: one that has to be acknowledged is.  *)
LEMMA HandledFaithful ==
  ASSUME Ordered, Faithful, buffer # <<>>, buffer' = Tail(buffer), UNCHANGED <<toClient, broker>>,
         pc \in {"yielding", "waiting"}, pc' # "opening", UNCHANGED <<history.clean, history.reopened>>,
         link' => link,
         \/ toBroker' = toBroker /\ (link => ~Up(Head(buffer)))
         \/ \E r \in AnyPacket :
              /\ toBroker' = Append(toBroker, r)
              /\ IF Up(Head(buffer)) THEN Key(r) = Due(Head(buffer)) /\ Down(r) ELSE ~Down(r)
  PROVE  Faithful'
  <1> DEFINE p == Head(buffer)
  <1>1. buffer \in Seq(AnyPacket) /\ toBroker \in Seq(AnyPacket) /\ p \in AnyPacket
    BY DEF Ordered, Delivery, Typed
  <1>2. history.clean /\ ~history.reopened <=> Live
    BY DEF Live, Active
  <1>3. Live' => Live
    BY DEF Live, Active
  <1>4. ASSUME Live, ~broker.accepted
        PROVE  None(buffer', toClient', toBroker', Downs, Ups)
    <2>1. None(buffer, toClient, toBroker, Downs, Ups)
      BY <1>4 DEF Faithful
    <2>2. p \notin Ups
      BY <1>1, <2>1, TailHolds DEF None
    <2>3. toBroker' = toBroker \/ \E r \in AnyPacket : toBroker' = Append(toBroker, r) /\ (r \in Downs => p \in Ups)
      BY <1>1, <2>2 DEF Ups, Downs
    <2> QED
      BY <1>1, <2>1, <2>3, TakeMoves
  <1>5. ASSUME Live, link, broker.accepted, NEW w \in broker.awaiting
        PROVE  Carried(buffer', toClient', toBroker', w)
    <2>1. SUFFICES ASSUME NoneIn(buffer', UpFor(w)), NoneIn(toClient', UpFor(w)), NoneIn(toBroker', DownFor(w))
                   PROVE  FALSE
      BY DEF Carried, None
    <2>2. NoneIn(toBroker, DownFor(w)) /\ p \notin UpFor(w)
      <3>1. CASE toBroker' = toBroker /\ ~Up(p)
        BY <2>1, <3>1 DEF UpFor, Ups
      <3>2. CASE \E r \in AnyPacket :
                   /\ toBroker' = Append(toBroker, r)
                   /\ IF Up(p) THEN Key(r) = Due(p) /\ Down(r) ELSE ~Down(r)
        <4>1. PICK r \in AnyPacket :
                   /\ toBroker' = Append(toBroker, r)
                   /\ IF Up(p) THEN Key(r) = Due(p) /\ Down(r) ELSE ~Down(r)
          BY <3>2
        <4>2. NoneIn(toBroker, DownFor(w)) /\ r \notin DownFor(w)
          BY <1>1, <2>1, <4>1, AppendKeeps
        <4>3. Up(p) => Due(p) # w
          BY <4>1, <4>2 DEF DownFor, Downs
        <4> QED
          BY <4>2, <4>3 DEF UpFor, Ups
      <3> QED
        BY <1>5, <3>1, <3>2
    <2>3. NoneIn(buffer, UpFor(w))
      BY <1>1, <2>1, <2>2, TailKeeps
    <2>4. ~Carried(buffer, toClient, toBroker, w)
      BY <2>1, <2>2, <2>3 DEF Carried, None
    <2> QED
      BY <1>5, <2>4 DEF Faithful
  <1>6. Live /\ ~broker.accepted => NoneIn(toBroker', Downs)
    BY <1>4 DEF None
  <1>7. Live => ~broker.misled
    BY <1>2 DEF Faithful
  <1> HIDE DEF p
  <1> QED
    BY <1>2, <1>3, <1>4, <1>5, <1>6, <1>7 DEF Faithful

LEMMA ReplyFor ==
  ASSUME NEW p \in AnyPacket
  PROVE  /\ Reply(p) = <<>> => ~Up(p)
         /\ Reply(p) # <<>> => Head(Reply(p)) \in AnyPacket
         /\ Reply(p) # <<>> => IF Up(p) THEN Key(Head(Reply(p))) = Due(p) /\ Down(Head(Reply(p)))
                                         ELSE ~Down(Head(Reply(p)))
  <1>1. p.qos \in 0..2 /\ p.id \in Nat
    BY DEF AnyPacket
  <1>2. Reply(p) = <<>> => ~Up(p)
    BY <1>1 DEF Reply, Up
  <1>3. CASE Reply(p) # <<>>
    <2>1. PICK type \in {"PUBACK", "PUBREC", "PUBREL", "PUBCOMP"} :
            /\ Reply(p) = <<Plain(type, p.id)>>
            /\ \/ p.type = "PUBLISH" /\ p.qos = 1 /\ type = "PUBACK"
               \/ p.type = "PUBLISH" /\ p.qos = 2 /\ type = "PUBREC"
               \/ p.type = "PUBREC" /\ type = "PUBREL"
               \/ p.type = "PUBREL" /\ type = "PUBCOMP"
      BY <1>3 DEF Reply
    <2> DEFINE r == Plain(type, p.id)
    <2>2. Head(Reply(p)) = r /\ r.type = type /\ r.id = p.id
      BY <2>1 DEF Plain
    <2>3. r \in AnyPacket
      BY <1>1, PacketsTyped DEF Types
    <2> HIDE DEF r
    <2> QED
      BY <1>3, <2>1, <2>2, <2>3 DEF Up, Down, Key, Due
  <1> QED
    BY <1>2, <1>3

LEMMA CycleFaithful ==
  ASSUME Ordered, Faithful, Cycle
  PROVE  Faithful'
  <1> DEFINE p == Head(buffer)
  <1>1. /\ pc \in {"yielding", "waiting"} /\ buffer # <<>> /\ buffer \in Seq(AnyPacket)
        /\ buffer' = Tail(buffer) /\ UNCHANGED broker
    BY DEF Cycle, Ordered, Delivery, Typed
  <1>2. p \in AnyPacket
    BY <1>1
  <1>3. CASE Close /\ UNCHANGED <<toBroker, history>>
    BY <1>1, <1>3, CloseFaithful
  <1>4. CASE /\ Reply(p) = <<>> /\ GoesOn(p) /\ UNCHANGED toBroker /\ history' = [history EXCEPT !.waited = TRUE]
    <2>1. UNCHANGED <<history.clean, history.reopened>>
      BY <1>4, SMT DEF Ordered, Delivery, Opening, Recorded
    <2>2. ~Up(p) /\ UNCHANGED <<link, toClient, toBroker>> /\ pc' # "opening"
      BY <1>1, <1>2, <1>4, ReplyFor DEF GoesOn
    <2> QED
      BY <1>1, <2>1, <2>2, HandledFaithful
  <1>5. CASE /\ GoesOn(p) /\ Reply(p) # <<>> /\ Written(Head(Reply(p)))
             /\ history' = [history EXCEPT !.waited = TRUE, !.spoken = Speaks(Head(Reply(p)))]
    <2> DEFINE r == Head(Reply(p))
    <2>1. UNCHANGED <<history.clean, history.reopened>>
      BY <1>5, SMT DEF Ordered, Delivery, Opening, Recorded
    <2>2. r \in AnyPacket /\ (IF Up(p) THEN Key(r) = Due(p) /\ Down(r) ELSE ~Down(r))
      BY <1>2, <1>5, ReplyFor
    <2>3. toBroker' = IF link THEN Append(toBroker, r) ELSE toBroker
      BY <1>5 DEF Written
    <2>4. UNCHANGED <<link, toClient>> /\ pc' # "opening"
      BY <1>1, <1>5 DEF GoesOn
    <2> HIDE DEF r
    <2>5. \/ toBroker' = toBroker /\ (link => ~Up(p))
          \/ \E q \in AnyPacket :
               toBroker' = Append(toBroker, q) /\ (IF Up(p) THEN Key(q) = Due(p) /\ Down(q) ELSE ~Down(q))
      BY <2>2, <2>3
    <2> QED
      BY <1>1, <2>1, <2>4, <2>5, HandledFaithful
  <1>6. CASE Found(p) /\ Completed(p)
    <2>1. /\ pc = "waiting" /\ p.type = cmd.needle /\ pc' = "idle" /\ UNCHANGED <<link, toClient, toBroker>>
      BY <1>6 DEF Found, Completed, channels
    <2>2. UNCHANGED <<history.clean, history.reopened>>
      BY <1>6, SMT DEF Completed, Ordered, Delivery, Opening, Recorded
    <2>3. ~Up(p)
      BY <2>1 DEF Ordered, Registered, Commands, Up
    <2> QED
      BY <1>1, <2>1, <2>2, <2>3, HandledFaithful
  <1> QED
    BY <1>3, <1>4, <1>5, <1>6 DEF Cycle

(* The broker takes a packet that acknowledges nothing.                    *)
LEMMA ReadFaithful ==
  ASSUME Ordered, Faithful, toBroker # <<>>, toBroker' = Tail(toBroker), BrokerKeeps, ~Down(Head(toBroker)),
         toClient' = toClient \/ \E a \in AnyPacket : toClient' = Append(toClient, a) /\ ~Up(a),
         UNCHANGED <<broker.accepted, broker.awaiting, broker.misled>>
  PROVE  Faithful'
  <1>1. UNCHANGED <<link, pc, ws, buffer, history>> /\ toClient \in Seq(AnyPacket) /\ toBroker \in Seq(AnyPacket)
    BY DEF BrokerKeeps, clientVars, threadVars, Ordered, Delivery, Typed
  <1>2. None(buffer, toClient, toBroker, Downs, Ups) => None(buffer, toClient', Tail(toBroker), Downs, Ups)
    <2>1. toClient' = toClient \/ \E a \in AnyPacket : toClient' = Append(toClient, a) /\ (a \in Ups => Head(toBroker) \in Downs)
      BY DEF Ups
    <2> QED
      BY <1>1, <2>1, ReadMoves
  <1>3. NoneIn(toBroker, Downs) => NoneIn(Tail(toBroker), Downs)
    BY <1>1, TailHolds
  <1>4. ASSUME NEW w, Carried(buffer, toClient, toBroker, w)
        PROVE  Carried(buffer, toClient', Tail(toBroker), w)
    <2>1. NoneIn(Tail(toBroker), DownFor(w)) => NoneIn(toBroker, DownFor(w))
      BY <1>1, TailKeeps DEF DownFor, Downs
    <2>2. NoneIn(toClient', UpFor(w)) => NoneIn(toClient, UpFor(w))
      <3>1. CASE toClient' = toClient
        BY <3>1
      <3>2. ASSUME NEW a \in AnyPacket, toClient' = Append(toClient, a)
            PROVE  NoneIn(toClient', UpFor(w)) => NoneIn(toClient, UpFor(w))
        BY <1>1, <3>2, AppendKeeps
      <3> QED
        BY <3>1, <3>2
    <2> QED
      BY <1>4, <2>1, <2>2 DEF Carried, None
  <1>5. Live' <=> Live
    BY <1>1 DEF Live, Active
  <1> QED
    BY <1>1, <1>2, <1>3, <1>4, <1>5 DEF Faithful

LEMMA AckFaithful ==
  ASSUME Ordered, Faithful, toBroker # <<>>, toBroker' = Tail(toBroker), BrokerKeeps, broker.accepted,
         Down(Head(toBroker)), OnAck(Head(toBroker))
  PROVE  Faithful'
  <1> DEFINE p == Head(toBroker)
             a == Plain("PUBREL", p.id)
  <1>1. /\ UNCHANGED <<link, pc, ws, buffer, history>>
        /\ toClient \in Seq(AnyPacket) /\ toBroker \in Seq(AnyPacket)
    BY DEF BrokerKeeps, clientVars, threadVars, Ordered, Delivery, Typed
  <1>2. p \in AnyPacket /\ p.id \in Nat /\ p \in Downs
    <2>1. p \in AnyPacket
      BY <1>1
    <2> QED
      BY <2>1 DEF AnyPacket, Downs
  <1>3. /\ broker'.accepted = broker.accepted
        /\ broker'.misled = (broker.misled \/ ~Awaited(p))
        /\ broker'.awaiting = (broker.awaiting \ {Key(p)})
                              \cup (IF p.type = "PUBREC" THEN {[id |-> p.id, type |-> "PUBCOMP"]} ELSE {})
    BY DEF OnAck, Key, Ordered, Delivery, Typed
  <1>4. history.clean => Awaited(p)
    <2>1. history.clean => NoneIn(toBroker, Unawaited(broker.awaiting, broker.sent))
      BY DEF Ordered, Acknowledging, InOrder
    <2>2. history.clean => p \notin Unawaited(broker.awaiting, broker.sent)
      BY <1>1, <2>1, TailHolds
    <2> QED
      BY <1>2, <2>2 DEF Unawaited, Awaited, Key
  <1>5. a \in AnyPacket /\ a.type = "PUBREL" /\ a.id = p.id
    BY <1>2, PacketsTyped, PlainTyped DEF Types, Plain
  <1>6. link => toClient' = IF p.type = "PUBREC" THEN Append(toClient, a) ELSE toClient
    <2>1. Says(IF p.type = "PUBREC" THEN <<a>> ELSE <<>>)
      BY DEF OnAck
    <2> HIDE DEF a, p
    <2> QED
      BY <1>1, <1>5, <2>1 DEF Says
  <1>7. ASSUME Live, link, NEW w \in broker'.awaiting
        PROVE  Carried(buffer, toClient', Tail(toBroker), w)
    <2>1. NoneIn(toClient', UpFor(w)) => NoneIn(toClient, UpFor(w)) /\ (p.type = "PUBREC" => a \notin UpFor(w))
      <3> HIDE DEF a
      <3>1. CASE p.type = "PUBREC"
        <4>1. toClient' = Append(toClient, a)
          BY <1>6, <1>7, <3>1
        <4> QED
          BY <1>1, <1>5, <4>1, AppendKeeps
      <3>2. CASE p.type # "PUBREC"
        BY <1>6, <1>7, <3>2
      <3> QED
        BY <3>1, <3>2
    <2>2. CASE w \in broker.awaiting /\ w # Key(p)
      <3>1. Carried(buffer, toClient, toBroker, w)
        BY <1>7, <2>2 DEF Faithful
      <3>2. NoneIn(Tail(toBroker), DownFor(w)) => NoneIn(toBroker, DownFor(w))
        BY <1>1, <2>2, TailKeeps DEF DownFor
      <3> QED
        BY <2>1, <3>1, <3>2 DEF Carried, None
    <2>3. CASE p.type = "PUBREC" /\ w = [id |-> p.id, type |-> "PUBCOMP"]
      <3>1. a \in UpFor(w)
        BY <1>5, <2>3 DEF UpFor, Ups, Up, Due
      <3> QED
        BY <2>1, <2>3, <3>1 DEF Carried, None
    <2> QED
      BY <1>3, <1>7, <2>2, <2>3
  <1>8. ~(pc = "opening" /\ ws)
    BY DEF Ordered, Delivery, Alternating
  <1>9. Live' <=> Live
    BY <1>1 DEF Live, Active
  <1> HIDE DEF p
  <1> QED
    BY <1>1, <1>3, <1>4, <1>7, <1>8, <1>9 DEF Faithful

(* A new session waits for nothing, and nothing is under way.              *)
LEMMA AcceptFaithful ==
  ASSUME Ordered, Faithful, toBroker # <<>>, toBroker' = Tail(toBroker), BrokerKeeps,
         Head(toBroker).type = "CONNECT", NEW ok \in BOOLEAN, OnConnect(ok)
  PROVE  Faithful'
  <1> DEFINE p == Head(toBroker)
             a == Answer("CONNACK", 0, ok)
  <1>1. /\ UNCHANGED <<link, pc, ws, buffer, history>> /\ Typed
        /\ toClient \in Seq(AnyPacket) /\ toBroker \in Seq(AnyPacket)
    BY DEF BrokerKeeps, clientVars, threadVars, Ordered, Delivery, Typed
  <1>2. p \in Connects
    <2>1. p \in AnyPacket
      BY <1>1
    <2> QED
      BY <2>1 DEF Connects
  <1>3. a \in AnyPacket /\ a \notin Ups
    BY PacketsTyped DEF Types, Up, Ups
  <1>4. broker'.awaiting = {} /\ broker'.misled = broker.misled /\ Says(<<a>>)
    BY <1>1 DEF OnConnect, Typed
  <1>5. toClient' = toClient \/ toClient' = Append(toClient, a)
    BY <1>1, <1>3, <1>4, SaysTokens
  <1>6. ~NoneIn(toBroker, Connects)
    BY <1>1, <1>2, TailHolds
  <1>7. history.clean => None(buffer, toClient, toBroker, Downs, Ups)
    BY <1>6 DEF Ordered, Acknowledging
  <1>8. history.clean => None(buffer, toClient', Tail(toBroker), Downs, Ups)
    <2> HIDE DEF a
    <2> QED
      BY <1>1, <1>3, <1>5, <1>7, ReadMoves
  <1>9. (pc = "opening" /\ ws => ~broker.misled) /\ (history.clean /\ ~history.reopened => ~broker.misled)
    BY DEF Faithful
  <1>10. Live' => history.clean
    BY <1>1 DEF Live, Active
  <1> QED
    BY <1>1, <1>4, <1>8, <1>9, <1>10 DEF Faithful, None

LEMMA MessageFaithful ==
  ASSUME Ordered, Faithful, NEW qos \in 0..2, BrokerPublishes(qos)
  PROVE  Faithful'
  <1> DEFINE n == broker.sent + 1
             p == Message(IF qos = 0 THEN 0 ELSE n, qos, n)
  <1>1. /\ UNCHANGED <<link, pc, ws, buffer, toBroker, history>>
        /\ toClient \in Seq(AnyPacket) /\ n \in Nat /\ Says(<<p>>) /\ broker.accepted /\ link
    BY DEF BrokerPublishes, BrokerKeeps, clientVars, threadVars, Ordered, Delivery, Typed
  <1>2. /\ UNCHANGED <<broker.accepted, broker.misled>>
        /\ broker'.awaiting = broker.awaiting \cup CASE qos = 1 -> {[id |-> n, type |-> "PUBACK"]}
                                                     [] qos = 2 -> {[id |-> n, type |-> "PUBREC"]}
                                                     [] OTHER   -> {}
    BY DEF BrokerPublishes, Ordered, Delivery, Typed
  <1>3. p \in AnyPacket /\ p.type = "PUBLISH" /\ p.qos = qos /\ p.id = IF qos = 0 THEN 0 ELSE n
    <2>1. (IF qos = 0 THEN 0 ELSE n) \in Nat
      BY <1>1
    <2>2. p.id = IF qos = 0 THEN 0 ELSE n
      BY SMT DEF Message, Plain
    <2> QED
      BY <1>1, <2>1, <2>2, PacketsTyped
  <1> HIDE DEF p
  <1>4. toClient' = Append(toClient, p)
    BY <1>1, <1>3 DEF Says
  <1>5. ASSUME NEW w \in broker'.awaiting, w \notin broker.awaiting PROVE p \in UpFor(w)
    <2>1. CASE qos = 1
      BY <1>2, <1>3, <1>5, <2>1 DEF UpFor, Ups, Up, Due
    <2>2. CASE qos = 2
      BY <1>2, <1>3, <1>5, <2>2 DEF UpFor, Ups, Up, Due
    <2>3. CASE qos = 0
      BY <1>2, <1>5, <2>3
    <2> QED
      BY <2>1, <2>2, <2>3
  <1>6. ASSUME Live, NEW w \in broker'.awaiting
        PROVE  Carried(buffer, toClient', toBroker, w)
    <2>1. NoneIn(toClient', UpFor(w)) => NoneIn(toClient, UpFor(w)) /\ p \notin UpFor(w)
      BY <1>1, <1>3, <1>4, AppendKeeps
    <2>2. w \in broker.awaiting => Carried(buffer, toClient, toBroker, w)
      BY <1>1, <1>6 DEF Faithful
    <2> QED
      BY <1>5, <2>1, <2>2 DEF Carried, None
  <1>7. Live' <=> Live
    BY <1>1 DEF Live, Active
  <1> QED
    BY <1>1, <1>2, <1>6, <1>7 DEF Faithful

LEMMA BrokerFaithful ==
  ASSUME Ordered, Faithful, Broker
  PROVE  Faithful'
  <1> DEFINE p == Head(toBroker)
  <1>1. CASE LinkDrops
    <2>1. /\ UNCHANGED <<pc, ws, buffer, broker, history>> /\ ~link'
          /\ toClient' = <<>> /\ toBroker' = <<>>
      BY <1>1 DEF LinkDrops, clientVars, threadVars
    <2>2. /\ NoneIn(toBroker', Downs)
          /\ None(buffer, toClient, toBroker, Downs, Ups) => None(buffer', toClient', toBroker', Downs, Ups)
      BY <2>1, EmptyHolds DEF None
    <2> QED
      BY <2>1, <2>2, SteadyFaithful DEF Live, Active
  <1>2. CASE \E q \in QosLevels : BrokerPublishes(q)
    BY <1>2, MessageFaithful, SessionAssumption
  <1>3. CASE BrokerReads
    <2>1. /\ toBroker # <<>> /\ toBroker' = Tail(toBroker) /\ BrokerKeeps /\ Typed
          /\ toBroker \in Seq(AnyPacket)
      BY <1>3 DEF BrokerReads, Ordered, Delivery, Typed
    <2>2. p \in AnyPacket /\ p.id \in Nat /\ p.qos \in 0..2
      <3>1. p \in AnyPacket
        BY <2>1
      <3> QED
        BY <3>1 DEF AnyPacket
    <2>3. ASSUME NEW type \in {"PUBACK", "PUBREC", "PUBCOMP", "PINGRESP", "UNSUBACK"}, NEW id \in Nat
          PROVE  Plain(type, id) \in AnyPacket /\ ~Up(Plain(type, id))
      BY PacketsTyped, PlainTyped DEF Types, Up
    <2>4. ASSUME ~Down(p), toClient' = toClient \/ \E a \in AnyPacket : toClient' = Append(toClient, a) /\ ~Up(a),
                 UNCHANGED <<broker.accepted, broker.awaiting, broker.misled>>
          PROVE  Faithful'
      BY <2>1, <2>4, ReadFaithful
    <2>5. CASE /\ ~broker.accepted /\ p.type # "CONNECT" /\ UNCHANGED toClient
               /\ broker' = [broker EXCEPT !.misled = @ \/ Acknowledges(p)]
      <3>1. UNCHANGED <<link, pc, ws, buffer, history>> /\ toClient \in Seq(AnyPacket)
        BY <2>1 DEF BrokerKeeps, clientVars, threadVars, Ordered, Delivery, Typed
      <3>2. /\ UNCHANGED <<broker.accepted, broker.awaiting>>
            /\ broker'.misled = (broker.misled \/ Acknowledges(p))
        BY <2>1, <2>5 DEF Typed
      <3>3. history.clean /\ ~history.reopened => NoneIn(Tail(toBroker), Downs) /\ ~Acknowledges(p)
        <4>1. history.clean /\ ~history.reopened => NoneIn(toBroker, Downs)
          BY <2>5 DEF Faithful
        <4>2. NoneIn(toBroker, Downs) => NoneIn(Tail(toBroker), Downs) /\ p \notin Downs
          BY <2>1, TailHolds
        <4> QED
          BY <2>2, <4>1, <4>2 DEF Downs, Down, Acknowledges
      <3>4. None(buffer, toClient, toBroker, Downs, Ups) => None(buffer, toClient, Tail(toBroker), Downs, Ups)
        BY <2>1, TailHolds DEF None
      <3>5. pc = "opening" /\ ws => toBroker = <<>>
        BY DEF Ordered, Delivery, Alternating
      <3>6. Live' <=> Live
        BY <3>1 DEF Live, Active
      <3> HIDE DEF p
      <3> QED
        BY <2>1, <2>5, <3>1, <3>2, <3>3, <3>4, <3>5, <3>6 DEF Faithful
    <2>6. ASSUME NEW ok \in BOOLEAN, p.type = "CONNECT", OnConnect(ok) PROVE Faithful'
      BY <2>1, <2>6, AcceptFaithful
    <2>7. ASSUME broker.accepted, Acknowledges(p), OnAck(p) PROVE Faithful'
      BY <2>1, <2>7, AckFaithful DEF Acknowledges, Down
    <2>8. CASE p.type = "PUBLISH" /\ OnPublish(p)
      <3>1. UNCHANGED <<broker.accepted, broker.awaiting, broker.misled>> /\ ~Down(p)
        BY <2>1, <2>8 DEF OnPublish, Typed, Down
      <3>2. Says(<<>>) \/ \E type \in {"PUBACK", "PUBREC"} : Says(<<Plain(type, p.id)>>)
        BY <2>2, <2>8 DEF OnPublish
      <3> QED
        BY <2>1, <2>2, <2>3, <2>4, <3>1, <3>2, SaysTokens
    <2>9. CASE p.type = "PUBREL" /\ Says(<<Plain("PUBCOMP", p.id)>>) /\ UNCHANGED broker
      BY <2>1, <2>2, <2>3, <2>4, <2>9, SaysTokens DEF Down
    <2>10. CASE p.type = "PINGREQ" /\ Says(<<Plain("PINGRESP", 0)>>) /\ UNCHANGED broker
      BY <2>1, <2>3, <2>4, <2>10, SaysTokens DEF Down
    <2>11. ASSUME NEW ok \in BOOLEAN, p.type = "SUBSCRIBE", OnSubscribe(p, ok) PROVE Faithful'
      <3>1. UNCHANGED <<broker.accepted, broker.awaiting, broker.misled>> /\ Says(<<Answer("SUBACK", p.id, ok)>>) /\ ~Down(p)
        BY <2>1, <2>11 DEF OnSubscribe, Typed, Down
      <3>2. Answer("SUBACK", p.id, ok) \in AnyPacket /\ ~Up(Answer("SUBACK", p.id, ok))
        BY <2>2, PacketsTyped DEF Types, Up
      <3> QED
        BY <2>1, <2>4, <3>1, <3>2, SaysTokens
    <2>12. CASE p.type = "UNSUBSCRIBE" /\ OnUnsubscribe(p)
      <3>1. UNCHANGED <<broker.accepted, broker.awaiting, broker.misled>> /\ Says(<<Plain("UNSUBACK", p.id)>>) /\ ~Down(p)
        BY <2>1, <2>12 DEF OnUnsubscribe, Typed, Down
      <3> QED
        BY <2>1, <2>2, <2>3, <2>4, <3>1, SaysTokens
    <2>13. CASE p.type = "DISCONNECT" /\ UNCHANGED <<broker, toClient>>
      BY <2>4, <2>13 DEF Down
    <2> HIDE DEF p
    <2>14. \/ /\ ~broker.accepted /\ p.type # "CONNECT" /\ UNCHANGED toClient
              /\ broker' = [broker EXCEPT !.misled = @ \/ Acknowledges(p)]
           \/ p.type = "CONNECT" /\ \E ok \in BOOLEAN : OnConnect(ok)
           \/ p.type = "PUBLISH" /\ OnPublish(p)
           \/ p.type = "PUBREL" /\ Says(<<Plain("PUBCOMP", p.id)>>) /\ UNCHANGED broker
           \/ p.type = "SUBSCRIBE" /\ \E ok \in BOOLEAN : OnSubscribe(p, ok)
           \/ p.type = "UNSUBSCRIBE" /\ OnUnsubscribe(p)
           \/ p.type = "PINGREQ" /\ Says(<<Plain("PINGRESP", 0)>>) /\ UNCHANGED broker
           \/ broker.accepted /\ Acknowledges(p) /\ OnAck(p)
           \/ p.type = "DISCONNECT" /\ UNCHANGED <<broker, toClient>>
      BY <1>3 DEF BrokerReads, Acknowledges, p
    <2> QED
      BY <2>5, <2>6, <2>7, <2>8, <2>9, <2>10, <2>11, <2>12, <2>13, <2>14
  <1> QED
    BY <1>1, <1>2, <1>3 DEF Broker

LEMMA StepFaithful == Ordered /\ Faithful /\ [SessionNext]_sessionVars => Faithful'
  <1> SUFFICES ASSUME Ordered, Faithful, [SessionNext]_sessionVars PROVE Faithful'
    OBVIOUS
  <1>1. CASE Command
    <2>1. CASE \E q \in QosLevels : Publish(q)
      BY <2>1, AskFaithful, SessionAssumption
    <2> QED
      BY <1>1, <2>1, StillFaithful, ConnectFaithful, AskFaithful DEF Command
  <1>2. CASE Thread
    BY <1>2, StillFaithful, ConnectFaithful, AskFaithful, ReceiveFaithful, CycleFaithful DEF Thread
  <1>3. CASE Broker
    BY <1>3, BrokerFaithful
  <1>4. CASE UNCHANGED sessionVars
    BY <1>4, StillFaithful
  <1> QED
    BY <1>1, <1>2, <1>3, <1>4 DEF SessionNext

(* lwmqtt/client.c:249-370, lwmqtt_cycle_once: on a connection that        *)
(* connect() made with an empty buffer and no read has reopened, the       *)
(* client acknowledges nothing the broker does not wait for, however many  *)
(* messages are under way at once, and once everything has been read and   *)
(* handled the broker waits for nothing.                                   *)
THEOREM AcknowledgementsAwaited == SessionSpec => []AcksAwaited
  <1>1. Ordered /\ Faithful => AcksAwaited
    <2> SUFFICES ASSUME Ordered, Faithful, history.clean, ~history.reopened PROVE ~broker.misled /\ (Settles => broker.awaiting = {})
      BY DEF AcksAwaited
    <2>1. ~broker.misled
      BY DEF Faithful
    <2>2. ASSUME Settles PROVE broker.awaiting = {}
      <3>1. Live
        BY <2>2 DEF Settles, IsConnected, Live, Active
      <3>2. \A w : ~Carried(buffer, toClient, toBroker, w)
        BY <2>2, EmptyHolds DEF Settles, Carried, None
      <3>3. \A w \in broker.awaiting : Carried(buffer, toClient, toBroker, w)
        BY <2>2, <3>1 DEF Settles, Faithful
      <3> QED
        BY <3>2, <3>3
    <2> QED
      BY <2>1, <2>2
  <1>2. SessionInit => Ordered /\ Faithful
    <2>1. SessionInit => Ordered
      BY InitDelivery, InitOrdered DEF Ordered
    <2>2. SessionInit => Faithful
      <3> SUFFICES ASSUME SessionInit PROVE Faithful
        OBVIOUS
      <3>1. pc = "idle" /\ ~ws /\ toBroker = <<>> /\ ~broker.misled
        BY DEF SessionInit
      <3> QED
        BY <3>1, EmptyHolds DEF Faithful, Live, Active
    <2> QED
      BY <2>1, <2>2
  <1> QED
    BY <1>1, <1>2, StepOrdered, StepFaithful, PTL DEF SessionSpec
=============================================================================
