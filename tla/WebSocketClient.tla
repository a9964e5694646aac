---------------------------- MODULE WebSocketClient ----------------------------
(***************************************************************************)
(* WebSocketsClient as the device uses it, on one TCP connection after     *)
(* another: the handshake a header line per loop(), then a frame per       *)
(* loop(), read piece by piece by blocking reads that can time out or find *)
(* the connection gone; the application restarts it, sends and closes.     *)
(* Lines and frames are records, their bytes the business of               *)
(* WebSocketFrames; the interval between two attempts to connect and the   *)
(* deadlines only say that something may happen. The paths for Socket.IO,  *)
(* TLS and asynchronous TCP, which the device does not use, are left out.  *)
(***************************************************************************)
EXTENDS Integers, Sequences, FiniteSets

CONSTANTS
  Answers, \* external: what servers answer to a handshake, sequences of Line
  Frames,  \* external: the frames they send, records of Frame
  MaxConnects, MaxFrames \* bounds: TCP connections, frames on each

LineNames == {"status", "connection", "upgrade", "accept", "protocol", "other", "blank"}
Line  == [name : LineNames, ok : BOOLEAN] \* ok: the value a client hopes for
Ops   == {"text", "binary", "continuation", "ping", "pong", "close", "unknown"}
Frame == [op : Ops, fin : BOOLEAN, size : {"none", "short", "two", "eight", "huge"}, masked : BOOLEAN]

ASSUME WebSocketAssumption ==
  /\ \A a \in Answers : /\ a \in Seq(Line)
                         /\ \A i \in DOMAIN a : a[i].name = "blank" => i = Len(a) \* it ends there
  /\ Frames \subseteq Frame /\ MaxConnects \in Nat /\ MaxFrames \in Nat

VARIABLES
  client,   \* WSclient_t
  begun,    \* begin() has been called
  pc,       \* the piece of a frame that loop() is waiting for, or "idle"
  sockets,  \* TCP clients allocated and not deleted
  incoming, \* lines and pieces of frames that can be read
  server,   \* external: what it has still to send, and what it sent
  wire,     \* which write, if any, was cut short on this connection
  history   \* what the properties look back at

clientVars == <<client, begun, pc, sockets, incoming, server, wire, history>>

Silent == [rest |-> <<>>, asked |-> FALSE, upgraded |-> FALSE, frames |-> 0, data |-> 0]

ClientInit ==
  /\ client = [status |-> "NOT_CONNECTED", tcp |-> "none", cCode |-> FALSE, cIsUpgrade |-> FALSE,
               cIsWebsocket |-> FALSE, cKey |-> 0, cAccept |-> 0, cProtocol |-> "", cWsRXsize |-> 0]
  /\ begun = FALSE /\ pc = "idle" /\ sockets = 0 /\ incoming = <<>>
  /\ server = Silent /\ wire = "whole"
  /\ history = [connects |-> 0, seen |-> {}, delivered |-> <<>>]

-----------------------------------------------------------------------------
(* Pieces of a frame, and how many bytes of header there are after each.   *)
Extended(f) == f.size \in {"two", "eight", "huge"} \* the length has bytes of its own
PiecesOf(f) ==
  <<"start">> \o (IF Extended(f) THEN <<"length">> ELSE <<>>)
              \o (IF f.masked THEN <<"mask">> ELSE <<>>)
              \o (IF f.size # "none" THEN <<"payload">> ELSE <<>>)
After(f, piece) ==
  IF piece = "start" /\ Extended(f) THEN "length"
  ELSE IF piece \in {"start", "length"} /\ f.masked THEN "mask"
  ELSE IF piece # "payload" /\ f.size # "none" THEN "payload" ELSE "end"
HeaderBytes(f, piece) ==
  CASE piece = "start"  -> 2
    [] piece = "length" -> IF f.size = "two" THEN 4 ELSE 10
    [] piece = "mask"   -> 6 + (CASE f.size = "two" -> 2 [] f.size \in {"eight", "huge"} -> 8 [] OTHER -> 0)
    [] OTHER            -> client.cWsRXsize

(* WebSocketsClient::clientDisconnect: nothing of the handshake outlives   *)
(* the connection but the subprotocol, and the TCP client is deleted.      *)
ClosedKeepingRx(c) ==
  [c EXCEPT !.status = "NOT_CONNECTED", !.tcp = "none", !.cCode = FALSE, !.cIsUpgrade = FALSE,
            !.cIsWebsocket = FALSE, !.cKey = 0, !.cAccept = 0]
ClosedKeepingAccept(c) == [ClosedKeepingRx(c) EXCEPT !.cAccept = c.cAccept, !.cIsUpgrade = c.cIsUpgrade,
                                                     !.cCode = c.cCode] \* mutant
Closed(c) == ClosedKeepingRx(c)

ClientDisconnect(rx) ==
  /\ client' = [Closed(client) EXCEPT !.cWsRXsize = rx]
  /\ sockets' = sockets - (IF client.tcp = "none" THEN 0 ELSE 1)
  /\ pc' = "idle"
  /\ incoming' = <<>> /\ server' = Silent

ClientIsConnected == client.tcp = "up" /\ client.status # "NOT_CONNECTED"
IsConnected == client.status = "CONNECTED"

-----------------------------------------------------------------------------
(* The application: connect_mqtt() disconnects and begins, PubSubClient    *)
(* closes, and sends a packet as one frame; when the frame is not written  *)
(* whole it closes.                                                        *)
DisconnectIfConnected == \* mutant
  IF IsConnected THEN ClosedKeepingRx(client) ELSE client
Disconnected == Closed(client) \* disconnect(), which also cleans up what is not connected

Restart ==
  /\ pc = "idle"
  /\ LET c == Disconnected IN
     /\ client' = [c EXCEPT !.status = "NOT_CONNECTED", !.tcp = "none", !.cCode = FALSE,
                            !.cIsUpgrade = FALSE, !.cIsWebsocket = TRUE, !.cKey = 0, !.cAccept = 0,
                            !.cProtocol = "mqtt"]
     /\ sockets' = sockets - (IF client.tcp # "none" /\ c.tcp = "none" THEN 1 ELSE 0)
  /\ begun' = TRUE
  /\ incoming' = <<>> /\ server' = Silent
  /\ UNCHANGED <<pc, wire, history>>

Disconnect ==
  /\ pc = "idle" /\ client.tcp # "none"
  /\ ClientDisconnect(client.cWsRXsize)
  /\ UNCHANGED <<begun, wire, history>>

SendBinFails == \* sendBIN() writes a part of the frame, or finds the connection gone
  /\ pc = "idle" /\ IsConnected
  /\ wire' = IF client.tcp = "up" /\ wire = "whole" THEN "data" ELSE wire
  /\ ClientDisconnect(client.cWsRXsize)
  /\ UNCHANGED <<begun, history>>

-----------------------------------------------------------------------------
(* loop() without a connection: clean up what is left, or connect and send *)
(* the handshake with a new key and the subprotocol it has.                *)
LoopCleansUp ==
  /\ begun /\ pc = "idle" /\ client.tcp # "none" /\ ~ClientIsConnected
  /\ ClientDisconnect(client.cWsRXsize)
  /\ UNCHANGED <<begun, wire, history>>

LoopConnects ==
  /\ begun /\ pc = "idle" /\ client.tcp = "none" /\ history.connects < MaxConnects
  /\ sockets' = sockets + 1
  /\ client' = [client EXCEPT !.tcp = "up", !.status = "HEADER", !.cKey = history.connects + 1]
  /\ server' = [Silent EXCEPT !.asked = TRUE]
  /\ wire' = "whole"
  /\ history' = [history EXCEPT !.connects = @ + 1, !.seen = {}]
  /\ UNCHANGED <<begun, pc, incoming>>

LoopFailsToConnect ==
  /\ begun /\ pc = "idle" /\ client.tcp = "none"
  /\ sockets' = sockets + 1
  /\ client' = [client EXCEPT !.tcp = "lost"]
  /\ UNCHANGED <<begun, pc, incoming, server, wire, history>>

(* handleClientData: no end of the headers for five seconds.               *)
OverdueInBodyOnly == client.status = "BODY" \* mutant
HeaderMayBeOverdue == client.status \in {"HEADER", "BODY"}
HeaderTimesOut ==
  /\ pc = "idle" /\ ClientIsConnected /\ HeaderMayBeOverdue
  /\ ClientDisconnect(client.cWsRXsize)
  /\ UNCHANGED <<begun, wire, history>>

(* handleHeader, with a line of the answer ...                             *)
WithLine(c, l) ==
  CASE l.name = "status"     -> [c EXCEPT !.cCode = l.ok]
    [] l.name = "connection" -> [c EXCEPT !.cIsUpgrade = @ \/ l.ok]
    [] l.name = "upgrade"    -> [c EXCEPT !.cIsWebsocket = @ \/ l.ok]
    [] l.name = "accept"     -> [c EXCEPT !.cAccept = IF l.ok THEN l.key ELSE -1]
    [] l.name = "protocol"   -> [c EXCEPT !.cProtocol = IF l.ok THEN "mqtt" ELSE "another"]
    [] OTHER                 -> c
AtHeaders == pc = "idle" /\ ClientIsConnected /\ client.status = "HEADER" /\ incoming # <<>>
HandleHeader ==
  /\ AtHeaders /\ Head(incoming).name # "blank"
  /\ client' = WithLine(client, Head(incoming))
  /\ incoming' = Tail(incoming)
  /\ history' = [history EXCEPT !.seen = @ \cup {[name |-> Head(incoming).name, ok |-> Head(incoming).ok]}]
  /\ UNCHANGED <<begun, pc, sockets, server, wire>>

(* ... and with the empty one that ends it.                                *)
Accepted(c) == c.cIsUpgrade /\ c.cIsWebsocket /\ c.cCode /\ c.cAccept = c.cKey
HeaderDoneKeepingRx(c) == [c EXCEPT !.status = "CONNECTED"] \* mutant
HeaderDone(c) == [c EXCEPT !.status = "CONNECTED", !.cWsRXsize = 0]
EndOfHeaders ==
  /\ AtHeaders /\ Head(incoming).name = "blank"
  /\ IF Accepted(client)
     THEN /\ client' = HeaderDone(client) /\ incoming' = Tail(incoming)
          /\ UNCHANGED <<pc, sockets, server>>
     ELSE ClientDisconnect(client.cWsRXsize)
  /\ UNCHANGED <<begun, wire, history>>

-----------------------------------------------------------------------------
(* handleWebsocket: a frame, unless one is half read.                      *)
StartFrame ==
  /\ pc = "idle" /\ ClientIsConnected /\ IsConnected /\ incoming # <<>>
  /\ client.cWsRXsize = 0
  /\ pc' = "start"
  /\ UNCHANGED <<client, begun, sockets, incoming, server, wire, history>>

(* messageReceived and PubSubClient's event: a whole text or binary frame  *)
(* goes to the receive buffer, the parts of a fragmented one go nowhere.   *)
DeliversFragments(f) == f.op \in {"text", "binary", "continuation"} /\ ~f.fin \* mutant
Delivers(f) == f.op \in {"text", "binary"} /\ f.fin

Handled(t) == \* handleWebsocketPayloadCb, for a frame that was read whole
  \/ /\ t.frame.op \in {"close", "unknown"}
     /\ ClientDisconnect(0)
     /\ UNCHANGED <<wire, history>>
  \/ /\ t.frame.op \notin {"close", "unknown"}
     /\ client' = [client EXCEPT !.cWsRXsize = 0]
     /\ pc' = "idle" /\ incoming' = Tail(incoming)
     /\ history' = [history EXCEPT !.delivered =
                      IF Delivers(t.frame) THEN Append(@, [conn |-> history.connects, n |-> t.n]) ELSE @]
     /\ \/ wire' = wire \* the pong is written whole, or none of it
        \/ wire' = "pong" /\ t.frame.op = "ping" /\ wire = "whole" \* or a part of it
     /\ UNCHANGED <<sockets, server>>

ReadPiece ==
  /\ pc # "idle" /\ client.tcp = "up" /\ incoming # <<>>
  /\ LET t == Head(incoming) IN
     /\ t.piece = pc
     /\ \/ /\ pc = "length" /\ t.frame.size = "huge"
           /\ ClientDisconnect(10)
           /\ UNCHANGED <<wire, history>>
        \/ /\ ~(pc = "length" /\ t.frame.size = "huge") /\ After(t.frame, pc) # "end"
           /\ pc' = After(t.frame, pc)
           /\ client' = [client EXCEPT !.cWsRXsize = HeaderBytes(t.frame, pc)]
           /\ incoming' = Tail(incoming)
           /\ UNCHANGED <<sockets, server, wire, history>>
        \/ After(t.frame, pc) = "end" /\ Handled(t)
  /\ UNCHANGED begun

(* readCb gives up: no byte for five seconds, or no connection.            *)
ReadFails ==
  /\ pc # "idle" /\ incoming = <<>>
  /\ ClientDisconnect(IF pc = "payload" THEN client.cWsRXsize ELSE 0)
  /\ UNCHANGED <<begun, wire, history>>

(* handleWebsocketCb returns when it finds the connection gone between two *)
(* pieces, and gives up when there is no memory for the payload.           *)
LostBetweenPieces ==
  /\ pc \in {"length", "mask", "payload"} /\ client.tcp = "lost"
  /\ pc' = "idle"
  /\ UNCHANGED <<client, begun, sockets, incoming, server, wire, history>>
NoMemory ==
  /\ pc = "payload"
  /\ ClientDisconnect(client.cWsRXsize)
  /\ UNCHANGED <<begun, wire, history>>

-----------------------------------------------------------------------------
(* External: the server and the network between.                           *)
ServerAnswers ==
  /\ client.tcp = "up" /\ server.asked
  /\ \E a \in Answers :
       server' = [server EXCEPT !.asked = FALSE,
         !.upgraded = [name |-> "status", ok |-> TRUE] \in {a[i] : i \in DOMAIN a},
         !.rest = [i \in DOMAIN a |-> [name |-> a[i].name, ok |-> a[i].ok, key |-> client.cKey]]]
  /\ UNCHANGED <<client, begun, pc, sockets, incoming, wire, history>>

IsData(f) == f.op \in {"text", "binary"} /\ f.fin
ServerSends(f) ==
  /\ client.tcp = "up" /\ server.upgraded /\ server.rest = <<>> /\ server.frames < MaxFrames
  /\ LET n == server.data + (IF IsData(f) THEN 1 ELSE 0) IN
     server' = [server EXCEPT !.frames = @ + 1, !.data = n,
       !.rest = [i \in DOMAIN PiecesOf(f) |->
                   [name |-> "piece", ok |-> TRUE, piece |-> PiecesOf(f)[i], frame |-> f, n |-> n]]]
  /\ UNCHANGED <<client, begun, pc, sockets, incoming, wire, history>>

Arrives ==
  /\ client.tcp = "up" /\ server.rest # <<>>
  /\ incoming' = Append(incoming, Head(server.rest))
  /\ server' = [server EXCEPT !.rest = Tail(@)]
  /\ UNCHANGED <<client, begun, pc, sockets, wire, history>>

TcpDrops ==
  /\ client.tcp = "up"
  /\ client' = [client EXCEPT !.tcp = "lost"]
  /\ incoming' = <<>> /\ server' = Silent
  /\ UNCHANGED <<begun, pc, sockets, wire, history>>

-----------------------------------------------------------------------------
Application == Restart \/ Disconnect \/ SendBinFails
Loop ==
  \/ LoopCleansUp \/ LoopConnects \/ LoopFailsToConnect \/ HeaderTimesOut
  \/ HandleHeader \/ EndOfHeaders
  \/ StartFrame \/ ReadPiece \/ ReadFails \/ LostBetweenPieces \/ NoMemory
Network == ServerAnswers \/ (\E f \in Frames : ServerSends(f)) \/ Arrives \/ TcpDrops

ClientNext == Application \/ Loop \/ Network
ClientSpec == ClientInit /\ [][ClientNext]_clientVars

(* loop() is called again and again: it cleans up, reads what it finds and *)
(* sees its deadlines.                                                     *)
LoopIsCalled ==
  /\ WF_clientVars(LoopCleansUp) /\ WF_clientVars(HeaderTimesOut)
  /\ WF_clientVars(StartFrame) /\ WF_clientVars(ReadPiece \/ ReadFails)

-----------------------------------------------------------------------------
(* Every variable keeps its type.                                          *)
WebSocketTypeOK ==
  /\ client \in [status : {"NOT_CONNECTED", "HEADER", "CONNECTED"}, tcp : {"none", "up", "lost"},
                 cCode : BOOLEAN, cIsUpgrade : BOOLEAN, cIsWebsocket : BOOLEAN, cKey : 0..MaxConnects,
                 cAccept : -1..MaxConnects, cProtocol : {"", "mqtt", "another"},
                 cWsRXsize : {0, 2, 4, 6, 8, 10, 14}]
  /\ begun \in BOOLEAN /\ wire \in {"whole", "data", "pong"}
  /\ pc \in {"idle", "start", "length", "mask", "payload"}
  /\ sockets \in Nat /\ history.connects \in 0..MaxConnects
  /\ \A i \in DOMAIN history.delivered : history.delivered[i] \in [conn : 1..MaxConnects, n : 1..MaxFrames]

Saw(name) == [name |-> name, ok |-> TRUE] \in history.seen

(* isConnected() is true only when the server answered the handshake of    *)
(* this very connection with 101, the upgrade and the key's own answer,    *)
(* and nothing an earlier connection or begin() left makes up for those.   *)
ConnectedMeansAccepted == IsConnected => Saw("status") /\ Saw("connection") /\ Saw("accept")

(* What WebSockets.h says of cIsWebsocket.                                 *)
ConnectedMeansWebsocket == IsConnected => Saw("upgrade")

(* Between two calls of loop() a connected client is ready for a frame:    *)
(* no frame given up half way leaves it waiting for the rest of one.       *)
NeverDeaf == pc = "idle" /\ IsConnected /\ client.tcp = "up" => client.cWsRXsize = 0

(* The client reads what it believes it reads, never the rest of a frame   *)
(* it gave up as the start of the next.                                    *)
ReadsInStep ==
  /\ pc # "idle" /\ client.tcp = "up" /\ incoming # <<>> => Head(incoming).piece = pc
  /\ pc = "idle" /\ IsConnected /\ incoming # <<>> => Head(incoming).piece = "start"

(* So what PubSubClient receives are the data frames of a connection in    *)
(* their order, none left out, none twice, none after one of a later       *)
(* connection.                                                             *)
DeliveredInOrder ==
  /\ ReadsInStep
  /\ \A i \in DOMAIN history.delivered :
       LET d == history.delivered[i] IN
       \/ d.n = 1 /\ \A j \in 1..(i - 1) : history.delivered[j].conn < d.conn
       \/ i > 1 /\ history.delivered[i - 1] = [d EXCEPT !.n = @ - 1]

(* The one TCP client that is allocated is the one loop() uses: restarting *)
(* the connection at any time loses none.                                  *)
NoSocketLost == sockets = IF client.tcp = "none" THEN 0 ELSE 1

(* Only a pong, whose write nobody checks, can be cut short on a           *)
(* connection that is kept: after any other the connection is closed.      *)
OnlyPongsCut == IsConnected /\ client.tcp = "up" => wire # "data"

(* No TCP client and no half-written packet is left behind when the client *)
(* goes on.                                                                *)
NothingLeftBehind == NoSocketLost /\ OnlyPongsCut

(* A handshake ends, whatever the server does or fails to do.              *)
HandshakeEnds == (client.status = "HEADER") ~> (client.status # "HEADER")
=============================================================================
