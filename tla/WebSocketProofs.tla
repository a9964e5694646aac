---------------------------- MODULE WebSocketProofs ----------------------------
(***************************************************************************)
(* What holds of the WebSocket library. WebSocketClient, for any server,   *)
(* any frames and any number of connections: no TCP client is lost, a      *)
(* connected client is ready for the next frame, connected means that the  *)
(* server accepted this handshake, and what is delivered are the data      *)
(* frames in their order. The invariant behind the third: what the client  *)
(* noted of the answer, the server said on this connection, and nothing is *)
(* noted while there is no connection; behind the fourth, the shape of the *)
(* stream from where the client is in it to what is not sent yet.          *)
(* WebSocketFrames, for frames of every length a size_t can hold: the      *)
(* header, what the reader makes of it, and what sendFrame's answer says   *)
(* of the writes.                                                          *)
(***************************************************************************)
EXTENDS WebSocketClient, WebSocketFrames, TLAPS

Pieces == {"start", "length", "mask", "payload"}
Token ==
  [name : LineNames, ok : BOOLEAN, key : Nat] \cup
  [name : {"piece"}, ok : {TRUE}, piece : Pieces, frame : Frame, n : Nat]

Shaped ==
  /\ client = [status |-> client.status, tcp |-> client.tcp, cCode |-> client.cCode,
               cIsUpgrade |-> client.cIsUpgrade, cIsWebsocket |-> client.cIsWebsocket,
               cKey |-> client.cKey, cAccept |-> client.cAccept, cProtocol |-> client.cProtocol,
               cWsRXsize |-> client.cWsRXsize]
  /\ client.tcp \in {"none", "up", "lost"} /\ client.cKey \in Nat
  /\ client.cCode \in BOOLEAN /\ client.cIsUpgrade \in BOOLEAN
  /\ history = [connects |-> history.connects, seen |-> history.seen, delivered |-> history.delivered]
  /\ history.connects \in Nat
  /\ incoming \in Seq(Token)
  /\ server = [rest |-> server.rest, asked |-> server.asked, upgraded |-> server.upgraded,
               frames |-> server.frames, data |-> server.data]
  /\ server.rest \in Seq(Token) /\ server.data \in Nat

Noted == \* what the client noted, it saw
  /\ client.tcp = "none" => ~client.cCode /\ ~client.cIsUpgrade /\ client.cAccept = 0
  /\ client.cCode => Saw("status")
  /\ client.cIsUpgrade => Saw("connection")
  /\ client.cAccept = client.cKey => Saw("accept") \/ client.cKey = 0
  /\ client.status = "HEADER" => client.cKey # 0
  /\ IsConnected => client.cCode /\ client.cIsUpgrade /\ client.cAccept = client.cKey /\ client.cKey # 0

Inv == Shaped /\ Noted /\ NoSocketLost /\ NeverDeaf

LEMMA PiecesTyped == ASSUME NEW f PROVE PiecesOf(f) \in Seq(Pieces)
  <1>1. <<"start">> \in Seq(Pieces) /\ <<"length">> \in Seq(Pieces) /\ <<"mask">> \in Seq(Pieces)
        /\ <<"payload">> \in Seq(Pieces) /\ <<>> \in Seq(Pieces)
    BY DEF Pieces
  <1> DEFINE l == IF Extended(f) THEN <<"length">> ELSE <<>>
             m == IF f.masked THEN <<"mask">> ELSE <<>>
             p == IF f.size # "none" THEN <<"payload">> ELSE <<>>
  <1>2. l \in Seq(Pieces) /\ m \in Seq(Pieces) /\ p \in Seq(Pieces)
    BY <1>1
  <1> HIDE DEF l, m, p
  <1>3. (<<"start">> \o l) \o m \o p \in Seq(Pieces)
    BY <1>1, <1>2
  <1> QED
    BY <1>3 DEF PiecesOf, l, m, p

LEMMA EmptyTyped == <<>> \in Seq(Token)
  OBVIOUS

LEMMA InitInv == ClientInit => Inv
  <1> SUFFICES ASSUME ClientInit PROVE Inv
    OBVIOUS
  <1>1. Shaped
    BY EmptyTyped DEF ClientInit, Shaped, Silent
  <1> QED
    BY <1>1 DEF ClientInit, Inv, Shaped, Noted, NoSocketLost, NeverDeaf, Saw, IsConnected, Silent

(* The client is gone and everything of its connection with it.            *)
LEMMA DisconnectInv ==
  ASSUME Inv, NEW rx, ClientDisconnect(rx), UNCHANGED history PROVE Inv'
  <1>1. Shaped'
    <2>1. client' = [status |-> "NOT_CONNECTED", tcp |-> "none", cCode |-> FALSE, cIsUpgrade |-> FALSE,
                     cIsWebsocket |-> FALSE, cKey |-> 0, cAccept |-> 0, cProtocol |-> client.cProtocol,
                     cWsRXsize |-> rx]
      BY DEF Inv, Shaped, ClientDisconnect, Closed, ClosedKeepingRx
    <2>2. incoming' = <<>> /\ server' = Silent
      BY DEF ClientDisconnect
    <2> QED
      BY <2>1, <2>2, EmptyTyped DEF Inv, Shaped, Silent
  <1>2. client'.tcp = "none" /\ client'.status = "NOT_CONNECTED" /\ client'.cCode = FALSE
        /\ client'.cIsUpgrade = FALSE /\ client'.cAccept = 0 /\ client'.cKey = 0
    BY DEF Inv, Shaped, ClientDisconnect, Closed, ClosedKeepingRx
  <1>3. sockets' = 0
    BY DEF Inv, NoSocketLost, ClientDisconnect
  <1> QED
    BY <1>1, <1>2, <1>3 DEF Inv, Noted, NoSocketLost, NeverDeaf, IsConnected, Saw

LEMMA ApplicationInv == Inv /\ Application => Inv'
  <1> SUFFICES ASSUME Inv, Application PROVE Inv'
    OBVIOUS
  <1>1. CASE Restart
    <2>1. /\ client' = [status |-> "NOT_CONNECTED", tcp |-> "none", cCode |-> FALSE, cIsUpgrade |-> FALSE,
                        cIsWebsocket |-> TRUE, cKey |-> 0, cAccept |-> 0, cProtocol |-> "mqtt",
                        cWsRXsize |-> client.cWsRXsize]
          /\ Disconnected.tcp = "none"
      BY <1>1 DEF Restart, Disconnected, Closed, ClosedKeepingRx, Inv, Shaped
    <2>2. incoming' = <<>> /\ server' = Silent /\ history' = history
          /\ sockets' = sockets - (IF client.tcp # "none" THEN 1 ELSE 0)
      BY <1>1, <2>1 DEF Restart
    <2>3. Shaped'
      BY <2>1, <2>2, EmptyTyped DEF Inv, Shaped, Silent
    <2> QED
      BY <2>1, <2>2, <2>3 DEF Inv, Noted, NoSocketLost, NeverDeaf, IsConnected, Saw
  <1>2. CASE Disconnect
    BY <1>2, DisconnectInv DEF Disconnect
  <1>3. CASE SendBinFails
    BY <1>3, DisconnectInv DEF SendBinFails
  <1> QED
    BY <1>1, <1>2, <1>3 DEF Application

LEMMA HandshakeInv == Inv /\ (LoopCleansUp \/ LoopConnects \/ LoopFailsToConnect \/ HeaderTimesOut
                                \/ HandleHeader \/ EndOfHeaders) => Inv'
  <1> SUFFICES ASSUME Inv PROVE LoopCleansUp \/ LoopConnects \/ LoopFailsToConnect \/ HeaderTimesOut
                                  \/ HandleHeader \/ EndOfHeaders => Inv'
    OBVIOUS
  <1>1. CASE LoopCleansUp
    BY <1>1, DisconnectInv DEF LoopCleansUp
  <1>2. CASE LoopConnects
    <2>1. /\ client' = [client EXCEPT !.tcp = "up", !.status = "HEADER", !.cKey = history.connects + 1]
          /\ server' = [Silent EXCEPT !.asked = TRUE]
          /\ history' = [history EXCEPT !.connects = @ + 1, !.seen = {}]
          /\ UNCHANGED incoming /\ sockets' = sockets + 1 /\ client.tcp = "none"
      BY <1>2 DEF LoopConnects
    <2>3. server' = [rest |-> <<>>, asked |-> TRUE, upgraded |-> FALSE, frames |-> 0, data |-> 0]
      BY <2>1 DEF Silent
    <2>4. history' = [connects |-> history.connects + 1, seen |-> {},
                      delivered |-> history.delivered]
      BY <2>1 DEF Inv, Shaped
    <2>5. client' = [status |-> "HEADER", tcp |-> "up", cCode |-> client.cCode,
               cIsUpgrade |-> client.cIsUpgrade, cIsWebsocket |-> client.cIsWebsocket,
               cKey |-> history.connects + 1, cAccept |-> client.cAccept, cProtocol |-> client.cProtocol,
               cWsRXsize |-> client.cWsRXsize]
      BY <2>1 DEF Inv, Shaped
    <2>6. Shaped'
      <3>1. history.connects + 1 \in Nat /\ client.cCode \in BOOLEAN /\ client.cIsUpgrade \in BOOLEAN
            /\ incoming' \in Seq(Token)
        BY <2>1 DEF Inv, Shaped
      <3>2. server'.rest \in Seq(Token) /\ server'.data \in Nat
        BY <2>3, EmptyTyped
      <3> QED
        BY <2>3, <2>4, <2>5, <3>1, <3>2 DEF Shaped
    <2>7. NoSocketLost'
      BY <2>1, <2>5 DEF Inv, NoSocketLost
    <2>2. client'.cKey # 0 /\ client'.cAccept = 0 /\ ~client'.cCode /\ ~client'.cIsUpgrade
          /\ client'.status = "HEADER" /\ client'.tcp = "up"
      BY <1>2 DEF LoopConnects, Inv, Shaped, Noted
    <2> QED
      BY <2>2, <2>6, <2>7 DEF Inv, Noted, NeverDeaf, IsConnected, Saw
  <1>3. CASE LoopFailsToConnect
    <2>1. Shaped' /\ NoSocketLost' /\ NeverDeaf'
      BY <1>3 DEF LoopFailsToConnect, Inv, Shaped, NoSocketLost, NeverDeaf, IsConnected
    <2>2. Noted'
      BY <1>3 DEF LoopFailsToConnect, Inv, Shaped, Noted, IsConnected, Saw
    <2> QED
      BY <2>1, <2>2 DEF Inv
  <1>4. CASE HeaderTimesOut
    BY <1>4, DisconnectInv DEF HeaderTimesOut
  <1>5. CASE HandleHeader
    <2> DEFINE l == Head(incoming)
    <2>0. l \in Token /\ incoming' \in Seq(Token)
      BY <1>5 DEF HandleHeader, AtHeaders, Inv, Shaped
    <2>1. l.ok \in BOOLEAN
      BY <2>0 DEF Token
    <2>2. client' = WithLine(client, l)
          /\ history' = [history EXCEPT !.seen = @ \cup {[name |-> l.name, ok |-> l.ok]}]
          /\ client.status = "HEADER" /\ client.tcp = "up"
          /\ UNCHANGED <<begun, pc, sockets, server, wire>>
      BY <1>5 DEF HandleHeader, AtHeaders, ClientIsConnected
    <2> HIDE DEF l
    <2>3. /\ client'.status = "HEADER" /\ client'.tcp = "up" /\ client'.cKey = client.cKey
          /\ client'.cCode = (IF l.name = "status" THEN l.ok ELSE client.cCode)
          /\ client'.cIsUpgrade = (IF l.name = "connection" THEN client.cIsUpgrade \/ l.ok ELSE client.cIsUpgrade)
          /\ client'.cAccept = (IF l.name = "accept" THEN IF l.ok THEN l.key ELSE -1 ELSE client.cAccept)
      BY <2>1, <2>2 DEF WithLine, Inv, Shaped
    <2>4. client' = [status |-> client'.status, tcp |-> client'.tcp, cCode |-> client'.cCode,
               cIsUpgrade |-> client'.cIsUpgrade, cIsWebsocket |-> client'.cIsWebsocket,
               cKey |-> client'.cKey, cAccept |-> client'.cAccept, cProtocol |-> client'.cProtocol,
               cWsRXsize |-> client'.cWsRXsize]
      BY <2>2 DEF WithLine, Inv, Shaped
    <2>5. history'.seen = history.seen \cup {[name |-> l.name, ok |-> l.ok]}
          /\ history' = [connects |-> history'.connects, seen |-> history'.seen, delivered |-> history'.delivered]
          /\ history'.connects = history.connects
      BY <2>2 DEF Inv, Shaped
    <2>6. Shaped'
      <3>1. client'.cCode \in BOOLEAN /\ client'.cIsUpgrade \in BOOLEAN /\ client'.cKey \in Nat
            /\ client'.tcp \in {"none", "up", "lost"}
        BY <2>1, <2>3 DEF Inv, Shaped
      <3> QED
        BY <2>0, <2>2, <2>4, <2>5, <3>1 DEF Inv, Shaped
    <2>7. /\ client'.cCode => Saw("status")'
          /\ client'.cIsUpgrade => Saw("connection")'
          /\ client'.cAccept = client'.cKey => Saw("accept")' \/ client'.cKey = 0
      <3>1. l.name = "accept" /\ l.ok => Saw("accept")'
        <4> SUFFICES ASSUME l.name = "accept", l.ok PROVE Saw("accept")'
          OBVIOUS
        <4>1. l.ok = TRUE
          BY <2>1
        <4> QED
          BY <2>5, <4>1 DEF Saw
      <3>2. l.name = "accept" /\ ~l.ok => client'.cAccept # client'.cKey
        BY <2>3 DEF Inv, Shaped
      <3>3. client'.cCode => Saw("status")'
        BY <2>1, <2>3, <2>5 DEF Inv, Shaped, Noted, Saw
      <3>4. client'.cIsUpgrade => Saw("connection")'
        BY <2>1, <2>3, <2>5 DEF Inv, Shaped, Noted, Saw
      <3>5. l.name # "accept" => (client'.cAccept = client'.cKey => Saw("accept")' \/ client'.cKey = 0)
        BY <2>3, <2>5 DEF Inv, Noted, Saw
      <3> QED
        BY <3>1, <3>2, <3>3, <3>4, <3>5
    <2>8. Noted' /\ NeverDeaf' /\ NoSocketLost'
      BY <2>2, <2>3, <2>7 DEF Inv, Noted, NeverDeaf, NoSocketLost, IsConnected, Saw
    <2> QED
      BY <2>6, <2>8 DEF Inv
  <1>6. CASE EndOfHeaders
    <2>1. CASE Accepted(client)
      <3>1. /\ client' = [client EXCEPT !.status = "CONNECTED", !.cWsRXsize = 0]
            /\ client.status = "HEADER" /\ client.tcp = "up"
            /\ UNCHANGED <<pc, sockets, server, history>>
            /\ incoming' = Tail(incoming) /\ incoming # <<>> /\ incoming \in Seq(Token)
        BY <1>6, <2>1 DEF EndOfHeaders, HeaderDone, AtHeaders, ClientIsConnected, Inv, Shaped
      <3>0. incoming' \in Seq(Token)
        BY <3>1
      <3>2. client'.cCode /\ client'.cIsUpgrade /\ client'.cAccept = client'.cKey
        BY <2>1, <3>1 DEF Accepted, Inv, Shaped
      <3>3. Shaped' /\ NoSocketLost' /\ NeverDeaf'
        BY <3>0, <3>1 DEF Inv, Shaped, NoSocketLost, NeverDeaf
      <3>4. Noted'
        BY <3>1, <3>2 DEF Inv, Shaped, Noted, IsConnected, Saw
      <3> QED
        BY <3>3, <3>4 DEF Inv
    <2>2. CASE ~Accepted(client)
      BY <1>6, <2>2, DisconnectInv DEF EndOfHeaders
    <2> QED
      BY <2>1, <2>2
  <1> QED
    BY <1>1, <1>2, <1>3, <1>4, <1>5, <1>6

(* A frame: the client reads, or is gone.                                  *)
LEMMA ReadInv == Inv /\ (StartFrame \/ ReadPiece \/ ReadFails \/ LostBetweenPieces \/ NoMemory) => Inv'
  <1> SUFFICES ASSUME Inv PROVE StartFrame \/ ReadPiece \/ ReadFails \/ LostBetweenPieces \/ NoMemory => Inv'
    OBVIOUS
  <1>1. CASE StartFrame
    BY <1>1 DEF StartFrame, Inv, Shaped, Noted, NoSocketLost, NeverDeaf, IsConnected, Saw
  <1>2. CASE LostBetweenPieces
    BY <1>2 DEF LostBetweenPieces, Inv, Shaped, Noted, NoSocketLost, NeverDeaf, IsConnected, Saw
  <1>3. CASE ReadFails
    BY <1>3, DisconnectInv DEF ReadFails
  <1>4. CASE NoMemory
    BY <1>4, DisconnectInv DEF NoMemory
  <1>5. CASE ReadPiece
    <2> DEFINE t == Head(incoming)
    <2>0. incoming # <<>> /\ incoming \in Seq(Token) /\ Tail(incoming) \in Seq(Token)
      BY <1>5 DEF ReadPiece, Inv, Shaped
    (* A step that keeps the connection changes cWsRXsize and the place in *)
    (* the frame, and leaves the loop only with cWsRXsize back at zero.    *)
    <2>1. ASSUME NEW rx, client' = [client EXCEPT !.cWsRXsize = rx], incoming' = Tail(incoming),
                 pc' # "idle" \/ rx = 0, UNCHANGED <<sockets, server>>,
                 \E d : history' = [history EXCEPT !.delivered = d]
          PROVE  Inv'
      <3>1. client'.status = client.status /\ client'.tcp = client.tcp /\ client'.cCode = client.cCode
            /\ client'.cIsUpgrade = client.cIsUpgrade /\ client'.cAccept = client.cAccept
            /\ client'.cKey = client.cKey /\ client'.cWsRXsize = rx
        BY <2>1 DEF Inv, Shaped
      <3>2. history'.connects = history.connects /\ history'.seen = history.seen
            /\ history' = [connects |-> history'.connects, seen |-> history'.seen, delivered |-> history'.delivered]
        BY <2>1 DEF Inv, Shaped
      <3>3. client' = [status |-> client'.status, tcp |-> client'.tcp, cCode |-> client'.cCode,
               cIsUpgrade |-> client'.cIsUpgrade, cIsWebsocket |-> client'.cIsWebsocket,
               cKey |-> client'.cKey, cAccept |-> client'.cAccept, cProtocol |-> client'.cProtocol,
               cWsRXsize |-> client'.cWsRXsize]
        BY <2>1 DEF Inv, Shaped
      <3>4. Shaped'
        BY <2>0, <2>1, <3>1, <3>2, <3>3 DEF Inv, Shaped
      <3>5. Noted' /\ NoSocketLost' /\ NeverDeaf'
        BY <2>1, <3>1, <3>2 DEF Inv, Noted, NoSocketLost, NeverDeaf, IsConnected, Saw
      <3> QED
        BY <3>4, <3>5 DEF Inv
    <2>2. history = [history EXCEPT !.delivered = history.delivered]
      BY DEF Inv, Shaped
    <2>3. CASE pc = "length" /\ t.frame.size = "huge" /\ ClientDisconnect(10) /\ UNCHANGED <<wire, history>>
      BY <2>3, DisconnectInv
    <2>4. CASE /\ pc' = After(t.frame, pc)
               /\ client' = [client EXCEPT !.cWsRXsize = HeaderBytes(t.frame, pc)]
               /\ incoming' = Tail(incoming)
               /\ After(t.frame, pc) # "end"
               /\ UNCHANGED <<sockets, server, wire, history>>
      <3>1. pc' \in Pieces
        BY <2>4 DEF After, Pieces
      <3> QED
        BY <2>1, <2>2, <2>4, <3>1 DEF Pieces
    <2>5. CASE Handled(t)
      <3>1. CASE ClientDisconnect(0) /\ UNCHANGED <<wire, history>>
        BY <3>1, DisconnectInv
      <3>2. CASE /\ client' = [client EXCEPT !.cWsRXsize = 0]
                 /\ pc' = "idle" /\ incoming' = Tail(incoming)
                 /\ history' = [history EXCEPT !.delivered =
                      IF Delivers(t.frame) THEN Append(@, [conn |-> history.connects, n |-> t.n]) ELSE @]
                 /\ UNCHANGED <<sockets, server>>
        BY <2>1, <3>2
      <3> QED
        BY <2>5, <3>1, <3>2 DEF Handled
    <2> QED
      BY <1>5, <2>3, <2>4, <2>5 DEF ReadPiece
  <1> QED
    BY <1>1, <1>2, <1>3, <1>4, <1>5

(* The network brings header lines and pieces of frames, or takes the      *)
(* connection.                                                             *)
LEMMA NetworkInv == Inv /\ Network => Inv'
  <1> SUFFICES ASSUME Inv PROVE Network => Inv'
    OBVIOUS
  <1>0. ASSUME UNCHANGED <<client, sockets, pc, history>>, Shaped' PROVE Inv'
    BY <1>0 DEF Inv, Noted, NoSocketLost, NeverDeaf, IsConnected, Saw
  <1>1. CASE ServerAnswers
    <2>1. PICK a \in Answers :
            server' = [server EXCEPT !.asked = FALSE,
              !.upgraded = [name |-> "status", ok |-> TRUE] \in {a[i] : i \in DOMAIN a},
              !.rest = [i \in DOMAIN a |-> [name |-> a[i].name, ok |-> a[i].ok, key |-> client.cKey]]]
      BY <1>1 DEF ServerAnswers
    <2> DEFINE r == [i \in DOMAIN a |-> [name |-> a[i].name, ok |-> a[i].ok, key |-> client.cKey]]
    <2>2. a \in Seq(Line) /\ client.cKey \in Nat
      BY WebSocketAssumption DEF Inv, Shaped
    <2>3. \A i \in DOMAIN a : r[i] \in Token
      <3> SUFFICES ASSUME NEW i \in DOMAIN a PROVE r[i] \in Token
        OBVIOUS
      <3>1. a[i] \in Line
        BY <2>2
      <3>2. a[i].name \in LineNames /\ a[i].ok \in BOOLEAN
        BY <3>1 DEF Line
      <3> QED
        BY <2>2, <3>2 DEF Token
    <2>4. DOMAIN a = 1..Len(a) /\ Len(a) \in Nat
      BY <2>2
    <2>5. r \in [1..Len(a) -> Token]
      BY <2>3, <2>4
    <2>6. r \in Seq(Token)
      BY <2>4, <2>5
    <2> HIDE DEF r
    <2>7. server'.rest = r /\ server'.data = server.data
          /\ server' = [rest |-> server'.rest, asked |-> server'.asked, upgraded |-> server'.upgraded,
                        frames |-> server'.frames, data |-> server'.data]
      BY <2>1 DEF Inv, Shaped, r
    <2>8. Shaped'
      BY <1>1, <2>6, <2>7 DEF ServerAnswers, Inv, Shaped
    <2> QED
      BY <1>0, <1>1, <2>8 DEF ServerAnswers
  <1>2. ASSUME NEW f \in Frames, ServerSends(f) PROVE Inv'
    <2> DEFINE n == server.data + (IF IsData(f) THEN 1 ELSE 0)
               p == PiecesOf(f)
               r == [i \in DOMAIN p |-> [name |-> "piece", ok |-> TRUE, piece |-> p[i], frame |-> f, n |-> n]]
    <2>1. server' = [server EXCEPT !.frames = @ + 1, !.data = n, !.rest = r]
      BY <1>2 DEF ServerSends
    <2>2. n \in Nat /\ f \in Frame
      BY WebSocketAssumption DEF Inv, Shaped
    <2>3. p \in Seq(Pieces)
      BY PiecesTyped
    <2> HIDE DEF n, p
    <2>4. DOMAIN p = 1..Len(p) /\ Len(p) \in Nat /\ \A i \in DOMAIN p : p[i] \in Pieces
      BY <2>3
    <2>5. \A i \in DOMAIN p : [name |-> "piece", ok |-> TRUE, piece |-> p[i], frame |-> f, n |-> n] \in Token
      BY <2>2, <2>4 DEF Token
    <2>6. r \in [1..Len(p) -> Token]
      BY <2>4, <2>5
    <2>7. r \in Seq(Token)
      BY <2>4, <2>6
    <2> HIDE DEF r
    <2>8. server'.rest = r /\ server'.data = n
          /\ server' = [rest |-> server'.rest, asked |-> server'.asked, upgraded |-> server'.upgraded,
                        frames |-> server'.frames, data |-> server'.data]
      BY <2>1 DEF Inv, Shaped
    <2>9. Shaped'
      BY <1>2, <2>2, <2>7, <2>8 DEF ServerSends, Inv, Shaped
    <2> QED
      BY <1>0, <1>2, <2>9 DEF ServerSends
  <1>3. CASE Arrives
    <2>1. server.rest \in Seq(Token) /\ server.rest # <<>> /\ incoming \in Seq(Token)
      BY <1>3 DEF Arrives, Inv, Shaped
    <2>2. incoming' \in Seq(Token) /\ Tail(server.rest) \in Seq(Token)
      BY <1>3, <2>1 DEF Arrives
    <2>3. server'.rest = Tail(server.rest) /\ server'.data = server.data
          /\ server' = [rest |-> server'.rest, asked |-> server'.asked, upgraded |-> server'.upgraded,
                        frames |-> server'.frames, data |-> server'.data]
      BY <1>3 DEF Arrives, Inv, Shaped
    <2>4. Shaped'
      BY <1>3, <2>2, <2>3 DEF Arrives, Inv, Shaped
    <2> QED
      BY <1>0, <1>3, <2>4 DEF Arrives
  <1>4. CASE TcpDrops
    <2>1. client' = [client EXCEPT !.tcp = "lost"] /\ incoming' = <<>> /\ server' = Silent
          /\ UNCHANGED <<pc, sockets, history>> /\ client.tcp = "up"
      BY <1>4 DEF TcpDrops
    <2>2. Shaped'
      BY <2>1, EmptyTyped DEF Inv, Shaped, Silent
    <2> QED
      BY <2>1, <2>2 DEF Inv, Shaped, Noted, NoSocketLost, NeverDeaf, IsConnected, Saw
  <1> QED
    BY <1>1, <1>2, <1>3, <1>4 DEF Network

LEMMA Invariance == ClientSpec => []Inv
  <1>1. Inv /\ UNCHANGED clientVars => Inv'
    BY DEF clientVars, Inv, Shaped, Noted, NoSocketLost, NeverDeaf, IsConnected, Saw
  <1>2. Inv /\ [ClientNext]_clientVars => Inv'
    BY <1>1, ApplicationInv, HandshakeInv, ReadInv, NetworkInv DEF ClientNext, Loop
  <1> QED
    BY <1>2, InitInv, PTL DEF ClientSpec

(* A packet that was cut short is the end of its connection.               *)
CutInv == client.status # "NOT_CONNECTED" => wire # "data"

LEMMA CutStep == Inv /\ CutInv /\ [ClientNext]_clientVars => CutInv'
  <1> SUFFICES ASSUME Inv, CutInv, [ClientNext]_clientVars PROVE CutInv'
    OBVIOUS
  <1>0. ASSUME NEW rx, ClientDisconnect(rx) PROVE CutInv'
    BY <1>0 DEF ClientDisconnect, Closed, ClosedKeepingRx, CutInv, Inv, Shaped
  <1>1. CASE Restart
    BY <1>1 DEF Restart, Disconnected, Closed, ClosedKeepingRx, CutInv, Inv, Shaped
  <1>2. CASE LoopConnects
    BY <1>2 DEF LoopConnects, CutInv
  <1>3. CASE Disconnect \/ SendBinFails \/ LoopCleansUp \/ HeaderTimesOut \/ ReadFails \/ NoMemory
    BY <1>0, <1>3 DEF Disconnect, SendBinFails, LoopCleansUp, HeaderTimesOut, ReadFails, NoMemory
  <1>4. CASE LoopFailsToConnect \/ TcpDrops
    BY <1>4 DEF LoopFailsToConnect, TcpDrops, CutInv, Inv, Shaped
  <1>5. CASE HandleHeader
    BY <1>5 DEF HandleHeader, AtHeaders, ClientIsConnected, CutInv
  <1>6. CASE EndOfHeaders
    <2>1. client.status = "HEADER" /\ wire' = wire
      BY <1>6 DEF EndOfHeaders, AtHeaders
    <2> QED
      BY <2>1 DEF CutInv
  <1>7. CASE ReadPiece
    <2>1. CASE \E rx : ClientDisconnect(rx)
      BY <1>0, <2>1
    <2>2. CASE \E rx : client' = [client EXCEPT !.cWsRXsize = rx] /\ wire' \in {wire, "pong"}
      BY <2>2 DEF CutInv, Inv, Shaped
    <2> QED
      BY <1>7, <2>1, <2>2 DEF ReadPiece, Handled
  <1>8. CASE StartFrame \/ LostBetweenPieces \/ Network \/ UNCHANGED clientVars
    BY <1>4, <1>8 DEF StartFrame, LostBetweenPieces, Network, ServerAnswers, ServerSends, Arrives,
                      clientVars, CutInv
  <1> QED
    BY <1>1, <1>2, <1>3, <1>4, <1>5, <1>6, <1>7, <1>8 DEF ClientNext, Application, Loop, Network

LEMMA CutInvariance == ClientSpec => []CutInv
  <1>1. ClientInit => CutInv
    BY DEF ClientInit, CutInv
  <1> QED
    BY <1>1, CutStep, Invariance, PTL DEF ClientSpec

-----------------------------------------------------------------------------
(* Restarting, reconnecting and disconnecting in any order, the client     *)
(* keeps hold of the one TCP client that is allocated (begin() forgets     *)
(* _client.tcp, and connect_mqtt() calls disconnect() first), and a packet *)
(* of which only a part was written ends its connection (sendBIN).         *)
THEOREM NothingIsLeftBehind == ClientSpec => []NothingLeftBehind
  <1>1. Inv /\ CutInv => NothingLeftBehind
    BY DEF Inv, CutInv, NothingLeftBehind, OnlyPongsCut, IsConnected
  <1> QED
    BY <1>1, Invariance, CutInvariance, PTL

(* Whatever way a frame ends, at its end, in an error or with the          *)
(* connection, a connected client starts the next one (cWsRXsize).         *)
THEOREM ClientIsNeverDeaf == ClientSpec => []NeverDeaf
  BY Invariance, PTL DEF Inv

(* isConnected() means that this connection's server sent 101, the upgrade *)
(* and the accept value of this connection's key (handleHeader).           *)
THEOREM ConnectedIsAccepted == ClientSpec => []ConnectedMeansAccepted
  <1>1. Inv => ConnectedMeansAccepted
    BY DEF Inv, Noted, ConnectedMeansAccepted
  <1> QED
    BY <1>1, Invariance, PTL

-----------------------------------------------------------------------------
(* The stream of a connection, from what the client has not read to what   *)
(* the server has not sent: lines up to the blank one, then whole frames,  *)
(* each data frame numbered one more than the last.                        *)
Number(f) == IF IsData(f) THEN 1 ELSE 0
Follows(x, y) ==
  IF x.name = "piece"
  THEN /\ y.name = "piece"
       /\ IF After(x.frame, x.piece) = "end"
          THEN y.piece = "start" /\ y.n = x.n + Number(y.frame)
          ELSE y.piece = After(x.frame, x.piece) /\ y.frame = x.frame /\ y.n = x.n
  ELSE x.name = "blank" => y.name = "piece" /\ y.piece = "start" /\ y.n = Number(y.frame)
Ends(x, data) == IF x.name = "piece" THEN After(x.frame, x.piece) = "end" /\ x.n = data ELSE data = 0
Chain(s) == \A i \in 1..(Len(s) - 1) : Follows(s[i], s[i + 1])
Sent(s, data) == Chain(s) /\ (s # <<>> => Ends(s[Len(s)], data))

(* A connected client that has read count data frames and waits for the    *)
(* given piece.                                                            *)
Reading(s, piece, data, count) ==
  IF s = <<>> THEN piece = "idle" /\ data = count
  ELSE /\ Head(s).name = "piece" /\ Head(s).piece = (IF piece = "idle" THEN "start" ELSE piece)
       /\ Head(s).n = count + Number(Head(s).frame)

LEMMA TokenTyped ==
  ASSUME NEW x \in Token
  PROVE  /\ x.name = "piece" => x.frame \in Frame /\ x.n \in Nat /\ x.piece \in Pieces
         /\ x.name # "piece" => x.name \in LineNames
  BY DEF Token, LineNames

LEMMA TailChain ==
  ASSUME NEW s \in Seq(Token), s # <<>>
  PROVE  /\ Head(s) \in Token /\ Tail(s) \in Seq(Token) /\ Head(s) = s[1] /\ Len(s) \in Nat \ {0}
         /\ Tail(s) = <<>> => Len(s) = 1
         /\ Tail(s) # <<>> => Head(Tail(s)) = s[2] /\ Tail(s)[Len(Tail(s))] = s[Len(s)] /\ Len(s) > 1
         /\ Chain(s) => Chain(Tail(s))
  <1>1. /\ Head(s) \in Token /\ Tail(s) \in Seq(Token) /\ Head(s) = s[1] /\ Len(s) \in Nat \ {0}
        /\ Len(Tail(s)) = Len(s) - 1
    OBVIOUS
  <1>2. \A k \in 1..Len(Tail(s)) : Tail(s)[k] = s[k + 1]
    OBVIOUS
  <1>3. Tail(s) = <<>> => Len(s) = 1
    BY <1>1
  <1>4. ASSUME Tail(s) # <<>> PROVE Head(Tail(s)) = s[2] /\ Tail(s)[Len(Tail(s))] = s[Len(s)] /\ Len(s) > 1
    <2>1. Len(Tail(s)) \in Nat \ {0} /\ Head(Tail(s)) = Tail(s)[1]
      BY <1>1, <1>4
    <2> QED
      BY <1>1, <1>2, <2>1
  <1>5. ASSUME Chain(s), NEW i \in 1..(Len(Tail(s)) - 1) PROVE Follows(Tail(s)[i], Tail(s)[i + 1])
    <2>1. i \in 1..Len(Tail(s)) /\ i + 1 \in 1..Len(Tail(s)) /\ i + 1 \in 1..(Len(s) - 1)
      BY <1>1
    <2>2. Tail(s)[i] = s[i + 1] /\ Tail(s)[i + 1] = s[i + 2]
      BY <1>2, <2>1
    <2> QED
      BY <1>5, <2>1, <2>2 DEF Chain
  <1> QED
    BY <1>1, <1>3, <1>4, <1>5 DEF Chain

LEMMA TakeSent ==
  ASSUME NEW s \in Seq(Token), s # <<>>, NEW data, Sent(s, data)
  PROVE  Sent(Tail(s), data)
  BY TailChain DEF Sent

LEMMA TakeBlank ==
  ASSUME NEW s \in Seq(Token), s # <<>>, NEW data, Sent(s, data), Head(s).name = "blank"
  PROVE  Reading(Tail(s), "idle", data, 0)
  <1>1. CASE Tail(s) = <<>>
    <2>1. s[Len(s)] = Head(s)
      BY <1>1, TailChain
    <2> QED
      BY <1>1, <2>1 DEF Sent, Ends, Reading
  <1>2. CASE Tail(s) # <<>>
    <2>1. Follows(Head(s), Head(Tail(s)))
      BY <1>2, TailChain DEF Sent, Chain
    <2>2. Number(Head(Tail(s)).frame) \in Nat
      BY DEF Number
    <2> QED
      BY <1>2, <2>1, <2>2 DEF Follows, Reading
  <1> QED
    BY <1>1, <1>2

LEMMA TakePiece ==
  ASSUME NEW s \in Seq(Token), s # <<>>, NEW data, Sent(s, data), NEW piece, piece # "idle", NEW count \in Nat,
         Reading(s, piece, data, count)
  PROVE  /\ Head(s).name = "piece" /\ Head(s).piece = piece /\ Head(s).n = count + Number(Head(s).frame)
         /\ After(Head(s).frame, piece) # "end"
              => Reading(Tail(s), After(Head(s).frame, piece), data, count)
         /\ After(Head(s).frame, piece) = "end"
              => Reading(Tail(s), "idle", data, count + Number(Head(s).frame))
  <1>1. Head(s).name = "piece" /\ Head(s).piece = piece /\ Head(s).n = count + Number(Head(s).frame)
    BY DEF Reading
  <1>2. CASE Tail(s) = <<>>
    <2>1. s[Len(s)] = Head(s)
      BY <1>2, TailChain
    <2>2. After(Head(s).frame, piece) = "end" /\ data = Head(s).n
      BY <1>1, <2>1 DEF Sent, Ends
    <2> QED
      BY <1>1, <1>2, <2>2 DEF Reading
  <1>3. CASE Tail(s) # <<>>
    <2>1. Follows(Head(s), Head(Tail(s)))
      BY <1>3, TailChain DEF Sent, Chain
    <2>2. After(Head(s).frame, piece) # "idle"
      BY DEF After
    <2>3. CASE After(Head(s).frame, piece) = "end"
      BY <1>1, <1>3, <2>1, <2>3 DEF Follows, Reading
    <2>4. CASE After(Head(s).frame, piece) # "end"
      BY <1>1, <1>3, <2>1, <2>2, <2>4 DEF Follows, Reading
    <2> QED
      BY <1>1, <2>3, <2>4
  <1> QED
    BY <1>2, <1>3

(* The pieces of a frame, one after the other.                             *)
InLine(f, s) ==
  /\ s \in Seq(Pieces) /\ s # <<>> /\ s[1] = "start"
  /\ \A i \in 1..(Len(s) - 1) : After(f, s[i]) = s[i + 1]
LEMMA Lengthen ==
  ASSUME NEW f, NEW s, InLine(f, s), NEW x \in Pieces, After(f, s[Len(s)]) = x
  PROVE  InLine(f, s \o <<x>>) /\ (s \o <<x>>)[Len(s \o <<x>>)] = x
  <1> DEFINE t == s \o <<x>>
  <1>1. s \in Seq(Pieces) /\ Len(s) \in Nat \ {0} /\ s[1] = "start"
    BY DEF InLine
  <1>2. t \in Seq(Pieces) /\ Len(t) = Len(s) + 1 /\ t[Len(t)] = x /\ \A i \in 1..Len(s) : t[i] = s[i]
    BY <1>1
  <1> HIDE DEF t
  <1>3. t # <<>> /\ t[1] = "start"
    BY <1>1, <1>2
  <1>4. ASSUME NEW i \in 1..(Len(t) - 1) PROVE After(f, t[i]) = t[i + 1]
    <2>1. CASE i = Len(s)
      BY <1>1, <1>2, <2>1
    <2>2. CASE i # Len(s)
      <3>1. i \in 1..(Len(s) - 1) /\ i \in 1..Len(s) /\ i + 1 \in 1..Len(s)
        BY <1>1, <1>2, <2>2
      <3> QED
        BY <1>2, <3>1 DEF InLine
    <2> QED
      BY <2>1, <2>2
  <1> QED
    BY <1>2, <1>3, <1>4 DEF InLine, t

LEMMA PiecesFollow ==
  ASSUME NEW f
  PROVE  InLine(f, PiecesOf(f)) /\ After(f, PiecesOf(f)[Len(PiecesOf(f))]) = "end"
  <1> DEFINE a == <<"start">>
             b == a \o (IF Extended(f) THEN <<"length">> ELSE <<>>)
             c == b \o (IF f.masked THEN <<"mask">> ELSE <<>>)
             d == c \o (IF f.size # "none" THEN <<"payload">> ELSE <<>>)
  <1>1. InLine(f, a) /\ a[Len(a)] = "start"
    BY DEF InLine, Pieces
  <1> HIDE DEF a
  <1>2. InLine(f, b) /\ b[Len(b)] = IF Extended(f) THEN "length" ELSE "start"
    <2>1. CASE Extended(f)
      <3>1. After(f, "start") = "length" /\ "length" \in Pieces
        BY <2>1 DEF After, Pieces
      <3> QED
        BY <1>1, <2>1, <3>1, Lengthen
    <2>2. CASE ~Extended(f)
      <3>1. b = a
        BY <1>1, <2>2 DEF InLine
      <3> QED
        BY <1>1, <2>2, <3>1
    <2> QED
      BY <2>1, <2>2
  <1> HIDE DEF b
  <1>3. InLine(f, c) /\ c[Len(c)] = IF f.masked THEN "mask" ELSE IF Extended(f) THEN "length" ELSE "start"
    <2>1. CASE f.masked
      <3>1. After(f, b[Len(b)]) = "mask" /\ "mask" \in Pieces
        BY <1>2, <2>1 DEF After, Pieces
      <3> QED
        BY <1>2, <2>1, <3>1, Lengthen
    <2>2. CASE ~f.masked
      <3>1. c = b
        BY <1>2, <2>2 DEF InLine
      <3> QED
        BY <1>2, <2>2, <3>1
    <2> QED
      BY <2>1, <2>2
  <1> HIDE DEF c
  <1>4. InLine(f, d) /\ After(f, d[Len(d)]) = "end"
    <2>1. CASE f.size # "none"
      <3>1. After(f, c[Len(c)]) = "payload" /\ "payload" \in Pieces
        BY <1>3, <2>1 DEF After, Pieces
      <3>2. After(f, "payload") = "end"
        BY DEF After
      <3> QED
        BY <1>3, <2>1, <3>1, <3>2, Lengthen
    <2>2. CASE f.size = "none"
      <3>1. d = c
        BY <1>3, <2>2 DEF InLine
      <3>2. After(f, c[Len(c)]) = "end"
        BY <1>3, <2>2 DEF After, Extended
      <3> QED
        BY <3>1, <3>2, <1>3
    <2> QED
      BY <2>1, <2>2
  <1> QED
    BY <1>4 DEF PiecesOf, a, b, c, d

Tokens(f, n) ==
  [i \in DOMAIN PiecesOf(f) |-> [name |-> "piece", ok |-> TRUE, piece |-> PiecesOf(f)[i], frame |-> f, n |-> n]]

LEMMA FrameTokens ==
  ASSUME NEW f \in Frame, NEW n \in Nat
  PROVE  /\ Tokens(f, n) \in Seq(Token) /\ Len(Tokens(f, n)) \in Nat \ {0}
         /\ Tokens(f, n)[1].name = "piece" /\ Tokens(f, n)[1].piece = "start"
         /\ Tokens(f, n)[1].frame = f /\ Tokens(f, n)[1].n = n
         /\ Chain(Tokens(f, n)) /\ Ends(Tokens(f, n)[Len(Tokens(f, n))], n)
  <1> DEFINE p == PiecesOf(f)
             r == Tokens(f, n)
  <1>1. p \in Seq(Pieces) /\ DOMAIN p = 1..Len(p) /\ Len(p) \in Nat /\ \A i \in DOMAIN p : p[i] \in Pieces
    BY PiecesTyped
  <1>2. \A i \in DOMAIN p : /\ r[i] = [name |-> "piece", ok |-> TRUE, piece |-> p[i], frame |-> f, n |-> n]
                            /\ r[i] \in Token
    BY <1>1 DEF Token, Tokens
  <1>3. r \in [1..Len(p) -> Token]
    BY <1>1, <1>2 DEF Tokens
  <1>4. r \in Seq(Token) /\ Len(r) = Len(p)
    BY <1>1, <1>3
  <1>5. ASSUME NEW i \in 1..Len(r) PROVE r[i].name = "piece" /\ r[i].piece = p[i] /\ r[i].frame = f /\ r[i].n = n
    <2>1. r[i] = [name |-> "piece", ok |-> TRUE, piece |-> p[i], frame |-> f, n |-> n]
      BY <1>1, <1>2, <1>4
    <2> QED
      BY <2>1
  <1>6. /\ Len(p) \in Nat \ {0} /\ p[1] = "start" /\ After(f, p[Len(p)]) = "end"
        /\ \A i \in 1..(Len(p) - 1) : After(f, p[i]) = p[i + 1] /\ p[i + 1] # "end"
    <2>1. InLine(f, p) /\ After(f, p[Len(p)]) = "end"
      BY PiecesFollow
    <2>2. Len(p) \in Nat \ {0}
      BY <1>1, <2>1 DEF InLine
    <2>3. ASSUME NEW i \in 1..(Len(p) - 1) PROVE After(f, p[i]) = p[i + 1] /\ p[i + 1] # "end"
      <3>1. i + 1 \in DOMAIN p
        BY <1>1, <2>2
      <3>2. p[i + 1] \in Pieces
        BY <1>1, <3>1
      <3> QED
        BY <2>1, <3>2 DEF InLine, Pieces
    <2> QED
      BY <2>1, <2>2, <2>3 DEF InLine
  <1> HIDE DEF p, r
  <1>7. Chain(r)
    <2> SUFFICES ASSUME NEW i \in 1..(Len(r) - 1) PROVE Follows(r[i], r[i + 1])
      BY DEF Chain
    <2>1. i \in 1..Len(r) /\ i + 1 \in 1..Len(r)
      BY <1>4, <1>6
    <2> QED
      BY <1>4, <1>5, <1>6, <2>1 DEF Follows
  <1>8. 1 \in 1..Len(r) /\ Len(r) \in 1..Len(r)
    BY <1>4, <1>6
  <1>9. Ends(r[Len(r)], n)
    BY <1>4, <1>5, <1>6, <1>8 DEF Ends
  <1> QED
    BY <1>4, <1>5, <1>6, <1>7, <1>8, <1>9 DEF r

(* A frame sent after everything else.                                     *)
LEMMA SendMore ==
  ASSUME NEW s \in Seq(Token), NEW data \in Nat, Sent(s, data), NEW f \in Frame
  PROVE  LET n == data + Number(f) IN
         /\ Sent(s \o Tokens(f, n), n)
         /\ \A piece, count : Reading(s, piece, data, count) => Reading(s \o Tokens(f, n), piece, n, count)
  <1> DEFINE n == data + Number(f)
             r == Tokens(f, n)
             w == s \o r
  <1>1. n \in Nat /\ Number(f) \in Nat
    BY DEF Number
  <1>2. /\ r \in Seq(Token) /\ Len(r) \in Nat \ {0} /\ Chain(r) /\ Ends(r[Len(r)], n)
        /\ r[1].name = "piece" /\ r[1].piece = "start" /\ r[1].frame = f /\ r[1].n = n
    BY <1>1, FrameTokens
  <1> HIDE DEF r
  <1>3. /\ w \in Seq(Token) /\ Len(w) = Len(s) + Len(r) /\ Len(s) \in Nat /\ Len(w) \in Nat \ {0}
        /\ \A i \in 1..Len(s) : w[i] = s[i]
        /\ \A i \in 1..Len(r) : w[Len(s) + i] = r[i]
    BY <1>2
  <1> HIDE DEF w
  <1>4. w # <<>> /\ Head(w) = w[1] /\ w[Len(w)] = r[Len(r)] /\ w[Len(s) + 1] = r[1]
    BY <1>2, <1>3
  <1>5. ASSUME s # <<>> PROVE Follows(s[Len(s)], r[1]) /\ Len(s) \in 1..Len(s) /\ Head(w) = Head(s)
    <2>1. Ends(s[Len(s)], data) /\ Len(s) \in 1..Len(s) /\ 1 \in 1..Len(s) /\ Head(s) = s[1]
      BY <1>3, <1>5 DEF Sent
    <2>2. Head(w) = Head(s)
      BY <1>3, <1>4, <2>1
    <2>3. Follows(s[Len(s)], r[1])
      <3>1. n = data + Number(r[1].frame) /\ (data = 0 => n = Number(r[1].frame))
        BY <1>1, <1>2
      <3> QED
        BY <1>2, <2>1, <3>1 DEF Ends, Follows
    <2> QED
      BY <2>1, <2>2, <2>3
  <1>6. Chain(w)
    <2> SUFFICES ASSUME NEW i \in 1..(Len(w) - 1) PROVE Follows(w[i], w[i + 1])
      BY DEF Chain
    <2>1. CASE i < Len(s)
      <3>1. i \in 1..(Len(s) - 1) /\ i \in 1..Len(s) /\ i + 1 \in 1..Len(s)
        BY <1>3, <2>1
      <3> QED
        BY <1>3, <3>1 DEF Sent, Chain
    <2>2. CASE i = Len(s)
      <3>1. s # <<>>
        BY <2>2
      <3> QED
        BY <1>3, <1>4, <1>5, <2>2, <3>1
    <2>3. CASE i > Len(s)
      <3>1. i - Len(s) \in 1..(Len(r) - 1) /\ i - Len(s) \in 1..Len(r) /\ (i - Len(s)) + 1 \in 1..Len(r)
        BY <1>2, <1>3, <2>3
      <3>2. w[Len(s) + (i - Len(s))] = r[i - Len(s)] /\ w[Len(s) + ((i - Len(s)) + 1)] = r[(i - Len(s)) + 1]
        BY <1>3, <3>1
      <3>3. Len(s) + (i - Len(s)) = i /\ Len(s) + ((i - Len(s)) + 1) = i + 1
        BY <1>3
      <3> QED
        BY <1>2, <3>1, <3>2, <3>3 DEF Chain
    <2> QED
      BY <1>3, <2>1, <2>2, <2>3
  <1>7. Sent(w, n)
    BY <1>2, <1>4, <1>6 DEF Sent
  <1>8. ASSUME NEW piece, NEW count, Reading(s, piece, data, count)
        PROVE  Reading(w, piece, n, count)
    <2>1. CASE s = <<>>
      <3>1. Head(w) = r[1]
        BY <1>4, <2>1
      <3> QED
        BY <1>2, <1>4, <1>8, <2>1, <3>1 DEF Reading
    <2>2. CASE s # <<>>
      BY <1>4, <1>5, <1>8, <2>2 DEF Reading
    <2> QED
      BY <2>1, <2>2
  <1> QED
    BY <1>7, <1>8 DEF w, r

(* What was delivered: in order, and on which connection.                  *)
Notes == [conn : Nat, n : Nat \ {0}]
Stream == incoming \o server.rest
Told ==
  LET d == history.delivered IN
  /\ d \in Seq(Notes)
  /\ \A i \in 1..Len(d) : /\ d[i].conn <= history.connects
                          /\ d[i].conn = history.connects => d[Len(d)].conn = history.connects
                          /\ \/ d[i].n = 1 /\ \A j \in 1..(i - 1) : d[j].conn < d[i].conn
                             \/ i > 1 /\ d[i - 1] = [d[i] EXCEPT !.n = @ - 1]
CountOf(d, connects) == IF d # <<>> /\ d[Len(d)].conn = connects THEN d[Len(d)].n ELSE 0
Count == CountOf(history.delivered, history.connects)

Flow ==
  /\ client.tcp # "up" => incoming = <<>> /\ server = Silent
  /\ pc \in Pieces \cup {"idle"} /\ (pc # "idle" => IsConnected)
  /\ client.status = "HEADER" => Count = 0
  /\ server.asked => client.status = "HEADER" /\ Stream = <<>> /\ server.data = 0 /\ ~server.upgraded
  /\ Sent(Stream, server.data)
  /\ IsConnected /\ client.tcp = "up" => Reading(Stream, pc, server.data, Count)
Flowing == Inv /\ Flow /\ Told

LEMMA CountTyped == Told => Count \in Nat
  <1> DEFINE d == history.delivered
  <1> SUFFICES ASSUME Told, d # <<>> PROVE d[Len(d)].n \in Nat
    BY DEF Count, CountOf
  <1>1. d \in Seq(Notes)
    BY DEF Told
  <1> HIDE DEF d
  <1>2. Len(d) \in 1..Len(d)
    BY <1>1
  <1>3. d[Len(d)] \in Notes
    BY <1>1, <1>2
  <1> QED
    BY <1>3 DEF Notes

LEMMA EmptySent == \A data : Sent(<<>>, data)
  BY DEF Sent, Chain

LEMMA StreamTyped == Shaped => Stream \in Seq(Token) /\ server.data \in Nat
  <1> SUFFICES ASSUME Shaped PROVE Stream \in Seq(Token) /\ server.data \in Nat
    OBVIOUS
  <1>1. incoming \in Seq(Token) /\ server.rest \in Seq(Token) /\ server.data \in Nat
    BY DEF Shaped
  <1> QED
    BY <1>1 DEF Stream

LEMMA SilentStream == Silent.rest = <<>> /\ Silent.asked = FALSE /\ Silent.data = 0
  BY DEF Silent

LEMMA InitFlow == ClientInit => Flow /\ Told
  <1> SUFFICES ASSUME ClientInit PROVE Flow /\ Told
    OBVIOUS
  <1>1. /\ client.tcp = "none" /\ client.status = "NOT_CONNECTED" /\ incoming = <<>> /\ server = Silent
        /\ pc = "idle" /\ history.delivered = <<>>
    BY DEF ClientInit
  <1>2. Stream = <<>>
    BY <1>1, SilentStream DEF Stream
  <1>3. <<>> \in Seq(Notes)
    OBVIOUS
  <1>4. Told
    BY <1>1, <1>3 DEF Told
  <1> QED
    BY <1>1, <1>2, <1>4, EmptySent, SilentStream DEF Flow, IsConnected

(* Nothing flows without a connection.                                     *)
LEMMA ClosedFlow ==
  ASSUME Flowing, client'.tcp # "up", client'.status # "HEADER", pc' \in Pieces \cup {"idle"},
         pc' # "idle" => IsConnected',
         incoming' = <<>>, server' = Silent, UNCHANGED <<history.connects, history.delivered>>
  PROVE  Flow' /\ Told'
  <1>1. Stream' = <<>>
    BY SilentStream DEF Stream
  <1>2. Told'
    BY DEF Flowing, Told
  <1> QED
    BY <1>1, <1>2, EmptySent, SilentStream DEF Flow

LEMMA DisconnectFlow ==
  ASSUME Flowing, NEW rx, ClientDisconnect(rx), UNCHANGED history
  PROVE  Flow' /\ Told'
  <1>1. client'.tcp = "none" /\ client'.status = "NOT_CONNECTED" /\ pc' = "idle" /\ incoming' = <<>> /\ server' = Silent
    BY DEF ClientDisconnect, Closed, ClosedKeepingRx, Flowing, Inv, Shaped
  <1> QED
    BY <1>1, ClosedFlow

(* The client is where it was in the stream, or the stream grew.           *)
LEMMA SameFlow ==
  ASSUME Flowing, UNCHANGED <<history, pc, client>>, incoming' \o server'.rest = Stream,
         UNCHANGED <<server.data, server.asked, server.upgraded>>, client.tcp = "up"
  PROVE  Flow' /\ Told'
  <1>1. Stream' = Stream
    BY DEF Stream
  <1> QED
    BY <1>1 DEF Flowing, Flow, Told, Count, IsConnected

LEMMA HandshakeFlow ==
  ASSUME Flowing, LoopConnects \/ LoopFailsToConnect \/ HandleHeader \/ EndOfHeaders
  PROVE  Flow' /\ Told'
  <1>1. CASE LoopConnects
    <2>1. /\ client.tcp = "none" /\ pc' = "idle" /\ pc = "idle" /\ incoming' = incoming
          /\ server' = [Silent EXCEPT !.asked = TRUE]
          /\ client' = [client EXCEPT !.tcp = "up", !.status = "HEADER", !.cKey = history.connects + 1]
          /\ history' = [history EXCEPT !.connects = @ + 1, !.seen = {}]
      BY <1>1 DEF LoopConnects
    <2>2. incoming = <<>> /\ client'.tcp = "up" /\ client'.status = "HEADER"
      BY <2>1 DEF Flowing, Flow, Inv, Shaped
    <2>3. server'.rest = <<>> /\ server'.data = 0 /\ server'.upgraded = FALSE
      BY <2>1 DEF Silent
    <2>4. Stream' = <<>>
      BY <2>1, <2>2, <2>3 DEF Stream
    <2>5. history'.delivered = history.delivered /\ history'.connects = history.connects + 1 /\ history.connects \in Nat
      BY <2>1 DEF Flowing, Inv, Shaped
    <2> DEFINE d == history.delivered
    <2>6. d \in Seq(Notes) /\ \A i \in 1..Len(d) : d[i].conn <= history.connects
      BY DEF Flowing, Told
    <2>7. ASSUME NEW i \in 1..Len(d) PROVE d[i].conn \in Nat
      <3>1. d[i] \in Notes
        BY <2>6
      <3> QED
        BY <3>1 DEF Notes
    <2>8. \A i \in 1..Len(d) : d[i].conn <= history'.connects /\ d[i].conn # history'.connects
      BY <2>5, <2>6, <2>7
    <2>9. Count' = 0
      <3>1. d # <<>> => Len(d) \in 1..Len(d)
        BY <2>6
      <3> QED
        BY <2>5, <2>8, <3>1 DEF Count, CountOf
    <2>10. Told'
      BY <2>5, <2>6, <2>8 DEF Flowing, Told
    <2> QED
      BY <2>1, <2>2, <2>3, <2>4, <2>9, <2>10, EmptySent DEF Flow, IsConnected
  <1>2. CASE LoopFailsToConnect
    <2>1. client' = [client EXCEPT !.tcp = "lost"] /\ UNCHANGED <<pc, incoming, server, history>> /\ client.tcp = "none"
          /\ pc = "idle"
      BY <1>2 DEF LoopFailsToConnect
    <2>2. incoming = <<>> /\ server = Silent /\ client'.tcp = "lost" /\ client'.status = client.status
      BY <2>1 DEF Flowing, Flow, Inv, Shaped
    <2>3. Count' = Count /\ Stream' = Stream
      BY <2>1 DEF Count, Stream
    <2> QED
      BY <2>1, <2>2, <2>3, SilentStream DEF Flowing, Flow, Told, IsConnected
  <1>3. CASE HandleHeader
    <2>1. /\ pc = "idle" /\ client.status = "HEADER" /\ client.tcp = "up" /\ incoming # <<>>
          /\ client' = WithLine(client, Head(incoming)) /\ incoming' = Tail(incoming)
          /\ history' = [history EXCEPT !.seen = @ \cup {[name |-> Head(incoming).name, ok |-> Head(incoming).ok]}]
          /\ UNCHANGED <<pc, server>>
      BY <1>3 DEF HandleHeader, AtHeaders, ClientIsConnected
    <2>2. client'.status = "HEADER" /\ client'.tcp = "up"
      BY <2>1 DEF WithLine, Flowing, Inv, Shaped
    <2>3. history'.delivered = history.delivered /\ history'.connects = history.connects
      BY <2>1 DEF Flowing, Inv, Shaped
    <2>4. Stream # <<>> /\ Stream' = Tail(Stream) /\ Stream \in Seq(Token)
      <3>1. incoming \in Seq(Token) /\ server.rest \in Seq(Token)
        BY DEF Flowing, Inv, Shaped
      <3> QED
        BY <2>1, <3>1 DEF Stream
    <2>5. Sent(Stream', server'.data) /\ ~server.asked
      BY <2>1, <2>4, TakeSent DEF Flowing, Flow
    <2>6. Told' /\ Count' = Count
      BY <2>3 DEF Flowing, Told, Count
    <2> QED
      BY <2>1, <2>2, <2>5, <2>6 DEF Flowing, Flow, IsConnected
  <1>4. CASE EndOfHeaders
    <2>1. CASE Accepted(client)
      <3>1. /\ pc = "idle" /\ client.status = "HEADER" /\ client.tcp = "up" /\ incoming # <<>>
            /\ Head(incoming).name = "blank"
            /\ client' = [client EXCEPT !.status = "CONNECTED", !.cWsRXsize = 0] /\ incoming' = Tail(incoming)
            /\ UNCHANGED <<pc, server, history>>
        BY <1>4, <2>1 DEF EndOfHeaders, HeaderDone, AtHeaders, ClientIsConnected
      <3>2. client'.status = "CONNECTED" /\ client'.tcp = "up"
        BY <3>1 DEF Flowing, Inv, Shaped
      <3>3. Stream # <<>> /\ Stream' = Tail(Stream) /\ Stream \in Seq(Token) /\ Head(Stream) = Head(incoming)
        <4>1. incoming \in Seq(Token) /\ server.rest \in Seq(Token)
          BY DEF Flowing, Inv, Shaped
        <4> QED
          BY <3>1, <4>1 DEF Stream
      <3>4. Sent(Stream', server'.data) /\ ~server.asked /\ Reading(Stream', "idle", server'.data, 0)
        BY <3>1, <3>3, TakeSent, TakeBlank DEF Flowing, Flow
      <3>5. Told' /\ Count' = Count
        BY <3>1 DEF Flowing, Told, Count
      <3>6. Count = 0
        BY <3>1 DEF Flowing, Flow
      <3> QED
        BY <3>1, <3>2, <3>4, <3>5, <3>6 DEF Flow, IsConnected
    <2>2. CASE ~Accepted(client)
      BY <1>4, <2>2, DisconnectFlow DEF EndOfHeaders
    <2> QED
      BY <2>1, <2>2
  <1> QED
    BY <1>1, <1>2, <1>3, <1>4

(* A whole data frame is the next that is delivered.                       *)
LEMMA AppendTold ==
  ASSUME Flowing, history' = [history EXCEPT !.delivered = Append(@, [conn |-> history.connects, n |-> Count + 1])]
  PROVE  Told' /\ Count' = Count + 1
  <1> DEFINE d == history.delivered
             c == history.connects
             x == [conn |-> c, n |-> Count + 1]
             e == Append(d, x)
  <1>1. history'.delivered = e /\ history'.connects = c /\ c \in Nat
    BY DEF Flowing, Inv, Shaped
  <1>2. Count \in Nat /\ x \in Notes /\ x.conn = c /\ x.n = Count + 1
    BY <1>1, CountTyped DEF Flowing, Notes
  <1>3. d \in Seq(Notes)
    BY DEF Flowing, Told
  <1>4. \A i \in 1..Len(d) : /\ d[i].conn <= c
                             /\ d[i].conn = c => d[Len(d)].conn = c
                             /\ \/ d[i].n = 1 /\ \A j \in 1..(i - 1) : d[j].conn < d[i].conn
                                \/ i > 1 /\ d[i - 1] = [d[i] EXCEPT !.n = @ - 1]
    BY DEF Flowing, Told
  <1>5. ASSUME NEW i \in 1..Len(d)
        PROVE  d[i] = [conn |-> d[i].conn, n |-> d[i].n] /\ d[i].conn \in Nat
    <2>1. d[i] \in Notes
      BY <1>3
    <2> QED
      BY <2>1 DEF Notes
  <1>6. Count = CountOf(d, c)
    BY DEF Count
  <1> HIDE DEF d, c, x
  <1>7. /\ e \in Seq(Notes) /\ Len(e) = Len(d) + 1 /\ Len(d) \in Nat
        /\ e[Len(e)] = x /\ \A i \in 1..Len(d) : e[i] = d[i]
    BY <1>2, <1>3
  <1> HIDE DEF e
  <1>8. \/ x.n = 1 /\ \A j \in 1..Len(d) : d[j].conn < c
        \/ Len(d) > 0 /\ d[Len(d)] = [x EXCEPT !.n = @ - 1]
    <2>1. CASE d # <<>> /\ d[Len(d)].conn = c
      <3>1. Len(d) \in 1..Len(d) /\ Len(d) > 0
        BY <1>3, <2>1
      <3>2. Count = d[Len(d)].n
        BY <1>6, <2>1 DEF CountOf
      <3>3. d[Len(d)] = [conn |-> c, n |-> Count]
        BY <1>5, <2>1, <3>1, <3>2
      <3>4. [x EXCEPT !.n = @ - 1] = [conn |-> c, n |-> Count]
        BY <1>2 DEF x
      <3> QED
        BY <3>1, <3>3, <3>4
    <2>2. CASE ~(d # <<>> /\ d[Len(d)].conn = c)
      <3>1. Count = 0
        BY <1>6, <2>2 DEF CountOf
      <3>2. ASSUME NEW j \in 1..Len(d) PROVE d[j].conn < c
        <4>1. d # <<>>
          BY <1>3
        <4>2. d[Len(d)].conn # c
          BY <2>2, <4>1
        <4>3. d[j].conn # c /\ d[j].conn <= c
          BY <1>4, <4>2
        <4>4. d[j].conn \in Nat
          BY <1>5
        <4> QED
          BY <1>1, <4>3, <4>4
      <3> QED
        BY <1>2, <3>1, <3>2
    <2> QED
      BY <2>1, <2>2
  <1>9. ASSUME NEW i \in 1..Len(e)
        PROVE  /\ e[i].conn <= c /\ e[Len(e)].conn = c
               /\ \/ e[i].n = 1 /\ \A j \in 1..(i - 1) : e[j].conn < e[i].conn
                  \/ i > 1 /\ e[i - 1] = [e[i] EXCEPT !.n = @ - 1]
    <2>1. CASE i \in 1..Len(d)
      <3>1. e[i] = d[i] /\ \A j \in 1..(i - 1) : j \in 1..Len(d) /\ e[j] = d[j]
        BY <1>7, <2>1
      <3>2. i > 1 => i - 1 \in 1..(i - 1)
        BY <2>1
      <3> QED
        BY <1>2, <1>4, <1>7, <2>1, <3>1, <3>2
    <2>2. CASE i = Len(e)
      <3>1. i - 1 = Len(d) /\ (Len(d) > 0 => i > 1 /\ i - 1 \in 1..Len(d))
        BY <1>7, <2>2
      <3>2. (Len(d) > 0 => e[i - 1] = d[Len(d)]) /\ e[i] = x
        BY <1>7, <2>2, <3>1
      <3>3. c <= c
        BY <1>1
      <3> QED
        BY <1>2, <1>7, <1>8, <2>2, <3>1, <3>2, <3>3
    <2> QED
      BY <1>7, <2>1, <2>2
  <1>10. Told'
    BY <1>1, <1>7, <1>9 DEF Told
  <1>11. Count' = Count + 1
    <2>1. e # <<>>
      BY <1>7
    <2> QED
      BY <1>1, <1>2, <1>7, <2>1 DEF Count, CountOf
  <1> QED
    BY <1>10, <1>11

(* The head of what can be read is the head of the stream.                 *)
LEMMA TailOfBoth ==
  ASSUME NEW T, NEW a \in Seq(T), a # <<>>, NEW b \in Seq(T)
  PROVE  a \o b \in Seq(T) /\ a \o b # <<>> /\ Head(a \o b) = Head(a) /\ Tail(a \o b) = Tail(a) \o b
  <1>1. a \o b \in Seq(T) /\ Len(a \o b) = Len(a) + Len(b) /\ Len(a) \in Nat \ {0} /\ Len(b) \in Nat
    OBVIOUS
  <1>2. a \o b # <<>> /\ Head(a \o b) = Head(a)
    BY <1>1
  <1>3. Tail(a \o b) = Tail(a) \o b
    OBVIOUS
  <1> QED
    BY <1>1, <1>2, <1>3, Zenon

LEMMA TakeStream ==
  ASSUME Shaped, incoming # <<>>
  PROVE  /\ Stream \in Seq(Token) /\ Stream # <<>> /\ Head(Stream) = Head(incoming)
         /\ incoming' = Tail(incoming) /\ UNCHANGED server => Stream' = Tail(Stream)
  <1>1. incoming \in Seq(Token) /\ server.rest \in Seq(Token)
    BY DEF Shaped
  <1> DEFINE w == server.rest
  <1> HIDE DEF w
  <1>2. w \in Seq(Token) /\ Stream = incoming \o w
    BY <1>1 DEF w, Stream
  <1>3. Stream \in Seq(Token) /\ Stream # <<>> /\ Head(Stream) = Head(incoming) /\ Tail(Stream) = Tail(incoming) \o w
    <2>1. \A b \in Seq(Token) : /\ incoming \o b \in Seq(Token) /\ incoming \o b # <<>>
                               /\ Head(incoming \o b) = Head(incoming) /\ Tail(incoming \o b) = Tail(incoming) \o b
      BY <1>1, TailOfBoth
    <2> QED
      BY <1>2, <2>1, Zenon
  <1>4. incoming' = Tail(incoming) /\ UNCHANGED server => Stream' = Tail(incoming) \o w
    BY DEF Stream, w
  <1> QED
    BY <1>3, <1>4, Zenon

LEMMA ReadFlow ==
  ASSUME Flowing, StartFrame \/ ReadPiece \/ ReadFails \/ LostBetweenPieces \/ NoMemory
  PROVE  Flow' /\ Told'
  <1>1. CASE StartFrame
    <2>1. /\ pc = "idle" /\ IsConnected /\ client.tcp = "up" /\ incoming # <<>> /\ pc' = "start"
          /\ UNCHANGED <<client, incoming, server, history>>
      BY <1>1 DEF StartFrame, ClientIsConnected
    <2>2. Stream' = Stream /\ Count' = Count /\ Stream # <<>>
      BY <2>1, TakeStream DEF Stream, Count, Flowing, Inv
    <2>3. Reading(Stream', pc', server'.data, Count')
      BY <2>1, <2>2 DEF Flowing, Flow, Reading
    <2> QED
      BY <2>1, <2>2, <2>3 DEF Flowing, Flow, Told, IsConnected, Pieces
  <1>2. CASE LostBetweenPieces
    <2>1. /\ pc' = "idle" /\ client.tcp = "lost" /\ UNCHANGED <<client, incoming, server, history>>
      BY <1>2 DEF LostBetweenPieces
    <2>2. Stream' = Stream /\ Count' = Count
      BY <2>1 DEF Stream, Count
    <2> QED
      BY <2>1, <2>2 DEF Flowing, Flow, Told, IsConnected
  <1>3. CASE ReadFails
    BY <1>3, DisconnectFlow DEF ReadFails
  <1>4. CASE NoMemory
    BY <1>4, DisconnectFlow DEF NoMemory
  <1>5. CASE ReadPiece
    <2> DEFINE t == Head(incoming)
    <2>1. pc # "idle" /\ client.tcp = "up" /\ incoming # <<>> /\ IsConnected /\ pc \in Pieces /\ Count \in Nat
      BY <1>5, CountTyped DEF ReadPiece, Flowing, Flow
    <2>2. Sent(Stream, server.data) /\ Reading(Stream, pc, server.data, Count) /\ ~server.asked
      BY <2>1 DEF Flowing, Flow, IsConnected
    <2>3. Stream \in Seq(Token) /\ Stream # <<>> /\ Head(Stream) = t
          /\ (incoming' = Tail(incoming) /\ UNCHANGED server => Stream' = Tail(Stream))
      BY <2>1, TakeStream DEF Flowing, Inv
    <2> HIDE DEF t
    <2>4. /\ t.n = Count + Number(t.frame)
          /\ After(t.frame, pc) # "end" => Reading(Tail(Stream), After(t.frame, pc), server.data, Count)
          /\ After(t.frame, pc) = "end" => Reading(Tail(Stream), "idle", server.data, Count + Number(t.frame))
      BY <2>1, <2>2, <2>3, TakePiece
    <2>5. Sent(Tail(Stream), server.data)
      BY <2>2, <2>3, TakeSent
    (* The connection stays, and its place in the stream is the next.      *)
    <2>6. ASSUME NEW rx, client' = [client EXCEPT !.cWsRXsize = rx], incoming' = Tail(incoming), UNCHANGED server,
                 pc' \in Pieces \cup {"idle"}, Reading(Tail(Stream), pc', server.data, Count'), Told'
          PROVE  Flow' /\ Told'
      <3>1. client'.tcp = "up" /\ client'.status = "CONNECTED"
        BY <2>1, <2>6 DEF Flowing, Inv, Shaped, IsConnected
      <3> QED
        BY <2>2, <2>3, <2>5, <2>6, <3>1 DEF Flow, IsConnected
    <2>7. CASE ClientDisconnect(10) /\ UNCHANGED <<wire, history>>
      BY <2>7, DisconnectFlow
    <2>8. CASE /\ pc' = After(t.frame, pc)
               /\ client' = [client EXCEPT !.cWsRXsize = HeaderBytes(t.frame, pc)]
               /\ incoming' = Tail(incoming)
               /\ After(t.frame, pc) # "end"
               /\ UNCHANGED <<sockets, server, wire, history>>
      <3>1. pc' \in Pieces
        BY <2>8 DEF After, Pieces
      <3>2. Count' = Count /\ Told'
        BY <2>8 DEF Flowing, Told, Count
      <3> QED
        BY <2>4, <2>6, <2>8, <3>1, <3>2
    <2>9. CASE After(t.frame, pc) = "end" /\ Handled(t)
      <3>1. CASE ClientDisconnect(0) /\ UNCHANGED <<wire, history>>
        BY <3>1, DisconnectFlow
      <3>2. CASE /\ client' = [client EXCEPT !.cWsRXsize = 0]
                 /\ pc' = "idle" /\ incoming' = Tail(incoming)
                 /\ history' = [history EXCEPT !.delivered =
                      IF Delivers(t.frame) THEN Append(@, [conn |-> history.connects, n |-> t.n]) ELSE @]
                 /\ UNCHANGED <<sockets, server>>
        <4>1. CASE Delivers(t.frame)
          <5>1. t.n = Count + 1 /\ Number(t.frame) = 1
            BY <2>4, <4>1 DEF Delivers, IsData, Number
          <5>2. history' = [history EXCEPT !.delivered = Append(@, [conn |-> history.connects, n |-> Count + 1])]
            BY <3>2, <4>1, <5>1
          <5>3. Told' /\ Count' = Count + 1
            BY <5>2, AppendTold
          <5> QED
            BY <2>4, <2>6, <2>9, <3>2, <5>1, <5>3
        <4>2. CASE ~Delivers(t.frame)
          <5>1. Number(t.frame) = 0 /\ Count + 0 = Count
            BY <2>1, <4>2 DEF Delivers, IsData, Number
          <5>2. history'.delivered = history.delivered /\ history'.connects = history.connects
            BY <3>2, <4>2 DEF Flowing, Inv, Shaped
          <5>3. Told' /\ Count' = Count
            BY <5>2 DEF Flowing, Told, Count
          <5> QED
            BY <2>4, <2>6, <2>9, <3>2, <5>1, <5>3
        <4> QED
          BY <4>1, <4>2
      <3> QED
        BY <2>9, <3>1, <3>2 DEF Handled
    <2> QED
      BY <1>5, <2>7, <2>8, <2>9 DEF ReadPiece, t
  <1> QED
    BY <1>1, <1>2, <1>3, <1>4, <1>5

LEMMA ApplicationFlow ==
  ASSUME Flowing, Application \/ LoopCleansUp \/ HeaderTimesOut PROVE Flow' /\ Told'
  <1>1. CASE Restart
    <2>1. /\ client'.tcp = "none" /\ client'.status = "NOT_CONNECTED" /\ pc' = pc /\ pc = "idle"
          /\ incoming' = <<>> /\ server' = Silent /\ history' = history
      BY <1>1 DEF Restart, Disconnected, Closed, ClosedKeepingRx, Flowing, Inv, Shaped
    <2> QED
      BY <2>1, ClosedFlow
  <1>2. CASE Disconnect \/ SendBinFails \/ LoopCleansUp \/ HeaderTimesOut
    BY <1>2, DisconnectFlow DEF Disconnect, SendBinFails, LoopCleansUp, HeaderTimesOut
  <1> QED
    BY <1>1, <1>2 DEF Application

LEMMA NetworkFlow == ASSUME Flowing, Network PROVE Flow' /\ Told'
  <1>0. incoming \in Seq(Token) /\ server.rest \in Seq(Token) /\ server.data \in Nat /\ Stream \in Seq(Token)
    BY StreamTyped DEF Flowing, Inv, Shaped
  <1>1. CASE ServerAnswers
    <2>1. PICK a \in Answers :
            server' = [server EXCEPT !.asked = FALSE,
              !.upgraded = [name |-> "status", ok |-> TRUE] \in {a[i] : i \in DOMAIN a},
              !.rest = [i \in DOMAIN a |-> [name |-> a[i].name, ok |-> a[i].ok, key |-> client.cKey]]]
      BY <1>1 DEF ServerAnswers
    <2> DEFINE r == [i \in DOMAIN a |-> [name |-> a[i].name, ok |-> a[i].ok, key |-> client.cKey]]
    <2>2. /\ client.tcp = "up" /\ client.status = "HEADER" /\ Stream = <<>> /\ server.data = 0
          /\ UNCHANGED <<client, incoming, pc, history>>
      BY <1>1 DEF ServerAnswers, Flowing, Flow
    <2>3. server'.rest = r /\ server'.asked = FALSE /\ server'.data = 0
      BY <2>1, <2>2 DEF Flowing, Inv, Shaped
    <2>4. a \in Seq(Line) /\ DOMAIN a = 1..Len(a) /\ Len(a) \in Nat
          /\ \A i \in DOMAIN a : a[i].name = "blank" => i = Len(a)
      BY WebSocketAssumption
    <2>5. ASSUME NEW i \in DOMAIN a PROVE a[i].name # "piece"
      <3>1. a[i] \in Line
        BY <2>4
      <3> QED
        BY <3>1 DEF Line, LineNames
    <2>6. DOMAIN r = 1..Len(a) /\ r \in Seq({r[i] : i \in DOMAIN a}) /\ Len(r) = Len(a)
      BY <2>4
    <2>7. \A i \in 1..Len(a) : r[i].name = a[i].name
      BY <2>4
    <2> HIDE DEF r
    <2>8. incoming = <<>> /\ Stream' = r
      <3>1. incoming = <<>>
        BY <1>0, <2>2 DEF Stream
      <3>2. Stream' = <<>> \o r
        BY <2>2, <2>3, <3>1 DEF Stream
      <3> QED
        BY <2>6, <3>1, <3>2
    <2>9. Sent(r, 0)
      <3>1. ASSUME NEW i \in 1..(Len(r) - 1) PROVE Follows(r[i], r[i + 1])
        <4>1. i \in 1..Len(a) /\ i # Len(a)
          <5>1. Len(a) \in Nat
            BY <2>4
          <5>2. i \in 1..(Len(a) - 1)
            BY <2>6
          <5> QED
            BY <5>1, <5>2
        <4> QED
          BY <2>4, <2>5, <2>7, <4>1 DEF Follows
      <3>2. ASSUME r # <<>> PROVE Ends(r[Len(r)], 0)
        <4>1. Len(r) \in 1..Len(a)
          BY <2>4, <2>6, <3>2
        <4> QED
          BY <2>4, <2>5, <2>7, <4>1 DEF Ends
      <3> QED
        BY <3>1, <3>2 DEF Sent, Chain
    <2> QED
      BY <2>2, <2>3, <2>8, <2>9 DEF Flowing, Flow, Told, Count, IsConnected
  <1>2. ASSUME NEW f \in Frames, ServerSends(f) PROVE Flow' /\ Told'
    <2> DEFINE n == server.data + Number(f)
    <2>1. server' = [server EXCEPT !.frames = @ + 1, !.data = n, !.rest = Tokens(f, n)]
      BY <1>2 DEF ServerSends, Number, Tokens
    <2>2. client.tcp = "up" /\ server.rest = <<>> /\ server.upgraded /\ UNCHANGED <<client, incoming, pc, history>>
      BY <1>2 DEF ServerSends
    <2>3. server'.rest = Tokens(f, n) /\ server'.data = n /\ server'.asked = server.asked
      BY <2>1 DEF Flowing, Inv, Shaped
    <2>4. ~server.asked
      BY <2>2 DEF Flowing, Flow
    <2>5. Stream = incoming /\ Stream' = Stream \o Tokens(f, n)
      BY <1>0, <2>2, <2>3 DEF Stream
    <2>6. f \in Frame
      BY WebSocketAssumption
    <2>7. /\ Sent(Stream', n)
          /\ \A piece, count : Reading(Stream, piece, server.data, count) => Reading(Stream', piece, n, count)
      BY <1>0, <2>5, <2>6, SendMore DEF Flowing, Flow
    <2> HIDE DEF n
    <2> QED
      BY <2>2, <2>3, <2>4, <2>7 DEF Flowing, Flow, Told, Count, IsConnected
  <1>3. CASE Arrives
    <2>1. /\ client.tcp = "up" /\ server.rest # <<>> /\ incoming' = Append(incoming, Head(server.rest))
          /\ server' = [server EXCEPT !.rest = Tail(@)] /\ UNCHANGED <<client, pc, history>>
      BY <1>3 DEF Arrives
    <2>2. server'.rest = Tail(server.rest) /\ UNCHANGED <<server.data, server.asked, server.upgraded>>
      BY <2>1 DEF Flowing, Inv, Shaped
    <2>3. incoming' \o server'.rest = Stream
      <3>1. ASSUME NEW i \in Seq(Token), NEW q \in Seq(Token), q # <<>>
            PROVE  Append(i, Head(q)) \o Tail(q) = i \o q
        BY <3>1
      <3> QED
        BY <1>0, <2>1, <2>2, <3>1 DEF Stream
    <2> QED
      BY <2>1, <2>2, <2>3, SameFlow
  <1>4. CASE TcpDrops
    <2>1. client' = [client EXCEPT !.tcp = "lost"] /\ incoming' = <<>> /\ server' = Silent
          /\ UNCHANGED <<pc, sockets, history>> /\ client.tcp = "up"
      BY <1>4 DEF TcpDrops
    <2>2. client'.tcp = "lost" /\ client'.status = client.status
      BY <2>1 DEF Flowing, Inv, Shaped
    <2>3. Stream' = <<>> /\ Count' = Count
      BY <2>1, SilentStream DEF Stream, Count
    <2> QED
      BY <2>1, <2>2, <2>3, EmptySent, SilentStream DEF Flowing, Flow, Told, IsConnected
  <1> QED
    BY <1>1, <1>2, <1>3, <1>4 DEF Network

LEMMA FlowInvariance == ClientSpec => []Flowing
  <1>1. Flowing /\ UNCHANGED clientVars => Flow' /\ Told'
    BY DEF clientVars, Flowing, Flow, Told, Stream, Count, IsConnected
  <1>2. Inv' /\ Flowing /\ [ClientNext]_clientVars => Flowing'
    <2>1. Flowing /\ ClientNext => Flow' /\ Told'
      BY ApplicationFlow, HandshakeFlow, ReadFlow, NetworkFlow DEF ClientNext, Loop
    <2> QED
      BY <1>1, <2>1 DEF Flowing
  <1>3. Inv /\ ClientInit => Flowing
    BY InitFlow DEF Flowing
  <1> QED
    BY <1>2, <1>3, Invariance, PTL DEF ClientSpec

(* What PubSubClient receives on a connection are its data frames from the *)
(* first on, in the order sent and none twice, and the client never takes  *)
(* a piece of one frame for that of another (handleWebsocket, wsCB).       *)
THEOREM DeliveriesAreInOrder == ClientSpec => []DeliveredInOrder
  <1>1. Flowing => DeliveredInOrder
    <2> SUFFICES ASSUME Flowing PROVE DeliveredInOrder
      OBVIOUS
    <2>1. ASSUME client.tcp = "up", IsConnected, incoming # <<>>
          PROVE  Head(incoming).piece = IF pc = "idle" THEN "start" ELSE pc
      <3>1. Stream # <<>> /\ Head(Stream) = Head(incoming)
        BY <2>1, TakeStream DEF Flowing, Inv
      <3> QED
        BY <2>1, <3>1 DEF Flowing, Flow, Reading, IsConnected
    <2>2. client.tcp # "up" => incoming = <<>>
      BY DEF Flowing, Flow
    <2>3. ReadsInStep
      BY <2>1, <2>2 DEF Flowing, Flow, ReadsInStep
    <2>4. history.delivered \in Seq(Notes)
      BY DEF Flowing, Told
    <2>5. DOMAIN history.delivered = 1..Len(history.delivered)
      BY <2>4
    <2> QED
      BY <2>3, <2>5 DEF Flowing, Told, DeliveredInOrder
  <1> QED
    BY <1>1, FlowInvariance, PTL

-----------------------------------------------------------------------------
(* WebSocketFrames.                                                        *)
Keys == [1..4 -> 0..1]

(* What sendFrame is in the middle of.                                     *)
FrameInv ==
  /\ frame.op \in Opcodes /\ frame.length \in size_t
  /\ frame.fin \in BOOLEAN /\ frame.mask \in BOOLEAN /\ frame.inPayload \in BOOLEAN /\ frame.onePiece \in BOOLEAN
  /\ frame.key \in Keys

(* An unmasked copy goes out under zeros.                                  *)
KeyInv == ~(frame.mask /\ frame.onePiece /\ ~frame.inPayload) => frame.key = ZeroKey

Whole == FrameHeaderSize(frame.length, frame.mask) + frame.length

(* The writes left complete the frame while none has been cut short.       *)
WriteInv ==
  /\ transfer \in {"idle", "write", "returned"} /\ ret \in BOOLEAN /\ link \in BOOLEAN /\ written \in Nat
  /\ frames \in 0..MaxTransfers
  /\ transfer = "write" =>
       \/ \E n \in Nat \ {0} : pieces = <<n>> /\ (ret => written + n = Whole)
       \/ \E m, n \in Nat \ {0} : pieces = <<m, n>> /\ (ret => written + m + n = Whole)
  /\ (transfer = "returned" /\ ret) => written = Whole

FramesInv == FrameInv /\ KeyInv /\ WriteInv

-----------------------------------------------------------------------------
(* The two calculations of the size of a header, and its parts.            *)
LEMMA Sizes ==
  ASSUME NEW length \in size_t, NEW mask \in BOOLEAN
  PROVE  /\ HeaderSize(length, mask) = FrameHeaderSize(length, mask)
         /\ HeaderSize(length, mask) \in 2..14
         /\ LengthSize(length) \in {0, 2, 8}
         /\ mask => HeaderSize(length, mask) = 2 + LengthSize(length) + 4
         /\ ~mask => HeaderSize(length, mask) = 2 + LengthSize(length)
  <1>1. CASE mask
    BY <1>1 DEF HeaderSize, FrameHeaderSize, LengthSize, B, size_t
  <1>2. CASE ~mask
    BY <1>2 DEF HeaderSize, FrameHeaderSize, LengthSize, B, size_t
  <1> QED
    BY <1>1, <1>2

(* A length is the sum of its four bytes.                                  *)
LEMMA Split ==
  ASSUME NEW length \in size_t
  PROVE  /\ \A i \in 0..7 : LengthByte(length, i) \in Byte
         /\ length = LengthByte(length, 3) * 16777216 + LengthByte(length, 2) * 65536
                     + LengthByte(length, 1) * 256 + LengthByte(length, 0)
         /\ length < 65536 => length = LengthByte(length, 1) * 256 + LengthByte(length, 0)
  <1> DEFINE a == length \div 256
             b == length \div 65536
             c == length \div 16777216
  <1>1. length \in Nat /\ c \in 0..255
    BY DEF size_t
  <1>2. a \in Nat /\ b \in Nat /\ b = a \div 256 /\ c = b \div 256
    BY <1>1
  <1>3. length = 256 * a + (length % 256) /\ a = 256 * b + (a % 256) /\ b = 256 * c + (b % 256)
    BY <1>1, <1>2
  <1>4. c % 256 = c
    BY <1>1
  <1>5. /\ LengthByte(length, 3) = c /\ LengthByte(length, 2) = b % 256
        /\ LengthByte(length, 1) = a % 256 /\ LengthByte(length, 0) = length % 256
    BY <1>1, <1>4 DEF LengthByte, Place
  <1>6. \A i \in 4..7 : LengthByte(length, i) = 0
    BY DEF LengthByte
  <1>7. length % 256 \in Byte /\ a % 256 \in Byte /\ b % 256 \in Byte /\ c \in Byte
    BY <1>1, <1>2 DEF Byte
  <1>8. length < 65536 => b = 0
    BY <1>1
  <1> HIDE DEF a, b, c
  <1>9. \A i \in 0..7 : LengthByte(length, i) \in Byte
    BY <1>5, <1>6, <1>7 DEF Byte
  <1>10. length = LengthByte(length, 3) * 16777216 + LengthByte(length, 2) * 65536
                     + LengthByte(length, 1) * 256 + LengthByte(length, 0)
    BY <1>1, <1>2, <1>3, <1>5, <1>7 DEF Byte
  <1>11. length < 65536 => length = LengthByte(length, 1) * 256 + LengthByte(length, 0)
    BY <1>1, <1>2, <1>3, <1>5, <1>7, <1>8 DEF Byte
  <1> QED
    BY <1>9, <1>10, <1>11

(* The bytes of a header, place by place.                                  *)
LEMMA HeaderBytesAre ==
  ASSUME NEW op \in Opcodes, NEW length \in size_t, NEW mask \in BOOLEAN, NEW fin \in BOOLEAN, NEW key \in Keys
  PROVE  LET h == Header(op, length, mask, key, fin)
             last == 2 + LengthSize(length) IN
         /\ DOMAIN h = 1..HeaderSize(length, mask)
         /\ h[1] = 128 * B(fin) + op
         /\ h[2] = 128 * B(mask) + LengthCode(length)
         /\ \A i \in 3..last : h[i] = LengthByte(length, last - i)
         /\ mask => \A i \in 1..4 : h[last + i] = key[i]
  <1> DEFINE h == Header(op, length, mask, key, fin)
             last == 2 + LengthSize(length)
             size == HeaderSize(length, mask)
             first == 128 * B(fin) + op
             second == 128 * B(mask) + LengthCode(length)
  <1>1. size \in 2..14 /\ last \in {2, 4, 10} /\ size >= last /\ (mask => size = last + 4)
    <2>1. mask => size = last + 4
      BY Sizes, Zenon
    <2>2. ~mask => size = last
      BY Sizes, Zenon
    <2>3. size \in 2..14 /\ LengthSize(length) \in {0, 2, 8}
      BY Sizes, Zenon
    <2>4. last \in {2, 4, 10}
      BY <2>3
    <2> HIDE DEF size, last
    <2> QED
      BY <2>1, <2>2, <2>3, <2>4
  <1>2. h = [i \in 1..size |-> CASE i = 1 -> first [] i = 2 -> second
                                 [] i \in 3..last -> LengthByte(length, last - i) [] OTHER -> key[i - last]]
    BY DEF Header
  <1> HIDE DEF h, last, size, first, second
  <1>3. h[1] = first /\ h[2] = second
    BY <1>1, <1>2
  <1>4. \A i \in 3..last : h[i] = LengthByte(length, last - i)
    BY <1>1, <1>2
  <1>5. ASSUME mask PROVE \A i \in 1..4 : h[last + i] = key[i]
    <2>1. size = last + 4
      BY <1>1, <1>5
    <2> SUFFICES ASSUME NEW i \in 1..4 PROVE h[last + i] = key[i]
      OBVIOUS
    <2>2. last + i \in 1..size /\ last + i \notin 3..last /\ last + i # 1 /\ last + i # 2 /\ (last + i) - last = i
      BY <2>1, <1>1
    <2> QED
      BY <2>2, <1>2
  <1>6. DOMAIN h = 1..size
    BY <1>2
  <1> QED
    BY <1>3, <1>4, <1>5, <1>6 DEF h, last, size, first, second

(* A reader of any header learns what its writer was told, and refuses     *)
(* exactly what is too long for it.                                        *)
LEMMA HeaderRead ==
  ASSUME NEW op \in Opcodes, NEW length \in size_t, NEW mask \in BOOLEAN, NEW fin \in BOOLEAN, NEW key \in Keys
  PROVE  LET h == Header(op, length, mask, key, fin)
             d == Decoded(h) IN
         /\ d.fin = fin /\ d.opCode = op /\ d.mask = mask /\ d.payloadLen = length
         /\ mask => d.maskKey = key
         /\ Refused(h) <=> length > WEBSOCKETS_MAX_DATA_SIZE
         /\ \A i \in DOMAIN h : h[i] \in Byte
  <1> DEFINE h == Header(op, length, mask, key, fin)
             last == 2 + LengthSize(length)
             code == LengthCode(length)
  <1>1. /\ DOMAIN h = 1..HeaderSize(length, mask)
        /\ h[1] = 128 * B(fin) + op
        /\ h[2] = 128 * B(mask) + code
        /\ \A i \in 3..last : h[i] = LengthByte(length, last - i)
        /\ mask => \A i \in 1..4 : h[last + i] = key[i]
    BY HeaderBytesAre
  <1>2. /\ length \in Nat /\ code \in 0..127
        /\ length < 126 => last = 2 /\ code = length
        /\ length >= 126 /\ length < 65535 => last = 4 /\ code = 126
        /\ length >= 65535 => last = 10 /\ code = 127
    BY DEF LengthCode, LengthSize, size_t
  <1> HIDE DEF h, last, code
  <1>3. /\ B(fin) \in 0..1 /\ B(mask) \in 0..1 /\ (B(fin) = 1 <=> fin) /\ (B(mask) = 1 <=> mask)
    BY DEF B
  <1>4. op \in 0..10
    BY DEF Opcodes
  <1>5. h[1] \in Byte /\ (h[1] >= 128 <=> fin) /\ h[1] % 16 = op
    <2>1. CASE fin
      BY <2>1, <1>1, <1>4 DEF B, Byte
    <2>2. CASE ~fin
      BY <2>2, <1>1, <1>4 DEF B, Byte
    <2> QED
      BY <2>1, <2>2
  <1>6. h[2] \in Byte /\ (h[2] >= 128 <=> mask) /\ h[2] % 128 = code
    <2>1. CASE mask
      BY <2>1, <1>1, <1>2 DEF B, Byte
    <2>2. CASE ~mask
      BY <2>2, <1>1, <1>2 DEF B, Byte
    <2> QED
      BY <2>1, <2>2
  <1>7. PayloadLen(h) = length /\ (code = 127 => ~Beyond(h)) /\ \A i \in 3..last : h[i] \in Byte
    <2>1. CASE length < 126
      BY <2>1, <1>2, <1>6 DEF PayloadLen
    <2>2. CASE length >= 126 /\ length < 65535
      <3>1. h[3] = LengthByte(length, 1) /\ h[4] = LengthByte(length, 0)
        BY <2>2, <1>1, <1>2
      <3> QED
        BY <2>2, <3>1, <1>1, <1>2, <1>6, Split DEF PayloadLen
    <2>3. CASE length >= 65535
      <3>1. /\ h[7] = LengthByte(length, 3) /\ h[8] = LengthByte(length, 2)
            /\ h[9] = LengthByte(length, 1) /\ h[10] = LengthByte(length, 0)
        BY <2>3, <1>1, <1>2
      <3>2. \A i \in 3..6 : h[i] = 0
        BY <2>3, <1>1, <1>2 DEF LengthByte
      <3>3. PayloadLen(h) = length
        BY <2>3, <3>1, <1>2, <1>6, Split DEF PayloadLen
      <3>4. \A i \in 3..last : h[i] \in Byte
        BY <2>3, <1>1, <1>2, Split
      <3> QED
        BY <3>2, <3>3, <3>4 DEF Beyond
    <2> QED
      BY <1>2, <2>1, <2>2, <2>3
  <1>8. mask => MaskKey(h) = key
    <2> SUFFICES ASSUME mask PROVE MaskKey(h) = key
      OBVIOUS
    <2>1. MaskKey(h) = [i \in 1..4 |-> h[last + i]]
      BY <1>2, <1>6 DEF MaskKey
    <2> QED
      BY <2>1, <1>1 DEF Keys
  <1>9. \A i \in DOMAIN h : h[i] \in Byte
    <2>1. mask => \A i \in 1..4 : h[last + i] \in Byte
      <3>1. \A i \in 1..4 : key[i] \in Byte
        BY DEF Keys, Byte
      <3> QED
        BY <3>1, <1>1
    <2> DEFINE size == HeaderSize(length, mask)
    <2>2. /\ size \in 2..14 /\ last \in {2, 4, 10}
          /\ (mask => size = last + 4) /\ (~mask => size = last)
      <3>1. mask => size = last + 4
        BY Sizes, Zenon DEF last
      <3>2. ~mask => size = last
        BY Sizes, Zenon DEF last
      <3>3. size \in 2..14 /\ LengthSize(length) \in {0, 2, 8}
        BY Sizes, Zenon
      <3>4. last \in {2, 4, 10}
        BY <3>3 DEF last
      <3> QED
        BY <3>1, <3>2, <3>3, <3>4
    <2>5. DOMAIN h = 1..size
      BY <1>1
    <2> HIDE DEF size
    <2> SUFFICES ASSUME NEW i \in DOMAIN h PROVE h[i] \in Byte
      OBVIOUS
    <2>3. CASE i <= last
      BY <2>3, <2>2, <2>5, <1>5, <1>6, <1>7
    <2>4. CASE i > last
      <3>1. mask /\ i - last \in 1..4 /\ i = last + (i - last)
        BY <2>4, <2>2, <2>5
      <3> QED
        BY <3>1, <2>1
    <2> QED
      BY <2>2, <2>3, <2>4, <2>5
  <1>10. Refused(h) <=> length > WEBSOCKETS_MAX_DATA_SIZE
    BY <1>6, <1>7 DEF Refused
  <1> QED
    BY <1>5, <1>6, <1>7, <1>8, <1>9, <1>10 DEF Decoded, h

-----------------------------------------------------------------------------
LEMMA InitFrames == FramesInit => FramesInv
  BY FramesAssumption DEF FramesInit, FramesInv, FrameInv, KeyInv, WriteInv, NoFrame, ZeroKey, Keys, Opcodes, size_t

LEMMA StepFrames == FramesInv /\ [FramesNext]_frameVars => FramesInv'
  <1> SUFFICES ASSUME FramesInv, [FramesNext]_frameVars PROVE FramesInv'
    OBVIOUS
  <1> USE DEF FramesInv
  <1>1. CASE sendFrame
    <2>1. PICK call \in Calls, mask \in BOOLEAN, memory \in BOOLEAN, drawn \in {<<1, 0, 1, 1>>, <<0, 1, 0, 0>>} :
            LET copied == Copied(call, memory)
                size == FrameHeaderSize(call.length, mask)
            IN /\ frame' = [op |-> call.op, length |-> call.length, fin |-> call.fin, inPayload |-> call.inPayload,
                            mask |-> mask, key |-> KeyOf(copied, mask, drawn), onePiece |-> (copied \/ call.inPayload)]
               /\ \/ ~link /\ transfer' = "returned" /\ ret' = FALSE /\ pieces' = <<>>
                  \/ /\ link /\ transfer' = "write" /\ ret' = TRUE
                     /\ pieces' = IF copied \/ call.inPayload THEN <<size + call.length>>
                                  ELSE IF call.length > 0 THEN <<size, call.length>> ELSE <<size>>
      BY <1>1 DEF sendFrame
    <2> DEFINE copied == Copied(call, memory)
               size == FrameHeaderSize(call.length, mask)
    <2>2. /\ call.op \in Opcodes /\ call.length \in size_t /\ call.fin \in BOOLEAN /\ call.inPayload \in BOOLEAN
          /\ copied \in BOOLEAN /\ (copied => ~call.inPayload) /\ call.length \in Nat
      <3>1. /\ call.op \in Opcodes /\ call.length \in size_t /\ call.fin \in BOOLEAN /\ call.inPayload \in BOOLEAN
            /\ call.length \in Nat
        <4>1. call.op \in Opcodes /\ call.length \in Lengths /\ call.fin \in BOOLEAN /\ call.inPayload \in BOOLEAN
          BY DEF Calls
        <4>2. call.length \in size_t
          BY <4>1, FramesAssumption
        <4>3. call.length \in Nat
          BY <4>2 DEF size_t
        <4> QED
          BY <4>1, <4>2, <4>3
      <3>2. copied => ~call.inPayload
        BY DEF Copied
      <3>3. copied \in BOOLEAN
        BY Zenon DEF Copied
      <3> QED
        BY <3>1, <3>2, <3>3
    <2>3. KeyOf(copied, mask, drawn) \in Keys /\ (~(copied /\ mask) => KeyOf(copied, mask, drawn) = ZeroKey)
      BY DEF KeyOf, Keys, ZeroKey
    <2>4. size \in Nat \ {0}
      BY DEF FrameHeaderSize
    <2>5. /\ frame'.op = call.op /\ frame'.length = call.length /\ frame'.fin = call.fin
          /\ frame'.inPayload = call.inPayload /\ frame'.mask = mask
          /\ frame'.key = KeyOf(copied, mask, drawn) /\ frame'.onePiece = (copied \/ call.inPayload)
      BY <2>1
    <2>6. /\ \/ ~link /\ transfer' = "returned" /\ ret' = FALSE /\ pieces' = <<>>
             \/ /\ link /\ transfer' = "write" /\ ret' = TRUE
                /\ pieces' = IF copied \/ call.inPayload THEN <<size + call.length>>
                             ELSE IF call.length > 0 THEN <<size, call.length>> ELSE <<size>>
      BY <2>1
    <2>7. Whole' = size + call.length
      BY <2>5 DEF Whole
    <2> HIDE DEF copied, size
    <2>8. FrameInv'
      BY <2>2, <2>3, <2>5 DEF FrameInv
    <2>9. KeyInv'
      BY <2>2, <2>3, <2>5 DEF KeyInv
    <2>10. written' = 0 /\ link' = link /\ frames < MaxTransfers /\ frames' = frames + 1 /\ MaxTransfers \in Nat
      BY <1>1, FramesAssumption DEF sendFrame
    <2>11. WriteInv'
      <3>1. frames' \in 0..MaxTransfers
        BY <2>10 DEF WriteInv
      <3>2. link \in BOOLEAN
        BY DEF WriteInv
      <3>3. CASE transfer' = "returned"
        BY <3>1, <3>2, <3>3, <2>6, <2>10 DEF WriteInv
      <3>4. CASE transfer' = "write"
        <4>1. ret' = TRUE /\ call.length \in Nat /\ size + call.length \in Nat \ {0}
          BY <3>4, <2>2, <2>4, <2>6
        <4>2. \/ pieces' = <<size + call.length>>
              \/ call.length > 0 /\ pieces' = <<size, call.length>>
              \/ call.length = 0 /\ pieces' = <<size>>
          BY <3>4, <4>1, <2>6
        <4>3. CASE call.length > 0 /\ pieces' = <<size, call.length>>
          BY <3>1, <3>2, <3>4, <4>1, <4>3, <2>4, <2>7, <2>10 DEF WriteInv
        <4>4. CASE pieces' = <<size + call.length>> \/ (call.length = 0 /\ pieces' = <<size>>)
          BY <3>1, <3>2, <3>4, <4>1, <4>4, <2>4, <2>7, <2>10 DEF WriteInv
        <4> QED
          BY <4>2, <4>3, <4>4
      <3> QED
        BY <2>6, <3>3, <3>4
    <2> QED
      BY <2>8, <2>9, <2>11
  <1>2. CASE write
    <2>1. FrameInv' /\ KeyInv' /\ Whole' = Whole
      BY <1>2 DEF write, FrameInv, KeyInv, Whole
    <2>2. PICK n \in Outcomes(Head(pieces)) : written' = written + n /\ ret' = (ret /\ n = Head(pieces))
      BY <1>2 DEF write, AllOf
    <2>3. CASE \E k \in Nat \ {0} : pieces = <<k>> /\ (ret => written + k = Whole)
      <3>1. PICK k \in Nat \ {0} : pieces = <<k>> /\ (ret => written + k = Whole)
        BY <2>3
      <3>2. Head(pieces) = k /\ Len(pieces) = 1
        BY <3>1
      <3>3. n \in Nat /\ ret' \in BOOLEAN
        BY <2>2, <3>2, <1>2 DEF Outcomes, WriteInv
      <3>4. transfer' = "returned" /\ link' = link /\ frames' = frames
        BY <1>2, <3>2 DEF write
      <3>5. ret' => ret /\ n = k
        BY <2>2, <3>2, Zenon
      <3> QED
        BY <2>1, <2>2, <3>1, <3>3, <3>4, <3>5 DEF WriteInv
    <2>4. CASE \E m, k \in Nat \ {0} : pieces = <<m, k>> /\ (ret => written + m + k = Whole)
      <3>1. PICK m, k \in Nat \ {0} : pieces = <<m, k>> /\ (ret => written + m + k = Whole)
        BY <2>4
      <3>2. Head(pieces) = m /\ Len(pieces) = 2 /\ Tail(pieces) = <<k>>
        BY <3>1
      <3>3. n \in Nat /\ ret' \in BOOLEAN
        BY <2>2, <3>2, <1>2 DEF Outcomes, WriteInv
      <3>4. transfer' = "write" /\ link' = link /\ frames' = frames /\ pieces' = <<k>>
        BY <1>2, <3>2 DEF write
      <3>5. ret' => ret /\ n = m
        BY <2>2, <3>2, Zenon
      <3>6. ret' => written' + k = Whole'
        BY <2>1, <2>2, <3>1, <3>5
      <3> QED
        BY <2>1, <2>2, <3>3, <3>4, <3>6 DEF WriteInv
    <2> QED
      BY <1>2, <2>3, <2>4 DEF write, WriteInv
  <1>3. CASE Close
    BY <1>3 DEF Close, FrameInv, KeyInv, WriteInv, NoFrame, ZeroKey, Keys, Opcodes, size_t
  <1>4. CASE Drops
    BY <1>4 DEF Drops, FrameInv, KeyInv, WriteInv, Whole
  <1>5. CASE UNCHANGED frameVars
    BY <1>5 DEF frameVars, FrameInv, KeyInv, WriteInv, Whole
  <1> QED
    BY <1>1, <1>2, <1>3, <1>4, <1>5 DEF FramesNext

LEMMA FramesInvariance == FramesSpec => []FramesInv
  BY InitFrames, StepFrames, PTL DEF FramesSpec

-----------------------------------------------------------------------------
(* The library's header meets the payload it goes before, in the room kept *)
(* for it, whatever the length.                                            *)
THEOREM HeadersFit == FramesSpec => []HeaderMeetsPayload
  <1>1. FramesInv => HeaderMeetsPayload
    <2> SUFFICES ASSUME FramesInv PROVE HeaderMeetsPayload
      OBVIOUS
    <2>1. frame.length \in size_t /\ frame.mask \in BOOLEAN
      BY DEF FramesInv, FrameInv
    <2> DEFINE size == HeaderSize(frame.length, frame.mask)
    <2>2. size = FrameHeaderSize(frame.length, frame.mask) /\ size \in 2..14
      BY <2>1, Sizes, Zenon
    <2>3. Bytes \in [1..size -> {Bytes[i] : i \in 1..size}]
      BY DEF Bytes, Header
    <2> HIDE DEF size
    <2>4. Len(Bytes) = size
      BY <2>2, <2>3
    <2>5. HeaderOffset(frame.length, frame.mask) = 14 - size
      BY <2>2 DEF HeaderOffset, WEBSOCKETS_MAX_HEADER_SIZE
    <2>6. HeaderOffset(frame.length, frame.mask) \in 0..WEBSOCKETS_MAX_HEADER_SIZE
      <3>1. 14 - size \in 0..14
        BY <2>2
      <3> QED
        BY <3>1, <2>5, Zenon DEF WEBSOCKETS_MAX_HEADER_SIZE
    <2> QED
      BY <2>2, <2>4, <2>6, Zenon DEF HeaderMeetsPayload
  <1> QED
    BY <1>1, FramesInvariance, PTL

LEMMA FrameRead == FramesInv => FieldsRead
  <1> SUFFICES ASSUME FramesInv PROVE FieldsRead
    OBVIOUS
  <1>1. /\ frame.op \in Opcodes /\ frame.length \in size_t /\ frame.mask \in BOOLEAN
        /\ frame.fin \in BOOLEAN /\ frame.key \in Keys
    BY DEF FramesInv, FrameInv
  <1> DEFINE h == Header(frame.op, frame.length, frame.mask, frame.key, frame.fin)
  <1>2. /\ Decoded(h).fin = frame.fin /\ Decoded(h).opCode = frame.op /\ Decoded(h).mask = frame.mask
        /\ Decoded(h).payloadLen = frame.length
        /\ (frame.mask => Decoded(h).maskKey = frame.key)
        /\ (Refused(h) <=> frame.length > WEBSOCKETS_MAX_DATA_SIZE)
    BY <1>1, HeaderRead
  <1>3. Bytes = h
    BY DEF Bytes
  <1> HIDE DEF h
  <1> QED
    BY <1>2, <1>3 DEF FieldsRead

(* Every header is read as it was meant, or the frame refused as too long. *)
THEOREM FieldsAreRead == FramesSpec => []FieldsRead
  BY FrameRead, FramesInvariance, PTL

(* Masking twice with one key, and once with the key of zeros, changes     *)
(* nothing.                                                                *)
LEMMA MaskTwice ==
  ASSUME NEW n \in Nat, NEW payload \in [1..n -> 0..1], NEW key \in Keys
  PROVE  /\ Masked(Masked(payload, key), key) = payload
         /\ key = ZeroKey => Masked(payload, key) = payload
  <1>1. \A a, b \in 0..1 : Xor(a, b) \in 0..1 /\ Xor(Xor(a, b), b) = a /\ Xor(a, 0) = a
    BY DEF Xor
  <1>2. \A i \in 1..n : key[((i - 1) % 4) + 1] \in 0..1
    <2> SUFFICES ASSUME NEW i \in 1..n PROVE key[((i - 1) % 4) + 1] \in 0..1
      OBVIOUS
    <2>1. ((i - 1) % 4) + 1 \in 1..4
      OBVIOUS
    <2> QED
      BY <2>1 DEF Keys
  <1>3. Masked(payload, key) = [i \in 1..n |-> Xor(payload[i], key[((i - 1) % 4) + 1])]
    BY DEF Masked
  <1>4. Masked(Masked(payload, key), key)
          = [i \in 1..n |-> Xor(Xor(payload[i], key[((i - 1) % 4) + 1]), key[((i - 1) % 4) + 1])]
    BY <1>3 DEF Masked
  <1>5. \A i \in 1..n : Xor(Xor(payload[i], key[((i - 1) % 4) + 1]), key[((i - 1) % 4) + 1]) = payload[i]
    BY <1>1, <1>2
  <1>6. ASSUME key = ZeroKey PROVE Masked(payload, key) = payload
    <2>1. \A i \in 1..n : key[((i - 1) % 4) + 1] = 0
      <3> SUFFICES ASSUME NEW i \in 1..n PROVE key[((i - 1) % 4) + 1] = 0
        OBVIOUS
      <3>1. ((i - 1) % 4) + 1 \in 1..4
        OBVIOUS
      <3>2. \A j \in 1..4 : key[j] = 0
        BY <1>6 DEF ZeroKey
      <3> QED
        BY <3>1, <3>2
    <2>2. \A i \in 1..n : Xor(payload[i], key[((i - 1) % 4) + 1]) = payload[i]
      BY <1>1, <2>1
    <2> QED
      BY <1>3, <2>2
  <1> QED
    BY <1>4, <1>5, <1>6

(* The reader gets the payload, copied and masked or not.                  *)
THEOREM PayloadsSurvive == FramesSpec => []PayloadSurvives
  <1>1. FramesInv => PayloadSurvives
    <2> SUFFICES ASSUME FramesInv, frame.mask, NEW plane \in Planes
                 PROVE Masked(OnTheWire(plane), Decoded(Bytes).maskKey) = plane
      BY DEF PayloadSurvives
    <2>1. frame.key \in Keys
      BY DEF FramesInv, FrameInv
    <2>2. Decoded(Bytes).maskKey = frame.key
      <3>1. FieldsRead
        BY FrameRead
      <3> QED
        BY <3>1, Zenon DEF FieldsRead
    <2>3. plane \in [1..6 -> 0..1] \/ plane \in [1..5 -> 0..1]
      BY DEF Planes
    <2>4. /\ Masked(Masked(plane, frame.key), frame.key) = plane
          /\ frame.key = ZeroKey => Masked(plane, frame.key) = plane
      BY <2>1, <2>3, MaskTwice
    <2>5. OnTheWire(plane) = Masked(plane, frame.key) \/ (OnTheWire(plane) = plane /\ frame.key = ZeroKey)
      BY DEF FramesInv, KeyInv, OnTheWire
    <2> QED
      BY <2>2, <2>4, <2>5
  <1> QED
    BY <1>1, FramesInvariance, PTL

(* So every frame is read as it was sent.                                  *)
THEOREM FramesAreReadAsSent == FramesSpec => []ReadAsSent
  BY HeadersFit, FieldsAreRead, PayloadsSurvive, PTL DEF ReadAsSent

(* When sendFrame says true the frame is written whole.                    *)
THEOREM TrueIsWhole == FramesSpec => []TrueMeansWhole
  <1>1. FramesInv => TrueMeansWhole
    BY DEF FramesInv, WriteInv, Whole, TrueMeansWhole
  <1> QED
    BY <1>1, FramesInvariance, PTL
=============================================================================
