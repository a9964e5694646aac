----------------------------- MODULE MqttKeepAlive -----------------------------
(***************************************************************************)
(* The keep-alive of the MQTT client, in time: every packet it sends sets  *)
(* the timer back, update() pings when the timer has run out and closes    *)
(* when it runs out again with the pong still to be read. update() takes   *)
(* one frame from the socket; the callback of a message may run for long,  *)
(* with nothing read, and then publishes, as mqtt_message_callback does    *)
(* after a supply. Time is counted in ticks; all else takes none.          *)
(***************************************************************************)
EXTENDS Integers, Sequences

CONSTANTS
  KeepAlive,   \* client->keep_alive_interval
  Gap,         \* the longest time between two calls of update()
  Callback,    \* the longest a callback runs
  Delay,       \* external: a broker that lives answers a ping within it
  Patience,    \* external: the broker closes after so long without a packet
  MaxWaiting   \* external: the broker sends a message while fewer frames than these wait unread

ASSUME KeepAliveAssumption ==
  /\ KeepAlive \in Nat \ {0} /\ Gap \in Nat \ {0} /\ Callback \in Nat /\ Delay \in Nat
  /\ Patience \in Nat /\ MaxWaiting \in Nat
  /\ (MaxWaiting + 1) * Gap + Delay <= KeepAlive \* what waits is read in time

VARIABLES
  connected,    \* PubSubClient's is_connected
  closedBy,     \* who closed the last connection
  silence,      \* time since the client sent a packet
  awaits_pong,  \* lwmqtt's pong_pending
  at,           \* where update() is
  running,      \* how long the callback has been running
  sinceUpdate,  \* time since update() returned
  socket,       \* external: frames that wait to be read
  peer,         \* external: whether it lives, and how long a ping has waited
  quiet         \* time since the broker died or the application published, whatever is later

keepAliveVars == <<connected, closedBy, silence, awaits_pong, at, running, sinceUpdate, socket, peer, quiet>>

NoPing == -1
Fresh == [alive |-> TRUE, ping |-> NoPing]

KeepAliveInit ==
  /\ connected = TRUE /\ closedBy = "nobody" /\ silence = 0 /\ awaits_pong = FALSE
  /\ at = "idle" /\ running = 0 /\ sinceUpdate = 0
  /\ socket = <<>> /\ peer = Fresh /\ quiet = 0

Closes(who) ==
  /\ connected' = FALSE /\ closedBy' = who
  /\ at' = "idle" /\ running' = 0 /\ sinceUpdate' = 0 /\ socket' = <<>>
  /\ UNCHANGED <<silence, awaits_pong, peer, quiet>>

-----------------------------------------------------------------------------
(* connect() starts afresh.                                                *)
Reconnect ==
  /\ ~connected
  /\ connected' = TRUE /\ closedBy' = "nobody" /\ silence' = 0 /\ awaits_pong' = FALSE
  /\ sinceUpdate' = 0 /\ socket' = <<>> /\ peer' = Fresh /\ quiet' = 0
  /\ UNCHANGED <<at, running>>

(* publish() of the application between two calls of update(). The packet  *)
(* sets the timer back.                                                    *)
SentSilently == UNCHANGED silence \* mutant
Sent == silence' = 0
AppPublishes ==
  /\ connected /\ at = "idle"
  /\ Sent /\ quiet' = 0
  /\ UNCHANGED <<connected, closedBy, awaits_pong, at, running, sinceUpdate, socket, peer>>

(* update(): loop() takes a frame, which is then handled.                  *)
Pongs(frame) == IF frame = "pong" THEN FALSE ELSE awaits_pong
TakeFrame ==
  /\ connected /\ at = "idle"
  /\ IF socket = <<>>
     THEN at' = "checking" /\ UNCHANGED <<socket, awaits_pong>>
     ELSE /\ socket' = Tail(socket)
          /\ awaits_pong' = Pongs(Head(socket))
          /\ at' \in IF Head(socket) = "message" THEN {"callback", "checking"} ELSE {"checking"}
  /\ running' = 0
  /\ UNCHANGED <<connected, closedBy, silence, sinceUpdate, peer, quiet>>

CallbackReturns ==
  /\ at = "callback"
  /\ Sent /\ quiet' = 0
  /\ at' = "checking" /\ running' = 0
  /\ UNCHANGED <<connected, closedBy, awaits_pong, sinceUpdate, socket, peer>>

(* lwmqtt_keep_alive.                                                      *)
PingLate == silence >= 2 * KeepAlive \* mutant
PingDue == silence >= KeepAlive
Check ==
  /\ at = "checking"
  /\ \/ /\ ~PingDue
        /\ at' = "idle" /\ sinceUpdate' = 0
        /\ UNCHANGED <<connected, closedBy, silence, awaits_pong, running, socket, peer, quiet>>
     \/ /\ PingDue /\ awaits_pong
        /\ Closes("client")
     \/ /\ PingDue /\ ~awaits_pong
        /\ silence' = 0 /\ awaits_pong' = TRUE
        /\ peer' = [peer EXCEPT !.ping = IF @ = NoPing THEN 0 ELSE @]
        /\ at' = "idle" /\ sinceUpdate' = 0
        /\ UNCHANGED <<connected, closedBy, running, socket, quiet>>

-----------------------------------------------------------------------------
(* External: the broker answers, sends, dies or loses its patience.        *)
Answers ==
  /\ connected /\ peer.alive /\ peer.ping # NoPing
  /\ peer' = [peer EXCEPT !.ping = NoPing]
  /\ socket' = Append(socket, "pong")
  /\ UNCHANGED <<connected, closedBy, silence, awaits_pong, at, running, sinceUpdate, quiet>>
Sends ==
  /\ connected /\ peer.alive /\ Len(socket) < MaxWaiting
  /\ socket' = Append(socket, "message")
  /\ UNCHANGED <<connected, closedBy, silence, awaits_pong, at, running, sinceUpdate, peer, quiet>>
Dies ==
  /\ connected /\ peer.alive
  /\ peer' = [peer EXCEPT !.alive = FALSE] /\ quiet' = 0
  /\ UNCHANGED <<connected, closedBy, silence, awaits_pong, at, running, sinceUpdate, socket>>
LosesPatience ==
  /\ connected /\ peer.alive /\ silence >= Patience
  /\ Closes("broker")

(* Time passes, but not past what has to happen first. quiet is not        *)
(* counted beyond what a property asks.                                    *)
Noticed == 2 * (KeepAlive + Gap)
Tick ==
  /\ connected
  /\ \/ at = "idle" /\ sinceUpdate < Gap
     \/ at = "callback" /\ running < Callback
  /\ ~(peer.alive /\ peer.ping >= Delay)
  /\ silence' = silence + 1
  /\ sinceUpdate' = IF at = "idle" THEN sinceUpdate + 1 ELSE sinceUpdate
  /\ running' = IF at = "callback" THEN running + 1 ELSE running
  /\ peer' = [peer EXCEPT !.ping = IF @ = NoPing \/ ~peer.alive THEN @ ELSE @ + 1]
  /\ quiet' = IF peer.alive \/ quiet > Noticed THEN quiet ELSE quiet + 1
  /\ UNCHANGED <<connected, closedBy, awaits_pong, at, socket>>

KeepAliveNext ==
  \/ Reconnect \/ AppPublishes \/ TakeFrame \/ CallbackReturns \/ Check
  \/ Answers \/ Sends \/ Dies \/ LosesPatience
  \/ Tick
KeepAliveSpec == KeepAliveInit /\ [][KeepAliveNext]_keepAliveVars

-----------------------------------------------------------------------------
(* Every variable keeps its type, and the client is never silent for more  *)
(* than the keep-alive, one gap and one callback.                          *)
KeepAliveTypeOK ==
  /\ {connected, awaits_pong} \subseteq BOOLEAN
  /\ closedBy \in {"nobody", "client", "broker"} /\ at \in {"idle", "callback", "checking"}
  /\ silence \in 0..(KeepAlive + Gap + Callback) /\ running \in 0..Callback /\ sinceUpdate \in 0..Gap
  /\ socket \in Seq({"message", "pong"})
  /\ peer \in [alive : BOOLEAN, ping : -1..Delay]
  /\ quiet \in Nat

(* The client gives a broker up (LWMQTT_PONG_TIMEOUT) only when that one   *)
(* is dead: a pong that waits unread behind a long supply does not count   *)
(* as missing, because what the callback publishes sets the timer back.    *)
(* This holds while what waits in the socket is read, one frame for every  *)
(* update(), within a keep-alive less the broker's delay: the messages of  *)
(* a connection are not counted, those that wait at the same time are.     *)
TimeoutIsReal == closedBy = "client" => ~peer.alive

(* A dead broker is noticed: two keep-alives after it died or after the    *)
(* last publish the client has closed the connection, callbacks aside.     *)
DeadBrokerNoticed == connected /\ ~peer.alive /\ at # "callback" => quiet <= Noticed

(* The broker closes for want of packets only in the middle of a callback *)
(* that outlasts what it allows beyond the keep-alive and one gap between  *)
(* two calls of update(): never with an application that is quick enough.  *)
BrokerStays ==
  [][closedBy # "broker" /\ closedBy' = "broker" => KeepAlive + Gap + running >= Patience]_keepAliveVars
=============================================================================
