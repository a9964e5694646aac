----------------------------- MODULE MCMqttLibrary -----------------------------
(***************************************************************************)
(* The models of the MQTT library side by side: a behaviour is one of one  *)
(* part, chosen at the start, and the other parts stay in a first state of *)
(* theirs. The instance of each part:                                      *)
(*   codec      every combination of the header bits, topics and payloads  *)
(*              of no, one and more bytes, payloads that make the          *)
(*              remaining length two bytes long, packets too long for the  *)
(*              write buffer, and remaining lengths at every boundary;     *)
(*   framing    a read buffer of eight bytes, and as packets a PINGRESP,   *)
(*              a PUBLISH that fills it, one that takes two reads to drain and *)
(*              ends in bytes that read like a PINGRESP, and a PUBREC of   *)
(*              wrong length;                                              *)
(*   timers     a clock of five bits, waits of up to half of it;           *)
(*   session    packet ids that wrap at two, so that the third command     *)
(*              gets the first one again;                                  *)
(*   keepAlive  ticks of a quarter of the keep-alive, callbacks longer     *)
(*              than the keep-alive and the patience of the broker.        *)
(***************************************************************************)
EXTENDS LwmqttExchange, LwmqttFraming, MillisTimers, MqttSession, MqttKeepAlive

VARIABLE part
libraryVars == <<part, exchangeVars, framingVars, clockVars, sessionVars, keepAliveVars>>

-----------------------------------------------------------------------------
(* codec                                                                   *)
Text == {<<>>, <<7>>, <<7, 208>>}
Long(n) == [i \in 1..n |-> 208]

SomePublishes ==
  [dup : BOOLEAN, id : {1, 65535}, topic : {<<>>, <<7>>, Long(3)}, qos : 0..2,
   retained : BOOLEAN, payload : {<<>>, <<208, 0>>, Long(126)}]

Options(users, passwords) ==
  [clientId : {<<>>, <<9>>}, keepAlive : {0, 100}, clean : BOOLEAN,
   username : users, password : passwords]
Wills == {<<>>} \cup
  {<<w>> : w \in [topic : {<<7>>}, payload : {<<>>, <<1>>}, qos : 0..2, retained : BOOLEAN]}

\* PubSubClient::connect passes a password only together with a user name
ClientConnects == [options : Options({<<7>>}, Text) \cup Options({<<>>}, {<<>>}), will : Wills]

SomeFilters == {<<[topic |-> t, qos |-> q]>> : t \in {<<>>, <<7>>, Long(40)}, q \in 0..2}
  \cup {<<[topic |-> <<7>>, qos |-> 0], [topic |-> <<8>>, qos |-> 2]>>}
SomeAcks == [type : {PUBACK, PUBREC, PUBREL, PUBCOMP, UNSUBACK}, id : {1, 256, 65535}]
SomeConnacks == [present : BOOLEAN, code : 0..7]
SomeSubacks == [id : {1, 65535}, codes : {<<0>>, <<2>>, <<3>>, <<128>>, <<0, 128>>, <<0, 1, 2>>, Long(126)}]
SomeNumbers == UNION {{Digit^k - 2, Digit^k - 1, Digit^k, Digit^k + 1} : k \in 1..4} \cup {0, 1}

(* framing                                                                 *)
SomePackets == {<<208, 0>>, <<48, 6, 0, 1, 7, 9, 208, 0>>,
                <<48, 10, 0, 1, 7, 9, 9, 9, 9, 9, 208, 0>>, <<80, 1, 9>>}

(* timers                                                                  *)
SomeTimeouts == {0, 1, 5, 15}

-----------------------------------------------------------------------------
LibraryInit ==
  /\ part \in {"codec", "framing", "timers", "session", "keepAlive"}
  /\ ExchangeInit
  /\ FramingInit /\ (part # "framing" => drop = FALSE)
  /\ ClockInit /\ (part # "timers" => now = 0 /\ timeout_ms = 0)
  /\ SessionInit
  /\ KeepAliveInit

LibraryNext ==
  /\ UNCHANGED part
  /\ \/ part = "codec" /\ ExchangeNext
        /\ UNCHANGED <<framingVars, clockVars, sessionVars, keepAliveVars>>
     \/ part = "framing" /\ FramingNext
        /\ UNCHANGED <<exchangeVars, clockVars, sessionVars, keepAliveVars>>
     \/ part = "timers" /\ ClockNext
        /\ UNCHANGED <<exchangeVars, framingVars, sessionVars, keepAliveVars>>
     \/ part = "session" /\ SessionNext
        /\ UNCHANGED <<exchangeVars, framingVars, clockVars, keepAliveVars>>
     \/ part = "keepAlive" /\ KeepAliveNext
        /\ UNCHANGED <<exchangeVars, framingVars, clockVars, sessionVars>>

LibrarySpec == LibraryInit /\ [][LibraryNext]_libraryVars
=============================================================================
