----------------------------- MODULE LwmqttFraming -----------------------------
(***************************************************************************)
(* How the client finds packets in the bytes it receives: the WebSocket    *)
(* events append to the deque `buffer` of PubSubClient, in pieces that     *)
(* need not be packets, and lwmqtt_read_packet_in_buffer takes a header    *)
(* byte, the digits of the remaining length and the body out of it. Any    *)
(* read may run out of time or lose the connection; the deque outlives it. *)
(* network_read calls loop() before it takes a chunk and looks at the      *)
(* connection only when the chunk is not there: the connection may be lost *)
(* and made again between two chunks of a packet, and nobody notices.      *)
(***************************************************************************)
EXTENDS LwmqttPackets

CONSTANTS
  ReadBufSize,   \* bytes of lwmqtt's read buffer (MQTT_MAX_PACKET_SIZE)
  DropOptions,   \* values of drop_overflow; {FALSE} in the firmware
  BrokerPackets, \* the packets a broker may send, as bytes
  MaxPackets     \* bound: packets ever sent

ASSUME FramingAssumption ==
  /\ ReadBufSize \in Nat /\ ReadBufSize > 5
  /\ DropOptions \in SUBSET BOOLEAN
  /\ MaxPackets \in Nat
  /\ \A p \in BrokerPackets : \* each as long as it says
       p \in Seq(0..Byte - 1) \ {<<>>} /\ Opened(p).err = OK /\ Opened(p).val = Len(Opened(p).rest)

VARIABLES
  open,      \* the WebSocket is connected
  drop,      \* drop_overflow
  wire,      \* bytes on their way to the client
  deque,     \* lwmqtt_network.buffer
  stage,     \* where lwmqtt_read_packet_in_buffer is
  taken,     \* bytes of the packet in the read buffer
  need,      \* bytes of its body still to be read or drained
  lost,      \* the last chunk was taken without a connection
  accepted,  \* the last packet handed to cycle_once
  overrun,   \* history: a byte was written behind the read buffer
  due,       \* history: packets sent on this connection, not yet read
  clean,     \* history: when it was made, nothing of an older one was held
  trusted,   \* history: each packet accepted on it was the next one due
  sent       \* history: packets sent so far

framingVars == <<open, drop, wire, deque, stage, taken, need, lost, accepted, overrun,
                 due, clean, trusted, sent>>
reader  == <<stage, taken, need, lost>>
stream  == <<wire, deque>>
records == <<due, clean, trusted, sent>>

FramingInit ==
  /\ open = FALSE /\ drop \in DropOptions
  /\ wire = <<>> /\ deque = <<>>
  /\ stage = "idle" /\ taken = <<>> /\ need = 0 /\ lost = FALSE
  /\ accepted = <<>> /\ overrun = FALSE
  /\ due = <<>> /\ clean = TRUE /\ trusted = TRUE /\ sent = 0

-----------------------------------------------------------------------------
(* The connection and the broker. Between commands, and by the loop() of a *)
(* read that went on without a connection, a new one is made.              *)
SocketOpens ==
  /\ ~open /\ (stage = "idle" \/ lost)
  /\ open' = TRUE /\ lost' = FALSE
  /\ due' = <<>> /\ trusted' = TRUE
  /\ clean' = (deque = <<>> /\ stage \in {"idle", "header"})
  /\ UNCHANGED <<drop, stream, stage, taken, need, accepted, overrun, sent>>

BrokerSends(p) ==
  /\ open /\ sent < MaxPackets
  /\ wire' = wire \o p
  /\ due' = Append(due, p)
  /\ sent' = sent + 1
  /\ UNCHANGED <<open, drop, deque, reader, accepted, overrun, clean, trusted>>

SocketCloses ==
  /\ open
  /\ open' = FALSE /\ wire' = <<>>
  /\ UNCHANGED <<drop, deque, reader, accepted, overrun, records>>

(* Whatever arrives is appended by the event handler that loop() calls.    *)
Arrives(k) ==
  /\ open
  /\ deque' = deque \o SubSeq(wire, 1, k)
  /\ wire' = SubSeq(wire, k + 1, Len(wire))
  /\ UNCHANGED <<open, drop, reader, accepted, overrun, records>>

(* An error of the reader reaches close(): the deque keeps its bytes.      *)
CloseOnError ==
  /\ open' = FALSE /\ wire' = <<>>
  /\ stage' = "idle" /\ taken' = <<>> /\ need' = 0 /\ lost' = FALSE
  /\ UNCHANGED <<drop, accepted, overrun, records>>

-----------------------------------------------------------------------------
(* cycle_once decodes what it has to answer, and the handler puts a zero   *)
(* behind the payload of a PUBLISH.                                        *)
DecodeError(p) ==
  LET type == TypeOf(p[1])
  IN  CASE type = PUBLISH            -> DecodePublish(p).err
        [] type \in {PUBREC, PUBREL} -> DecodeAck(p, type).err
        [] OTHER                     -> OK

Terminates(p) ==
  TypeOf(p[1]) = PUBLISH /\ Len(p) = ReadBufSize /\ DecodePublish(p).payload # <<>>

(* Between two packets: the command is done, or lwmqtt_cycle_until goes on *)
(* to the next one, connected or not.                                      *)
PacketDone ==
  /\ taken' = <<>> /\ need' = 0
  /\ \/ stage' = "idle" /\ lost' = FALSE
     \/ stage' = "header" /\ lost' = ~open
  /\ due' = IF due = <<>> THEN <<>> ELSE Tail(due)

Accept(p) ==
  /\ accepted' = p
  /\ overrun' = (overrun \/ Terminates(p))
  /\ trusted' = (trusted /\ due # <<>> /\ p = Head(due))
  /\ PacketDone
  /\ UNCHANGED <<open, drop, wire, clean, sent>>

Finish(p) == IF DecodeError(p) = OK THEN Accept(p) ELSE CloseOnError

(* update() found bytes, or a command waits for its answer.                *)
StartRead ==
  /\ open /\ stage = "idle"
  /\ stage' = "header"
  /\ UNCHANGED <<open, drop, stream, taken, need, lost, accepted, overrun, records>>

ReadHeader ==
  /\ stage = "header" /\ deque # <<>>
  /\ deque' = Tail(deque)
  /\ IF DetectPacketType(Head(deque)).err = OK
     THEN /\ stage' = "length" /\ taken' = <<Head(deque)>> /\ lost' = ~open
          /\ UNCHANGED <<open, drop, wire, need, accepted, overrun, records>>
     ELSE CloseOnError

Overflows(total) == total > ReadBufSize

(* One digit more; then the packet is skipped, refused, complete, or its   *)
(* body is read.                                                           *)
ReadLength ==
  /\ stage = "length" /\ deque # <<>>
  /\ deque' = Tail(deque)
  /\ \E t \in {Append(taken, Head(deque))} :
     \E d \in {DetectRemainingLength(Tail(t))} :
     LET total == Len(t) + d.val
     IN  CASE d.err = "BUFFER_TOO_SHORT" ->
                /\ taken' = t /\ lost' = ~open
                /\ UNCHANGED <<open, drop, wire, stage, need, accepted, overrun, records>>
           [] d.err = OK /\ Overflows(total) /\ drop ->
                /\ stage' = "drain" /\ taken' = t /\ need' = d.val /\ lost' = ~open
                /\ UNCHANGED <<open, drop, wire, accepted, overrun, records>>
           [] d.err = OK /\ ~Overflows(total) /\ d.val > 0 ->
                /\ stage' = "body" /\ taken' = t /\ need' = d.val /\ lost' = ~open
                /\ UNCHANGED <<open, drop, wire, accepted, overrun, records>>
           [] d.err = OK /\ ~Overflows(total) /\ d.val = 0 -> Finish(t)
           [] OTHER -> CloseOnError

(* The body is taken in one piece, once all of it is there.                *)
ReadBody ==
  /\ stage = "body" /\ Len(deque) >= need
  /\ deque' = SubSeq(deque, need + 1, Len(deque))
  /\ \E p \in {taken \o SubSeq(deque, 1, need)} : Finish(p)

Drained(k) ==
  IF k = need
  THEN PacketDone
  ELSE need' = need - k /\ lost' = ~open /\ UNCHANGED <<stage, taken, due>>
Drain ==
  LET k == Min({need, ReadBufSize}) IN
  /\ stage = "drain" /\ Len(deque) >= k
  /\ deque' = SubSeq(deque, k + 1, Len(deque))
  /\ Drained(k)
  /\ UNCHANGED <<open, drop, wire, accepted, overrun, clean, trusted, sent>>

(* Out of time: before the header nothing is lost, and it is no error.     *)
NothingRead ==
  /\ stage = "header"
  /\ stage' = "idle" /\ lost' = FALSE
  /\ UNCHANGED <<open, drop, stream, taken, need, accepted, overrun, records>>

GiveUpQuietly == \* mutant
  /\ stage' = "idle" /\ taken' = <<>> /\ need' = 0 /\ lost' = FALSE
  /\ UNCHANGED <<open, drop, stream, accepted, overrun, records>>
RunsOutOfTime == stage \in {"length", "body", "drain"} /\ CloseOnError /\ UNCHANGED deque

Wanted ==
  CASE stage \in {"header", "length"} -> 1
    [] stage = "body"  -> need
    [] stage = "drain" -> Min({need, ReadBufSize})
    [] OTHER        -> 0
ReadFails == ~open /\ Len(deque) < Wanted /\ CloseOnError /\ UNCHANGED deque

ReaderStep == ReadHeader \/ ReadLength \/ ReadBody \/ Drain \/ NothingRead
              \/ RunsOutOfTime \/ ReadFails

FramingNext ==
  \/ SocketOpens \/ SocketCloses
  \/ \E p \in BrokerPackets : BrokerSends(p)
  \/ \E k \in 1..Len(wire) : Arrives(k)
  \/ StartRead
  \/ ReaderStep

FramingSpec == FramingInit /\ [][FramingNext]_framingVars

-----------------------------------------------------------------------------
FramingTypeOK ==
  /\ open \in BOOLEAN /\ drop \in BOOLEAN
  /\ lost \in BOOLEAN /\ overrun \in BOOLEAN /\ clean \in BOOLEAN /\ trusted \in BOOLEAN
  /\ stage \in {"idle", "header", "length", "body", "drain"}
  /\ \A s \in {wire, deque, taken, accepted} : \A i \in DOMAIN s : s[i] \in 0..Byte - 1
  /\ need \in Nat /\ sent \in 0..MaxPackets
  /\ stage = "body" => Len(taken) + need <= ReadBufSize

(* On a connection made when the client held nothing of an older one, the  *)
(* deque being empty and the reader not in the middle of a packet, the     *)
(* bytes the reader holds, the deque and the wire are at every moment      *)
(* exactly the packets still due, and every packet accepted was the next   *)
(* one the broker sent: no error path, late piece or oversized packet,     *)
(* dropped or not, leaves the reader in the middle of one.                 *)
Held ==
  IF stage = "drain"
  THEN /\ due # <<>>
       /\ deque \o wire = SubSeq(Head(due), Len(Head(due)) - need + 1, Len(Head(due)))
                           \o FlattenSeq(Tail(due))
  ELSE taken \o deque \o wire = FlattenSeq(due)
FramingInStep == clean => trusted /\ (open => Held)

(* lwmqtt.h:11 asks the caller to "close and cleanup the current           *)
(* connection and start over by creating a new connection": what is        *)
(* accepted on a connection was sent on it.                                *)
StartsOver == trusted

(* README.md:183 says how large the receive buffer is: nothing is stored   *)
(* behind its end, the zero that ends a payload included.                  *)
StoredInBuffer == ~overrun
=============================================================================
