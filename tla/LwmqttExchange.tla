---------------------------- MODULE LwmqttExchange ----------------------------
(***************************************************************************)
(* One packet on its way: it is encoded by either side, the connection may *)
(* be lost before its last bytes arrive, and it is decoded. The client     *)
(* encodes with lwmqtt; the broker's packets are the MQTT 3.1.1 ones. The  *)
(* remaining length every packet has is also sent alone, as a number of    *)
(* any size a packet could announce.                                       *)
(***************************************************************************)
EXTENDS LwmqttPackets

CONSTANTS
  BufferSize,  \* bytes in the write buffer (MQTT_MAX_PACKET_SIZE)
  Publishes,   \* [dup, id, topic, qos, retained, payload]
  Connects,    \* [options, will]
  Filters,     \* sequences of [topic, qos]
  Subacks,     \* [id, codes]
  Acks,        \* [type, id]
  Connacks,    \* [present, code]
  Numbers,     \* remaining lengths
  Asked        \* filters in the SUBSCRIBE that a SUBACK answers

(* Strings have a length of 16 bits. PubSubClient::connect passes a        *)
(* password only together with a user name, and a broker grants something  *)
(* to every filter in a packet of a length that can be announced.          *)
Strings == {s \in Seq(0..Byte - 1) : Len(s) < Word16}
ASSUME ExchangeAssumption ==
  /\ Digit >= 128 \* a packet type and its flags fit into a byte
  /\ BufferSize \in Nat /\ Asked \in Nat /\ Numbers \subseteq Nat
  /\ \A p \in Publishes :
       /\ p.dup \in BOOLEAN /\ p.retained \in BOOLEAN /\ p.qos \in 0..2
       /\ p.id \in 0..Word16 - 1 /\ p.topic \in Strings /\ p.payload \in Seq(0..Byte - 1)
  /\ \A c \in Connects :
       LET o == c.options IN
       /\ o.clientId \in Strings /\ o.username \in Strings /\ o.password \in Strings
       /\ o.clean \in BOOLEAN /\ o.keepAlive \in 0..Word16 - 1
       /\ o.username = <<>> => o.password = <<>>
       /\ c.will # <<>> =>
            LET w == c.will[1] IN
            /\ w.topic \in Strings /\ w.payload \in Strings
            /\ w.qos \in 0..2 /\ w.retained \in BOOLEAN
  /\ \A f \in Filters : f \in Seq([topic : Strings, qos : 0..2])
  /\ \A a \in Acks : a.type \in {PUBACK, PUBREC, PUBREL, PUBCOMP, UNSUBACK} /\ a.id \in 0..Word16 - 1
  /\ \A c \in Connacks : c.present \in BOOLEAN /\ c.code \in 0..Byte - 1
  /\ \A s \in Subacks :
       /\ s.id \in 0..Word16 - 1 /\ s.codes \in Seq(0..Byte - 1) \ {<<>>}
       /\ 2 + Len(s.codes) < Weight[5]

VARIABLES
  packet,  \* the packet, with its kind, or none
  encoded, \* what the encoder returned
  cut      \* bytes lost at its end

exchangeVars == <<packet, encoded, cut>>

PublishMessage(p) ==
  LET head == EncodePublish(BufferSize, p.dup, p.id, p.topic,
                [qos |-> p.qos, retained |-> p.retained, len |-> Len(p.payload)])
  IN  IF head.err = OK THEN [head EXCEPT !.bytes = @ \o p.payload] ELSE head

(* What a broker puts into the acknowledgements the client decodes.        *)
FromBroker(bytes) == [err |-> OK, bytes |-> bytes]
ConnackBytes(c) == FromBroker(<<Header(CONNACK, 0), 2, Bit(c.present), c.code>>)
SubackBytes(s) ==
  FromBroker(<<Header(SUBACK, 0)>> \o VarnumBytes(2 + Len(s.codes)) \o NumBytes(s.id) \o s.codes)

Nothing == [kind |-> "NONE", body |-> <<>>]

ExchangeInit == packet = Nothing /\ encoded = Fail("NONE") /\ cut = 0

Send(kind, body, result) ==
  /\ packet = Nothing
  /\ packet' = [kind |-> kind, body |-> body]
  /\ encoded' = result
  /\ cut' = 0

SendPublish(p) == Send("PUBLISH", p, PublishMessage(p))
SendConnect(c) == Send("CONNECT", c, EncodeConnect(BufferSize, c.options, c.will))
SendSubscribe(id, f) == Send("SUBSCRIBE", f, EncodeSubscribe(BufferSize, id, f))
SendUnsubscribe(id, f) == Send("UNSUBSCRIBE", f, EncodeUnsubscribe(BufferSize, id, f))
SendAck(a) == Send("ACK", a, EncodeAck(BufferSize, a.type, a.id))
SendZero(type) == Send("ZERO", type, EncodeZero(BufferSize, type))
SendConnack(c) == Send("CONNACK", c, ConnackBytes(c))
SendSuback(s) == Send("SUBACK", s, SubackBytes(s))
SendNumber(n) ==
  LET w == WriteVarnum(Writer(5), n)
  IN  Send("NUMBER", n, IF w.err = OK THEN [err |-> OK, bytes |-> w.buf] ELSE Fail(w.err))

LoseByte ==
  /\ encoded.err = OK
  /\ cut < Len(encoded.bytes)
  /\ cut' = cut + 1
  /\ UNCHANGED <<packet, encoded>>

Done == packet # Nothing /\ packet' = Nothing /\ encoded' = Fail("NONE") /\ cut' = 0

ExchangeNext ==
  \/ \E p \in Publishes : SendPublish(p)
  \/ \E c \in Connects : SendConnect(c)
  \/ \E id \in {1, Word16 - 1}, f \in Filters : SendSubscribe(id, f)
  \/ \E id \in {1, Word16 - 1}, f \in Filters : SendUnsubscribe(id, f)
  \/ \E a \in Acks : SendAck(a)
  \/ \E type \in {PINGREQ, DISCONNECT} : SendZero(type)
  \/ \E c \in Connacks : SendConnack(c)
  \/ \E s \in Subacks : SendSuback(s)
  \/ \E n \in Numbers : SendNumber(n)
  \/ LoseByte
  \/ Done

ExchangeSpec == ExchangeInit /\ [][ExchangeNext]_exchangeVars

-----------------------------------------------------------------------------
Wire == SubSeq(encoded.bytes, 1, Len(encoded.bytes) - cut)
Whole == encoded.err = OK /\ cut = 0

(* What the decoder of that kind of packet makes of the bytes that arrive. *)
Received ==
  CASE packet.kind = "PUBLISH" -> DecodePublish(Wire)
    [] packet.kind = "ACK"     -> DecodeAck(Wire, packet.body.type)
    [] packet.kind = "CONNACK" -> DecodeConnack(Wire)
    [] packet.kind = "SUBACK"  -> DecodeSuback(Wire, Asked)
    [] packet.kind = "NUMBER"  -> DetectRemainingLength(Wire)
    [] OTHER                   -> Fail("NO_DECODER")
Decodes == packet.kind \in {"PUBLISH", "ACK", "CONNACK", "SUBACK", "NUMBER"}

(* Every packet is a sequence of bytes, within the write buffer if lwmqtt  *)
(* encoded all of it.                                                      *)
ExchangeTypeOK ==
  encoded.err = OK =>
    /\ encoded.bytes \in Seq(0..Byte - 1)
    /\ cut \in 0..Len(encoded.bytes)
    /\ packet.kind \in {"CONNECT", "SUBSCRIBE", "UNSUBSCRIBE", "ACK", "ZERO"}
         => Len(encoded.bytes) <= BufferSize

(* The remaining length that an encoder computes before it writes anything *)
(* is the number of bytes it, and the payload, then put behind it: if not, *)
(* the broker takes what follows for another packet.                       *)
AnnouncedLength ==
  Whole /\ packet.kind # "NUMBER" =>
    LET n == Opened(encoded.bytes) IN n.err = OK /\ n.val = Len(n.rest)

(* What one side encodes is what the other decodes: the bits of a PUBLISH  *)
(* header, its topic, packet id and payload, and the codes of every        *)
(* acknowledgement, a code the client does not know included.              *)
ReadAsEncoded ==
  Whole /\ Decodes =>
    LET b == packet.body IN
    CASE packet.kind = "PUBLISH" ->
           Received = [err |-> OK, dup |-> b.dup, qos |-> b.qos, retained |-> b.retained,
                       id |-> IF b.qos = 0 THEN 0 ELSE b.id,
                       topic |-> b.topic, payload |-> b.payload]
      [] packet.kind = "ACK"     -> Received = [err |-> OK, id |-> b.id]
      [] packet.kind = "CONNACK" -> Received.present = b.present
                                    /\ (Received.code = 0 <=> b.code = 0)
      [] packet.kind = "SUBACK"  ->
           Len(b.codes) <= Asked =>
             /\ Received.err = OK /\ Received.id = b.id
             /\ \A i \in DOMAIN b.codes :
                  Received.granted[i] = IF b.codes[i] \in 0..2 THEN b.codes[i] ELSE 128
      [] packet.kind = "NUMBER"  ->
           /\ Received = [err |-> OK, val |-> b]
           /\ ReadVarnum(Reader(Append(Wire, Digit))).rest = <<Digit>>

(* Encoders decide by varnum_length alone whether a packet can be written: *)
(* a length it lets through is written, within as many bytes, and it       *)
(* refuses a single length, the last, that could be.                       *)
LengthIsSafe ==
  packet.kind = "NUMBER" =>
    LET n == packet.body IN
    /\ VarnumLength(n) < 5 => encoded.err = OK /\ Len(encoded.bytes) <= VarnumLength(n)
    /\ VarnumLength(n) = 5 => n + 1 >= Weight[5]
    /\ encoded.err = OK <=> n < Weight[5]

(* A packet of which the last bytes are missing is never taken for a whole *)
(* one: not even a PUBLISH that lost only payload, or a length that lost   *)
(* its last digit.                                                         *)
CutIsRefused == encoded.err = OK /\ cut > 0 /\ Decodes => Received.err # OK

(* A packet survives its way through the codec: what is read is what was   *)
(* encoded, its length is the one announced, and nothing less than the     *)
(* whole of it is read.                                                    *)
Survives == AnnouncedLength /\ ReadAsEncoded /\ LengthIsSafe /\ CutIsRefused

(* packet.h:163 calls max_count "the maximum number of members allowed in  *)
(* the granted_qos_levels array": a decoded SUBACK never stores more.      *)
GrantedWithinArray ==
  Whole /\ packet.kind = "SUBACK" =>
    ("granted" \in DOMAIN Received => Len(Received.granted) <= Asked)

(* helpers.h:108 says of varnum_length that it "Returns the amount of      *)
(* bytes required by the variable number": as many as are written.         *)
LengthPredicted ==
  packet.kind = "NUMBER" /\ encoded.err = OK =>
    VarnumLength(packet.body) = Len(encoded.bytes)

(* packet.c:190 says "write password if present": a CONNECT with a         *)
(* password carries it, and has the length it announces.                   *)
PasswordWritten ==
  Whole /\ packet.kind = "CONNECT" /\ packet.body.options.password # <<>> =>
    IsSuffix(StringBytes(packet.body.options.password), encoded.bytes)
=============================================================================
