----------------------------- MODULE LwmqttPackets -----------------------------
(***************************************************************************)
(* The packet codec of lwmqtt (helpers.c, packet.c, string.c) as functions *)
(* from packets to sequences of bytes and back.                            *)
(*                                                                         *)
(* A write cursor is what has been written into a buffer of a given size,  *)
(* a read cursor is what is left to be read; both carry the error the C    *)
(* functions return early with. Digit is the base of a variable-length     *)
(* number, 128 in the code: a byte is one digit and a continuation bit.    *)
(***************************************************************************)
EXTENDS Integers, FiniteSetsExt, SequencesExt

CONSTANT Digit

ASSUME DigitAssumption == Digit \in Nat /\ Digit > 1

Byte   == 2 * Digit     \* values of a byte
Word16 == Byte * Byte   \* values of a uint16_t

(* lwmqtt_packet_type_t                                                    *)
CONNECT == 1
CONNACK == 2
PUBLISH == 3
PUBACK == 4
PUBREC == 5
PUBREL == 6
PUBCOMP == 7
SUBSCRIBE == 8
SUBACK == 9
UNSUBSCRIBE == 10
UNSUBACK == 11
PINGREQ == 12
PINGRESP == 13
DISCONNECT == 14
Receivable == {CONNACK, PUBLISH, PUBACK, PUBREC, PUBREL, PUBCOMP, SUBACK,
               UNSUBACK, PINGRESP}

OK == "SUCCESS"
Fail(e) == [err |-> e]

-----------------------------------------------------------------------------
(* Strings: a C string becomes a length of 16 bits and its data, so a      *)
(* string of 65536 bytes is taken for an empty one.                        *)
LwmqttString(s) == SubSeq(s, 1, Len(s) % Word16)
LwmqttStrcmp(a, s) == a = LwmqttString(s)

(* Writing: each lwmqtt_write_* refuses what the buffer has no room for,   *)
(* and nothing more is written after an error.                             *)
Writer(size) == [err |-> OK, size |-> size, buf |-> <<>>]
WriteData(w, bytes) ==
  CASE w.err # OK -> w
    [] w.err = OK /\ w.size < Len(w.buf) + Len(bytes) -> [w EXCEPT !.err = "BUFFER_TOO_SHORT"]
    [] OTHER -> [w EXCEPT !.buf = @ \o bytes]
WriteByte(w, b) == WriteData(w, <<b>>)
NumBytes(n) == <<n \div Byte, n % Byte>>
StringBytes(s) == NumBytes(Len(s)) \o s

(* Reading: `val` is what the last read returned; no data is read past an  *)
(* error, and none of a value that is not there in full.                   *)
Reader(bytes) == [err |-> OK, rest |-> bytes, val |-> 0]
ReadData(r, n) ==
  CASE r.err # OK -> r
    [] r.err = OK /\ Len(r.rest) < n -> [r EXCEPT !.err = "BUFFER_TOO_SHORT", !.val = 0]
    [] OTHER -> [r EXCEPT !.rest = SubSeq(@, n + 1, Len(@)), !.val = SubSeq(r.rest, 1, n)]
ReadByte(r) ==
  LET d == ReadData(r, 1) IN IF d.err = OK THEN [d EXCEPT !.val = d.val[1]] ELSE d
ReadNum(r) ==
  LET d == ReadData(r, 2)
  IN  IF d.err = OK THEN [d EXCEPT !.val = Byte * d.val[1] + d.val[2]] ELSE d
ReadString(r) == LET n == ReadNum(r) IN IF n.err = OK THEN ReadData(n, n.val) ELSE n

(* A decoder makes its checks in order and reports the first that fails.   *)
Needs(condition, e) == IF condition THEN OK ELSE e
FirstError(errs) ==
  LET bad == {i \in DOMAIN errs : errs[i] # OK} IN IF bad = {} THEN OK ELSE errs[Min(bad)]
Decoded(errs, result) == IF FirstError(errs) = OK THEN result ELSE Fail(FirstError(errs))

-----------------------------------------------------------------------------
(* Variable-length numbers: digits from the lowest, all but the last with  *)
(* the continuation bit. More than four digits is an overflow.             *)
Weight == <<1, Digit, Digit * Digit, Digit * Digit * Digit, Digit * Digit * Digit * Digit>>

(* What is left of a number as its digits are taken off, and how many of   *)
(* them it takes until nothing is left.                                    *)
Shifted(n) ==
  LET a == n \div Digit
      b == a \div Digit
      c == b \div Digit
  IN  <<n, a, b, c, c \div Digit>>
Digits(n) == Min({k \in 1..4 : Shifted(n)[k + 1] = 0} \cup {5})

(* varnum_length predicts the digits; its last two limits are one too low. *)
VarnumLength(n) ==
  Min({k \in 1..2 : n < Weight[k + 1]} \cup {k \in 3..4 : n < Weight[k + 1] - 1} \cup {5})

VarnumBytes(n) ==
  [i \in 1..Digits(n) |-> (Shifted(n)[i] % Digit) + (IF i < Digits(n) THEN Digit ELSE 0)]

WriteVarnum(w, n) ==
  LET room == w.size - Len(w.buf)
  IN  CASE w.err # OK -> w
        [] w.err = OK /\ room < Min({Digits(n), 4}) -> [w EXCEPT !.err = "BUFFER_TOO_SHORT"]
        [] w.err = OK /\ room >= 4 /\ Digits(n) > 4 -> [w EXCEPT !.err = "VARNUM_OVERFLOW"]
        [] OTHER -> WriteData(w, VarnumBytes(n))

Worth(bytes, i) == IF i <= Len(bytes) THEN (bytes[i] % Digit) * Weight[i] ELSE 0
Value(bytes) == Worth(bytes, 1) + Worth(bytes, 2) + Worth(bytes, 3) + Worth(bytes, 4)

(* The bytes up to the first without the continuation bit. A fifth byte is *)
(* asked for before the overflow is seen.                                  *)
ReadVarnum(r) ==
  LET len == Min({i \in 1..4 : i <= Len(r.rest) /\ r.rest[i] < Digit} \cup {5})
  IN  CASE r.err # OK -> r
        [] r.err = OK /\ len = 5 /\ Len(r.rest) < 5 -> [r EXCEPT !.err = "BUFFER_TOO_SHORT"]
        [] r.err = OK /\ len = 5 /\ Len(r.rest) >= 5 -> [r EXCEPT !.err = "VARNUM_OVERFLOW"]
        [] OTHER -> [ReadData(r, len) EXCEPT !.val = Value(SubSeq(r.rest, 1, len))]

DetectRemainingLength(bytes) ==
  LET n == ReadVarnum(Reader(bytes))
  IN  CASE n.err = OK -> [err |-> OK, val |-> n.val]
        [] n.err = "VARNUM_OVERFLOW" -> [err |-> "REMAINING_LENGTH_OVERFLOW", val |-> 0]
        [] OTHER -> [err |-> n.err, val |-> 0]

(* The header byte: the type in the upper four bits, and for a PUBLISH the *)
(* bits DUP, QoS and RETAIN below.                                         *)
Header(type, flags) == type * 16 + flags
TypeOf(header) == header \div 16
Bit(b) == IF b THEN 1 ELSE 0
Bits(byte, pos, num) == (byte \div 2^pos) % 2^num

DetectPacketType(header) ==
  IF TypeOf(header) \in Receivable
  THEN [err |-> OK, type |-> TypeOf(header)]
  ELSE Fail("MISSING_OR_WRONG_PACKET")

-----------------------------------------------------------------------------
(* Encoders: the header, the remaining length computed beforehand, and the *)
(* fields. A field that has no room ends it with the same error wherever   *)
(* it stands, so the fields are written as one.                            *)
Encode(size, header, remLen, fields) ==
  IF VarnumLength(remLen) = 5
  THEN Fail("REMAINING_LENGTH_OVERFLOW")
  ELSE LET w == WriteData(WriteVarnum(WriteByte(Writer(size), header), remLen), fields)
       IN  IF w.err = OK THEN [err |-> OK, bytes |-> w.buf] ELSE Fail(w.err)

EncodeZero(size, type) == Encode(size, Header(type, 0), 0, <<>>)

EncodeAck(size, type, id) ==
  Encode(size, Header(type, IF type = PUBREL THEN 2 ELSE 0), 2, NumBytes(id))

(* The will is a sequence of no or one record. The password is announced   *)
(* in the flags and in the length whenever there is one, but written only  *)
(* when there is a user name too.                                          *)
EncodeConnect(size, o, will) ==
  LET named  == o.username # <<>> \/ o.password # <<>>
      secret == o.password # <<>>
      remLen == 10 + Len(o.clientId) + 2
                + (IF will # <<>> THEN Len(will[1].topic) + 2 + Len(will[1].payload) + 2 ELSE 0)
                + (IF named THEN Len(o.username) + 2 ELSE 0)
                + (IF secret THEN Len(o.password) + 2 ELSE 0)
      flags  == 2 * Bit(o.clean) + 64 * Bit(secret) + 128 * Bit(named)
                + (IF will # <<>> THEN 4 + 8 * will[1].qos + 32 * Bit(will[1].retained) ELSE 0)
  IN  Encode(size, Header(CONNECT, 0), remLen,
        StringBytes(<<77, 81, 84, 84>>) \o <<4, flags>> \o NumBytes(o.keepAlive)
        \o StringBytes(o.clientId)
        \o (IF will # <<>> THEN StringBytes(will[1].topic) \o StringBytes(will[1].payload) ELSE <<>>)
        \o (IF named THEN StringBytes(o.username) ELSE <<>>)
        \o (IF secret /\ o.username # <<>> THEN StringBytes(o.password) ELSE <<>>))

(* Only the head of a PUBLISH is encoded: the payload is sent after it.    *)
EncodePublish(size, dup, id, topic, m) ==
  Encode(size, Header(PUBLISH, 8 * Bit(dup) + 2 * m.qos + Bit(m.retained)),
         2 + Len(topic) + m.len + (IF m.qos > 0 THEN 2 ELSE 0),
         StringBytes(topic) \o (IF m.qos > 0 THEN NumBytes(id) ELSE <<>>))

(* filters: a sequence of [topic, qos], whose lengths are added up before  *)
(* they are written.                                                       *)
Total(lengths) ==
  LET total[i \in 0..Len(lengths)] == IF i = 0 THEN 0 ELSE total[i - 1] + lengths[i]
  IN  total[Len(lengths)]

EncodeSubscribe(size, id, filters) ==
  Encode(size, Header(SUBSCRIBE, 2),
         2 + Total([i \in DOMAIN filters |-> 2 + Len(filters[i].topic) + 1]),
         NumBytes(id) \o FlattenSeq([i \in DOMAIN filters |->
                           Append(StringBytes(filters[i].topic), filters[i].qos)]))

EncodeUnsubscribe(size, id, filters) ==
  Encode(size, Header(UNSUBSCRIBE, 2),
         2 + Total([i \in DOMAIN filters |-> 2 + Len(filters[i].topic)]),
         NumBytes(id) \o FlattenSeq([i \in DOMAIN filters |-> StringBytes(filters[i].topic)]))

-----------------------------------------------------------------------------
(* Decoders: they share the header and the remaining length.               *)
Opened(buf) == ReadVarnum(ReadByte(Reader(buf)))
OpenErrors(buf, type) ==
  LET h == ReadByte(Reader(buf))
  IN  <<h.err, Needs(TypeOf(h.val) = type, "MISSING_OR_WRONG_PACKET"), Opened(buf).err>>

DecodeConnack(buf) ==
  LET n     == Opened(buf)
      flags == ReadByte(n)
      code  == ReadByte(flags)
  IN  Decoded(OpenErrors(buf, CONNACK)
                \o <<Needs(n.val = 2, "REMAINING_LENGTH_MISMATCH"), flags.err, code.err>>,
              [err |-> OK, present |-> Bits(flags.val, 0, 1) = 1, code |-> Min({code.val, 6})])

DecodeAck(buf, type) ==
  LET n  == Opened(buf)
      id == ReadNum(n)
  IN  Decoded(OpenErrors(buf, type)
                \o <<Needs(n.val = 2, "REMAINING_LENGTH_MISMATCH"), id.err>>,
              [err |-> OK, id |-> id.val])

(* QoS 3 is read as 0. The body ends where the remaining length says.      *)
QosOf(header) == LET q == Bits(header, 1, 2) IN IF q = 3 THEN 0 ELSE q
PublishIn(buf, body) ==
  LET topic == ReadString(body)
      id    == IF QosOf(buf[1]) > 0 THEN ReadNum(topic) ELSE [topic EXCEPT !.val = 0]
  IN  Decoded(<<topic.err, id.err>>,
              [err |-> OK, dup |-> Bits(buf[1], 3, 1) = 1, qos |-> QosOf(buf[1]),
               retained |-> Bits(buf[1], 0, 1) = 1, id |-> id.val,
               topic |-> topic.val, payload |-> id.rest])
DecodePublishToTheEnd(buf) == PublishIn(buf, Opened(buf)) \* mutant
DecodePublish(buf) ==
  LET n == Opened(buf)
  IN  Decoded(OpenErrors(buf, PUBLISH)
                \o <<Needs(n.val >= 2, "REMAINING_LENGTH_MISMATCH"),
                     Needs(Len(n.rest) >= n.val, "BUFFER_TOO_SHORT")>>,
              PublishIn(buf, [n EXCEPT !.rest = SubSeq(@, 1, n.val)]))

(* The codes are stored one by one until the announced ones are done, the  *)
(* array is found full, or the buffer ends; the check for a full array     *)
(* lets one code more through.                                             *)
Granted(code) == IF code \in 0..2 THEN code ELSE 128
DecodeSuback(buf, max) ==
  LET n      == Opened(buf)
      id     == ReadNum(n)
      codes  == n.val - 2
      stored == Min({codes, max + 1, Len(id.rest)})
      errs   == OpenErrors(buf, SUBACK)
                  \o <<Needs(n.val >= 3, "REMAINING_LENGTH_MISMATCH"), id.err>>
      full   == FirstError(<<Needs(codes <= max + 1 \/ stored <= max, "SUBACK_ARRAY_OVERFLOW"),
                             Needs(codes = stored, "BUFFER_TOO_SHORT")>>)
  IN  Decoded(errs, [err |-> full, id |-> id.val,
                     granted |-> [i \in 1..stored |-> Granted(id.rest[i])]])
=============================================================================
