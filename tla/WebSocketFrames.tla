--------------------------- MODULE WebSocketFrames ---------------------------
(***************************************************************************)
(* Frames byte for byte: WebSockets::sendFrame puts a header before a      *)
(* payload and writes both, in one write when it can copy the payload and  *)
(* in two when it cannot; a write may end short, on a connection that is   *)
(* gone or after five seconds without progress. The reader is the same     *)
(* library's handleWebsocketCb. A payload is a sequence of bits, one of    *)
(* the eight planes of its bytes, which XOR does not mix.                  *)
(***************************************************************************)
EXTENDS Integers, Sequences

CONSTANTS
  Lengths,     \* of the payloads sent
  MaxTransfers \* bound: frames on a connection

WEBSOCKETS_MAX_HEADER_SIZE == 14
WEBSOCKETS_MAX_DATA_SIZE == 15 * 1024
Packed == 1400 \* below it a payload is copied, to be sent in one TCP package

(* WSopcode_t                                                              *)
Opcodes == {0, 1, 2, 8, 9, 10}
Byte == 0..255
size_t == {n \in Nat : n \div 16777216 < 256}

ASSUME FramesAssumption == Lengths \subseteq size_t /\ MaxTransfers \in Nat

-----------------------------------------------------------------------------
(* createHeader                                                            *)
B(flag) == IF flag THEN 1 ELSE 0
LengthSize(length) == IF length < 126 THEN 0 ELSE IF length < 65535 THEN 2 ELSE 8
HeaderSize(length, mask) == 2 + LengthSize(length) + 4 * B(mask)
LengthCode(length) == CASE LengthSize(length) = 0 -> length
                        [] LengthSize(length) = 2 -> 126
                        [] OTHER                  -> 127

(* Byte i of the length, i = 0 the last: the four bytes above a size_t are *)
(* zero.                                                                   *)
Place(i) == CASE i = 0 -> 1 [] i = 1 -> 256 [] i = 2 -> 65536 [] OTHER -> 16777216
LengthByte(length, i) == IF i > 3 THEN 0 ELSE (length \div Place(i)) % 256

Header(op, length, mask, key, fin) ==
  [i \in 1..HeaderSize(length, mask) |->
     LET last == 2 + LengthSize(length) IN
     CASE i = 1              -> 128 * B(fin) + op
       [] i = 2              -> 128 * B(mask) + LengthCode(length)
       [] i \in 3..last      -> LengthByte(length, last - i)
       [] OTHER              -> key[i - last]]

(* handleWebsocketCb: what the header says, and whether the frame is       *)
(* refused with 1009. A length with one of its four high bytes set reads   *)
(* as 0xFFFFFFFF, which is refused.                                        *)
Beyond(bytes) == \E i \in 3..6 : bytes[i] # 0
PayloadLenSwapped(bytes) == \* mutant
  LET code == bytes[2] % 128 IN
  CASE code = 126 -> bytes[4] * 256 + bytes[3]
    [] code = 127 -> bytes[7] * 16777216 + bytes[8] * 65536 + bytes[9] * 256 + bytes[10]
    [] OTHER      -> code
PayloadLen(bytes) ==
  LET code == bytes[2] % 128 IN
  CASE code = 126 -> bytes[3] * 256 + bytes[4]
    [] code = 127 -> bytes[7] * 16777216 + bytes[8] * 65536 + bytes[9] * 256 + bytes[10]
    [] OTHER      -> code
Refused(bytes) == (bytes[2] % 128 = 127 /\ Beyond(bytes)) \/ PayloadLen(bytes) > WEBSOCKETS_MAX_DATA_SIZE
MaskKey(bytes) ==
  LET code == bytes[2] % 128
      at == CASE code = 126 -> 4 [] code = 127 -> 10 [] OTHER -> 2
  IN IF bytes[2] >= 128 THEN [i \in 1..4 |-> bytes[at + i]] ELSE <<>>
Decoded(bytes) == [fin |-> bytes[1] >= 128, opCode |-> bytes[1] % 16, mask |-> bytes[2] >= 128,
                   payloadLen |-> PayloadLen(bytes), maskKey |-> MaskKey(bytes)]

(* One plane of XOR with the key, over and over; 0..3 in the code.         *)
Xor(a, b) == (a + b) % 2
Masked(payload, key) == [i \in DOMAIN payload |-> Xor(payload[i], key[((i - 1) % 4) + 1])]
ZeroKey == <<0, 0, 0, 0>>

-----------------------------------------------------------------------------
VARIABLES
  transfer, \* "idle", "write" a piece, "returned"
  frame,    \* the arguments of sendFrame, and the key it drew
  pieces,   \* the sizes of the writes left
  ret,      \* its local variable, and what it returned last
  link,     \* client->tcp->connected()
  written,  \* history: bytes of this frame that were written
  frames    \* history: frames begun

frameVars == <<transfer, frame, pieces, ret, link, written, frames>>

Calls == [op : Opcodes, length : Lengths, fin : BOOLEAN, inPayload : BOOLEAN]
NoFrame == [op |-> 0, length |-> 0, fin |-> TRUE, inPayload |-> FALSE, mask |-> FALSE, key |-> ZeroKey, onePiece |-> FALSE]

FramesInit ==
  /\ transfer = "idle" /\ frame = NoFrame /\ pieces = <<>> /\ ret = TRUE
  /\ link = TRUE /\ written = 0 /\ frames = 0

(* sendFrame's own calculation of the size, and where it has createHeader  *)
(* write: room for the longest header is kept before the payload.          *)
FrameHeaderSize(length, mask) ==
  (IF length < 126 THEN 2 ELSE IF length < 65535 THEN 4 ELSE 10) + (IF mask THEN 4 ELSE 0)
HeaderOffset(length, mask) == WEBSOCKETS_MAX_HEADER_SIZE - FrameHeaderSize(length, mask)

(* The payload is copied when it is short and there is memory; only the    *)
(* copy is masked, anything else goes out under a key of zeros.            *)
Copied(call, memory) == ~call.inPayload /\ call.length \in 1..(Packed - 1) /\ memory
KeyOf(copied, mask, drawn) == IF copied /\ mask THEN drawn ELSE ZeroKey

sendFrame ==
  /\ transfer \in {"idle", "returned"} /\ frames < MaxTransfers /\ frames' = frames + 1
  /\ \E call \in Calls, mask \in BOOLEAN, memory \in BOOLEAN, drawn \in {<<1, 0, 1, 1>>, <<0, 1, 0, 0>>} :
       LET copied == Copied(call, memory)
           size == FrameHeaderSize(call.length, mask)
       IN /\ frame' = [op |-> call.op, length |-> call.length, fin |-> call.fin, inPayload |-> call.inPayload,
                       mask |-> mask, key |-> KeyOf(copied, mask, drawn), onePiece |-> (copied \/ call.inPayload)]
          /\ \/ ~link /\ transfer' = "returned" /\ ret' = FALSE /\ pieces' = <<>>
             \/ /\ link /\ transfer' = "write" /\ ret' = TRUE
                /\ pieces' = IF copied \/ call.inPayload THEN <<size + call.length>>
                             ELSE IF call.length > 0 THEN <<size, call.length>> ELSE <<size>>
  /\ written' = 0
  /\ UNCHANGED link

(* write(): how much of the piece gets out.                                *)
Outcomes(n) == IF link THEN {0, 1, n - 1, n} ELSE {0}

LastOf(before, whole) == whole \* mutant
AllOf(before, whole) == before /\ whole

write ==
  /\ transfer = "write" /\ pieces # <<>>
  /\ \E n \in Outcomes(Head(pieces)) :
       /\ written' = written + n
       /\ ret' = AllOf(ret, n = Head(pieces))
  /\ pieces' = Tail(pieces)
  /\ transfer' = IF Len(pieces) = 1 THEN "returned" ELSE "write"
  /\ UNCHANGED <<frame, link, frames>>

(* What the callers of sendFrame do with false: the MQTT client and the    *)
(* heartbeat close, and so does the frame that announces the closing.      *)
Close ==
  /\ transfer = "returned" /\ ~ret
  /\ transfer' = "idle" /\ frame' = NoFrame /\ ret' = TRUE
  /\ link' = TRUE /\ written' = 0
  /\ UNCHANGED <<pieces, frames>>

Drops == link /\ link' = FALSE /\ UNCHANGED <<transfer, frame, pieces, ret, written, frames>>

FramesNext == sendFrame \/ write \/ Close \/ Drops
FramesSpec == FramesInit /\ [][FramesNext]_frameVars

-----------------------------------------------------------------------------
Bytes == Header(frame.op, frame.length, frame.mask, frame.key, frame.fin)

FramesTypeOK ==
  /\ transfer \in {"idle", "write", "returned"} /\ ret \in BOOLEAN /\ link \in BOOLEAN
  /\ \A i \in DOMAIN Bytes : Bytes[i] \in Byte
  /\ written \in Nat /\ frames \in 0..MaxTransfers

(* sendFrame and createHeader each calculate the size of the header: the   *)
(* header ends where the payload begins, within the room kept for it.      *)
HeaderMeetsPayload ==
  /\ Len(Bytes) = FrameHeaderSize(frame.length, frame.mask)
  /\ HeaderOffset(frame.length, frame.mask) \in 0..WEBSOCKETS_MAX_HEADER_SIZE

(* What a reader makes of a header is what sendFrame was called with, and  *)
(* it refuses the frame only when the payload is too long for it.          *)
FieldsRead ==
  LET d == Decoded(Bytes) IN
  /\ d.fin = frame.fin /\ d.opCode = frame.op /\ d.mask = frame.mask /\ d.payloadLen = frame.length
  /\ frame.mask => d.maskKey = frame.key
  /\ Refused(Bytes) <=> frame.length > WEBSOCKETS_MAX_DATA_SIZE

(* The reader unmasks what the sender left as it was when it could not     *)
(* copy the payload, as well as what it masked when it could.              *)
Planes == {<<1, 1, 0, 1, 0, 1>>, <<0, 0, 1, 1, 1>>}
OnTheWire(plane) ==
  IF frame.mask /\ frame.onePiece /\ ~frame.inPayload THEN Masked(plane, frame.key) ELSE plane
PayloadSurvives ==
  frame.mask => \A plane \in Planes : Masked(OnTheWire(plane), Decoded(Bytes).maskKey) = plane

(* A frame is read as it was sent: header, fields and payload.             *)
ReadAsSent == HeaderMeetsPayload /\ FieldsRead /\ PayloadSurvives

(* "@return true if ok": a frame of which sendFrame says true is written   *)
(* whole, however often write() was cut short.                             *)
TrueMeansWhole ==
  (transfer = "returned" /\ ret) => written = FrameHeaderSize(frame.length, frame.mask) + frame.length
=============================================================================
