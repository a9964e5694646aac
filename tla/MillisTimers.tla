----------------------------- MODULE MillisTimers -----------------------------
(***************************************************************************)
(* The deadlines of the MQTT and WebSocket clients. millis() counts        *)
(* milliseconds in 32 bits and wraps every 49 days; the code compares      *)
(* deadlines with it in three ways: the timer given to lwmqtt computes the *)
(* difference with a branch for the wrap, the loops of PubSubClient and    *)
(* the handshake compare with a sum, and the rest of the WebSocket client  *)
(* subtracts. One wait of any kind is begun at any time and looked at at   *)
(* any later one.                                                          *)
(***************************************************************************)
EXTENDS Integers

CONSTANTS
  Half,     \* half the range of millis(), 2^31 in the program
  Timeouts  \* the timeouts in use, in milliseconds

ASSUME ClockAssumption ==
  /\ Half \in Nat \ {0}
  /\ Timeouts \subseteq 0..Half - 1

Word == 2 * Half \* the range of uint32_t

VARIABLES
  now,        \* millis()
  start_ms,   \* when the wait began
  timeout_ms, \* how long it may last
  age         \* history: the milliseconds that have really passed since

clockVars == <<now, start_ms, timeout_ms, age>>

ClockInit ==
  /\ now \in 0..Word - 1
  /\ start_ms = now /\ age = 0
  /\ timeout_ms \in Timeouts

(* Bound: no wait is left alone for more than half the range (24 days)     *)
(* past its end.                                                           *)
Pass ==
  /\ age < timeout_ms + Half
  /\ now' = IF now = Word - 1 THEN 0 ELSE now + 1
  /\ age' = age + 1
  /\ UNCHANGED <<start_ms, timeout_ms>>

(* timer_set, and every `start = millis()` of the loops.                   *)
Set(t) ==
  /\ start_ms' = now /\ timeout_ms' = t /\ age' = 0
  /\ UNCHANGED now

ClockNext == Pass \/ \E t \in Timeouts : Set(t)
ClockSpec == ClockInit /\ [][ClockNext]_clockVars

-----------------------------------------------------------------------------
(* What the code computes, in uint32_t.                                    *)
Plus(a, b)  == IF a + b >= Word THEN a + b - Word ELSE a + b
Minus(a, b) == IF a >= b THEN a - b ELSE Word + a - b
AsInt32(u)  == IF u < Half THEN u ELSE u - Word

(* lwmqtt_arduino_timer_get: the milliseconds left.                        *)
DiffSwapped == IF now < start_ms THEN start_ms - now ELSE now - start_ms \* mutant
Diff == IF now < start_ms THEN Plus(Minus(Word - 1, start_ms), now) ELSE now - start_ms
TimerGet ==
  AsInt32(IF Diff > timeout_ms THEN Minus(0, Diff - timeout_ms) ELSE timeout_ms - Diff)

(* The loops that compare with a sum: a read goes on, connect() gives the  *)
(* socket up, update() looks at the keep-alive, a handshake is overdue.    *)
ReadGoesOn     == now < Plus(start_ms, timeout_ms)
ConnectGivesUp == now > Plus(start_ms, timeout_ms)
KeepAliveLooks == now > Plus(start_ms, timeout_ms)
HeaderOverdue  == Plus(start_ms, timeout_ms) < now

(* The loops that subtract: a TCP read or write has made no progress, the  *)
(* next attempt to connect must wait, a ping is due.                       *)
Elapsed        == Minus(now, start_ms)
TcpOverdue     == Elapsed > timeout_ms
ReconnectWaits == Elapsed < timeout_ms
PingIsDue      == Elapsed > timeout_ms

-----------------------------------------------------------------------------
ClockTypeOK ==
  /\ now \in 0..Word - 1 /\ start_ms \in 0..Word - 1
  /\ timeout_ms \in Timeouts
  /\ age \in 0..timeout_ms + Half

Wrapped == now < start_ms

(* Across the wrap of millis() a timer of lwmqtt is at most one            *)
(* millisecond late and never early: the roll-over branch computes one     *)
(* millisecond less than has passed.                                       *)
TimerLateByOneAtMost ==
  TimerGet = timeout_ms - age + (IF Wrapped THEN 1 ELSE 0)

(* A wait that subtracts is exact on both sides of the wrap.               *)
ElapsedExact ==
  /\ TcpOverdue <=> age > timeout_ms
  /\ ReconnectWaits <=> age < timeout_ms
  /\ PingIsDue <=> age > timeout_ms

(* A wait that compares with a sum is exact when sum and clock have both   *)
(* wrapped or neither has. Before the clock follows a sum that has wrapped *)
(* the wait is over at once, too early; once the clock has wrapped and the *)
(* sum has not it goes on, too late.                                       *)
SumWraps == start_ms + timeout_ms >= Word
SumsOffAtTheWrap ==
  /\ SumWraps = Wrapped =>
       /\ ReadGoesOn <=> age < timeout_ms
       /\ ConnectGivesUp <=> age > timeout_ms
       /\ KeepAliveLooks <=> age > timeout_ms
       /\ HeaderOverdue <=> age > timeout_ms
  /\ SumWraps /\ ~Wrapped =>
       age < timeout_ms /\ ~ReadGoesOn /\ ConnectGivesUp /\ KeepAliveLooks /\ HeaderOverdue
  /\ ~SumWraps /\ Wrapped =>
       age > timeout_ms /\ ReadGoesOn /\ ~ConnectGivesUp /\ ~KeepAliveLooks /\ ~HeaderOverdue

(* When each deadline is passed, for a wait begun at any time and looked   *)
(* at at any later one: lwmqtt's timers are late by the one millisecond of *)
(* their roll-over branch, the subtractions are exact, and the sums are    *)
(* wrong, early or missed, just while one of sum and clock has wrapped.    *)
DeadlineErrors == TimerLateByOneAtMost /\ ElapsedExact /\ SumsOffAtTheWrap

(* lwmqtt.h:418: keep_alive must be called at a rate a little below a      *)
(* quarter of the keep-alive. update() calls it when the interval has      *)
(* passed since the last call. Half the range of the clock later, beyond a *)
(* quarter of any keep-alive of 16 bits, an update() that has not called   *)
(* it since calls it.                                                      *)
KeepAliveIsCalled == age >= Half => KeepAliveLooks
=============================================================================
