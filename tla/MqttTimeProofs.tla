----------------------------- MODULE MqttTimeProofs -----------------------------
(***************************************************************************)
(* The MQTT client in time.                                                *)
(*                                                                         *)
(* The deadlines of MillisTimers for a clock of any width. The invariant   *)
(* that carries them: the clock is ahead of the start of the wait by its   *)
(* age, or by its age less one turn of the clock.                          *)
(*                                                                         *)
(* The keep-alive of MqttKeepAlive for any keep-alive, gap, callback and   *)
(* broker. When update() returns the timer has not run out, from then on   *)
(* the silence grows with the gap and then with the callback that runs,    *)
(* and what the callback sends ends it. A pong is awaited exactly when one *)
(* ping is with the broker or one pong in the socket; a pong was asked for *)
(* at most as long ago as the broker takes and the frames ahead of it took *)
(* to read; and a broker that died after the last publish has been asked   *)
(* at most once since.                                                     *)
(***************************************************************************)
EXTENDS MillisTimers, MqttKeepAlive, TLAPS

AgeShows ==
  \/ now = start_ms + age
  \/ now = start_ms + age - Word

ClockInv == ClockTypeOK /\ AgeShows

LEMMA InitClock == ClockInit => ClockInv
  <1> SUFFICES ASSUME ClockInit PROVE ClockInv
    OBVIOUS
  <1>1. timeout_ms \in 0..Half - 1 /\ Half \in Nat \ {0}
    BY ClockAssumption DEF ClockInit
  <1> QED
    BY <1>1 DEF ClockInit, ClockInv, ClockTypeOK, AgeShows, Word

LEMMA StepClock == ClockInv /\ [ClockNext]_clockVars => ClockInv'
  <1> SUFFICES ASSUME ClockInv, [ClockNext]_clockVars PROVE ClockInv'
    OBVIOUS
  <1>0. timeout_ms \in 0..Half - 1 /\ Half \in Nat \ {0}
    BY ClockAssumption DEF ClockInv, ClockTypeOK
  <1>1. CASE Pass
    BY <1>0, <1>1 DEF Pass, ClockInv, ClockTypeOK, AgeShows, Word
  <1>2. ASSUME NEW t \in Timeouts, Set(t) PROVE ClockInv'
    <2>1. t \in 0..Half - 1
      BY ClockAssumption
    <2> QED
      BY <1>0, <1>2, <2>1 DEF Set, ClockInv, ClockTypeOK, AgeShows, Word
  <1>3. CASE UNCHANGED clockVars
    BY <1>3 DEF clockVars, ClockInv, ClockTypeOK, AgeShows
  <1> QED
    BY <1>1, <1>2, <1>3 DEF ClockNext

LEMMA ClockInvariance == ClockSpec => []ClockInv
  BY InitClock, StepClock, PTL DEF ClockSpec

-----------------------------------------------------------------------------
(* What the invariant says of the wait, in numbers.                        *)
LEMMA ClockFacts ==
  ASSUME ClockInv
  PROVE  /\ Half \in Nat \ {0}
         /\ timeout_ms \in 0..Half - 1
         /\ now \in 0..Word - 1 /\ start_ms \in 0..Word - 1
         /\ age \in 0..timeout_ms + Half
         /\ age < Word
         /\ ~Wrapped => now = start_ms + age
         /\ Wrapped => now = start_ms + age - Word
  BY ClockAssumption DEF ClockInv, ClockTypeOK, AgeShows, Wrapped, Word

LEMMA TimerReads == ASSUME ClockInv PROVE TimerLateByOneAtMost
  <1> DEFINE d == age - (IF Wrapped THEN 1 ELSE 0)
  <1>1. Diff = d
    BY ClockFacts DEF Diff, Plus, Minus, Wrapped, Word
  <1>2. CASE d > timeout_ms
    <2>1. Minus(0, d - timeout_ms) = Word - (d - timeout_ms)
      BY <1>2, ClockFacts DEF Minus, Word
    <2>2. AsInt32(Word - (d - timeout_ms)) = timeout_ms - d
      BY <1>2, ClockFacts DEF AsInt32, Word
    <2> QED
      BY <1>1, <1>2, <2>1, <2>2, ClockFacts DEF TimerGet, TimerLateByOneAtMost
  <1>3. CASE ~(d > timeout_ms)
    <2>1. d \in -1..timeout_ms
      BY <1>3, ClockFacts
    <2>2. ~Wrapped \/ age > 0
      BY ClockFacts DEF Wrapped, Word
    <2>3. d \in 0..timeout_ms
      BY <2>1, <2>2, ClockFacts
    <2>4. AsInt32(timeout_ms - d) = timeout_ms - d
      BY <2>3, ClockFacts DEF AsInt32
    <2> QED
      BY <1>1, <1>3, <2>3, <2>4, ClockFacts DEF TimerGet, TimerLateByOneAtMost
  <1> QED
    BY <1>2, <1>3

LEMMA ElapsedIsAge == ASSUME ClockInv PROVE Elapsed = age
  BY ClockFacts DEF Elapsed, Minus, Wrapped, Word

-----------------------------------------------------------------------------
(* The clock and the wait keep their ranges.                               *)
THEOREM ClockTyped == ClockSpec => []ClockTypeOK
  BY ClockInvariance, PTL DEF ClockInv

(* lwmqtt's timers are never early and at most one millisecond late, for   *)
(* any wait across any wrap.                                               *)
THEOREM TimersLateByOneAtMost == ClockSpec => []TimerLateByOneAtMost
  <1>1. ClockInv => TimerLateByOneAtMost
    BY TimerReads
  <1> QED
    BY <1>1, ClockInvariance, PTL

(* The deadlines of the WebSocket client that subtract are exact.          *)
THEOREM ElapsedIsExact == ClockSpec => []ElapsedExact
  <1>1. ClockInv => ElapsedExact
    BY ElapsedIsAge, ClockFacts DEF ElapsedExact, TcpOverdue, ReconnectWaits, PingIsDue
  <1> QED
    BY <1>1, ClockInvariance, PTL

(* The deadlines that add are exact while sum and clock have both wrapped  *)
(* or neither has, passed at once while only the sum has, and missed while *)
(* only the clock has.                                                     *)
THEOREM SumsAreOffAtTheWrap == ClockSpec => []SumsOffAtTheWrap
  <1> SUFFICES ASSUME ClockInv PROVE SumsOffAtTheWrap
    BY ClockInvariance, PTL
  <1>1. Plus(start_ms, timeout_ms) = start_ms + timeout_ms - (IF SumWraps THEN Word ELSE 0)
    BY ClockFacts DEF Plus, SumWraps
  <1>2. now = start_ms + age - (IF Wrapped THEN Word ELSE 0)
    BY ClockFacts
  <1>3. SumWraps /\ ~Wrapped => age < timeout_ms /\ Plus(start_ms, timeout_ms) < now
    BY <1>1, <1>2, ClockFacts DEF SumWraps, Word
  <1>4. ~SumWraps /\ Wrapped => age > timeout_ms /\ now < Plus(start_ms, timeout_ms)
    BY <1>1, <1>2, ClockFacts DEF SumWraps, Word, Wrapped
  <1>5. SumWraps = Wrapped => Plus(start_ms, timeout_ms) - now = timeout_ms - age
    BY <1>1, <1>2, ClockFacts DEF Word, SumWraps, Wrapped
  <1>6. Plus(start_ms, timeout_ms) \in Int
    BY <1>1, ClockFacts DEF Word
  <1> QED
    BY <1>3, <1>4, <1>5, <1>6, ClockFacts
    DEF SumsOffAtTheWrap, ReadGoesOn, ConnectGivesUp, KeepAliveLooks, HeaderOverdue

(* So it is known of every deadline when it is right and how it is wrong,  *)
(* for every width of the clock, whenever a wait is begun and however late *)
(* it is looked at.                                                        *)
THEOREM DeadlineErrorsKnown == ClockSpec => []DeadlineErrors
  BY TimersLateByOneAtMost, ElapsedIsExact, SumsAreOffAtTheWrap, PTL DEF DeadlineErrors

-----------------------------------------------------------------------------
Frame == {"message", "pong"}
PongsIn(frames) == {i \in 1..Len(frames) : frames[i] = "pong"}

(* By when a pong that is the ith frame of the socket was asked for: the   *)
(* frames ahead of it were read one in a gap.                              *)
Late(i) == Delay + (MaxWaiting + 1 - i) * Gap
SinceReturn == IF at = "idle" THEN sinceUpdate ELSE 0

Ranges ==
  /\ connected \in BOOLEAN /\ awaits_pong \in BOOLEAN
  /\ closedBy \in {"nobody", "client", "broker"} /\ at \in {"idle", "callback", "checking"}
  /\ silence \in 0..KeepAlive + Gap + Callback /\ running \in 0..Callback /\ sinceUpdate \in 0..Gap
  /\ socket \in Seq(Frame)
  /\ peer.alive \in BOOLEAN /\ peer.ping \in -1..Delay
  /\ quiet \in Nat
Shaped == peer = [alive |-> peer.alive, ping |-> peer.ping]
Typed == Ranges /\ Shaped

Silent == \* how long the client has not sent
  /\ at = "idle" => silence <= KeepAlive + sinceUpdate
  /\ at # "idle" => silence <= KeepAlive + Gap + running
  /\ at # "callback" => running = 0

Asked == \* one ping, one pong
  /\ Len(socket) <= MaxWaiting + (IF PongsIn(socket) = {} THEN 0 ELSE 1)
  /\ \A i, j \in PongsIn(socket) : i = j
  /\ ~awaits_pong => PongsIn(socket) = {} /\ (peer.alive => peer.ping = NoPing)
  /\ peer.ping # NoPing => PongsIn(socket) = {}

InTime == \* the pong of a broker that lives
  peer.alive /\ awaits_pong =>
    /\ peer.ping # NoPing => silence <= peer.ping
    /\ peer.ping = NoPing =>
         /\ PongsIn(socket) # {}
         /\ at # "callback" => \A i \in PongsIn(socket) : silence <= Late(i) + SinceReturn

Counted == \* since the broker died
  ~peer.alive =>
    \/ quiet <= silence
    \/ awaits_pong /\ PongsIn(socket) = {} /\ quiet <= KeepAlive + Gap + silence

Open == closedBy = "nobody" /\ Silent /\ Asked /\ InTime /\ Counted
Closed == at = "idle" /\ running = 0 /\ sinceUpdate = 0 /\ TimeoutIsReal
KeepAliveInv == Typed /\ (connected => Open) /\ (~connected => Closed)

-----------------------------------------------------------------------------
LEMMA Times ==
  /\ KeepAlive \in Nat \ {0} /\ Gap \in Nat \ {0} /\ Callback \in Nat /\ Delay \in Nat
  /\ Patience \in Nat /\ MaxWaiting \in Nat
  BY KeepAliveAssumption

(* The socket is read in time, whatever place the pong has in it.          *)
LEMMA Places ==
  ASSUME NEW i \in 1..MaxWaiting + 1
  PROVE  /\ Late(i) \in Nat /\ Delay <= Late(i) /\ Late(i) + Gap <= KeepAlive
         /\ i > 1 => Late(i - 1) = Late(i) + Gap
  <1> DEFINE k == MaxWaiting + 1 - i
  <1>1. k \in 0..MaxWaiting /\ i = MaxWaiting + 1 - k
    BY Times
  <1> HIDE DEF k
  <1>2. k * Gap \in Nat
    BY <1>1, Times
  <1>3. k * Gap <= MaxWaiting * Gap /\ MaxWaiting * Gap \in Nat
    BY <1>1, Times
  <1>4. (MaxWaiting + 1) * Gap = MaxWaiting * Gap + Gap
    BY Times
  <1>5. (k + 1) * Gap = k * Gap + Gap
    BY <1>1, Times
  <1>6. Late(i) = Delay + k * Gap
    BY <1>1, Times DEF Late, k
  <1>7. i > 1 => Late(i - 1) = Delay + (k + 1) * Gap
    <2>1. MaxWaiting + 1 - (i - 1) = k + 1
      BY <1>1, Times
    <2> QED
      BY <2>1 DEF Late
  <1> QED
    BY <1>2, <1>3, <1>4, <1>5, <1>6, <1>7, Times, KeepAliveAssumption

LEMMA Queued ==
  ASSUME NEW s \in Seq(Frame), NEW frame \in Frame
  PROVE  /\ Append(s, frame) \in Seq(Frame) /\ Len(Append(s, frame)) = Len(s) + 1
         /\ PongsIn(Append(s, frame)) = PongsIn(s) \cup (IF frame = "pong" THEN {Len(s) + 1} ELSE {})
  BY DEF PongsIn

LEMMA Taken ==
  ASSUME NEW s \in Seq(Frame), s # <<>>
  PROVE  /\ Head(s) \in Frame /\ Tail(s) \in Seq(Frame) /\ Len(Tail(s)) = Len(s) - 1
         /\ \A i \in PongsIn(Tail(s)) : i + 1 \in PongsIn(s)
         /\ \A i \in PongsIn(s) : i > 1 => i - 1 \in PongsIn(Tail(s))
         /\ Head(s) = "pong" <=> 1 \in PongsIn(s)
         /\ PongsIn(s) \subseteq 1..Len(s) /\ PongsIn(Tail(s)) \subseteq 1..Len(s) - 1
  BY DEF PongsIn

LEMMA NothingQueued == <<>> \in Seq(Frame) /\ PongsIn(<<>>) = {} /\ Len(<<>>) = 0
  BY DEF PongsIn

LEMMA PongsInPlace == ASSUME Typed, Asked PROVE PongsIn(socket) \subseteq 1..MaxWaiting + 1
  <1>1. Len(socket) \in Nat /\ PongsIn(socket) \subseteq 1..Len(socket)
    BY DEF Typed, Ranges, PongsIn
  <1>2. Len(socket) <= MaxWaiting + 1
    BY <1>1, Times DEF Asked
  <1> QED
    BY <1>1, <1>2, Times

LEMMA InitKeepAlive == KeepAliveInit => KeepAliveInv
  <1> SUFFICES ASSUME KeepAliveInit PROVE KeepAliveInv
    OBVIOUS
  <1>1. Shaped
        /\ peer.alive = TRUE /\ peer.ping = -1
    BY DEF KeepAliveInit, Fresh, NoPing, Shaped
  <1>2. Typed
    <2>1. connected \in BOOLEAN /\ awaits_pong \in BOOLEAN /\ peer.alive \in BOOLEAN
      BY <1>1 DEF KeepAliveInit
    <2>2. peer.ping \in -1..Delay /\ silence \in 0..KeepAlive + Gap + Callback
          /\ running \in 0..Callback /\ sinceUpdate \in 0..Gap /\ quiet \in Nat /\ socket \in Seq(Frame)
      BY <1>1, Times, NothingQueued DEF KeepAliveInit
    <2> QED
      BY <1>1, <2>1, <2>2 DEF KeepAliveInit, Typed, Ranges
  <1>3. Open
    BY <1>1, Times, NothingQueued DEF KeepAliveInit, NoPing, Open, Silent, Asked, InTime, Counted
  <1> QED
    BY <1>2, <1>3 DEF KeepAliveInv, KeepAliveInit

LEMMA ReconnectInv == KeepAliveInv /\ Reconnect => KeepAliveInv'
  <1> SUFFICES ASSUME KeepAliveInv, Reconnect PROVE KeepAliveInv'
    OBVIOUS
  <1>1. Shaped'
        /\ peer'.alive = TRUE /\ peer'.ping = -1
    BY DEF Reconnect, Fresh, NoPing, Shaped
  <1>2. /\ Typed /\ at = "idle" /\ running = 0 /\ connected' /\ closedBy' = "nobody" /\ silence' = 0
        /\ ~awaits_pong' /\ awaits_pong' \in BOOLEAN /\ connected' \in BOOLEAN
        /\ sinceUpdate' = 0 /\ socket' = <<>> /\ quiet' = 0 /\ at' = "idle" /\ running' = 0
    BY DEF Reconnect, KeepAliveInv, Closed
  <1>3. Typed'
    <2>1. peer'.alive \in BOOLEAN
      BY <1>1
    <2>2. peer'.ping \in -1..Delay /\ silence' \in 0..KeepAlive + Gap + Callback
          /\ running' \in 0..Callback /\ sinceUpdate' \in 0..Gap /\ quiet' \in Nat /\ socket' \in Seq(Frame)
      BY <1>1, <1>2, Times, NothingQueued
    <2> QED
      BY <1>1, <1>2, <2>1, <2>2 DEF Typed, Ranges
  <1>4. Open'
    BY <1>1, <1>2, Times, NothingQueued DEF NoPing, Open, Silent, Asked, InTime, Counted
  <1> QED
    BY <1>2, <1>3, <1>4 DEF KeepAliveInv

LEMMA PublishInv == KeepAliveInv /\ (AppPublishes \/ CallbackReturns) => KeepAliveInv'
  <1> SUFFICES ASSUME KeepAliveInv, AppPublishes \/ CallbackReturns PROVE KeepAliveInv'
    OBVIOUS
  <1>1. /\ connected /\ Typed /\ Open
        /\ silence' = 0 /\ quiet' = 0
        /\ UNCHANGED <<connected, closedBy, awaits_pong, sinceUpdate, socket, peer>>
        /\ at' \in {"idle", "checking"} /\ running' = 0
    BY DEF AppPublishes, CallbackReturns, Sent, KeepAliveInv, Closed, Open, Silent
  <1>2. Typed' /\ Silent' /\ Asked'
    <2>1. Typed'
      <3>1. Ranges'
        BY <1>1, Times DEF Typed, Ranges
      <3> QED
        BY <1>1, <3>1 DEF Typed, Shaped
    <2>2. Silent'
      BY <1>1, <2>1, Times DEF Typed, Ranges, Silent
    <2>3. Asked'
      BY <1>1 DEF Open, Asked
    <2> QED
      BY <2>1, <2>2, <2>3
  <1>3. InTime'
    <2>1. \A i \in PongsIn(socket) : 0 <= Late(i) + SinceReturn'
      <3>1. SinceReturn' \in Nat
        BY <1>1, Times DEF Typed, Ranges, SinceReturn
      <3>2. \A i \in PongsIn(socket) : Late(i) \in Nat
        BY <1>1, PongsInPlace, Places DEF Open
      <3> QED
        BY <3>1, <3>2
    <2> QED
      BY <1>1, <2>1 DEF Typed, Ranges, Open, InTime, NoPing
  <1> QED
    BY <1>1, <1>2, <1>3 DEF KeepAliveInv, Open, Counted

LEMMA TakeInv == KeepAliveInv /\ TakeFrame => KeepAliveInv'
  <1> SUFFICES ASSUME KeepAliveInv, TakeFrame PROVE KeepAliveInv'
    OBVIOUS
  <1>1. /\ connected /\ at = "idle" /\ Typed /\ Open
        /\ running' = 0 /\ at' \in {"callback", "checking"}
        /\ UNCHANGED <<connected, closedBy, silence, sinceUpdate, peer, quiet>>
    BY DEF TakeFrame, KeepAliveInv
  <1>2. Silent'
    BY <1>1, Times DEF Typed, Ranges, Open, Silent
  <1>3. CASE socket = <<>>
    <2>1. UNCHANGED <<socket, awaits_pong>> /\ at' = "checking" /\ PongsIn(socket) = {}
      BY <1>3, NothingQueued DEF TakeFrame
    <2>2. Ranges' /\ Asked' /\ Counted'
      BY <1>1, <2>1, Times DEF Typed, Ranges, Open, Asked, Counted
    <2>4. Typed'
      BY <1>1, <2>2 DEF Typed, Shaped
    <2>3. InTime'
      BY <1>1, <2>1, Times DEF Typed, Ranges, Open, InTime
    <2> QED
      BY <1>1, <1>2, <2>2, <2>3, <2>4 DEF KeepAliveInv, Open
  <1>4. CASE socket # <<>>
    <2>1. /\ socket' = Tail(socket)
          /\ awaits_pong' = IF Head(socket) = "pong" THEN FALSE ELSE awaits_pong
          /\ Head(socket) = "pong" => at' = "checking"
      BY <1>4 DEF TakeFrame, Pongs
    <2>2. Typed'
      <3>1. socket' \in Seq(Frame) /\ awaits_pong' \in BOOLEAN
        BY <1>1, <1>4, <2>1, Taken DEF Typed, Ranges
      <3>2. Ranges'
        BY <1>1, <3>1, Times DEF Typed, Ranges
      <3> QED
        BY <1>1, <3>2 DEF Typed, Shaped
    <2>3. CASE Head(socket) = "pong"
      <3>1. PongsIn(socket) # {} /\ PongsIn(socket') = {} /\ awaits_pong /\ ~awaits_pong'
            /\ Len(socket') = Len(socket) - 1
        BY <1>1, <1>4, <2>1, <2>3, Taken DEF Typed, Ranges, Open, Asked
      <3>2. Len(socket') <= MaxWaiting /\ peer.ping = NoPing
        BY <1>1, <3>1, Times DEF Typed, Ranges, Open, Asked
      <3>3. Asked'
        BY <1>1, <3>1, <3>2, Times DEF Asked
      <3> QED
        BY <1>1, <1>2, <2>2, <3>1, <3>3 DEF KeepAliveInv, Open, Typed, Ranges, InTime, Counted
    <2>4. CASE Head(socket) # "pong"
      <3>1. /\ \A i \in PongsIn(socket) : i > 1 /\ i - 1 \in PongsIn(socket')
            /\ \A i \in PongsIn(socket') : i + 1 \in PongsIn(socket)
            /\ PongsIn(socket) \subseteq 1..Len(socket) /\ PongsIn(socket') \subseteq 1..Len(socket) - 1
            /\ Len(socket') = Len(socket) - 1 /\ Len(socket) \in Nat
            /\ UNCHANGED awaits_pong
        BY <1>1, <1>4, <2>1, <2>4, Taken DEF Typed, Ranges
      <3>2. PongsIn(socket') = {} <=> PongsIn(socket) = {}
        BY <3>1
      <3>3. \A i, j \in PongsIn(socket') : i = j
        <4>1. \A i, j \in PongsIn(socket') : i + 1 = j + 1
          BY <1>1, <3>1 DEF Open, Asked
        <4> QED
          BY <3>1, <4>1
      <3>4. Asked' /\ Counted'
        <4>1. Len(socket') <= MaxWaiting + (IF PongsIn(socket') = {} THEN 0 ELSE 1)
          BY <1>1, <3>1, <3>2, Times DEF Open, Asked
        <4> QED
          BY <1>1, <3>1, <3>2, <3>3, <4>1 DEF Open, Asked, Counted
      <3>5. ASSUME NEW i \in PongsIn(socket'), peer.alive, awaits_pong, peer.ping = NoPing
            PROVE  silence <= Late(i)
        <4>1. i + 1 \in PongsIn(socket) /\ i + 1 \in 1..MaxWaiting + 1 /\ i \in 1..MaxWaiting
          <5>1. i + 1 \in PongsIn(socket) /\ i + 1 \in 1..MaxWaiting + 1
            BY <1>1, <3>1, PongsInPlace DEF Open
          <5>2. i \in Nat /\ i >= 1
            BY <3>1
          <5> QED
            BY <5>1, <5>2, Times
        <4>2. silence <= Late(i + 1) + sinceUpdate
          BY <1>1, <3>5, <4>1 DEF Open, InTime, SinceReturn
        <4>3. Late(i) = Late(i + 1) + Gap /\ Late(i) \in Nat /\ Late(i + 1) \in Nat
          <5>1. (i + 1) - 1 = i /\ i + 1 > 1 /\ i \in 1..MaxWaiting + 1
            BY <4>1, Times
          <5> QED
            BY <4>1, <5>1, Places
        <4> QED
          <5>1. silence \in Nat /\ sinceUpdate \in Nat /\ sinceUpdate <= Gap
            BY <1>1, Times DEF Typed, Ranges
          <5> QED
            BY <4>2, <4>3, <5>1, Times
      <3>6. InTime'
        <4>1. peer.alive /\ awaits_pong =>
                /\ peer.ping # NoPing => silence <= peer.ping
                /\ peer.ping = NoPing => PongsIn(socket') # {}
          BY <1>1, <3>2 DEF Open, InTime
        <4>2. ASSUME NEW i \in PongsIn(socket'), peer.alive, awaits_pong, peer.ping = NoPing,
                     at' # "callback"
              PROVE  silence <= Late(i) + SinceReturn'
          <5>1. SinceReturn' = 0
            BY <1>1 DEF SinceReturn
          <5>2. Late(i) \in Nat
            <6>1. i + 1 \in 1..MaxWaiting + 1 /\ i \in Nat /\ i >= 1
              BY <1>1, <3>1, PongsInPlace DEF Open
            <6> QED
              BY <6>1, Places, Times
          <5> QED
            BY <3>5, <4>2, <5>1, <5>2
        <4> QED
          BY <1>1, <3>1, <4>1, <4>2 DEF InTime, Late
      <3> QED
        BY <1>1, <1>2, <2>2, <3>4, <3>6 DEF KeepAliveInv, Open
    <2> QED
      BY <2>3, <2>4
  <1> QED
    BY <1>3, <1>4

(* The timer has run out while a pong is still to come, and the broker is  *)
(* alive: that never is so when it is looked at.                           *)
LEMMA NeverOverdue ==
  ASSUME Typed, Open, at = "checking", PingDue, awaits_pong
  PROVE  ~peer.alive
  <1> SUFFICES ASSUME peer.alive PROVE FALSE
    BY DEF Typed, Ranges
  <1>1. CASE peer.ping # NoPing
    <2>1. silence <= peer.ping /\ peer.ping <= Delay /\ silence >= KeepAlive
      BY <1>1, Times DEF Typed, Ranges, Open, InTime, PingDue
    <2>2. Delay + Gap <= KeepAlive
      <3>1. 1 \in 1..MaxWaiting + 1
        BY Times
      <3> QED
        BY <3>1, Places, Times
    <2> QED
      BY <2>1, <2>2, Times DEF Typed, Ranges
  <1>2. CASE peer.ping = NoPing
    <2>1. PICK i \in PongsIn(socket) : silence <= Late(i) + SinceReturn
      BY <1>2 DEF Open, InTime
    <2>2. Late(i) \in Nat /\ Late(i) + Gap <= KeepAlive
      BY PongsInPlace, Places DEF Open
    <2>3. SinceReturn = 0 /\ silence >= KeepAlive
      BY DEF SinceReturn, PingDue
    <2> QED
      BY <2>1, <2>2, <2>3, Times DEF Typed, Ranges
  <1> QED
    BY <1>1, <1>2

LEMMA CloseInv ==
  ASSUME Typed, NEW who \in {"client", "broker"}, Closes(who), who = "client" => ~peer.alive
  PROVE  KeepAliveInv'
  <1>1. Typed'
    <2>1. Ranges'
      <3>1. connected' \in BOOLEAN /\ closedBy' \in {"nobody", "client", "broker"}
        BY DEF Closes
      <3>2. running' \in 0..Callback /\ sinceUpdate' \in 0..Gap /\ socket' \in Seq(Frame) /\ at' = "idle"
        BY NothingQueued, Times DEF Closes
      <3>3. UNCHANGED <<silence, awaits_pong, peer, quiet>>
        BY DEF Closes
      <3> QED
        BY <3>1, <3>2, <3>3 DEF Typed, Ranges
    <2> QED
      BY <2>1 DEF Typed, Shaped, Closes
  <1>2. Closed' /\ ~connected'
    BY DEF Closed, Closes, TimeoutIsReal
  <1> QED
    BY <1>1, <1>2 DEF KeepAliveInv

LEMMA CheckInv == KeepAliveInv /\ Check => KeepAliveInv'
  <1> SUFFICES ASSUME KeepAliveInv, Check PROVE KeepAliveInv'
    OBVIOUS
  <1>1. connected /\ at = "checking" /\ Typed /\ Open
    BY DEF Check, KeepAliveInv, Closed
  <1>2. CASE /\ ~PingDue
             /\ at' = "idle" /\ sinceUpdate' = 0
             /\ UNCHANGED <<connected, closedBy, silence, awaits_pong, running, socket, peer, quiet>>
    <2>1. Typed'
      <3>1. Ranges'
        BY <1>1, <1>2, Times DEF Typed, Ranges
      <3> QED
        BY <1>1, <1>2, <3>1 DEF Typed, Shaped
    <2>2. Silent' /\ Asked' /\ Counted'
      BY <1>1, <1>2, Times DEF Typed, Ranges, Open, Silent, Asked, Counted, PingDue
    <2>3. InTime'
      <3>1. SinceReturn = 0 /\ SinceReturn' = 0
        BY <1>1, <1>2 DEF SinceReturn
      <3> QED
        BY <1>1, <1>2, <3>1 DEF Open, InTime, Late
    <2> QED
      BY <1>1, <1>2, <2>1, <2>2, <2>3 DEF KeepAliveInv, Open
  <1>3. CASE PingDue /\ awaits_pong /\ Closes("client")
    BY <1>1, <1>3, NeverOverdue, CloseInv
  <1>4. CASE /\ PingDue /\ ~awaits_pong
             /\ silence' = 0 /\ awaits_pong' = TRUE
             /\ peer' = [peer EXCEPT !.ping = IF @ = NoPing THEN 0 ELSE @]
             /\ at' = "idle" /\ sinceUpdate' = 0
             /\ UNCHANGED <<connected, closedBy, running, socket, quiet>>
    <2>1. peer' = [alive |-> peer.alive, ping |-> IF peer.ping = NoPing THEN 0 ELSE peer.ping]
      BY <1>1, <1>4 DEF Typed, Shaped
    <2>2. Shaped'
          /\ peer'.alive = peer.alive
          /\ peer'.ping # NoPing /\ peer'.ping \in -1..Delay
      BY <1>1, <2>1, Times DEF Typed, Ranges, Shaped, NoPing
    <2>3. Typed'
      BY <1>1, <1>4, <2>2, Times DEF Typed, Ranges
    <2>4. PongsIn(socket) = {}
      BY <1>1, <1>4 DEF Open, Asked
    <2>5. InTime' /\ Asked'
      <3>1. peer.alive => peer'.ping = 0
        BY <1>1, <1>4, <2>1 DEF Open, Asked, NoPing
      <3> QED
        BY <1>1, <1>4, <2>2, <2>4, <3>1 DEF Open, Asked, InTime
    <2>6. Silent'
      BY <1>1, <1>4, Times DEF Open, Silent, Typed, Ranges
    <2>7. Counted'
      <3>1. silence <= KeepAlive + Gap
        BY <1>1, Times DEF Open, Silent, Typed, Ranges
      <3> QED
        BY <1>1, <1>4, <2>2, <2>4, <3>1, Times DEF Open, Counted, Typed, Ranges
    <2> QED
      BY <1>1, <1>4, <2>3, <2>5, <2>6, <2>7 DEF KeepAliveInv, Open
  <1> QED
    BY <1>2, <1>3, <1>4 DEF Check

LEMMA BrokerInv == KeepAliveInv /\ (Answers \/ Sends \/ Dies \/ LosesPatience) => KeepAliveInv'
  <1> SUFFICES ASSUME KeepAliveInv, Answers \/ Sends \/ Dies \/ LosesPatience PROVE KeepAliveInv'
    OBVIOUS
  <1>1. connected /\ peer.alive /\ Typed /\ Open
    BY DEF Answers, Sends, Dies, LosesPatience, KeepAliveInv
  <1>2. CASE Answers
    <2>1. /\ peer.ping # NoPing /\ socket' = Append(socket, "pong")
          /\ UNCHANGED <<connected, closedBy, silence, awaits_pong, at, running, sinceUpdate, quiet>>
          /\ peer' = [alive |-> peer.alive, ping |-> NoPing]
      BY <1>1, <1>2 DEF Answers, Typed, Shaped
    <2>2. Shaped'
          /\ peer'.alive = peer.alive /\ peer'.ping = NoPing
      BY <2>1 DEF Shaped
    <2>3. PongsIn(socket) = {} /\ PongsIn(socket') = {Len(socket) + 1} /\ socket' \in Seq(Frame)
          /\ Len(socket') = Len(socket) + 1 /\ Len(socket) \in Nat
      BY <1>1, <2>1, Queued DEF Open, Asked, Typed, Ranges, Frame
    <2>4. Typed'
      BY <1>1, <2>1, <2>2, <2>3, Times DEF Typed, Ranges, NoPing
    <2>5. awaits_pong
      BY <1>1, <2>1 DEF Open, Asked, Typed, Ranges
    <2>6. Asked' /\ Silent' /\ Counted'
      <3>1. Len(socket') <= MaxWaiting + 1
        BY <1>1, <2>3, Times DEF Open, Asked
      <3>2. Asked'
        BY <2>1, <2>2, <2>3, <2>5, <3>1 DEF Asked
      <3> QED
        BY <1>1, <2>1, <2>2, <3>2 DEF Open, Silent, Counted
    <2>7. InTime'
      <3>1. Len(socket) + 1 \in 1..MaxWaiting + 1
        BY <1>1, <2>3, Times DEF Open, Asked, Typed, Ranges
      <3>2. Delay <= Late(Len(socket) + 1) /\ Late(Len(socket) + 1) \in Nat
        BY <3>1, Places
      <3>3. silence <= Delay /\ SinceReturn' \in Nat
        BY <1>1, <2>1, <2>4, <2>5, Times DEF Open, InTime, Typed, Ranges, SinceReturn
      <3>4. silence' <= Late(Len(socket) + 1) + SinceReturn'
        BY <1>1, <2>1, <3>2, <3>3, Times DEF Typed, Ranges
      <3> QED
        BY <2>1, <2>2, <2>3, <3>4 DEF InTime, Late
    <2> QED
      BY <1>1, <2>1, <2>4, <2>6, <2>7 DEF KeepAliveInv, Open
  <1>3. CASE Sends
    <2>1. /\ Len(socket) < MaxWaiting /\ socket' = Append(socket, "message")
          /\ UNCHANGED <<connected, closedBy, silence, awaits_pong, at, running, sinceUpdate, peer, quiet>>
      BY <1>3 DEF Sends
    <2>2. Shaped'
      BY <1>1, <2>1 DEF Typed, Shaped
    <2>3. PongsIn(socket') = PongsIn(socket) /\ socket' \in Seq(Frame)
          /\ Len(socket') = Len(socket) + 1 /\ Len(socket) \in Nat
      BY <1>1, <2>1, Queued DEF Typed, Ranges, Frame
    <2>4. Typed'
      BY <1>1, <2>1, <2>2, <2>3, Times DEF Typed, Ranges
    <2>5. Asked'
      BY <1>1, <2>1, <2>3, Times DEF Open, Asked
    <2>6. Silent' /\ Counted'
      BY <1>1, <2>1, <2>2, <2>3 DEF Open, Silent, Counted
    <2>7. InTime'
      <3>1. SinceReturn' = SinceReturn
        BY <2>1 DEF SinceReturn
      <3> QED
        BY <1>1, <2>1, <2>2, <2>3, <3>1 DEF Open, InTime, Late
    <2> QED
      BY <1>1, <2>1, <2>4, <2>5, <2>6, <2>7 DEF KeepAliveInv, Open
  <1>4. CASE Dies
    <2>1. /\ UNCHANGED <<connected, closedBy, silence, awaits_pong, at, running, sinceUpdate, socket>>
          /\ quiet' = 0
          /\ peer' = [alive |-> FALSE, ping |-> peer.ping]
      BY <1>1, <1>4 DEF Dies, Typed, Shaped
    <2>2. Shaped'
          /\ ~peer'.alive /\ peer'.alive \in BOOLEAN /\ peer'.ping = peer.ping
      BY <2>1 DEF Shaped
    <2>3. Typed'
      BY <1>1, <2>1, <2>2, Times DEF Typed, Ranges
    <2>4. Asked'
      BY <1>1, <2>1, <2>2 DEF Open, Asked
    <2>5. Silent' /\ Counted' /\ InTime'
      BY <1>1, <2>1, <2>2 DEF Open, Silent, Counted, InTime, Typed, Ranges
    <2> QED
      BY <1>1, <2>1, <2>3, <2>4, <2>5 DEF KeepAliveInv, Open
  <1>5. CASE LosesPatience
    BY <1>1, <1>5, CloseInv DEF LosesPatience
  <1> QED
    BY <1>2, <1>3, <1>4, <1>5

LEMMA TickInv == KeepAliveInv /\ Tick => KeepAliveInv'
  <1> SUFFICES ASSUME KeepAliveInv, Tick PROVE KeepAliveInv'
    OBVIOUS
  <1>1. /\ connected /\ Typed /\ Open
        /\ silence' = silence + 1
        /\ UNCHANGED <<connected, closedBy, awaits_pong, at, socket>>
        /\ quiet' = IF peer.alive \/ quiet > Noticed THEN quiet ELSE quiet + 1
    BY DEF Tick, KeepAliveInv
  <1>2. peer' = [alive |-> peer.alive, ping |-> IF peer.ping = NoPing \/ ~peer.alive THEN peer.ping ELSE peer.ping + 1]
    BY <1>1 DEF Tick, Typed, Shaped
  <1>3. /\ Shaped'
        /\ peer'.alive = peer.alive
        /\ peer'.ping = IF peer.ping = NoPing \/ ~peer.alive THEN peer.ping ELSE peer.ping + 1
        /\ peer'.ping = NoPing <=> peer.ping = NoPing
        /\ peer'.ping \in -1..Delay
    <2>1. peer.alive => peer.ping < Delay
      <3>1. ~(peer.alive /\ peer.ping >= Delay)
        BY DEF Tick
      <3>2. peer.ping \in Int /\ Delay \in Int
        BY <1>1, Times DEF Typed, Ranges
      <3> QED
        BY <3>1, <3>2
    <2>2. /\ Shaped' /\ peer'.alive = peer.alive
          /\ peer'.ping = IF peer.ping = NoPing \/ ~peer.alive THEN peer.ping ELSE peer.ping + 1
      BY <1>2 DEF Shaped
    <2> QED
      BY <1>1, <2>1, <2>2, Times DEF Typed, Ranges, NoPing
  <1>4. quiet' \in Nat /\ quiet' <= quiet + 1
    BY <1>1 DEF Typed, Ranges
  <1>5. /\ at = "idle" => sinceUpdate < Gap /\ sinceUpdate' = sinceUpdate + 1
        /\ at = "callback" => running < Callback /\ running' = running + 1
        /\ at # "idle" => sinceUpdate' = sinceUpdate
        /\ at # "callback" => running' = running
        /\ at \in {"idle", "callback"}
    BY DEF Tick
  <1>6. running' \in 0..Callback /\ sinceUpdate' \in 0..Gap
    BY <1>1, <1>5, Times DEF Typed, Ranges
  <1>7. Silent'
    <2>1. silence \in Nat /\ running \in Nat /\ sinceUpdate \in Nat
      BY <1>1, Times DEF Typed, Ranges
    <2>2. CASE at = "idle"
      BY <1>1, <1>5, <2>1, <2>2, Times DEF Open, Silent
    <2>3. CASE at = "callback"
      BY <1>1, <1>5, <2>1, <2>3, Times DEF Open, Silent
    <2> QED
      BY <1>5, <2>2, <2>3
  <1>8. Typed'
    <2>1. silence' \in 0..KeepAlive + Gap + Callback
      <3>1. silence' \in Nat
        BY <1>1, Times DEF Typed, Ranges
      <3>2. CASE at = "idle"
        BY <1>1, <1>6, <1>7, <3>1, <3>2, Times DEF Silent
      <3>3. CASE at = "callback"
        BY <1>1, <1>6, <1>7, <3>1, <3>3, Times DEF Silent
      <3> QED
        BY <1>5, <3>2, <3>3
    <2> QED
      BY <1>1, <1>3, <1>4, <1>6, <2>1 DEF Typed, Ranges
  <1>9. Asked'
    BY <1>1, <1>3 DEF Open, Asked
  <1>10. Counted'
    BY <1>1, <1>3, <1>4, Times DEF Open, Counted, Typed, Ranges
  <1>11. InTime'
    <2>1. peer.alive /\ awaits_pong /\ peer.ping # NoPing => silence' <= peer'.ping
      BY <1>1, <1>3, Times DEF Open, InTime, Typed, Ranges
    <2>2. ASSUME peer.alive, awaits_pong, peer.ping = NoPing, at # "callback", NEW i \in PongsIn(socket)
          PROVE  silence' <= Late(i) + SinceReturn'
      <3>1. silence <= Late(i) + SinceReturn /\ Late(i) \in Nat
        BY <1>1, <2>2, PongsInPlace, Places DEF Open, InTime
      <3>2. SinceReturn = sinceUpdate /\ SinceReturn' = sinceUpdate + 1
        BY <1>1, <1>5, <2>2 DEF SinceReturn
      <3> QED
        BY <1>1, <3>1, <3>2, Times DEF Typed, Ranges
    <2> QED
      BY <1>1, <1>3, <2>1, <2>2 DEF Open, InTime, Late
  <1> QED
    BY <1>1, <1>7, <1>8, <1>9, <1>10, <1>11 DEF KeepAliveInv, Open

LEMMA StepKeepAlive == KeepAliveInv /\ [KeepAliveNext]_keepAliveVars => KeepAliveInv'
  <1>1. ASSUME KeepAliveInv, UNCHANGED keepAliveVars PROVE KeepAliveInv'
    BY <1>1, Zenon DEF keepAliveVars, KeepAliveInv, Typed, Ranges, Shaped, Open, Closed, Silent, Asked, InTime, Counted, TimeoutIsReal, SinceReturn, Late
  <1> QED
    BY <1>1, ReconnectInv, PublishInv, TakeInv, CheckInv, BrokerInv, TickInv DEF KeepAliveNext

LEMMA KeepAliveInvariance == KeepAliveSpec => []KeepAliveInv
  BY InitKeepAlive, StepKeepAlive, PTL DEF KeepAliveSpec

-----------------------------------------------------------------------------
(* The variables keep their types, and the client is never silent for more *)
(* than the keep-alive, one gap and one callback.                          *)
THEOREM KeepAliveTyped == KeepAliveSpec => []KeepAliveTypeOK
  <1>1. KeepAliveInv => KeepAliveTypeOK
    BY DEF KeepAliveInv, Typed, Ranges, Shaped, KeepAliveTypeOK, Frame
  <1> QED
    BY <1>1, KeepAliveInvariance, PTL

(* A broker that answers pings within Delay is never given up, however     *)
(* many messages it sends and however long a callback runs, as long as no  *)
(* more frames wait ahead of a pong than update() reads in a keep-alive    *)
(* less that delay, one for each call (KeepAliveAssumption).               *)
THEOREM TimeoutsAreReal == KeepAliveSpec => []TimeoutIsReal
  <1>1. KeepAliveInv => TimeoutIsReal
    BY DEF KeepAliveInv, Open, Closed, TimeoutIsReal
  <1> QED
    BY <1>1, KeepAliveInvariance, PTL

(* A broker that died is given up within two keep-alives and two gaps.     *)
THEOREM DeadBrokersAreNoticed == KeepAliveSpec => []DeadBrokerNoticed
  <1>1. KeepAliveInv => DeadBrokerNoticed
    <2> SUFFICES ASSUME KeepAliveInv, connected, ~peer.alive, at # "callback" PROVE quiet <= Noticed
      BY DEF DeadBrokerNoticed
    <2>1. Typed /\ Silent /\ Counted
      BY DEF KeepAliveInv, Open
    <2>2. silence <= KeepAlive + Gap
      BY <2>1, Times DEF Typed, Ranges, Silent
    <2> QED
      BY <2>1, <2>2, Times DEF Typed, Ranges, Counted, Noticed
  <1> QED
    BY <1>1, KeepAliveInvariance, PTL

(* The client keeps its promise to the broker, for every patience: the     *)
(* silence in which the broker closes is that of a callback, beyond the    *)
(* keep-alive and one gap between two calls of update().                   *)
THEOREM BrokerKeepsTheClient == KeepAliveSpec => BrokerStays
  <1>1. KeepAliveInv /\ [KeepAliveNext]_keepAliveVars
        => (closedBy # "broker" /\ closedBy' = "broker" => KeepAlive + Gap + running >= Patience)
    <2> SUFFICES ASSUME KeepAliveInv, [KeepAliveNext]_keepAliveVars, closedBy # "broker", closedBy' = "broker"
                 PROVE  KeepAlive + Gap + running >= Patience
      OBVIOUS
    <2>1. LosesPatience
      BY DEF KeepAliveNext, Reconnect, AppPublishes, TakeFrame, CallbackReturns, Check, Closes, Answers,
             Sends, Dies, Tick, keepAliveVars
    <2>2. Silent /\ silence >= Patience
      BY <2>1 DEF LosesPatience, KeepAliveInv, Open
    <2> QED
      BY <2>2, Times DEF Silent, KeepAliveInv, Typed, Ranges
  <1> QED
    BY <1>1, KeepAliveInvariance, PTL DEF KeepAliveSpec, BrokerStays
=============================================================================
