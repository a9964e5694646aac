------------------------------ MODULE LwmqttProofs ------------------------------
(***************************************************************************)
(* Proofs about the protocol engine of lwmqtt. The reader of packets never *)
(* loses its place in the stream of a connection that began with nothing   *)
(* of an older one held; and a packet is as long as it announces, is       *)
(* decoded as what was encoded, and is refused when a part is missing.     *)
(***************************************************************************)
EXTENDS LwmqttFraming, LwmqttExchange, WellFoundedInduction, TLAPS

(* Concatenation is associative; it is cited by name, and expanded only    *)
(* where it is used.                                                       *)
Associative(S) == \A u, v, w \in S : (u \o v) \o w = u \o (v \o w)

LEMMA Associates == ASSUME NEW B PROVE Associative(Seq(B))
  BY DEF Associative

(* The naturals are all that zero and successors reach.                    *)
LEMMA Smallest == ASSUME NEW T, T \subseteq Nat, T # {} PROVE \E x \in T : \A y \in T : x <= y
  <1> DEFINE R == {ss \in Nat \X Nat : ss[1] < ss[2]}
  <1>1. IsWellFoundedOn(R, Nat)
    BY NatLessThanWellFounded DEF OpToRel
  <1>2. \A y, x \in Nat : y < x => <<y, x>> \in R
    OBVIOUS
  <1> HIDE DEF R
  <1>3. PICK x \in T : \A y \in T : ~ (<<y, x>> \in R)
    BY <1>1, WFMin
  <1>4. ASSUME NEW y \in T PROVE x <= y
    <2>1. x \in Nat /\ y \in Nat /\ ~(y < x)
      BY <1>2, <1>3
    <2> QED
      BY <2>1
  <1> QED
    BY <1>4

LEMMA Induction == ASSUME NEW S, 0 \in S, \A n \in Nat : n \in S => n + 1 \in S PROVE Nat \subseteq S
  <1> DEFINE T == Nat \ S
  <1> SUFFICES ASSUME T # {} PROVE FALSE
    OBVIOUS
  <1>1. PICK x \in T : \A y \in T : x <= y
    BY Smallest
  <1>2. x # 0 /\ x \in Nat
    OBVIOUS
  <1>3. x - 1 \in Nat /\ x - 1 \notin T
    BY <1>1, <1>2
  <1>4. x - 1 \in S /\ (x - 1) + 1 = x
    BY <1>3
  <1> QED
    BY <1>3, <1>4

-----------------------------------------------------------------------------
(* FlattenSeq, by what it concatenates.                                    *)
Flattens(f, s) == f = [i \in 1..Len(s) |-> IF i = 1 THEN s[i] ELSE f[i - 1] \o s[i]]

LEMMA FlattenIs ==
  ASSUME NEW s
  PROVE  /\ Len(s) = 0 => FlattenSeq(s) = s
         /\ Len(s) # 0 => FlattenSeq(s) = (CHOOSE f : Flattens(f, s))[Len(s)]
  BY DEF FlattenSeq, Flattens

(* One step of it after the other.                                         *)
BuiltTo(f, s, n) == \A i \in 1..n : f[i] = IF i = 1 THEN s[i] ELSE f[i - 1] \o s[i]
Builds(f, s) == BuiltTo(f, s, Len(s))

LEMMA BuildsIs ==
  ASSUME NEW s, NEW f
  PROVE  /\ Flattens(f, s) => DOMAIN f = 1..Len(s) /\ Builds(f, s)
         /\ \A T : f \in [1..Len(s) -> T] /\ Builds(f, s) => Flattens(f, s)
  <1> DEFINE e(i) == IF i = 1 THEN s[i] ELSE f[i - 1] \o s[i]
  <1>1. Flattens(f, s) <=> f = [i \in 1..Len(s) |-> e(i)]
    BY DEF Flattens
  <1>2. Builds(f, s) <=> \A i \in 1..Len(s) : f[i] = e(i)
    BY DEF Builds, BuiltTo
  <1> HIDE DEF e
  <1>3. ASSUME Flattens(f, s) PROVE DOMAIN f = 1..Len(s) /\ Builds(f, s)
    BY <1>1, <1>2, <1>3
  <1>4. ASSUME NEW T, f \in [1..Len(s) -> T], Builds(f, s) PROVE Flattens(f, s)
    BY <1>1, <1>2, <1>4
  <1> QED
    BY <1>3, <1>4

LEMMA Builder ==
  ASSUME NEW B, NEW s \in Seq(Seq(B))
  PROVE  \E f : f \in [1..Len(s) -> Seq(B)] /\ Builds(f, s)
  <1> DEFINE Built(n) == \E f : f \in [1..n -> Seq(B)] /\ BuiltTo(f, s, n)
             S == {n \in Nat : n <= Len(s) => Built(n)}
  <1>1. 0 \in S
    <2> DEFINE f == [i \in 1..0 |-> <<>>]
    <2>1. f \in [1..0 -> Seq(B)] /\ BuiltTo(f, s, 0)
      BY DEF BuiltTo
    <2> HIDE DEF f
    <2> QED
      BY <2>1
  <1>2. ASSUME NEW n \in Nat, n \in S PROVE n + 1 \in S
    <2> SUFFICES ASSUME n + 1 <= Len(s) PROVE Built(n + 1)
      OBVIOUS
    <2>1. PICK f : f \in [1..n -> Seq(B)] /\ BuiltTo(f, s, n)
      BY <1>2
    <2>2. s[n + 1] \in Seq(B)
      OBVIOUS
    <2> DEFINE x == IF n = 0 THEN s[n + 1] ELSE f[n] \o s[n + 1]
               g == [i \in 1..(n + 1) |-> IF i = n + 1 THEN x ELSE f[i]]
    <2>3. x \in Seq(B)
      <3>1. n # 0 => f[n] \in Seq(B)
        BY <2>1
      <3> QED
        BY <2>2, <3>1
    <2>4. (n = 0 => x = s[n + 1]) /\ (n # 0 => x = f[n] \o s[n + 1])
      OBVIOUS
    <2> HIDE DEF x
    <2>5. g \in [1..(n + 1) -> Seq(B)]
      BY <2>1, <2>3
    <2>6. g[n + 1] = x /\ \A i \in 1..n : g[i] = f[i]
      OBVIOUS
    <2> HIDE DEF g
    <2>7. ASSUME NEW i \in 1..(n + 1) PROVE g[i] = IF i = 1 THEN s[i] ELSE g[i - 1] \o s[i]
      <3>1. CASE i = n + 1
        <4>1. n # 0 => g[n] = f[n] /\ i # 1 /\ i - 1 = n
          BY <2>6, <3>1
        <4>2. n = 0 <=> i = 1
          BY <3>1
        <4> QED
          BY <2>4, <2>6, <3>1, <4>1, <4>2
      <3>2. CASE i \in 1..n
        <4>1. f[i] = IF i = 1 THEN s[i] ELSE f[i - 1] \o s[i]
          BY <2>1, <3>2 DEF BuiltTo
        <4>2. i # 1 => g[i - 1] = f[i - 1]
          BY <2>6, <3>2
        <4>3. g[i] = f[i]
          BY <2>6, <3>2
        <4> QED
          BY <4>1, <4>2, <4>3
      <3> QED
        BY <3>1, <3>2
    <2> QED
      BY <2>5, <2>7 DEF BuiltTo
  <1> HIDE DEF S
  <1>3. Nat \subseteq S
    BY ONLY <1>1, <1>2, Induction
  <1>4. Len(s) \in Nat
    OBVIOUS
  <1>5. Len(s) \in S
    BY ONLY <1>3, <1>4
  <1> QED
    BY <1>5 DEF S, Builds

(* There is one such function only.                                        *)
LEMMA BuildsOne ==
  ASSUME NEW B, NEW s \in Seq(Seq(B)), NEW t \in Seq(Seq(B)), Len(s) <= Len(t),
         \A i \in 1..Len(s) : s[i] = t[i],
         NEW f, Builds(f, s), NEW g, Builds(g, t)
  PROVE  \A i \in 1..Len(s) : f[i] = g[i]
  <1> DEFINE S == {n \in Nat : n \in 1..Len(s) => f[n] = g[n]}
  <1>1. 0 \in S
    OBVIOUS
  <1>2. ASSUME NEW n \in Nat, n \in S PROVE n + 1 \in S
    <2> SUFFICES ASSUME n + 1 \in 1..Len(s) PROVE f[n + 1] = g[n + 1]
      OBVIOUS
    <2>1. f[n + 1] = (IF n = 0 THEN s[n + 1] ELSE f[n] \o s[n + 1]) /\ n + 1 \in 1..Len(t)
      BY DEF Builds, BuiltTo
    <2>2. g[n + 1] = (IF n = 0 THEN t[n + 1] ELSE g[n] \o t[n + 1])
      BY <2>1 DEF Builds, BuiltTo
    <2>3. n # 0 => f[n] = g[n]
      BY <1>2
    <2> QED
      BY <2>1, <2>2, <2>3
  <1> HIDE DEF S
  <1>3. Nat \subseteq S
    BY <1>1, <1>2, Induction
  <1> QED
    BY <1>3 DEF S

LEMMA FlattenBuilt ==
  ASSUME NEW B, NEW s \in Seq(Seq(B)), s # <<>>, NEW f, Builds(f, s)
  PROVE  FlattenSeq(s) = f[Len(s)] /\ FlattenSeq(s) \in Seq(B)
  <1>1. PICK h : h \in [1..Len(s) -> Seq(B)] /\ Builds(h, s)
    BY Builder
  <1>2. Flattens(h, s)
    BY <1>1, BuildsIs
  <1> DEFINE g == CHOOSE g : Flattens(g, s)
  <1>3. Flattens(g, s)
    BY <1>2
  <1>4. FlattenSeq(s) = g[Len(s)] /\ Len(s) \in 1..Len(s)
    BY FlattenIs
  <1> HIDE DEF g
  <1>5. Builds(g, s)
    BY <1>3, BuildsIs
  <1>0. Len(s) <= Len(s)
    OBVIOUS
  <1>9. s \in Seq(Seq(B)) /\ Builds(f, s)
    OBVIOUS
  <1>6. f[Len(s)] = g[Len(s)]
    <2>1. \A i \in 1..Len(s) : f[i] = g[i]
      BY ONLY <1>0, <1>5, <1>9, BuildsOne
    <2> QED
      BY <1>4, <2>1
  <1>8. h[Len(s)] = g[Len(s)]
    <2>1. \A i \in 1..Len(s) : h[i] = g[i]
      BY ONLY <1>0, <1>1, <1>5, <1>9, BuildsOne
    <2> QED
      BY <1>4, <2>1
  <1>7. h[Len(s)] \in Seq(B)
    BY <1>1, <1>4
  <1> QED
    BY <1>4, <1>6, <1>7, <1>8

LEMMA FlattenEmpty == FlattenSeq(<<>>) = <<>>
  BY FlattenIs

LEMMA FlattenAppend ==
  ASSUME NEW B, NEW s \in Seq(Seq(B)), NEW p \in Seq(B)
  PROVE  FlattenSeq(Append(s, p)) = FlattenSeq(s) \o p /\ FlattenSeq(s) \in Seq(B)
  <1> DEFINE t == Append(s, p)
  <1>1. t \in Seq(Seq(B)) /\ Len(t) = Len(s) + 1 /\ t # <<>> /\ t[Len(t)] = p
        /\ Len(s) \in Nat /\ \A i \in 1..Len(s) : s[i] = t[i]
    <2>1. t \in Seq(Seq(B)) /\ Len(t) = Len(s) + 1 /\ Len(s) \in Nat
      OBVIOUS
    <2>2. t[Len(s) + 1] = p /\ \A i \in 1..Len(s) : s[i] = t[i]
      OBVIOUS
    <2> HIDE DEF t
    <2> QED
      BY <2>1, <2>2
  <1> HIDE DEF t
  <1>2. PICK g : g \in [1..Len(t) -> Seq(B)] /\ Builds(g, t)
    BY <1>1, Builder
  <1>3. FlattenSeq(t) = g[Len(t)]
    BY <1>1, <1>2, FlattenBuilt
  <1>4. CASE s = <<>>
    <2>1. g[Len(t)] = p /\ <<>> \in Seq(B) /\ <<>> \o p = p
      BY <1>1, <1>2, <1>4 DEF Builds, BuiltTo
    <2> QED
      BY <1>3, <1>4, <2>1, FlattenEmpty DEF t
  <1>5. CASE s # <<>>
    <2>1. PICK f : f \in [1..Len(s) -> Seq(B)] /\ Builds(f, s)
      BY Builder
    <2>2. FlattenSeq(s) = f[Len(s)] /\ FlattenSeq(s) \in Seq(B) /\ Len(s) \in 1..Len(s)
      BY <1>1, <1>5, <2>1, FlattenBuilt
    <2>3. f[Len(s)] = g[Len(s)]
      <3>1. Len(s) <= Len(t)
        BY <1>1
      <3>2. Builds(f, s) /\ Builds(g, t)
        BY <1>2, <2>1
      <3>3. t \in Seq(Seq(B)) /\ \A i \in 1..Len(s) : s[i] = t[i]
        BY <1>1
      <3>4. \A i \in 1..Len(s) : f[i] = g[i]
        BY <3>1, <3>2, <3>3, BuildsOne
      <3> QED
        BY <2>2, <3>4
    <2>4. Len(t) \in 1..Len(t) /\ Len(t) # 1 /\ Len(t) - 1 = Len(s)
      BY <1>1, <2>2
    <2>5. g[Len(t)] = g[Len(s)] \o p
      BY <1>1, <1>2, <2>4 DEF Builds, BuiltTo
    <2> QED
      BY <1>3, <2>2, <2>3, <2>5 DEF t
  <1> QED
    BY <1>4, <1>5

-----------------------------------------------------------------------------
LEMMA FlattenHead ==
  ASSUME NEW B, NEW s \in Seq(Seq(B)), s # <<>>
  PROVE  /\ FlattenSeq(s) = Head(s) \o FlattenSeq(Tail(s))
         /\ FlattenSeq(Tail(s)) \in Seq(B) /\ Head(s) \in Seq(B) /\ Tail(s) \in Seq(Seq(B))
  <1>0. Associative(Seq(B))
    BY Associates
  <1> DEFINE t == Tail(s)
             h == Head(s)
  <1>1. t \in Seq(Seq(B)) /\ Len(s) = Len(t) + 1 /\ h \in Seq(B) /\ h = s[1]
        /\ Len(t) \in Nat /\ \A i \in 1..Len(t) : t[i] = s[i + 1]
    OBVIOUS
  <1>2. PICK f : f \in [1..Len(s) -> Seq(B)] /\ Builds(f, s)
    BY Builder
  <1> HIDE DEF t, h
  <1>3. FlattenSeq(s) = f[Len(s)]
    BY <1>2, FlattenBuilt
  <1>4. f[1] = h
    BY <1>1, <1>2 DEF Builds, BuiltTo
  <1>5. CASE t = <<>>
    <2>1. Len(s) = 1 /\ <<>> \in Seq(B) /\ h \o <<>> = h
      BY <1>1, <1>5
    <2> QED
      BY <1>1, <1>3, <1>4, <1>5, <2>1, FlattenEmpty DEF t, h
  <1>6. CASE t # <<>>
    <2>1. PICK g : g \in [1..Len(t) -> Seq(B)] /\ Builds(g, t)
      BY <1>1, Builder
    <2>2. FlattenSeq(t) = g[Len(t)] /\ FlattenSeq(t) \in Seq(B) /\ Len(t) \in 1..Len(t)
      BY <1>1, <1>6, <2>1, FlattenBuilt
    <2> DEFINE S == {n \in Nat : n \in 1..Len(t) => f[n + 1] = h \o g[n]}
    <2>3. 0 \in S
      OBVIOUS
    <2>4. ASSUME NEW n \in Nat, n \in S PROVE n + 1 \in S
      <3> SUFFICES ASSUME n + 1 \in 1..Len(t) PROVE f[(n + 1) + 1] = h \o g[n + 1]
        OBVIOUS
      <3>1. (n + 1) + 1 \in 1..Len(s) /\ (n + 1) + 1 # 1 /\ ((n + 1) + 1) - 1 = n + 1
        BY <1>1
      <3>2. f[(n + 1) + 1] = f[n + 1] \o s[(n + 1) + 1]
        BY <1>2, <3>1 DEF Builds, BuiltTo
      <3>3. s[(n + 1) + 1] = t[n + 1] /\ t[n + 1] \in Seq(B)
        BY <1>1
      <3>4. g[n + 1] = IF n = 0 THEN t[n + 1] ELSE g[n] \o t[n + 1]
        <4>1. g[n + 1] = IF n + 1 = 1 THEN t[n + 1] ELSE g[(n + 1) - 1] \o t[n + 1]
          BY <2>1 DEF Builds, BuiltTo
        <4>2. (n + 1) - 1 = n /\ (n + 1 = 1 <=> n = 0)
          OBVIOUS
        <4> QED
          BY <4>1, <4>2
      <3>5. CASE n = 0
        <4>1. f[n + 1] = h
          BY <1>4, <3>5
        <4> QED
          BY <3>2, <3>3, <3>4, <3>5, <4>1
      <3>6. CASE n # 0
        <4>0. n \in 1..Len(t)
          BY <1>1, <3>6
        <4>1. g[n] \in Seq(B) /\ h \in Seq(B) /\ t[n + 1] \in Seq(B)
          BY <1>1, <2>1, <3>3, <4>0
        <4>2. f[n + 1] = h \o g[n]
          BY <2>4, <4>0
        <4>3. (h \o g[n]) \o t[n + 1] = h \o (g[n] \o t[n + 1])
          BY <1>0, <4>1, Zenon DEF Associative
        <4> QED
          BY <3>2, <3>3, <3>4, <3>6, <4>2, <4>3
      <3> QED
        BY <3>5, <3>6
    <2> HIDE DEF S
    <2>5. Len(t) \in S
      BY <1>1, <2>3, <2>4, Induction
    <2>6. f[Len(s)] = h \o g[Len(t)]
      BY <1>1, <2>2, <2>5 DEF S
    <2> QED
      BY <1>1, <1>3, <2>2, <2>6 DEF t, h
  <1> QED
    BY <1>5, <1>6

-----------------------------------------------------------------------------
(* The digits of a number, the last of which is the first below Digit.     *)
Bytes == 0..Byte - 1
DigitsIn(s) == Min({i \in 1..4 : i <= Len(s) /\ s[i] < Digit} \cup {5})

LEMMA DigitsAre ==
  ASSUME NEW s \in Seq(Bytes)
  PROVE  /\ DigitsIn(s) \in 1..5
         /\ DigitsIn(s) # 5 => DigitsIn(s) <= Len(s) /\ s[DigitsIn(s)] < Digit
         /\ \A i \in 1..4 : i <= Len(s) /\ s[i] < Digit => DigitsIn(s) <= i
  <1> DEFINE S == {i \in 1..4 : i <= Len(s) /\ s[i] < Digit} \cup {5}
  <1>1. S \subseteq Nat /\ 5 \in S
    OBVIOUS
  <1>2. PICK x \in S : \A y \in S : x <= y
    BY <1>1, Smallest
  <1>3. Min(S) \in S /\ \A y \in S : Min(S) <= y
    BY <1>2 DEF Min
  <1>4. DigitsIn(s) = Min(S)
    BY DEF DigitsIn
  <1> QED
    BY <1>3, <1>4

LEMMA Took ==
  ASSUME NEW r, NEW e, NEW p, r = [err |-> e, rest |-> p, val |-> 0],
         NEW q, NEW v, NEW x, x = [r EXCEPT !.rest = q, !.val = v]
  PROVE  x = [err |-> e, rest |-> q, val |-> v]
  OBVIOUS

At(s, v) == [err |-> OK, rest |-> s, val |-> v]

LEMMA VarnumIs ==
  ASSUME NEW s \in Seq(Bytes), NEW v
  PROVE  LET n == ReadVarnum([err |-> OK, rest |-> s, val |-> v])
             k == DigitsIn(s)
         IN  /\ n.err = OK <=> k # 5
             /\ n.err = "BUFFER_TOO_SHORT" => k = 5 /\ Len(s) < 5
             /\ k # 5 => n.val = Value(SubSeq(s, 1, k)) /\ n.rest = SubSeq(s, k + 1, Len(s))
             /\ k # 5 => n = At(SubSeq(s, k + 1, Len(s)), Value(SubSeq(s, 1, k)))
  <1> DEFINE r == [err |-> OK, rest |-> s, val |-> v]
             k == DigitsIn(s)
             n == ReadVarnum(r)
  <1>1. k \in 1..5 /\ (k # 5 => k <= Len(s)) /\ Len(s) \in Nat
    BY DigitsAre
  <1>2. n = CASE r.err # OK -> r
        [] r.err = OK /\ k = 5 /\ Len(r.rest) < 5 -> [r EXCEPT !.err = "BUFFER_TOO_SHORT"]
        [] r.err = OK /\ k = 5 /\ Len(r.rest) >= 5 -> [r EXCEPT !.err = "VARNUM_OVERFLOW"]
        [] OTHER -> [ReadData(r, k) EXCEPT !.val = Value(SubSeq(r.rest, 1, k))]
    BY DEF ReadVarnum, DigitsIn
  <1>3. r.err = OK /\ r.rest = s
    OBVIOUS
  <1> HIDE DEF n, k
  <1>4. CASE k = 5 /\ Len(s) < 5
    <2>1. n = [r EXCEPT !.err = "BUFFER_TOO_SHORT"]
      BY <1>2, <1>3, <1>4
    <2> QED
      BY <1>4, <2>1 DEF OK, n, k
  <1>5. CASE k = 5 /\ ~(Len(s) < 5)
    <2>1. n = [r EXCEPT !.err = "VARNUM_OVERFLOW"]
      BY <1>1, <1>2, <1>3, <1>5
    <2> QED
      BY <1>5, <2>1 DEF OK, n, k
  <1>6. CASE k # 5
    <2>1. n = [ReadData(r, k) EXCEPT !.val = Value(SubSeq(s, 1, k))]
      BY <1>2, <1>3, <1>6
    <2>2. ReadData(r, k) = [r EXCEPT !.rest = SubSeq(@, k + 1, Len(@)), !.val = SubSeq(r.rest, 1, k)]
      BY <1>1, <1>3, <1>6 DEF ReadData
    <2>4. r = [err |-> OK, rest |-> s, val |-> v]
      OBVIOUS
    <2>5. n = [err |-> OK, rest |-> SubSeq(s, k + 1, Len(s)), val |-> Value(SubSeq(s, 1, k))]
      BY <2>1, <2>2, <2>4
    <2>3. n.err = OK /\ n.rest = SubSeq(s, k + 1, Len(s)) /\ n.val = Value(SubSeq(s, 1, k))
      BY <2>5
    <2> QED
      BY <1>6, <2>3, <2>5 DEF OK, n, k, At
  <1> QED
    BY <1>4, <1>5, <1>6

LEMMA RemainingIs ==
  ASSUME NEW s \in Seq(Bytes)
  PROVE  LET d == DetectRemainingLength(s)
             k == DigitsIn(s)
         IN  /\ d.err = OK => k # 5 /\ d.val = Value(SubSeq(s, 1, k))
             /\ d.err = "BUFFER_TOO_SHORT" => k = 5 /\ Len(s) < 5
  <1> DEFINE n == ReadVarnum(Reader(s))
  <1>1. /\ n.err = OK <=> DigitsIn(s) # 5
        /\ n.err = "BUFFER_TOO_SHORT" => DigitsIn(s) = 5 /\ Len(s) < 5
        /\ DigitsIn(s) # 5 => n.val = Value(SubSeq(s, 1, DigitsIn(s)))
    BY VarnumIs DEF Reader
  <1>2. DetectRemainingLength(s) =
          CASE n.err = OK -> [err |-> OK, val |-> n.val]
            [] n.err = "VARNUM_OVERFLOW" -> [err |-> "REMAINING_LENGTH_OVERFLOW", val |-> 0]
            [] OTHER -> [err |-> n.err, val |-> 0]
    BY DEF DetectRemainingLength
  <1> HIDE DEF n
  <1> QED
    BY <1>1, <1>2 DEF OK

(* A packet of the broker: its digits, and what they announce.             *)
LEMMA PacketIs ==
  ASSUME NEW p \in BrokerPackets
  PROVE  /\ p \in Seq(Bytes) /\ p # <<>> /\ DigitsIn(Tail(p)) # 5
         /\ Value(SubSeq(Tail(p), 1, DigitsIn(Tail(p)))) = Len(p) - 1 - DigitsIn(Tail(p))
  <1>1. p \in Seq(Bytes) /\ p # <<>> /\ Opened(p).err = OK /\ Opened(p).val = Len(Opened(p).rest)
    BY FramingAssumption DEF Bytes
  <1> DEFINE t == Tail(p)
             k == DigitsIn(t)
  <1>2. t \in Seq(Bytes) /\ Len(t) = Len(p) - 1 /\ t = SubSeq(p, 2, Len(p)) /\ Len(p) \in Nat /\ Len(p) >= 1
    BY <1>1
  <1>3. ReadByte(Reader(p)) = [err |-> OK, rest |-> t, val |-> p[1]]
    <2> DEFINE r == Reader(p)
    <2>0. r = [err |-> OK, rest |-> p, val |-> 0] /\ ~(Len(r.rest) < 1)
      BY <1>2 DEF Reader
    <2>3. ReadData(r, 1) = [r EXCEPT !.rest = SubSeq(@, 1 + 1, Len(@)), !.val = SubSeq(r.rest, 1, 1)]
      BY <2>0 DEF ReadData
    <2> HIDE DEF r
    <2>4. ReadData(r, 1) = [err |-> OK, rest |-> SubSeq(p, 1 + 1, Len(p)), val |-> SubSeq(p, 1, 1)]
      <3>1. r.rest = p
        BY <2>0
      <3>2. ReadData(r, 1) = [r EXCEPT !.rest = SubSeq(p, 1 + 1, Len(p)), !.val = SubSeq(p, 1, 1)]
        BY <2>3, <3>1
      <3> QED
        BY <2>0, <3>2, Took
    <2>5. t = SubSeq(p, 1 + 1, Len(p))
      BY <1>2
    <2> HIDE DEF t
    <2>1. ReadData(Reader(p), 1) = [err |-> OK, rest |-> t, val |-> SubSeq(p, 1, 1)]
      BY <2>4, <2>5 DEF r
    <2>2. SubSeq(p, 1, 1)[1] = p[1]
      BY <1>1, <1>2
    <2>6. ReadByte(Reader(p)) = [ReadData(Reader(p), 1) EXCEPT !.val = ReadData(Reader(p), 1).val[1]]
      BY <2>1 DEF ReadByte, OK
    <2> QED
      BY <2>1, <2>2, <2>6
  <1> HIDE DEF t
  <1>4. Opened(p) = ReadVarnum([err |-> OK, rest |-> t, val |-> p[1]])
    BY <1>3 DEF Opened
  <1>0. t \in Seq(Bytes)
    BY <1>2
  <1>5. k # 5 /\ Opened(p).val = Value(SubSeq(t, 1, k)) /\ Opened(p).rest = SubSeq(t, k + 1, Len(t))
    <2>1. /\ Opened(p).err = OK <=> k # 5
          /\ k # 5 => Opened(p).val = Value(SubSeq(t, 1, k)) /\ Opened(p).rest = SubSeq(t, k + 1, Len(t))
      BY <1>0, <1>4, VarnumIs
    <2> QED
      BY <1>1, <2>1
  <1>6. k \in 1..4 /\ k <= Len(t)
    <2>1. k \in 1..5 /\ (k # 5 => k <= Len(t))
      BY <1>0, DigitsAre
    <2> QED
      BY <1>5, <2>1
  <1> HIDE DEF k
  <1>7. Len(SubSeq(t, k + 1, Len(t))) = Len(t) - k
    BY <1>2, <1>6
  <1> QED
    BY <1>1, <1>2, <1>5, <1>7 DEF t, k

-----------------------------------------------------------------------------
(* A sequence cut in two, and bytes that go from one to the next.          *)
LEMMA SameElements ==
  ASSUME NEW B, NEW a \in Seq(B), NEW b \in Seq(B), Len(a) = Len(b), \A i \in 1..Len(a) : a[i] = b[i]
  PROVE  a = b
  OBVIOUS

Joins(s, a, b) == s = a \o b

LEMMA Cut ==
  ASSUME NEW B, NEW s \in Seq(B), NEW k \in 0..Len(s)
  PROVE  /\ SubSeq(s, 1, k) \in Seq(B) /\ SubSeq(s, k + 1, Len(s)) \in Seq(B)
         /\ Len(SubSeq(s, 1, k)) = k /\ Len(SubSeq(s, k + 1, Len(s))) = Len(s) - k
         /\ \A i \in 1..k : SubSeq(s, 1, k)[i] = s[i]
         /\ \A i \in 1..(Len(s) - k) : SubSeq(s, k + 1, Len(s))[i] = s[k + i]
         /\ Joins(s, SubSeq(s, 1, k), SubSeq(s, k + 1, Len(s)))
  <1>1. /\ SubSeq(s, 1, k) \in Seq(B) /\ SubSeq(s, k + 1, Len(s)) \in Seq(B)
        /\ Len(SubSeq(s, 1, k)) = k /\ Len(SubSeq(s, k + 1, Len(s))) = Len(s) - k
    OBVIOUS
  <1>2. \A i \in 1..k : SubSeq(s, 1, k)[i] = s[i]
    OBVIOUS
  <1>3. \A i \in 1..(Len(s) - k) : SubSeq(s, k + 1, Len(s))[i] = s[k + i]
    OBVIOUS
  <1> DEFINE a == SubSeq(s, 1, k)
             b == SubSeq(s, k + 1, Len(s))
  <1> HIDE DEF a, b
  <1> DEFINE w == a \o b
  <1>4. /\ w \in Seq(B) /\ Len(w) = Len(s)
        /\ \A i \in 1..Len(a) : w[i] = a[i]
        /\ \A i \in 1..Len(b) : w[Len(a) + i] = b[i]
    <2>1. a \in Seq(B) /\ b \in Seq(B) /\ Len(a) = k /\ Len(b) = Len(s) - k
      BY <1>1 DEF a, b
    <2> QED
      BY <2>1
  <1> HIDE DEF w
  <1>5. ASSUME NEW i \in 1..Len(s) PROVE w[i] = s[i]
    <2>0. Len(a) = k /\ Len(b) = Len(s) - k
      BY <1>1 DEF a, b
    <2>1. CASE i <= k
      <3>1. i \in 1..k
        BY <2>1
      <3> QED
        BY <1>2, <1>4, <2>0, <3>1 DEF a
    <2>2. CASE i > k
      <3>1. i - k \in 1..(Len(s) - k) /\ k + (i - k) = i
        BY <2>2
      <3>2. b[i - k] = s[k + (i - k)]
        BY <1>3, <3>1 DEF b
      <3>3. w[k + (i - k)] = b[i - k]
        BY <1>4, <2>0, <3>1
      <3> QED
        BY <3>1, <3>2, <3>3
    <2> QED
      BY <2>1, <2>2
  <1>6. s = w
    BY <1>4, <1>5, SameElements
  <1>7. Joins(s, SubSeq(s, 1, k), SubSeq(s, k + 1, Len(s)))
    BY <1>6, Zenon DEF a, b, w, Joins
  <1> QED
    BY <1>1, <1>2, <1>3, <1>7, Zenon

Regrouped(a, u, v, b, s) == (a \o u) \o (v \o b) = a \o (s \o b)

LEMMA Regroup ==
  ASSUME NEW B, NEW a \in Seq(B), NEW b \in Seq(B), NEW u \in Seq(B), NEW v \in Seq(B)
  PROVE  \A s : Joins(s, u, v) => Regrouped(a, u, v, b, s)
  <1>1. Associative(Seq(B))
    BY Associates
  <1>2. v \o b \in Seq(B)
    OBVIOUS
  <1>3. (a \o u) \o (v \o b) = a \o (u \o (v \o b))
    <2>1. \A z \in Seq(B) : (a \o u) \o z = a \o (u \o z)
      BY <1>1, Zenon DEF Associative
    <2> QED
      BY <1>2, <2>1, Zenon
  <1>4. u \o (v \o b) = (u \o v) \o b
    BY <1>1, Zenon DEF Associative
  <1> QED
    BY <1>3, <1>4, Zenon DEF Joins, Regrouped

Moved(a, s, b, k) == (a \o SubSeq(s, 1, k)) \o (SubSeq(s, k + 1, Len(s)) \o b) = a \o (s \o b)

LEMMA Shift ==
  ASSUME NEW B, NEW a \in Seq(B), NEW s \in Seq(B), NEW b \in Seq(B)
  PROVE  \A k \in 0..Len(s) : Moved(a, s, b, k)
  <1>0. ASSUME NEW u \in Seq(B), NEW v \in Seq(B), Joins(s, u, v) PROVE Regrouped(a, u, v, b, s)
    BY <1>0, Regroup
  <1> TAKE k \in 0..Len(s)
  <1> DEFINE x == SubSeq(s, 1, k)
             y == SubSeq(s, k + 1, Len(s))
  <1>1. x \in Seq(B) /\ y \in Seq(B) /\ Joins(s, x, y)
    BY Cut
  <1> HIDE DEF x, y
  <1>2. (a \o x) \o (y \o b) = a \o (s \o b)
    BY <1>0, <1>1, Zenon DEF Regrouped
  <1> QED
    BY <1>2, Zenon DEF x, y, Moved

MovedOne(a, s, b) == Append(a, Head(s)) \o (Tail(s) \o b) = a \o (s \o b)

LEMMA ShiftOne ==
  ASSUME NEW B, NEW a \in Seq(B), NEW s \in Seq(B), s # <<>>, NEW b \in Seq(B)
  PROVE  /\ MovedOne(a, s, b)
         /\ Append(a, Head(s)) \in Seq(B) /\ Tail(s) \in Seq(B) /\ Head(s) \in B
  <1>1. Head(s) \in B /\ Tail(s) \in Seq(B) /\ Append(a, Head(s)) = a \o <<Head(s)>> /\ <<Head(s)>> \in Seq(B)
    OBVIOUS
  <1>2. s = <<Head(s)>> \o Tail(s)
    OBVIOUS
  <1> DEFINE x == <<Head(s)>>
             y == Tail(s)
  <1> HIDE DEF x, y
  <1>3. x \in Seq(B) /\ y \in Seq(B) /\ Joins(s, x, y)
    BY <1>1, <1>2 DEF x, y, Joins
  <1>4. (a \o x) \o (y \o b) = a \o (s \o b)
    <2>1. ASSUME NEW u \in Seq(B), NEW v \in Seq(B), Joins(s, u, v) PROVE Regrouped(a, u, v, b, s)
      BY <2>1, Regroup
    <2> QED
      BY <1>3, <2>1, Zenon DEF Regrouped
  <1>5. Append(a, Head(s)) = a \o x
    BY <1>1 DEF x
  <1>6. MovedOne(a, s, b)
    BY <1>4, <1>5, Zenon DEF y, MovedOne
  <1>7. Append(a, Head(s)) \in Seq(B)
    BY <1>1
  <1> QED
    BY <1>1, <1>6, <1>7, Zenon

(* Two ways to cut the same sequence.                                      *)
LEMMA JoinsIs ==
  ASSUME NEW B, NEW a \in Seq(B), NEW b \in Seq(B), NEW s, Joins(s, a, b)
  PROVE  /\ s \in Seq(B) /\ Len(s) = Len(a) + Len(b) /\ Len(a) \in Nat /\ Len(b) \in Nat
         /\ \A i \in 1..Len(a) : s[i] = a[i]
         /\ \A i \in 1..Len(b) : s[Len(a) + i] = b[i]
  BY DEF Joins

LEMMA SamePrefix ==
  ASSUME NEW B, NEW t \in Seq(B), NEW x \in Seq(B), NEW h \in Seq(B), NEW y \in Seq(B),
         NEW s, Joins(s, t, x), Joins(s, h, y)
  PROVE  /\ Len(t) + Len(x) = Len(h) + Len(y)
         /\ \A i \in 1..Len(t) : i \in 1..Len(h) => t[i] = h[i]
         /\ Len(t) <= Len(h) => x = SubSeq(h, Len(t) + 1, Len(h)) \o y
         /\ Len(t) = Len(h) => t = h /\ x = y
  <1>1. /\ Len(s) = Len(t) + Len(x) /\ Len(t) \in Nat /\ Len(x) \in Nat
        /\ \A i \in 1..Len(t) : s[i] = t[i]
        /\ \A i \in 1..Len(x) : s[Len(t) + i] = x[i]
    BY JoinsIs
  <1>2. /\ Len(s) = Len(h) + Len(y) /\ Len(h) \in Nat /\ Len(y) \in Nat
        /\ \A i \in 1..Len(h) : s[i] = h[i]
        /\ \A i \in 1..Len(y) : s[Len(h) + i] = y[i]
    BY JoinsIs
  <1>3. \A i \in 1..Len(t) : i \in 1..Len(h) => t[i] = h[i]
    BY <1>1, <1>2
  <1>4. ASSUME Len(t) <= Len(h) PROVE x = SubSeq(h, Len(t) + 1, Len(h)) \o y
    <2> DEFINE c == SubSeq(h, Len(t) + 1, Len(h))
    <2>1. c \in Seq(B) /\ Len(c) = Len(h) - Len(t) /\ \A i \in 1..(Len(h) - Len(t)) : c[i] = h[Len(t) + i]
      <3>1. Len(t) \in 0..Len(h)
        BY <1>1, <1>2, <1>4
      <3> QED
        BY <3>1, Cut
    <2> HIDE DEF c
    <2> DEFINE r == c \o y
    <2>0. Joins(r, c, y)
      BY DEF Joins
    <2> HIDE DEF r
    <2>2. /\ r \in Seq(B) /\ Len(r) = Len(c) + Len(y)
          /\ \A i \in 1..Len(c) : r[i] = c[i]
          /\ \A i \in 1..Len(y) : r[Len(c) + i] = y[i]
      <3>1. ASSUME NEW a \in Seq(B), Joins(r, a, y)
            PROVE  /\ r \in Seq(B) /\ Len(r) = Len(a) + Len(y)
                   /\ \A i \in 1..Len(a) : r[i] = a[i]
                   /\ \A i \in 1..Len(y) : r[Len(a) + i] = y[i]
        BY <3>1, JoinsIs
      <3> QED
        BY <2>0, <2>1, <3>1, Zenon
    <2>3. Len(r) = Len(x)
      <3>1. Len(s) = Len(t) + Len(x) /\ Len(s) = Len(h) + Len(y) /\ Len(t) \in Nat /\ Len(x) \in Nat
            /\ Len(h) \in Nat /\ Len(y) \in Nat
        BY <1>1, <1>2
      <3>2. Len(r) = (Len(h) - Len(t)) + Len(y)
        BY <2>1, <2>2
      <3> QED
        BY <3>1, <3>2
    <2>4. ASSUME NEW i \in 1..Len(x) PROVE x[i] = r[i]
      <3>1. s[Len(t) + i] = x[i]
        BY <1>1
      <3>2. CASE i <= Len(c)
        <4>1. i \in 1..Len(c) /\ i \in 1..(Len(h) - Len(t)) /\ Len(t) + i \in 1..Len(h)
          BY <1>1, <1>2, <2>1, <3>2
        <4>2. r[i] = c[i] /\ c[i] = h[Len(t) + i] /\ s[Len(t) + i] = h[Len(t) + i]
          BY <1>2, <2>1, <2>2, <4>1
        <4> QED
          BY <3>1, <4>2
      <3>3. CASE i > Len(c)
        <4>1. i - Len(c) \in 1..Len(y) /\ Len(c) + (i - Len(c)) = i /\ Len(h) + (i - Len(c)) = Len(t) + i
          BY <1>1, <1>2, <2>1, <2>2, <2>3, <3>3
        <4>2. r[Len(c) + (i - Len(c))] = y[i - Len(c)] /\ s[Len(h) + (i - Len(c))] = y[i - Len(c)]
          BY <1>2, <2>2, <4>1
        <4> QED
          BY <3>1, <4>1, <4>2
      <3> QED
        BY <1>1, <1>2, <2>1, <3>2, <3>3
    <2>5. x = r
      BY <2>2, <2>3, <2>4, SameElements
    <2> QED
      BY <2>5 DEF r, c
  <1>5. ASSUME Len(t) = Len(h) PROVE t = h /\ x = y
    <2>1. t = h
      BY <1>1, <1>2, <1>3, <1>5, SameElements
    <2>2. Len(x) = Len(y) /\ \A i \in 1..Len(x) : x[i] = y[i]
      BY <1>1, <1>2, <1>5
    <2>3. x = y
      BY <2>2, SameElements
    <2> QED
      BY <2>1, <2>3
  <1> QED
    BY <1>1, <1>2, <1>3, <1>4, <1>5

-----------------------------------------------------------------------------
(* The first of two packets is the one whose bytes the reader has seen:    *)
(* the digits of the remaining length are those of that packet.            *)
LEMMA PacketsTyped ==
  ASSUME NEW d \in Seq(BrokerPackets)
  PROVE  /\ d \in Seq(Seq(Bytes))
         /\ d # <<>> => Head(d) \in BrokerPackets /\ Tail(d) \in Seq(BrokerPackets)
  <1>1. BrokerPackets \subseteq Seq(Bytes)
    BY PacketIs
  <1> DEFINE S == Seq(Bytes)
  <1>2. BrokerPackets \subseteq S
    BY <1>1
  <1> HIDE DEF S
  <1>3. d \in Seq(S)
    BY <1>2
  <1> QED
    BY <1>3 DEF S

LEMMA LastDigit ==
  ASSUME NEW t \in Seq(Bytes), t # <<>>, NEW b \in Bytes, DigitsIn(Tail(t)) = 5,
         DigitsIn(Tail(Append(t, b))) # 5
  PROVE  DigitsIn(Tail(Append(t, b))) = Len(Tail(Append(t, b)))
  <1> DEFINE a == Tail(t)
             c == Tail(Append(t, b))
  <1>1. a \in Seq(Bytes) /\ c \in Seq(Bytes) /\ Len(a) \in Nat /\ Len(c) = Len(a) + 1
    OBVIOUS
  <1>2. \A i \in 1..Len(a) : c[i] = a[i]
    OBVIOUS
  <1>3. DigitsIn(a) = 5 /\ DigitsIn(c) # 5
    OBVIOUS
  <1> HIDE DEF a, c
  <1>4. DigitsIn(c) \in 1..4 /\ DigitsIn(c) <= Len(c) /\ c[DigitsIn(c)] < Digit
    BY <1>1, <1>3, DigitsAre
  <1>5. \A i \in 1..4 : ~(i <= Len(a) /\ a[i] < Digit)
    BY <1>1, <1>3, DigitsAre
  <1>6. DigitsIn(c) = Len(c)
    <2>1. ~(DigitsIn(c) <= Len(a))
      BY <1>1, <1>2, <1>4, <1>5
    <2> QED
      BY <1>1, <1>4, <2>1
  <1> QED
    BY <1>6 DEF c

LEMMA SameDigits ==
  ASSUME NEW a \in Seq(Bytes), NEW c \in Seq(Bytes), \A i \in 1..Len(a) : i \in 1..Len(c) => a[i] = c[i],
         DigitsIn(a) # 5, DigitsIn(c) # 5
  PROVE  /\ DigitsIn(a) = DigitsIn(c) /\ DigitsIn(a) \in 1..4 /\ DigitsIn(a) <= Len(a) /\ DigitsIn(a) <= Len(c)
         /\ SubSeq(a, 1, DigitsIn(a)) = SubSeq(c, 1, DigitsIn(c))
  <1> DEFINE k == DigitsIn(a)
             m == DigitsIn(c)
  <1>1. k \in 1..4 /\ k <= Len(a) /\ a[k] < Digit /\ \A i \in 1..4 : i <= Len(a) /\ a[i] < Digit => k <= i
    BY DigitsAre
  <1>2. m \in 1..4 /\ m <= Len(c) /\ c[m] < Digit /\ \A i \in 1..4 : i <= Len(c) /\ c[i] < Digit => m <= i
    BY DigitsAre
  <1> HIDE DEF k, m
  <1>3. Len(a) \in Nat /\ Len(c) \in Nat
    OBVIOUS
  <1>4. ~(k < m)
    BY <1>1, <1>2, <1>3
  <1>5. ~(m < k)
    BY <1>1, <1>2, <1>3
  <1>6. k = m
    BY <1>1, <1>2, <1>4, <1>5
  <1>7. SubSeq(a, 1, k) = SubSeq(c, 1, k)
    <2>1. k \in 0..Len(a) /\ k \in 0..Len(c)
      BY <1>1, <1>2, <1>3, <1>6
    <2>2. SubSeq(a, 1, k) \in Seq(Bytes) /\ Len(SubSeq(a, 1, k)) = k /\ \A i \in 1..k : SubSeq(a, 1, k)[i] = a[i]
      BY <2>1, Cut
    <2>3. SubSeq(c, 1, k) \in Seq(Bytes) /\ Len(SubSeq(c, 1, k)) = k /\ \A i \in 1..k : SubSeq(c, 1, k)[i] = c[i]
      BY <2>1, Cut
    <2>4. \A i \in 1..k : a[i] = c[i]
      BY <2>1, <1>3, <1>1
    <2> QED
      BY <2>2, <2>3, <2>4, SameElements
  <1> QED
    BY <1>1, <1>2, <1>6, <1>7 DEF k, m

Left(h, n) == SubSeq(h, Len(h) - n + 1, Len(h))

LEMMA Measured ==
  ASSUME NEW h \in BrokerPackets, NEW y \in Seq(Bytes), NEW u \in Seq(Bytes), u # <<>>, NEW z \in Seq(Bytes),
         NEW s, Joins(s, u, z), Joins(s, h, y),
         DigitsIn(Tail(u)) # 5, DigitsIn(Tail(u)) = Len(Tail(u))
  PROVE  /\ Value(SubSeq(Tail(u), 1, DigitsIn(Tail(u)))) = Len(h) - Len(u)
         /\ Len(h) - Len(u) \in Nat /\ Len(h) - Len(u) \in 0..Len(h)
         /\ z = Left(h, Len(h) - Len(u)) \o y
  <1>1. h \in Seq(Bytes) /\ h # <<>> /\ DigitsIn(Tail(h)) # 5
        /\ Value(SubSeq(Tail(h), 1, DigitsIn(Tail(h)))) = Len(h) - 1 - DigitsIn(Tail(h))
    BY PacketIs
  <1>2. /\ \A i \in 1..Len(u) : i \in 1..Len(h) => u[i] = h[i]
        /\ Len(u) <= Len(h) => z = SubSeq(h, Len(u) + 1, Len(h)) \o y
    BY <1>1, SamePrefix
  <1> DEFINE a == Tail(u)
             c == Tail(h)
  <1>3. a \in Seq(Bytes) /\ Len(a) = Len(u) - 1 /\ Len(u) \in Nat /\ \A i \in 1..Len(a) : a[i] = u[i + 1]
    OBVIOUS
  <1>4. c \in Seq(Bytes) /\ Len(c) = Len(h) - 1 /\ Len(h) \in Nat /\ \A i \in 1..Len(c) : c[i] = h[i + 1]
    BY <1>1
  <1>5. DigitsIn(a) # 5 /\ DigitsIn(a) = Len(a) /\ DigitsIn(c) # 5
        /\ Value(SubSeq(c, 1, DigitsIn(c))) = Len(h) - 1 - DigitsIn(c)
    BY <1>1
  <1> HIDE DEF a, c
  <1>6. \A i \in 1..Len(a) : i \in 1..Len(c) => a[i] = c[i]
    <2> SUFFICES ASSUME NEW i \in 1..Len(a), i \in 1..Len(c) PROVE a[i] = c[i]
      OBVIOUS
    <2>1. i + 1 \in 1..Len(u) /\ i + 1 \in 1..Len(h)
      BY <1>3, <1>4
    <2>2. u[i + 1] = h[i + 1]
      BY <1>2, <2>1
    <2> QED
      BY <1>3, <1>4, <2>2
  <1>7. DigitsIn(a) = DigitsIn(c) /\ DigitsIn(a) \in 1..4 /\ DigitsIn(a) <= Len(c)
        /\ SubSeq(a, 1, DigitsIn(a)) = SubSeq(c, 1, DigitsIn(c))
    BY <1>3, <1>4, <1>5, <1>6, SameDigits
  <1>8. Value(SubSeq(a, 1, DigitsIn(a))) = Len(h) - 1 - DigitsIn(a)
    BY <1>5, <1>7
  <1>9. Len(u) <= Len(h) /\ Len(h) - 1 - DigitsIn(a) = Len(h) - Len(u) /\ Len(h) - Len(u) \in 0..Len(h)
        /\ Len(h) - (Len(h) - Len(u)) + 1 = Len(u) + 1
    BY <1>3, <1>4, <1>5, <1>7
  <1>10. z = Left(h, Len(h) - Len(u)) \o y
    BY <1>2, <1>9 DEF Left
  <1> QED
    BY <1>8, <1>9, <1>10 DEF a

(* What is left of an oversized packet when the next piece of it is        *)
(* skipped.                                                                *)
LEMMA LeftIs ==
  ASSUME NEW h \in Seq(Bytes), NEW n \in 0..Len(h)
  PROVE  Left(h, n) \in Seq(Bytes) /\ Len(Left(h, n)) = n /\ \A i \in 1..n : Left(h, n)[i] = h[Len(h) - n + i]
  <1>1. Len(h) - n \in 0..Len(h) /\ Len(h) \in Nat /\ Len(h) - (Len(h) - n) = n
    OBVIOUS
  <1> DEFINE k == Len(h) - n
  <1>2. SubSeq(h, k + 1, Len(h)) \in Seq(Bytes) /\ Len(SubSeq(h, k + 1, Len(h))) = Len(h) - k
        /\ \A i \in 1..(Len(h) - k) : SubSeq(h, k + 1, Len(h))[i] = h[k + i]
    <2>1. k \in 0..Len(h)
      BY <1>1
    <2> HIDE DEF k
    <2> QED
      BY <2>1, Cut
  <1> QED
    BY <1>1, <1>2 DEF Left

LEMMA Skipped ==
  ASSUME NEW h \in Seq(Bytes), NEW n \in 0..Len(h), NEW k \in 0..n
  PROVE  SubSeq(Left(h, n), k + 1, Len(Left(h, n))) = Left(h, n - k)
  <1> DEFINE l == Left(h, n)
             m == Left(h, n - k)
  <1>1. l \in Seq(Bytes) /\ Len(l) = n /\ \A i \in 1..n : l[i] = h[Len(h) - n + i]
    BY LeftIs
  <1>2. n - k \in 0..Len(h) /\ n \in Nat /\ k \in Nat /\ Len(h) \in Nat
    OBVIOUS
  <1>3. m \in Seq(Bytes) /\ Len(m) = n - k /\ \A i \in 1..(n - k) : m[i] = h[Len(h) - (n - k) + i]
    BY <1>2, LeftIs
  <1> HIDE DEF l, m
  <1>4. SubSeq(l, k + 1, Len(l)) \in Seq(Bytes) /\ Len(SubSeq(l, k + 1, Len(l))) = n - k
        /\ \A i \in 1..(n - k) : SubSeq(l, k + 1, Len(l))[i] = l[k + i]
    <2>1. k \in 0..Len(l)
      BY <1>1
    <2> QED
      BY <1>1, <2>1, Cut
  <1>5. ASSUME NEW i \in 1..(n - k) PROVE SubSeq(l, k + 1, Len(l))[i] = m[i]
    <2>1. k + i \in 1..n /\ Len(h) - n + (k + i) = Len(h) - (n - k) + i
      BY <1>2
    <2>2. l[k + i] = h[Len(h) - n + (k + i)]
      BY <1>1, <2>1
    <2>3. m[i] = h[Len(h) - (n - k) + i]
      BY <1>3
    <2> QED
      BY <1>4, <2>1, <2>2, <2>3
  <1>6. SubSeq(l, k + 1, Len(l)) = m
    BY <1>3, <1>4, <1>5, SameElements
  <1> QED
    BY <1>6 DEF l, m

LEMMA CutJoin ==
  ASSUME NEW B, NEW a \in Seq(B), NEW x \in Seq(B), NEW z \in Seq(B),
         NEW q, Joins(q, a, x), NEW s, Joins(s, q, z)
  PROVE  Joins(s, a, x \o z) /\ x \o z \in Seq(B)
  BY DEF Joins

Follows(x, t, h, y) == x = SubSeq(h, Len(t) + 1, Len(h)) \o y

LEMMA Following ==
  ASSUME NEW B, NEW t \in Seq(B), NEW x \in Seq(B), NEW h \in Seq(B), NEW y \in Seq(B),
         NEW s, Joins(s, t, x), Joins(s, h, y)
  PROVE  (Len(t) <= Len(h) => Follows(x, t, h, y)) /\ (Len(t) = Len(h) => x = y)
  BY SamePrefix DEF Follows

Skips(q, k, z, h, n, y) ==
  /\ SubSeq(q, k + 1, Len(q)) \o z = Left(h, n - k) \o y
  /\ k = n => SubSeq(q, k + 1, Len(q)) \o z = y

LEMMA Drains ==
  ASSUME NEW h \in Seq(Bytes), NEW n \in 0..Len(h), NEW k \in 0..n, NEW q \in Seq(Bytes), k <= Len(q),
         NEW z \in Seq(Bytes), NEW y \in Seq(Bytes), NEW s, Joins(s, q, z), Joins(s, Left(h, n), y)
  PROVE  Skips(q, k, z, h, n, y)
  <1> DEFINE a == SubSeq(q, 1, k)
             x == SubSeq(q, k + 1, Len(q))
             l == Left(h, n)
  <1>1. a \in Seq(Bytes) /\ x \in Seq(Bytes) /\ Len(a) = k /\ Joins(q, a, x)
    <2>1. k \in 0..Len(q)
      OBVIOUS
    <2> QED
      BY <2>1, Cut
  <1>2. l \in Seq(Bytes) /\ Len(l) = n
    BY LeftIs
  <1>3. Joins(s, l, y)
    OBVIOUS
  <1>4. SubSeq(l, k + 1, Len(l)) = Left(h, n - k)
    BY Skipped
  <1> HIDE DEF a, x, l
  <1> DEFINE v == x \o z
  <1>6. Joins(s, a, v) /\ v \in Seq(Bytes)
    BY <1>1, CutJoin
  <1> HIDE DEF v
  <1>7. /\ Len(a) <= Len(l) => v = SubSeq(l, Len(a) + 1, Len(l)) \o y
        /\ Len(a) = Len(l) => v = y
    <2>1. (Len(a) <= Len(l) => Follows(v, a, l, y)) /\ (Len(a) = Len(l) => v = y)
      BY <1>1, <1>2, <1>3, <1>6, Following
    <2> QED
      BY <2>1, Zenon DEF Follows
  <1>8. v = SubSeq(l, k + 1, Len(l)) \o y /\ (k = n => v = y)
    <2>1. Len(a) <= Len(l) /\ (k = n => Len(a) = Len(l))
      BY <1>1, <1>2
    <2> QED
      BY <1>1, <1>7, <2>1
  <1> QED
    BY <1>4, <1>8, Zenon DEF x, v, Skips

-----------------------------------------------------------------------------
(* Where a reader stands that has not lost its place: in stage st, with t  *)
(* taken, q in the deque, w on the wire and r, never sent, behind it, the  *)
(* packets d are due.                                                      *)
Typed(t, q, w, d, r) ==
  /\ t \in Seq(Bytes) /\ q \in Seq(Bytes) /\ w \in Seq(Bytes) /\ r \in Seq(Bytes)
  /\ d \in Seq(BrokerPackets)
Complete(t, q, w, d, r) == Joins(FlattenSeq(d), t, q \o (w \o r))
Draining(n, q, w, d, r) ==
  /\ d # <<>> /\ n \in 0..Len(Head(d))
  /\ q \o (w \o r) = Left(Head(d), n) \o FlattenSeq(Tail(d))
Stands(o, st, t, q, w, n, d, r) ==
  /\ Typed(t, q, w, d, r)
  /\ o => r = <<>>
  /\ st # "drain" => Complete(t, q, w, d, r)
  /\ st = "drain" => Draining(n, q, w, d, r)
  /\ st = "length" => t # <<>> /\ DigitsIn(Tail(t)) = 5
  /\ st = "body" => d # <<>> /\ n = Len(Head(d)) - Len(t) /\ n \in Nat

(* Bytes move on, and the sequence they make up stays what it is.          *)
LEMMA MovesOn ==
  ASSUME NEW q \in Seq(Bytes), NEW w \in Seq(Bytes), NEW r \in Seq(Bytes), NEW k \in 0..Len(w)
  PROVE  /\ Moved(q, w, r, k)
         /\ q \o SubSeq(w, 1, k) \in Seq(Bytes) /\ SubSeq(w, k + 1, Len(w)) \in Seq(Bytes)
  <1>1. Moved(q, w, r, k)
    BY Shift
  <1>3. SubSeq(w, 1, k) \in Seq(Bytes) /\ SubSeq(w, k + 1, Len(w)) \in Seq(Bytes)
    BY Cut
  <1>4. q \o SubSeq(w, 1, k) \in Seq(Bytes)
    BY <1>3
  <1> QED
    BY <1>1, <1>3, <1>4, Zenon

LEMMA StandsWhenBytesArrive ==
  ASSUME NEW o, NEW st, NEW t, NEW q, NEW w, NEW n, NEW d, NEW r, Stands(o, st, t, q, w, n, d, r),
         NEW k \in 1..Len(w)
  PROVE  Stands(o, st, t, q \o SubSeq(w, 1, k), SubSeq(w, k + 1, Len(w)), n, d, r)
  <1>1. Typed(t, q, w, d, r)
    BY DEF Stands
  <1> DEFINE a == q \o SubSeq(w, 1, k)
             b == SubSeq(w, k + 1, Len(w))
  <1>2. a \o (b \o r) = q \o (w \o r) /\ a \in Seq(Bytes) /\ b \in Seq(Bytes)
    <2>1. k \in 0..Len(w)
      BY <1>1 DEF Typed
    <2>2. Moved(q, w, r, k) /\ a \in Seq(Bytes) /\ b \in Seq(Bytes)
      BY <1>1, <2>1, MovesOn DEF Typed
    <2> QED
      BY <2>2, Zenon DEF Moved
  <1> HIDE DEF a, b
  <1>3. Typed(t, a, b, d, r)
    BY <1>1, <1>2 DEF Typed
  <1>4. Complete(t, q, w, d, r) => Complete(t, a, b, d, r)
    BY <1>2, Zenon DEF Complete
  <1>5. Draining(n, q, w, d, r) => Draining(n, a, b, d, r)
    BY <1>2, Zenon DEF Draining
  <1>6. Stands(o, st, t, a, b, n, d, r)
    BY <1>3, <1>4, <1>5, Zenon DEF Stands
  <1> QED
    BY <1>6 DEF a, b

LEMMA NotEmpty == ASSUME NEW B, NEW d \in Seq(B), NEW p \in B PROVE Append(d, p) # <<>>
  <1>1. Len(Append(d, p)) = Len(d) + 1 /\ Len(d) \in Nat
    OBVIOUS
  <1> QED
    BY <1>1

(* A packet more is due when the broker has sent it.                       *)
LEMMA AppendIs ==
  ASSUME NEW B, NEW d \in Seq(B), NEW p \in B
  PROVE  /\ Append(d, p) \in Seq(B) /\ Append(d, p) # <<>>
         /\ d # <<>> => Head(Append(d, p)) = Head(d) /\ Tail(Append(d, p)) = Append(Tail(d), p)
         /\ d = <<>> => Head(Append(d, p)) = p
  <1> DEFINE e == Append(d, p)
  <1>1. e \in Seq(B) /\ Len(e) = Len(d) + 1 /\ Len(d) \in Nat /\ e # <<>>
    OBVIOUS
  <1>2. d = <<>> => Head(e) = p
    OBVIOUS
  <1>3. ASSUME d # <<>> PROVE Head(e) = Head(d) /\ Tail(e) = Append(Tail(d), p)
    <2>1. Head(e) = Head(d)
      BY <1>3
    <2>2. Tail(e) = Append(Tail(d), p)
      <3> DEFINE x == Tail(e)
                 y == Append(Tail(d), p)
      <3>1. x \in Seq(B) /\ Len(x) = Len(d)
        BY <1>3
      <3>2. y \in Seq(B) /\ Len(y) = Len(d)
        BY <1>3
      <3>3. \A i \in 1..Len(x) : x[i] = y[i]
        BY <1>3
      <3> HIDE DEF x, y
      <3>4. x = y
        BY <3>1, <3>2, <3>3, SameElements
      <3> QED
        BY <3>4 DEF x, y
    <2> QED
      BY <2>1, <2>2
  <1> QED
    BY <1>1, <1>2, <1>3

LEMMA BytesAssociate == \A u, v, w \in Seq(Bytes) : (u \o v) \o w = u \o (v \o w)
  <1>1. Associative(Seq(Bytes))
    BY Associates
  <1> QED
    BY <1>1, Zenon DEF Associative

LEMMA EmptyRest ==
  ASSUME NEW B, NEW q \in Seq(B), NEW w \in Seq(B), NEW p \in Seq(B)
  PROVE  /\ q \o ((w \o p) \o <<>>) = (q \o (w \o <<>>)) \o p
         /\ q \o (w \o <<>>) \in Seq(B)
  OBVIOUS

LEMMA StandsWhenSent ==
  ASSUME NEW st, NEW t, NEW q, NEW w, NEW n, NEW d, NEW r, Stands(TRUE, st, t, q, w, n, d, r),
         NEW p \in BrokerPackets
  PROVE  Stands(TRUE, st, t, q, w \o p, n, Append(d, p), r)
  <1>0. r = <<>>
    BY Zenon DEF Stands
  <1>1. Typed(t, q, w, d, r) /\ p \in Seq(Bytes) /\ p # <<>>
    BY PacketIs, Zenon DEF Stands
  <1> DEFINE e == Append(d, p)
             z == q \o (w \o r)
             v == w \o p
  <1>2. d \in Seq(BrokerPackets) /\ d \in Seq(Seq(Bytes)) /\ e \in Seq(BrokerPackets) /\ e # <<>>
        /\ t \in Seq(Bytes) /\ q \in Seq(Bytes) /\ w \in Seq(Bytes) /\ r \in Seq(Bytes)
    <2>1. d \in Seq(BrokerPackets)
      BY <1>1 DEF Typed
    <2>2. e \in Seq(BrokerPackets) /\ e # <<>>
      BY <2>1, AppendIs
    <2> HIDE DEF e
    <2> QED
      BY <1>1, <2>1, <2>2, PacketsTyped, Zenon DEF Typed
  <1>3. d # <<>> => Head(e) = Head(d) /\ Tail(e) = Append(Tail(d), p) /\ Tail(d) \in Seq(BrokerPackets)
    <2>1. d \in Seq(BrokerPackets)
      BY <1>2
    <2> QED
      BY <2>1, AppendIs
  <1>9. d = <<>> => Head(e) = p
    <2>1. d \in Seq(BrokerPackets)
      BY <1>2
    <2> QED
      BY <2>1, AppendIs
  <1>4. FlattenSeq(e) = FlattenSeq(d) \o p /\ FlattenSeq(d) \in Seq(Bytes)
    BY <1>1, <1>2, FlattenAppend
  <1>5. q \o (v \o r) = z \o p /\ z \in Seq(Bytes) /\ v \in Seq(Bytes)
    <2>1. q \o ((w \o p) \o <<>>) = (q \o (w \o <<>>)) \o p /\ q \o (w \o <<>>) \in Seq(Bytes)
      BY <1>1, <1>2, EmptyRest
    <2>2. w \o p \in Seq(Bytes)
      BY <1>1, <1>2
    <2> QED
      BY <1>0, <2>1, <2>2, Zenon
  <1> HIDE DEF z, v, e
  <1>6. Complete(t, q, w, d, r) => Complete(t, q, v, e, r)
    <2> SUFFICES ASSUME Complete(t, q, w, d, r) PROVE Complete(t, q, v, e, r)
      OBVIOUS
    <2>1. FlattenSeq(d) = t \o z
      BY Zenon DEF Complete, Joins, z
    <2>2. (t \o z) \o p = t \o (z \o p)
      <3>1. t \in Seq(Bytes) /\ z \in Seq(Bytes) /\ p \in Seq(Bytes)
        BY <1>1, <1>2, <1>5, Zenon
      <3> QED
        BY <3>1, BytesAssociate, Zenon
    <2> QED
      BY <1>4, <1>5, <2>1, <2>2, Zenon DEF Complete, Joins
  <1>7. Draining(n, q, w, d, r) => Draining(n, q, v, e, r)
    <2> SUFFICES ASSUME Draining(n, q, w, d, r) PROVE Draining(n, q, v, e, r)
      OBVIOUS
    <2>1. d # <<>> /\ n \in 0..Len(Head(d))
      BY Zenon DEF Draining
    <2> DEFINE l == Left(Head(d), n)
               g == FlattenSeq(Tail(d))
    <2>2. z = l \o g
      BY Zenon DEF Draining, z
    <2>3. Head(d) \in Seq(Bytes) /\ Tail(d) \in Seq(Seq(Bytes))
      BY <1>2, <2>1, PacketsTyped, PacketIs, Zenon
    <2>4. l \in Seq(Bytes)
      BY <2>1, <2>3, LeftIs
    <2>5. FlattenSeq(Append(Tail(d), p)) = g \o p /\ g \in Seq(Bytes)
      BY <1>1, <2>3, FlattenAppend
    <2>6. Tail(e) = Append(Tail(d), p) /\ Head(e) = Head(d)
      BY <1>3, <2>1, Zenon
    <2> HIDE DEF l, g
    <2>7. (l \o g) \o p = l \o (g \o p)
      <3>1. l \in Seq(Bytes) /\ g \in Seq(Bytes) /\ p \in Seq(Bytes)
        BY <1>1, <2>4, <2>5, Zenon
      <3> QED
        BY <3>1, BytesAssociate, Zenon
    <2>8. q \o (v \o r) = l \o FlattenSeq(Tail(e))
      BY <1>5, <2>2, <2>5, <2>6, <2>7, Zenon
    <2> QED
      BY <1>2, <2>1, <2>6, <2>8, Zenon DEF Draining, l
  <1>8. Typed(t, q, v, e, r)
    BY <1>2, <1>5, Zenon DEF Typed
  <1>10. st # "drain" => Complete(t, q, w, d, r)
    BY Zenon DEF Stands
  <1>11. st = "drain" => Draining(n, q, w, d, r)
    BY Zenon DEF Stands
  <1>12. st = "length" => t # <<>> /\ DigitsIn(Tail(t)) = 5
    BY Zenon DEF Stands
  <1>13. st = "body" => d # <<>> /\ n = Len(Head(d)) - Len(t) /\ n \in Nat
    BY Zenon DEF Stands
  <1>14. st = "body" => e # <<>> /\ n = Len(Head(e)) - Len(t) /\ n \in Nat
    BY <1>2, <1>3, <1>13, Zenon
  <1>15. Stands(TRUE, st, t, q, v, n, e, r)
    BY <1>0, <1>6, <1>7, <1>8, <1>10, <1>11, <1>12, <1>14, Zenon DEF Stands
  <1> QED
    BY <1>15 DEF v, e

(* The bytes on the wire of a connection that is gone are never sent.      *)
LEMMA StandsWhenClosed ==
  ASSUME NEW st, NEW t, NEW q, NEW w, NEW n, NEW d, NEW r, Stands(TRUE, st, t, q, w, n, d, r)
  PROVE  Stands(FALSE, st, t, q, <<>>, n, d, w)
  <1>1. Typed(t, q, w, d, r) /\ r = <<>>
    BY Zenon DEF Stands
  <1>2. <<>> \in Seq(Bytes)
    OBVIOUS
  <1>3. Typed(t, q, <<>>, d, w)
    BY <1>1, <1>2, Zenon DEF Typed
  <1>4. <<>> \o w = w /\ w \o r = w
    BY <1>1 DEF Typed
  <1>5. Complete(t, q, w, d, r) => Complete(t, q, <<>>, d, w)
    BY <1>4, Zenon DEF Complete
  <1>6. Draining(n, q, w, d, r) => Draining(n, q, <<>>, d, w)
    BY <1>4, Zenon DEF Draining
  <1> QED
    BY <1>3, <1>5, <1>6, Zenon DEF Stands

-----------------------------------------------------------------------------
(* The reader takes a byte more.                                           *)
LEMMA TakesOne ==
  ASSUME NEW o, NEW st, NEW t, NEW q, NEW w, NEW n, NEW d, NEW r, Stands(o, st, t, q, w, n, d, r),
         st # "drain", q # <<>>
  PROVE  /\ Typed(Append(t, Head(q)), Tail(q), w, d, r) /\ Complete(Append(t, Head(q)), Tail(q), w, d, r)
         /\ Append(t, Head(q)) # <<>> /\ d # <<>> /\ Head(q) \in Bytes
  <1>1. Typed(t, q, w, d, r) /\ Complete(t, q, w, d, r)
    BY Zenon DEF Stands
  <1>2. t \in Seq(Bytes) /\ q \in Seq(Bytes) /\ w \in Seq(Bytes) /\ r \in Seq(Bytes) /\ d \in Seq(BrokerPackets)
    BY <1>1, Zenon DEF Typed
  <1> DEFINE z == w \o r
             u == Append(t, Head(q))
             x == Tail(q)
  <1>3. z \in Seq(Bytes)
    BY <1>2
  <1>4. Head(q) \in Bytes /\ u # <<>>
    <2>1. Head(q) \in Bytes
      BY <1>2
    <2> QED
      <3>1. \A p \in Bytes : Append(t, p) # <<>>
        BY <1>2, NotEmpty
      <3> QED
        BY <2>1, <3>1, Zenon
  <1> HIDE DEF z
  <1>5. u \o (x \o z) = t \o (q \o z) /\ u \in Seq(Bytes) /\ x \in Seq(Bytes)
    <2>1. MovedOne(t, q, z) /\ u \in Seq(Bytes) /\ x \in Seq(Bytes)
      BY <1>2, <1>3, ShiftOne
    <2> QED
      BY <2>1, Zenon DEF MovedOne
  <1>6. FlattenSeq(d) = t \o (q \o z)
    BY <1>1, Zenon DEF Complete, Joins, z
  <1>7. d # <<>>
    <2> SUFFICES ASSUME d = <<>> PROVE FALSE
      OBVIOUS
    <2>1. FlattenSeq(d) = <<>>
      BY FlattenEmpty, Zenon
    <2>2. u \o (x \o z) = <<>>
      BY <1>5, <1>6, <2>1, Zenon
    <2> HIDE DEF u, x
    <2>3. x \o z \in Seq(Bytes)
      BY <1>3, <1>5
    <2> QED
      BY <1>4, <1>5, <2>2, <2>3
  <1> HIDE DEF u, x
  <1>8. Complete(u, x, w, d, r)
    BY <1>5, <1>6, Zenon DEF Complete, Joins, z
  <1>9. Typed(u, x, w, d, r)
    BY <1>2, <1>5, Zenon DEF Typed
  <1> QED
    BY <1>4, <1>7, <1>8, <1>9 DEF u, x

(* What is due begins with a packet.                                       *)
LEMMA FirstDue ==
  ASSUME NEW d \in Seq(BrokerPackets), d # <<>>
  PROVE  /\ Joins(FlattenSeq(d), Head(d), FlattenSeq(Tail(d)))
         /\ FlattenSeq(Tail(d)) \in Seq(Bytes) /\ Head(d) \in Seq(Bytes)
         /\ Head(d) \in BrokerPackets /\ Tail(d) \in Seq(BrokerPackets)
  <1>1. d \in Seq(Seq(Bytes)) /\ Head(d) \in BrokerPackets /\ Tail(d) \in Seq(BrokerPackets)
    BY PacketsTyped
  <1>2. FlattenSeq(d) = Head(d) \o FlattenSeq(Tail(d)) /\ FlattenSeq(Tail(d)) \in Seq(Bytes)
        /\ Head(d) \in Seq(Bytes)
    BY <1>1, FlattenHead
  <1> QED
    BY <1>1, <1>2, Zenon DEF Joins

LEMMA Behind ==
  ASSUME NEW t, NEW q, NEW w, NEW d, NEW r, Typed(t, q, w, d, r)
  PROVE  /\ q \o (w \o r) \in Seq(Bytes) /\ t \in Seq(Bytes) /\ d \in Seq(BrokerPackets)
         /\ Complete(t, q, w, d, r) <=> Joins(FlattenSeq(d), t, q \o (w \o r))
  BY DEF Typed, Complete

(* Once all of it is there, it is the packet that was due.                 *)
LEMMA Completed ==
  ASSUME NEW u, NEW q, NEW w, NEW d, NEW r, Typed(u, q, w, d, r), Complete(u, q, w, d, r),
         d # <<>>, Len(u) = Len(Head(d)), NEW o, o => r = <<>>, NEW n
  PROVE  u = Head(d) /\ Stands(o, "idle", <<>>, q, w, n, Tail(d), r)
  <1> DEFINE z == q \o (w \o r)
             h == Head(d)
             y == FlattenSeq(Tail(d))
             s == FlattenSeq(d)
  <1>1. z \in Seq(Bytes) /\ u \in Seq(Bytes) /\ d \in Seq(BrokerPackets) /\ Joins(s, u, z)
    BY Behind, Zenon
  <1>2. Joins(s, h, y) /\ y \in Seq(Bytes) /\ h \in Seq(Bytes) /\ Tail(d) \in Seq(BrokerPackets)
    BY <1>1, FirstDue, Zenon
  <1>3. Len(u) = Len(h)
    OBVIOUS
  <1> HIDE DEF z, h, y, s
  <1>4. u = h /\ z = y
    BY <1>1, <1>2, <1>3, SamePrefix
  <1>5. <<>> \o z = z /\ <<>> \in Seq(Bytes)
    BY <1>1
  <1>6. Complete(<<>>, q, w, Tail(d), r)
    BY <1>4, <1>5, Zenon DEF Complete, Joins, z, y
  <1>7. Typed(<<>>, q, w, Tail(d), r)
    BY <1>2, <1>5, Zenon DEF Typed
  <1>8. Stands(o, "idle", <<>>, q, w, n, Tail(d), r)
    BY <1>6, <1>7 DEF Stands
  <1> QED
    BY <1>4, <1>8 DEF h

(* Once its length is there, that is the length of the packet due.         *)
LEMMA LengthKnown ==
  ASSUME NEW u, NEW q, NEW w, NEW d, NEW r, Typed(u, q, w, d, r), Complete(u, q, w, d, r),
         d # <<>>, u # <<>>, DigitsIn(Tail(u)) # 5, DigitsIn(Tail(u)) = Len(Tail(u)),
         NEW v, v = Value(SubSeq(Tail(u), 1, DigitsIn(Tail(u))))
  PROVE  /\ v \in Nat /\ v = Len(Head(d)) - Len(u) /\ Len(Head(d)) \in Nat /\ Len(u) \in Nat
         /\ Draining(v, q, w, d, r)
  <1> DEFINE z == q \o (w \o r)
             h == Head(d)
             y == FlattenSeq(Tail(d))
             s == FlattenSeq(d)
  <1>1. z \in Seq(Bytes) /\ u \in Seq(Bytes) /\ d \in Seq(BrokerPackets) /\ Joins(s, u, z)
    BY Behind, Zenon
  <1>2. Joins(s, h, y) /\ y \in Seq(Bytes) /\ h \in Seq(Bytes) /\ h \in BrokerPackets
    BY <1>1, FirstDue, Zenon
  <1> HIDE DEF z, h, y, s
  <1>3. /\ Value(SubSeq(Tail(u), 1, DigitsIn(Tail(u)))) = Len(h) - Len(u)
        /\ Len(h) - Len(u) \in Nat /\ Len(h) - Len(u) \in 0..Len(h)
        /\ z = Left(h, Len(h) - Len(u)) \o y
    BY <1>1, <1>2, Measured
  <1>4. v = Len(h) - Len(u) /\ v \in Nat /\ v \in 0..Len(h) /\ z = Left(h, v) \o y
    BY <1>3, Zenon
  <1>5. Draining(v, q, w, d, r)
    BY <1>4, Zenon DEF Draining, z, h, y
  <1>6. Len(h) \in Nat /\ Len(u) \in Nat
    BY <1>1, <1>2
  <1> QED
    BY <1>4, <1>5, <1>6, Zenon DEF h

(* The body arrives in one piece.                                          *)
LEMMA TakesMany ==
  ASSUME NEW t, NEW q, NEW w, NEW d, NEW r, Typed(t, q, w, d, r), Complete(t, q, w, d, r), NEW k \in 0..Len(q)
  PROVE  /\ Typed(t \o SubSeq(q, 1, k), SubSeq(q, k + 1, Len(q)), w, d, r)
         /\ Complete(t \o SubSeq(q, 1, k), SubSeq(q, k + 1, Len(q)), w, d, r)
         /\ Len(t \o SubSeq(q, 1, k)) = Len(t) + k
  <1>1. t \in Seq(Bytes) /\ q \in Seq(Bytes) /\ w \in Seq(Bytes) /\ r \in Seq(Bytes) /\ d \in Seq(BrokerPackets)
    BY Zenon DEF Typed
  <1> DEFINE z == w \o r
             u == t \o SubSeq(q, 1, k)
             x == SubSeq(q, k + 1, Len(q))
  <1>2. z \in Seq(Bytes)
    BY <1>1
  <1>3. Len(u) = Len(t) + k
    <2>1. SubSeq(q, 1, k) \in Seq(Bytes) /\ Len(SubSeq(q, 1, k)) = k
      BY <1>1, Cut
    <2> QED
      BY <1>1, <2>1
  <1> HIDE DEF z
  <1>4. u \o (x \o z) = t \o (q \o z) /\ u \in Seq(Bytes) /\ x \in Seq(Bytes)
    <2>1. Moved(t, q, z, k) /\ u \in Seq(Bytes) /\ x \in Seq(Bytes)
      BY <1>1, <1>2, MovesOn
    <2> QED
      BY <2>1, Zenon DEF Moved
  <1>5. FlattenSeq(d) = t \o (q \o z)
    BY Zenon DEF Complete, Joins, z
  <1> HIDE DEF u, x
  <1>6. Complete(u, x, w, d, r)
    BY <1>4, <1>5, Zenon DEF Complete, Joins, z
  <1>7. Typed(u, x, w, d, r)
    BY <1>1, <1>4, Zenon DEF Typed
  <1> QED
    BY <1>3, <1>6, <1>7 DEF u, x

(* A piece of an oversized packet is skipped.                              *)
LEMMA SkipsMany ==
  ASSUME NEW t, NEW q, NEW w, NEW d, NEW r, NEW n, Typed(t, q, w, d, r), Draining(n, q, w, d, r),
         NEW k \in 0..n, k <= Len(q)
  PROVE  /\ Typed(t, SubSeq(q, k + 1, Len(q)), w, d, r)
         /\ Draining(n - k, SubSeq(q, k + 1, Len(q)), w, d, r)
         /\ k = n => Typed(<<>>, SubSeq(q, k + 1, Len(q)), w, Tail(d), r)
                      /\ Complete(<<>>, SubSeq(q, k + 1, Len(q)), w, Tail(d), r)
  <1>1. t \in Seq(Bytes) /\ q \in Seq(Bytes) /\ w \in Seq(Bytes) /\ r \in Seq(Bytes) /\ d \in Seq(BrokerPackets)
    BY Zenon DEF Typed
  <1>2. d # <<>> /\ n \in 0..Len(Head(d))
    BY Zenon DEF Draining
  <1> DEFINE z == w \o r
             h == Head(d)
             y == FlattenSeq(Tail(d))
             x == SubSeq(q, k + 1, Len(q))
             s == q \o z
  <1>3. z \in Seq(Bytes)
    BY <1>1
  <1>4. y \in Seq(Bytes) /\ h \in Seq(Bytes) /\ Tail(d) \in Seq(BrokerPackets)
    BY <1>1, <1>2, FirstDue
  <1>5. Joins(s, q, z) /\ Joins(s, Left(h, n), y)
    BY Zenon DEF Joins, Draining
  <1>6. x \in Seq(Bytes)
    <2>1. k \in 0..Len(q)
      BY <1>1
    <2> QED
      BY <1>1, <2>1, Cut
  <1>7. n \in 0..Len(h)
    BY <1>2
  <1> HIDE DEF s, z, h, y
  <1>8. x \o z = Left(h, n - k) \o y /\ (k = n => x \o z = y)
    <2>1. Skips(q, k, z, h, n, y)
      BY <1>1, <1>3, <1>4, <1>5, <1>7, Drains
    <2> QED
      BY <2>1, Zenon DEF Skips, x
  <1>9. n - k \in 0..Len(h)
    <2>1. Len(h) \in Nat
      BY <1>4
    <2> QED
      BY <1>7, <2>1
  <1> HIDE DEF x
  <1>10. Draining(n - k, x, w, d, r)
    BY <1>2, <1>8, <1>9, Zenon DEF Draining, z, h, y
  <1>11. Typed(t, x, w, d, r)
    BY <1>1, <1>6, Zenon DEF Typed
  <1>12. ASSUME k = n PROVE Typed(<<>>, x, w, Tail(d), r) /\ Complete(<<>>, x, w, Tail(d), r)
    <2>1. <<>> \o (x \o z) = x \o z /\ <<>> \in Seq(Bytes)
      BY <1>3, <1>6
    <2>2. Typed(<<>>, x, w, Tail(d), r)
      BY <1>1, <1>4, <1>6, <2>1, Zenon DEF Typed
    <2>3. Complete(<<>>, x, w, Tail(d), r)
      BY <1>8, <1>12, <2>1, Zenon DEF Complete, Joins, z, y
    <2> QED
      BY <2>2, <2>3
  <1> QED
    BY <1>10, <1>11, <1>12, Zenon DEF x

-----------------------------------------------------------------------------
(* The inductive invariant: on a connection made when nothing of an older  *)
(* one was held, the reader has not lost its place.                        *)
InPlace == \E r : Stands(open, stage, taken, deque, wire, need, due, r)
Reads == open \/ stage # "idle"
FramingInv ==
  /\ ~open => wire = <<>>
  /\ stage \in {"idle", "header"} => taken = <<>>
  /\ clean => trusted
  /\ clean /\ Reads => InPlace

LEMMA FramingInvHolds == ASSUME FramingInit PROVE FramingInv
  BY DEF FramingInit, FramingInv, Reads

LEMMA FramingInvImplies == ASSUME FramingInv PROVE FramingInStep
  <1> SUFFICES ASSUME clean, open PROVE Held
    BY DEF FramingInv, FramingInStep
  <1>1. PICK r : Stands(open, stage, taken, deque, wire, need, due, r)
    BY DEF FramingInv, Reads, InPlace
  <1>2. r = <<>> /\ Typed(taken, deque, wire, due, r)
    BY <1>1, Zenon DEF Stands
  <1>3. taken \in Seq(Bytes) /\ deque \in Seq(Bytes) /\ wire \in Seq(Bytes)
    BY <1>2, Zenon DEF Typed
  <1>4. wire \o r = wire
    BY <1>2, <1>3
  <1>5. CASE stage = "drain"
    <2>1. due # <<>> /\ deque \o wire = Left(Head(due), need) \o FlattenSeq(Tail(due))
      BY <1>1, <1>4, <1>5, Zenon DEF Stands, Draining
    <2> QED
      BY <1>5, <2>1, Zenon DEF Held, Left
  <1>6. CASE stage # "drain"
    <2>1. FlattenSeq(due) = taken \o (deque \o wire)
      BY <1>1, <1>4, <1>6, Zenon DEF Stands, Complete, Joins
    <2>2. (taken \o deque) \o wire = taken \o (deque \o wire)
      BY <1>3, BytesAssociate, Zenon
    <2> QED
      BY <1>6, <2>1, <2>2, Zenon DEF Held
  <1> QED
    BY <1>5, <1>6

-----------------------------------------------------------------------------
(* An error of the reader ends its claim on the stream.                    *)
LEMMA ClosesOnError == ASSUME FramingInv, CloseOnError PROVE FramingInv'
  BY DEF FramingInv, CloseOnError, Reads, records

LEMMA Opens == ASSUME FramingInv, SocketOpens PROVE FramingInv'
  <1>1. /\ ~open /\ open' = TRUE /\ due' = <<>> /\ trusted' = TRUE
        /\ clean' = (deque = <<>> /\ stage \in {"idle", "header"})
        /\ wire' = wire /\ deque' = deque /\ stage' = stage /\ taken' = taken /\ need' = need
    BY DEF SocketOpens, stream
  <1>2. wire = <<>> /\ (stage \in {"idle", "header"} => taken = <<>>)
    BY <1>1 DEF FramingInv
  <1>3. ASSUME deque = <<>>, stage \in {"idle", "header"} PROVE InPlace'
    <2>1. <<>> \in Seq(Bytes) /\ <<>> \in Seq(BrokerPackets) /\ <<>> \o (<<>> \o (<<>> \o <<>>)) = <<>>
      OBVIOUS
    <2>2. Typed(<<>>, <<>>, <<>>, <<>>, <<>>)
      BY <2>1, Zenon DEF Typed
    <2>3. Complete(<<>>, <<>>, <<>>, <<>>, <<>>)
      BY <2>1, FlattenEmpty, Zenon DEF Complete, Joins
    <2>4. Stands(TRUE, stage, <<>>, <<>>, <<>>, need, <<>>, <<>>)
      BY <1>3, <2>2, <2>3 DEF Stands
    <2>5. Stands(open', stage', taken', deque', wire', need', due', <<>>)
      BY <1>1, <1>2, <1>3, <2>4, Zenon
    <2> QED
      BY <2>5, Zenon DEF InPlace
  <1> QED
    BY <1>1, <1>2, <1>3 DEF FramingInv, Reads

LEMMA Sends == ASSUME FramingInv, NEW p \in BrokerPackets, BrokerSends(p) PROVE FramingInv'
  <1>1. /\ open /\ wire' = wire \o p /\ due' = Append(due, p) /\ open' = open /\ deque' = deque
        /\ stage' = stage /\ taken' = taken /\ need' = need /\ clean' = clean /\ trusted' = trusted
    BY DEF BrokerSends, reader
  <1>2. ASSUME clean PROVE InPlace'
    <2>1. PICK r : Stands(open, stage, taken, deque, wire, need, due, r)
      BY <1>1, <1>2 DEF FramingInv, Reads, InPlace
    <2>2. open = TRUE
      BY <2>1, <1>1 DEF Stands
    <2>3. Stands(TRUE, stage, taken, deque, wire \o p, need, Append(due, p), r)
      BY <2>1, <2>2, StandsWhenSent
    <2>4. Stands(open', stage', taken', deque', wire', need', due', r)
      BY <1>1, <2>2, <2>3, Zenon
    <2> QED
      BY <2>4, Zenon DEF InPlace
  <1> QED
    BY <1>1, <1>2 DEF FramingInv, Reads

LEMMA Closes == ASSUME FramingInv, SocketCloses PROVE FramingInv'
  <1>1. /\ open /\ open' = FALSE /\ wire' = <<>> /\ due' = due /\ deque' = deque
        /\ stage' = stage /\ taken' = taken /\ need' = need /\ clean' = clean /\ trusted' = trusted
    BY DEF SocketCloses, reader, records
  <1>2. ASSUME clean PROVE InPlace'
    <2>1. PICK r : Stands(open, stage, taken, deque, wire, need, due, r)
      BY <1>1, <1>2 DEF FramingInv, Reads, InPlace
    <2>2. Stands(TRUE, stage, taken, deque, wire, need, due, r)
      BY <2>1, <1>1, Zenon DEF Stands
    <2>3. Stands(FALSE, stage, taken, deque, <<>>, need, due, wire)
      BY <2>2, StandsWhenClosed
    <2>4. Stands(open', stage', taken', deque', wire', need', due', wire)
      BY <1>1, <2>3, Zenon
    <2> QED
      BY <2>4, Zenon DEF InPlace
  <1> QED
    BY <1>1, <1>2 DEF FramingInv, Reads

LEMMA ArrivesInPlace == ASSUME FramingInv, NEW k \in 1..Len(wire), Arrives(k) PROVE FramingInv'
  <1>1. /\ open /\ open' = open /\ deque' = deque \o SubSeq(wire, 1, k)
        /\ wire' = SubSeq(wire, k + 1, Len(wire))
        /\ due' = due /\ stage' = stage /\ taken' = taken /\ need' = need /\ clean' = clean /\ trusted' = trusted
    BY DEF Arrives, reader, records
  <1>2. ASSUME clean PROVE InPlace'
    <2>1. PICK r : Stands(open, stage, taken, deque, wire, need, due, r)
      BY <1>1, <1>2 DEF FramingInv, Reads, InPlace
    <2>2. Stands(open, stage, taken, deque \o SubSeq(wire, 1, k), SubSeq(wire, k + 1, Len(wire)), need, due, r)
      BY <2>1, StandsWhenBytesArrive
    <2>3. Stands(open', stage', taken', deque', wire', need', due', r)
      BY <1>1, <2>2, Zenon
    <2> QED
      BY <2>3, Zenon DEF InPlace
  <1> QED
    BY <1>1, <1>2 DEF FramingInv, Reads

LEMMA StartsReading == ASSUME FramingInv, StartRead PROVE FramingInv'
  <1>1. /\ open /\ open' = open /\ stage = "idle" /\ stage' = "header" /\ wire' = wire /\ deque' = deque
        /\ due' = due /\ taken' = taken /\ need' = need /\ clean' = clean /\ trusted' = trusted
    BY DEF StartRead, stream, records
  <1>2. ASSUME clean PROVE InPlace'
    <2>1. PICK r : Stands(open, stage, taken, deque, wire, need, due, r)
      BY <1>1, <1>2 DEF FramingInv, Reads, InPlace
    <2>2. Stands(open, "header", taken, deque, wire, need, due, r)
      BY <1>1, <2>1 DEF Stands
    <2>3. Stands(open', stage', taken', deque', wire', need', due', r)
      BY <1>1, <2>2, Zenon
    <2> QED
      BY <2>3, Zenon DEF InPlace
  <1> QED
    BY <1>1, <1>2 DEF FramingInv, Reads

LEMMA ReadsNothing == ASSUME FramingInv, NothingRead PROVE FramingInv'
  <1>1. /\ open' = open /\ stage = "header" /\ stage' = "idle" /\ wire' = wire /\ deque' = deque
        /\ due' = due /\ taken' = taken /\ need' = need /\ clean' = clean /\ trusted' = trusted
    BY DEF NothingRead, stream, records
  <1>2. ASSUME clean PROVE InPlace'
    <2>1. PICK r : Stands(open, stage, taken, deque, wire, need, due, r)
      BY <1>1, <1>2 DEF FramingInv, Reads, InPlace
    <2>2. Stands(open, "idle", taken, deque, wire, need, due, r)
      BY <1>1, <2>1 DEF Stands
    <2>3. Stands(open', stage', taken', deque', wire', need', due', r)
      BY <1>1, <2>2, Zenon
    <2> QED
      BY <2>3, Zenon DEF InPlace
  <1> QED
    BY <1>1, <1>2 DEF FramingInv, Reads

-----------------------------------------------------------------------------
LEMMA NoDigits == ASSUME NEW b \in Bytes PROVE DigitsIn(Tail(<<b>>)) = 5
  <1> DEFINE a == Tail(<<b>>)
  <1>1. a \in Seq(Bytes) /\ Len(a) = 0
    OBVIOUS
  <1> HIDE DEF a
  <1>2. DigitsIn(a) \in 1..5 /\ (DigitsIn(a) # 5 => DigitsIn(a) <= Len(a))
    BY <1>1, DigitsAre
  <1>3. DigitsIn(a) = 5
    BY <1>1, <1>2
  <1> QED
    BY <1>3 DEF a

LEMMA ReadsHeader == ASSUME FramingInv, ReadHeader PROVE FramingInv'
  <1>1. stage = "header" /\ deque # <<>> /\ deque' = Tail(deque)
    BY DEF ReadHeader
  <1>2. taken = <<>>
    BY <1>1 DEF FramingInv
  <1>3. CASE DetectPacketType(Head(deque)).err = OK
    <2>1. /\ stage' = "length" /\ taken' = <<Head(deque)>> /\ open' = open /\ wire' = wire /\ need' = need
          /\ due' = due /\ clean' = clean /\ trusted' = trusted
      BY <1>3 DEF ReadHeader, records
    <2>2. ASSUME clean PROVE InPlace'
      <3>1. PICK r : Stands(open, stage, taken, deque, wire, need, due, r)
        BY <1>1, <2>2 DEF FramingInv, Reads, InPlace
      <3> DEFINE u == Append(taken, Head(deque))
                 x == Tail(deque)
      <3>2. Typed(u, x, wire, due, r) /\ Complete(u, x, wire, due, r) /\ u # <<>> /\ Head(deque) \in Bytes
        <4>1. stage # "drain"
          BY <1>1
        <4> QED
          BY <1>1, <3>1, <4>1, TakesOne
      <3>3. u = <<Head(deque)>>
        BY <1>2
      <3>4. DigitsIn(Tail(u)) = 5
        BY <3>2, <3>3, NoDigits, Zenon
      <3>5. open => r = <<>>
        BY <3>1, Zenon DEF Stands
      <3> HIDE DEF u, x
      <3>6. Stands(open, "length", u, x, wire, need, due, r)
        BY <3>2, <3>4, <3>5 DEF Stands
      <3>7. taken' = u /\ deque' = x
        BY <1>1, <2>1, <3>3 DEF x
      <3>8. Stands(open', stage', taken', deque', wire', need', due', r)
        BY <2>1, <3>6, <3>7, Zenon
      <3> QED
        BY <3>8, Zenon DEF InPlace
    <2> QED
      BY <1>1, <2>1, <2>2 DEF FramingInv, Reads
  <1>4. CASE DetectPacketType(Head(deque)).err # OK
    <2>1. CloseOnError
      BY <1>4 DEF ReadHeader
    <2> QED
      BY <2>1, ClosesOnError
  <1> QED
    BY <1>3, <1>4

(* A packet that is whole is the one due, and the reader is between two.   *)
LEMMA Finishes ==
  ASSUME FramingInv, NEW p, Finish(p), stage # "idle",
         \A r : Stands(open, stage, taken, deque, wire, need, due, r) =>
                  /\ Typed(p, deque', wire, due, r) /\ Complete(p, deque', wire, due, r)
                  /\ due # <<>> /\ Len(p) = Len(Head(due))
  PROVE  FramingInv'
  <1>1. CASE DecodeError(p) = OK
    <2>1. /\ trusted' = (trusted /\ due # <<>> /\ p = Head(due))
          /\ due' = (IF due = <<>> THEN <<>> ELSE Tail(due))
          /\ stage' \in {"idle", "header"} /\ taken' = <<>> /\ need' = 0
          /\ open' = open /\ wire' = wire /\ clean' = clean
      BY <1>1 DEF Finish, Accept, PacketDone
    <2>2. ASSUME clean PROVE trusted' /\ InPlace'
      <3>1. PICK r : Stands(open, stage, taken, deque, wire, need, due, r)
        BY <2>2 DEF FramingInv, Reads, InPlace
      <3>2. /\ Typed(p, deque', wire, due, r) /\ Complete(p, deque', wire, due, r)
            /\ due # <<>> /\ Len(p) = Len(Head(due)) /\ (open => r = <<>>)
        BY <3>1, Zenon DEF Stands
      <3> DEFINE x == deque'
      <3> HIDE DEF x
      <3>3. p = Head(due) /\ Stands(open, "idle", <<>>, x, wire, 0, Tail(due), r)
        <4>1. Typed(p, x, wire, due, r) /\ Complete(p, x, wire, due, r)
          BY <3>2 DEF x
        <4> QED
          BY <3>2, <4>1, Completed
      <3>4. trusted'
        BY <2>1, <2>2, <3>2, <3>3 DEF FramingInv
      <3>5. due' = Tail(due)
        BY <2>1, <3>2
      <3>6. Stands(open', stage', taken', deque', wire', need', due', r)
        <4>1. Stands(open, stage', <<>>, x, wire, 0, Tail(due), r)
          BY <2>1, <3>3 DEF Stands
        <4> QED
          BY <2>1, <3>5, <4>1, Zenon DEF x
      <3> QED
        BY <3>4, <3>6, Zenon DEF InPlace
    <2> QED
      BY <2>1, <2>2 DEF FramingInv, Reads
  <1>2. CASE DecodeError(p) # OK
    BY <1>2, ClosesOnError DEF Finish
  <1> QED
    BY <1>1, <1>2

LEMMA ReadLengthIs ==
  ASSUME ReadLength, NEW t, t = Append(taken, Head(deque)), NEW d, d = DetectRemainingLength(Tail(t))
  PROVE  /\ stage = "length" /\ deque # <<>> /\ deque' = Tail(deque)
         /\ \/ /\ d.err = "BUFFER_TOO_SHORT" /\ taken' = t
               /\ UNCHANGED <<open, wire, stage, need, due, clean, trusted>>
            \/ /\ d.err = OK /\ stage' = "drain" /\ taken' = t /\ need' = d.val
               /\ UNCHANGED <<open, wire, due, clean, trusted>>
            \/ /\ d.err = OK /\ stage' = "body" /\ taken' = t /\ need' = d.val
               /\ UNCHANGED <<open, wire, due, clean, trusted>>
            \/ d.err = OK /\ d.val = 0 /\ Finish(t)
            \/ CloseOnError
  <1>1. stage = "length" /\ deque # <<>> /\ deque' = Tail(deque)
    BY DEF ReadLength
  <1> DEFINE total == Len(t) + d.val
  <1>2. (CASE d.err = "BUFFER_TOO_SHORT" ->
               /\ taken' = t /\ lost' = ~open
               /\ UNCHANGED <<open, drop, wire, stage, need, accepted, overrun, records>>
          [] d.err = OK /\ Overflows(total) /\ drop ->
               /\ stage' = "drain" /\ taken' = t /\ need' = d.val /\ lost' = ~open
               /\ UNCHANGED <<open, drop, wire, accepted, overrun, records>>
          [] d.err = OK /\ ~Overflows(total) /\ d.val > 0 ->
               /\ stage' = "body" /\ taken' = t /\ need' = d.val /\ lost' = ~open
               /\ UNCHANGED <<open, drop, wire, accepted, overrun, records>>
          [] d.err = OK /\ ~Overflows(total) /\ d.val = 0 -> Finish(t)
          [] OTHER -> CloseOnError)
    BY DEF ReadLength
  <1> HIDE DEF total
  <1>3. OK # "BUFFER_TOO_SHORT"
    BY DEF OK
  <1> DEFINE short == d.err = "BUFFER_TOO_SHORT"
             over  == d.err = OK /\ Overflows(total) /\ drop
             body  == d.err = OK /\ ~Overflows(total) /\ d.val > 0
             full  == d.err = OK /\ ~Overflows(total) /\ d.val = 0
  <1>4. CASE short
    BY <1>1, <1>2, <1>3, <1>4 DEF records
  <1>5. CASE over
    <2>1. ~short /\ ~body /\ ~full
      BY <1>3, <1>5
    <2> QED
      BY <1>1, <1>2, <1>5, <2>1 DEF records
  <1>6. CASE body
    <2>1. ~short /\ ~over /\ ~full
      BY <1>3, <1>6
    <2> QED
      BY <1>1, <1>2, <1>6, <2>1 DEF records
  <1>7. CASE full
    <2>1. ~short /\ ~over /\ ~body
      BY <1>3, <1>7
    <2> QED
      BY <1>1, <1>2, <1>7, <2>1 DEF records
  <1>8. CASE ~short /\ ~over /\ ~body /\ ~full
    BY <1>1, <1>2, <1>8
  <1> QED
    BY <1>4, <1>5, <1>6, <1>7, <1>8

-----------------------------------------------------------------------------
LEMMA ReadsLength == ASSUME FramingInv, ReadLength PROVE FramingInv'
  <1> DEFINE t == Append(taken, Head(deque))
             d == DetectRemainingLength(Tail(t))
             x == Tail(deque)
  <1>1. /\ stage = "length" /\ deque # <<>> /\ deque' = x
        /\ \/ /\ d.err = "BUFFER_TOO_SHORT" /\ taken' = t
              /\ UNCHANGED <<open, wire, stage, need, due, clean, trusted>>
           \/ /\ d.err = OK /\ stage' = "drain" /\ taken' = t /\ need' = d.val
              /\ UNCHANGED <<open, wire, due, clean, trusted>>
           \/ /\ d.err = OK /\ stage' = "body" /\ taken' = t /\ need' = d.val
              /\ UNCHANGED <<open, wire, due, clean, trusted>>
           \/ d.err = OK /\ d.val = 0 /\ Finish(t)
           \/ CloseOnError
    BY ReadLengthIs
  <1>2. ASSUME NEW r, Stands(open, stage, taken, deque, wire, need, due, r)
        PROVE  /\ Typed(t, x, wire, due, r) /\ Complete(t, x, wire, due, r) /\ t # <<>> /\ due # <<>>
               /\ open => r = <<>>
               /\ d.err = "BUFFER_TOO_SHORT" => DigitsIn(Tail(t)) = 5
               /\ d.err = OK => /\ d.val \in Nat /\ d.val = Len(Head(due)) - Len(t)
                                /\ Len(Head(due)) \in Nat /\ Len(t) \in Nat
                                /\ Draining(d.val, x, wire, due, r)
    <2>1. stage # "drain"
      BY <1>1
    <2>2. Typed(t, x, wire, due, r) /\ Complete(t, x, wire, due, r) /\ t # <<>> /\ due # <<>>
          /\ Head(deque) \in Bytes
      BY <1>1, <1>2, <2>1, TakesOne
    <2>3. (open => r = <<>>) /\ taken # <<>> /\ DigitsIn(Tail(taken)) = 5 /\ taken \in Seq(Bytes)
      BY <1>1, <1>2, Zenon DEF Stands, Typed
    <2>4. Tail(t) \in Seq(Bytes)
      BY <2>2 DEF Typed
    <2> DEFINE a == Tail(t)
    <2>5. /\ d.err = OK => DigitsIn(a) # 5 /\ d.val = Value(SubSeq(a, 1, DigitsIn(a)))
          /\ d.err = "BUFFER_TOO_SHORT" => DigitsIn(a) = 5 /\ Len(a) < 5
      BY <2>4, RemainingIs, Zenon
    <2>6. DigitsIn(a) # 5 => DigitsIn(a) = Len(a)
      BY <2>2, <2>3, LastDigit
    <2>7. ASSUME d.err = OK
          PROVE  /\ d.val \in Nat /\ d.val = Len(Head(due)) - Len(t)
                 /\ Len(Head(due)) \in Nat /\ Len(t) \in Nat
                 /\ Draining(d.val, x, wire, due, r)
      <3> HIDE DEF t, d, x
      <3> QED
        BY <2>2, <2>5, <2>6, <2>7, LengthKnown DEF a
    <2> QED
      BY <2>2, <2>3, <2>5, <2>7, Zenon
  <1> HIDE DEF t, d, x
  <1>3. clean => \E r : Stands(open, stage, taken, deque, wire, need, due, r)
    BY <1>1 DEF FramingInv, Reads, InPlace
  <1>4. CASE d.err = "BUFFER_TOO_SHORT" /\ taken' = t
             /\ UNCHANGED <<open, wire, stage, need, due, clean, trusted>>
    <2>1. ASSUME clean PROVE InPlace'
      <3>1. PICK r : Stands(open, stage, taken, deque, wire, need, due, r)
        BY <1>3, <2>1
      <3>2. Stands(open, "length", t, x, wire, need, due, r)
        BY <1>2, <1>4, <3>1, Zenon DEF Stands
      <3>3. Stands(open', stage', taken', deque', wire', need', due', r)
        BY <1>1, <1>4, <3>2
      <3> QED
        BY <3>3, Zenon DEF InPlace
    <2> QED
      BY <1>1, <1>4, <2>1 DEF FramingInv, Reads
  <1>5. CASE d.err = OK /\ stage' = "drain" /\ taken' = t /\ need' = d.val
             /\ UNCHANGED <<open, wire, due, clean, trusted>>
    <2>1. ASSUME clean PROVE InPlace'
      <3>1. PICK r : Stands(open, stage, taken, deque, wire, need, due, r)
        BY <1>3, <2>1
      <3>2. Stands(open, "drain", t, x, wire, d.val, due, r)
        <4>1. Typed(t, x, wire, due, r) /\ (open => r = <<>>) /\ Draining(d.val, x, wire, due, r)
          BY <1>2, <1>5, <3>1
        <4> QED
          BY <4>1 DEF Stands
      <3>3. Stands(open', stage', taken', deque', wire', need', due', r)
        BY <1>1, <1>5, <3>2, Zenon
      <3> QED
        BY <3>3, Zenon DEF InPlace
    <2> QED
      BY <1>1, <1>5, <2>1 DEF FramingInv, Reads
  <1>6. CASE d.err = OK /\ stage' = "body" /\ taken' = t /\ need' = d.val
             /\ UNCHANGED <<open, wire, due, clean, trusted>>
    <2>1. ASSUME clean PROVE InPlace'
      <3>1. PICK r : Stands(open, stage, taken, deque, wire, need, due, r)
        BY <1>3, <2>1
      <3>2. Stands(open, "body", t, x, wire, d.val, due, r)
        <4>1. /\ Typed(t, x, wire, due, r) /\ (open => r = <<>>) /\ Complete(t, x, wire, due, r) /\ due # <<>>
              /\ d.val = Len(Head(due)) - Len(t) /\ d.val \in Nat
          BY <1>2, <1>6, <3>1
        <4> QED
          BY <4>1 DEF Stands
      <3>3. Stands(open', stage', taken', deque', wire', need', due', r)
        BY <1>1, <1>6, <3>2, Zenon
      <3> QED
        BY <3>3, Zenon DEF InPlace
    <2> QED
      BY <1>1, <1>6, <2>1 DEF FramingInv, Reads
  <1>7. CASE d.err = OK /\ d.val = 0 /\ Finish(t)
    <2>1. ASSUME NEW r, Stands(open, stage, taken, deque, wire, need, due, r)
          PROVE  /\ Typed(t, deque', wire, due, r) /\ Complete(t, deque', wire, due, r)
                 /\ due # <<>> /\ Len(t) = Len(Head(due))
      <3>1. /\ Typed(t, x, wire, due, r) /\ Complete(t, x, wire, due, r) /\ due # <<>>
            /\ d.val = Len(Head(due)) - Len(t) /\ Len(Head(due)) \in Nat /\ Len(t) \in Nat
        BY <1>2, <1>7, <2>1
      <3>2. Len(t) = Len(Head(due))
        BY <1>7, <3>1
      <3> QED
        BY <1>1, <3>1, <3>2, Zenon
    <2>2. stage # "idle"
      BY <1>1
    <2> QED
      BY <1>7, <2>1, <2>2, Finishes
  <1>8. CASE CloseOnError
    BY <1>8, ClosesOnError
  <1> QED
    BY <1>1, <1>4, <1>5, <1>6, <1>7, <1>8

LEMMA ReadsBody == ASSUME FramingInv, ReadBody PROVE FramingInv'
  <1> DEFINE p == taken \o SubSeq(deque, 1, need)
             x == SubSeq(deque, need + 1, Len(deque))
  <1>1. stage = "body" /\ Len(deque) >= need /\ deque' = x /\ Finish(p)
    BY DEF ReadBody
  <1>2. ASSUME NEW r, Stands(open, stage, taken, deque, wire, need, due, r)
        PROVE  Typed(p, x, wire, due, r) /\ Complete(p, x, wire, due, r) /\ due # <<>> /\ Len(p) = Len(Head(due))
    <2>1. stage # "drain"
      BY <1>1
    <2>2. Typed(taken, deque, wire, due, r) /\ Complete(taken, deque, wire, due, r)
          /\ due # <<>> /\ need = Len(Head(due)) - Len(taken) /\ need \in Nat
      BY <1>1, <1>2, <2>1, Zenon DEF Stands
    <2>3. deque \in Seq(Bytes) /\ taken \in Seq(Bytes) /\ due \in Seq(BrokerPackets)
      BY <2>2, Zenon DEF Typed
    <2>4. need \in 0..Len(deque)
      BY <1>1, <2>2, <2>3
    <2>5. Typed(p, x, wire, due, r) /\ Complete(p, x, wire, due, r) /\ Len(p) = Len(taken) + need
      BY <2>2, <2>4, TakesMany
    <2>6. Len(taken) + need = Len(Head(due))
      <3>1. Head(due) \in Seq(Bytes)
        BY <2>2, <2>3, FirstDue
      <3>2. Len(Head(due)) \in Nat /\ Len(taken) \in Nat
        BY <2>3, <3>1
      <3> QED
        BY <2>2, <3>2
    <2> QED
      BY <2>2, <2>5, <2>6, Zenon
  <1>3. stage # "idle"
    BY <1>1
  <1> HIDE DEF p, x
  <1>4. ASSUME NEW r, Stands(open, stage, taken, deque, wire, need, due, r)
        PROVE  /\ Typed(p, deque', wire, due, r) /\ Complete(p, deque', wire, due, r)
               /\ due # <<>> /\ Len(p) = Len(Head(due))
    BY <1>1, <1>2, <1>4, Zenon
  <1> QED
    BY <1>1, <1>3, <1>4, Finishes

LEMMA SmallerOne == ASSUME NEW m \in Nat, NEW n \in Nat PROVE Min({m, n}) \in 0..m
  <1>1. {m, n} \subseteq Nat /\ {m, n} # {}
    OBVIOUS
  <1>2. \E a \in {m, n} : \A b \in {m, n} : a <= b
    BY <1>1, Smallest
  <1>3. Min({m, n}) \in {m, n} /\ \A b \in {m, n} : Min({m, n}) <= b
    BY <1>2 DEF Min
  <1> QED
    BY <1>3

LEMMA DrainsInPlace == ASSUME FramingInv, Drain PROVE FramingInv'
  <1> DEFINE k == Min({need, ReadBufSize})
             x == SubSeq(deque, k + 1, Len(deque))
  <1>1. /\ stage = "drain" /\ Len(deque) >= k /\ deque' = x /\ Drained(k)
        /\ open' = open /\ wire' = wire /\ clean' = clean /\ trusted' = trusted
    BY DEF Drain
  <1>2. ASSUME NEW r, Stands(open, stage, taken, deque, wire, need, due, r)
        PROVE  /\ Typed(taken, x, wire, due, r) /\ Draining(need - k, x, wire, due, r)
               /\ k = need => Typed(<<>>, x, wire, Tail(due), r) /\ Complete(<<>>, x, wire, Tail(due), r)
               /\ (open => r = <<>>) /\ due # <<>>
    <2>1. Typed(taken, deque, wire, due, r) /\ Draining(need, deque, wire, due, r) /\ (open => r = <<>>)
      BY <1>1, <1>2, Zenon DEF Stands
    <2>2. deque \in Seq(Bytes) /\ due # <<>> /\ need \in 0..Len(Head(due)) /\ due \in Seq(BrokerPackets)
      BY <2>1, Zenon DEF Typed, Draining
    <2>3. need \in Nat
      <3>1. Head(due) \in Seq(Bytes)
        BY <2>2, FirstDue
      <3> QED
        BY <2>2, <3>1
    <2>4. ReadBufSize \in Nat
      BY FramingAssumption
    <2>5. k \in 0..need
      BY <2>3, <2>4, SmallerOne
    <2> HIDE DEF k
    <2>6. k <= Len(deque)
      BY <1>1, <2>2, <2>3, <2>5
    <2> QED
      BY <2>1, <2>2, <2>5, <2>6, SkipsMany
  <1>3. clean => \E r : Stands(open, stage, taken, deque, wire, need, due, r)
    BY <1>1 DEF FramingInv, Reads, InPlace
  <1> HIDE DEF k, x
  <1>4. CASE k = need
    <2>1. /\ stage' \in {"idle", "header"} /\ taken' = <<>> /\ need' = 0
          /\ due' = IF due = <<>> THEN <<>> ELSE Tail(due)
      BY <1>1, <1>4 DEF Drained, PacketDone
    <2>2. ASSUME clean PROVE InPlace'
      <3>1. PICK r : Stands(open, stage, taken, deque, wire, need, due, r)
        BY <1>3, <2>2
      <3>2. Typed(<<>>, x, wire, Tail(due), r) /\ Complete(<<>>, x, wire, Tail(due), r) /\ (open => r = <<>>)
            /\ due' = Tail(due)
        BY <1>2, <1>4, <2>1, <3>1
      <3>3. Stands(open, stage', <<>>, x, wire, 0, Tail(due), r)
        BY <2>1, <3>2 DEF Stands
      <3>4. Stands(open', stage', taken', deque', wire', need', due', r)
        BY <1>1, <2>1, <3>2, <3>3, Zenon
      <3> QED
        BY <3>4, Zenon DEF InPlace
    <2> QED
      BY <1>1, <2>1, <2>2 DEF FramingInv, Reads
  <1>5. CASE k # need
    <2>1. stage' = stage /\ taken' = taken /\ need' = need - k /\ due' = due
      BY <1>1, <1>5 DEF Drained
    <2>2. ASSUME clean PROVE InPlace'
      <3>1. PICK r : Stands(open, stage, taken, deque, wire, need, due, r)
        BY <1>3, <2>2
      <3>2. Typed(taken, x, wire, due, r) /\ Draining(need - k, x, wire, due, r) /\ (open => r = <<>>)
        BY <1>2, <3>1
      <3> DEFINE m == need - k
      <3>3. Stands(open, "drain", taken, x, wire, m, due, r)
        <4> HIDE DEF m
        <4>1. Typed(taken, x, wire, due, r) /\ Draining(m, x, wire, due, r) /\ (open => r = <<>>)
          BY <3>2 DEF m
        <4> QED
          BY <4>1 DEF Stands
      <3>4. Stands(open', stage', taken', deque', wire', need', due', r)
        BY <1>1, <2>1, <3>3, Zenon
      <3> QED
        BY <3>4, Zenon DEF InPlace
    <2> QED
      BY <1>1, <2>1, <2>2 DEF FramingInv, Reads
  <1> QED
    BY <1>4, <1>5

LEMMA FramingInvKept == ASSUME FramingInv, [FramingNext]_framingVars PROVE FramingInv'
  <1>1. ASSUME UNCHANGED framingVars PROVE FramingInv'
    <2>1. UNCHANGED <<open, stage, taken, deque, wire, need, due, clean, trusted>>
      BY <1>1 DEF framingVars
    <2>2. InPlace' <=> InPlace
      BY <2>1 DEF InPlace
    <2> QED
      BY <2>1, <2>2 DEF FramingInv, Reads
  <1>2. CASE RunsOutOfTime \/ ReadFails
    BY <1>2, ClosesOnError DEF RunsOutOfTime, ReadFails
  <1>3. ASSUME NEW p \in BrokerPackets, BrokerSends(p) PROVE FramingInv'
    BY <1>3, Sends
  <1>4. ASSUME NEW k \in 1..Len(wire), Arrives(k) PROVE FramingInv'
    BY <1>4, ArrivesInPlace
  <1> QED
    BY <1>1, <1>2, <1>3, <1>4, Opens, Closes, StartsReading, ReadsHeader, ReadsLength, ReadsBody,
       DrainsInPlace, ReadsNothing
    DEF FramingNext, ReaderStep

(* No error path, late piece, oversized or dropped packet and no loss of   *)
(* the connection leaves lwmqtt_read_packet_in_buffer in the middle of a   *)
(* packet, provided that when the connection was made, be it by the loop() *)
(* of a read, the deque was empty and the reader not within a packet.      *)
THEOREM FramingStaysInStep == FramingSpec => []FramingInStep
  <1>1. FramingInit => FramingInv
    BY FramingInvHolds
  <1>2. FramingInv /\ [FramingNext]_framingVars => FramingInv'
    BY FramingInvKept
  <1>3. FramingInv => FramingInStep
    BY FramingInvImplies
  <1> QED
    BY <1>1, <1>2, <1>3, PTL DEF FramingSpec

-----------------------------------------------------------------------------
(* Numbers: taking digits off one by one, and putting them together again. *)
LEMMA Multiplied ==
  ASSUME NEW d \in Nat, NEW a \in Int, NEW b \in Int, a <= b
  PROVE  d * a <= d * b /\ d * a \in Int /\ d * b \in Int
  OBVIOUS

LEMMA Divided ==
  ASSUME NEW n \in Nat, NEW d \in Nat, d > 0
  PROVE  /\ n \div d \in Nat /\ n % d \in 0..d - 1 /\ n = d * (n \div d) + (n % d)
  OBVIOUS

LEMMA DividedBelow ==
  ASSUME NEW n \in Nat, NEW d \in Nat, d > 0, NEW m \in Nat
  PROVE  n < d * m <=> n \div d < m
  <1> DEFINE q == n \div d
             r == n % d
  <1>1. q \in Nat /\ r \in Nat /\ r < d /\ n = d * q + r
    BY Divided
  <1> HIDE DEF q, r
  <1>2. ASSUME q < m PROVE n < d * m
    <2>1. d * (q + 1) <= d * m /\ d * (q + 1) \in Int /\ d * m \in Int
      <3>1. q + 1 <= m /\ q + 1 \in Int /\ m \in Int
        BY <1>1, <1>2
      <3> QED
        BY <3>1, Multiplied
    <2>2. d * (q + 1) = d * q + d /\ d * q \in Nat
      BY <1>1
    <2> QED
      BY <1>1, <2>1, <2>2
  <1>3. ASSUME m <= q PROVE d * m <= n
    <2>1. d * m <= d * q /\ d * m \in Int /\ d * q \in Int
      BY <1>1, <1>3, Multiplied
    <2> QED
      BY <1>1, <2>1
  <1>4. d * m \in Int
    OBVIOUS
  <1> QED
    BY <1>1, <1>2, <1>3, <1>4 DEF q

LEMMA WeightIs ==
  /\ Weight[1] = 1 /\ Weight[2] = Digit /\ Weight[3] = Digit * Digit
  /\ Weight[4] = Digit * Digit * Digit /\ Weight[5] = Digit * Digit * Digit * Digit
  /\ \A i \in 1..5 : Weight[i] \in Nat
  BY DigitAssumption DEF Weight

LEMMA ShiftedIs ==
  ASSUME NEW n \in Nat
  PROVE  /\ Shifted(n)[1] = n
         /\ \A i \in 1..5 : Shifted(n)[i] \in Nat
         /\ \A i \in 1..4 : /\ Shifted(n)[i] % Digit \in 0..Digit - 1
                            /\ Shifted(n)[i + 1] = Shifted(n)[i] \div Digit
                            /\ Shifted(n)[i] = Digit * Shifted(n)[i + 1] + (Shifted(n)[i] % Digit)
  <1> DEFINE a == n \div Digit
             b == a \div Digit
             c == b \div Digit
             d == c \div Digit
             s == <<n, a, b, c, d>>
  <1>1. Shifted(n) = s
    BY DEF Shifted
  <1>2. a \in Nat
    BY DigitAssumption, Divided
  <1>3. b \in Nat
    BY <1>2, DigitAssumption, Divided
  <1>4. c \in Nat
    BY <1>3, DigitAssumption, Divided
  <1>5. d \in Nat
    BY <1>4, DigitAssumption, Divided
  <1>6. s[1] = n /\ s[2] = s[1] \div Digit /\ s[3] = s[2] \div Digit /\ s[4] = s[3] \div Digit
        /\ s[5] = s[4] \div Digit
        /\ s[1] \in Nat /\ s[2] \in Nat /\ s[3] \in Nat /\ s[4] \in Nat /\ s[5] \in Nat
    BY <1>2, <1>3, <1>4, <1>5
  <1> HIDE DEF s
  <1>7. \A i \in 1..5 : s[i] \in Nat
    BY <1>6
  <1>8. \A i \in 1..4 : s[i + 1] = s[i] \div Digit
    <2>1. \A i \in 1..4 : i = 1 \/ i = 2 \/ i = 3 \/ i = 4
      OBVIOUS
    <2> QED
      BY <1>6, <2>1
  <1>9. ASSUME NEW i \in 1..4 PROVE s[i] % Digit \in 0..Digit - 1 /\ s[i] = Digit * s[i + 1] + (s[i] % Digit)
    <2>1. s[i] \in Nat
      BY <1>7
    <2>2. Digit \in Nat /\ Digit > 0
      BY DigitAssumption
    <2>3. s[i] % Digit \in 0..Digit - 1 /\ s[i] = Digit * (s[i] \div Digit) + (s[i] % Digit)
      BY <2>1, <2>2, Divided
    <2> QED
      BY <1>8, <2>3
  <1> QED
    BY <1>1, <1>6, <1>7, <1>8, <1>9

LEMMA ShiftedOut ==
  ASSUME NEW n \in Nat, NEW i \in 1..4, Shifted(n)[i] = 0
  PROVE  Shifted(n)[i + 1] = 0
  <1>1. 0 \div Digit = 0
    BY DigitAssumption
  <1> QED
    BY <1>1, ShiftedIs

(* Four digits are enough for what is below the weight of the fifth.       *)
LEMMA DigitsAreMin ==
  ASSUME NEW n \in Nat
  PROVE  /\ Digits(n) \in 1..5
         /\ Digits(n) # 5 => Shifted(n)[Digits(n) + 1] = 0
         /\ \A i \in 1..4 : Shifted(n)[i + 1] = 0 => Digits(n) <= i
  <1> DEFINE S == {k \in 1..4 : Shifted(n)[k + 1] = 0} \cup {5}
  <1>1. S \subseteq Nat /\ 5 \in S
    OBVIOUS
  <1>2. PICK x \in S : \A y \in S : x <= y
    BY <1>1, Smallest
  <1>3. Min(S) \in S /\ \A y \in S : Min(S) <= y
    BY <1>2 DEF Min
  <1>4. Digits(n) = Min(S)
    BY DEF Digits
  <1> QED
    BY <1>3, <1>4

LEMMA ShiftedBelow ==
  ASSUME NEW n \in Nat
  PROVE  \A i \in 1..4 : Shifted(n)[i + 1] = 0 <=> n < Weight[i + 1]
  <1> DEFINE s == Shifted(n)
             D == Digit
  <1>1. /\ s[1] = n /\ s[1] \in Nat /\ s[2] \in Nat /\ s[3] \in Nat /\ s[4] \in Nat /\ s[5] \in Nat
        /\ s[2] = s[1] \div D /\ s[3] = s[2] \div D /\ s[4] = s[3] \div D /\ s[5] = s[4] \div D
    <2>1. /\ s[1] = n /\ \A i \in 1..5 : s[i] \in Nat
          /\ \A i \in 1..4 : s[i + 1] = s[i] \div D
      BY ShiftedIs
    <2> HIDE DEF s, D
    <2> QED
      BY <2>1
  <1> HIDE DEF s
  <1>2. D \in Nat /\ D > 0 /\ 1 \in Nat /\ D * 1 = D /\ D * D \in Nat /\ D * D * D \in Nat
        /\ D * D * D * D \in Nat
        /\ D * (D * D) = D * D * D /\ D * (D * D * D) = D * D * D * D
    BY DigitAssumption
  <1> HIDE DEF D
  <1>3. \A m \in Nat : \A k \in Nat : k < D * m <=> k \div D < m
    BY <1>2, DividedBelow
  <1>4. s[2] = 0 <=> n < D
    BY <1>1, <1>2, <1>3
  <1>5. \A k \in Nat : k < D <=> k \div D = 0
    <2>1. \A k \in Nat : k < D * 1 <=> k \div D < 1
      BY <1>3
    <2>2. \A k \in Nat : k \div D \in Nat
      BY <1>2, Divided
    <2> QED
      BY <1>2, <2>1, <2>2
  <1>6. s[3] = 0 <=> n < D * D
    BY <1>1, <1>2, <1>3, <1>5
  <1>7. s[4] = 0 <=> n < D * D * D
    <2>1. s[4] = 0 <=> s[3] < D
      BY <1>1, <1>5
    <2>2. s[3] < D <=> s[2] < D * D
      BY <1>1, <1>2, <1>3
    <2>3. s[2] < D * D <=> n < D * (D * D)
      BY <1>1, <1>2, <1>3
    <2> QED
      BY <1>2, <2>1, <2>2, <2>3
  <1>8. s[5] = 0 <=> n < D * D * D * D
    <2>1. s[5] = 0 <=> s[4] < D
      BY <1>1, <1>5
    <2>2. s[4] < D <=> s[3] < D * D
      BY <1>1, <1>2, <1>3
    <2>3. s[3] < D * D <=> s[2] < D * (D * D)
      BY <1>1, <1>2, <1>3
    <2>4. s[2] < D * D * D <=> n < D * (D * D * D)
      BY <1>1, <1>2, <1>3
    <2> QED
      BY <1>2, <2>1, <2>2, <2>3, <2>4
  <1>9. \A i \in 1..4 : i = 1 \/ i = 2 \/ i = 3 \/ i = 4
    OBVIOUS
  <1>10. Weight[2] = D /\ Weight[3] = D * D /\ Weight[4] = D * D * D /\ Weight[5] = D * D * D * D
    BY WeightIs DEF D
  <1>11. ASSUME NEW i \in 1..4 PROVE s[i + 1] = 0 <=> n < Weight[i + 1]
    <2>1. CASE i = 1
      BY <1>4, <1>10, <2>1
    <2>2. CASE i = 2
      BY <1>6, <1>10, <2>2
    <2>3. CASE i = 3
      BY <1>7, <1>10, <2>3
    <2>4. CASE i = 4
      BY <1>8, <1>10, <2>4
    <2> QED
      BY <1>9, <2>1, <2>2, <2>3, <2>4
  <1> QED
    BY <1>11 DEF s

LEMMA FourDigits ==
  ASSUME NEW n \in Nat
  PROVE  Digits(n) # 5 <=> n < Weight[5]
  <1>1. Digits(n) \in 1..5 /\ (Digits(n) # 5 => Shifted(n)[Digits(n) + 1] = 0)
        /\ (Shifted(n)[4 + 1] = 0 => Digits(n) <= 4)
    BY DigitsAreMin
  <1>2. Shifted(n)[5] = 0 <=> n < Weight[5]
    <2>1. Shifted(n)[4 + 1] = 0 <=> n < Weight[4 + 1]
      BY ShiftedBelow
    <2> QED
      BY <2>1
  <1>3. ASSUME Digits(n) # 5 PROVE Shifted(n)[5] = 0
    <2> DEFINE s == Shifted(n)
    <2>1. \A i \in 1..4 : s[i] = 0 => s[i + 1] = 0
      BY ShiftedOut
    <2>2. Digits(n) \in 1..4 /\ s[Digits(n) + 1] = 0
      BY <1>1, <1>3
    <2> HIDE DEF s
    <2>3. (s[2] = 0 => s[3] = 0) /\ (s[3] = 0 => s[4] = 0) /\ (s[4] = 0 => s[5] = 0)
      <3>1. (s[2] = 0 => s[2 + 1] = 0) /\ (s[3] = 0 => s[3 + 1] = 0) /\ (s[4] = 0 => s[4 + 1] = 0)
        BY <2>1
      <3> QED
        BY <3>1
    <2>4. Digits(n) = 1 \/ Digits(n) = 2 \/ Digits(n) = 3 \/ Digits(n) = 4
      BY <2>2
    <2>5. s[5] = 0
      BY <2>2, <2>3, <2>4
    <2> QED
      BY <2>5 DEF s
  <1> QED
    BY <1>1, <1>2, <1>3

(* The bytes of a number, and what is read back from them.                 *)
Remainder(n, i) == Shifted(n)[i] % Digit

LEMMA ByteOf ==
  ASSUME NEW r \in 0..Digit - 1, NEW more \in BOOLEAN, NEW b, b = r + (IF more THEN Digit ELSE 0)
  PROVE  b \in Bytes /\ b % Digit = r /\ (b < Digit <=> ~more)
  <1>1. Digit \in Nat /\ Digit > 0 /\ Bytes = 0..(2 * Digit - 1) /\ r \in Nat /\ r < Digit
    BY DigitAssumption DEF Bytes, Byte
  <1>2. r % Digit = r /\ (r + Digit) % Digit = r
    BY <1>1
  <1>3. CASE more
    <2>1. b = r + Digit
      BY <1>3
    <2> QED
      BY <1>1, <1>2, <1>3, <2>1
  <1>4. CASE ~more
    <2>1. b = r
      BY <1>1, <1>4
    <2> QED
      BY <1>1, <1>2, <1>4, <2>1
  <1> QED
    BY <1>3, <1>4

LEMMA VarnumBytesAre ==
  ASSUME NEW n \in Nat
  PROVE  /\ VarnumBytes(n) \in Seq(Bytes) /\ Len(VarnumBytes(n)) = Digits(n) /\ Digits(n) \in 1..5
         /\ \A i \in 1..Digits(n) :
              /\ VarnumBytes(n)[i] = Remainder(n, i) + (IF i < Digits(n) THEN Digit ELSE 0)
              /\ VarnumBytes(n)[i] % Digit = Remainder(n, i)
              /\ VarnumBytes(n)[i] < Digit <=> i = Digits(n)
  <1> DEFINE k == Digits(n)
             e(i) == Remainder(n, i) + (IF i < k THEN Digit ELSE 0)
  <1>1. k \in 1..5
    BY DigitsAreMin
  <1>2. VarnumBytes(n) = [i \in 1..k |-> e(i)]
    BY DEF VarnumBytes, Remainder
  <1>4. ASSUME NEW i \in 1..k PROVE e(i) \in Bytes /\ e(i) % Digit = Remainder(n, i) /\ (e(i) < Digit <=> i = k)
    <2> DEFINE r == Remainder(n, i)
    <2>1. r \in 0..Digit - 1
      <3>1. i \in 1..5
        BY <1>1
      <3>2. Shifted(n)[i] \in Nat
        BY <3>1, ShiftedIs
      <3>3. Digit \in Nat /\ Digit > 0
        BY DigitAssumption
      <3> QED
        BY <3>2, <3>3, Divided DEF Remainder
    <2>2. e(i) = r + (IF i < k THEN Digit ELSE 0)
      OBVIOUS
    <2> HIDE DEF r, e
    <2>3. e(i) \in Bytes /\ e(i) % Digit = r /\ (e(i) < Digit <=> ~(i < k))
      BY <2>1, <2>2, ByteOf
    <2> QED
      BY <1>1, <2>3 DEF r
  <1>5. \A i \in 1..k : VarnumBytes(n)[i] = e(i)
    BY <1>2
  <1>6. VarnumBytes(n) \in Seq(Bytes) /\ Len(VarnumBytes(n)) = k
    <2>1. \A i \in 1..k : e(i) \in Bytes
      BY <1>4
    <2> HIDE DEF e
    <2> QED
      BY <1>1, <1>2, <2>1
  <1> QED
    BY <1>1, <1>4, <1>5, <1>6

LEMMA ValueIs ==
  ASSUME NEW n \in Nat, n < Weight[5]
  PROVE  Value(VarnumBytes(n)) = n
  <1> DEFINE k == Digits(n)
             b == VarnumBytes(n)
             s == Shifted(n)
             D == Digit
  <1>1. k \in 1..4 /\ s[k + 1] = 0
    BY DigitsAreMin, FourDigits
  <1>2. Len(b) = k /\ \A i \in 1..k : b[i] % D = Remainder(n, i)
    BY VarnumBytesAre
  <1>3. \A i \in 1..4 : s[i] = 0 => s[i + 1] = 0
    BY ShiftedOut
  <1>4. D \in Nat /\ D > 0 /\ 0 % D = 0
    BY DigitAssumption
  <1>5. s[1] = n /\ (\A i \in 1..5 : s[i] \in Nat)
        /\ \A i \in 1..4 : s[i] = D * s[i + 1] + Remainder(n, i) /\ Remainder(n, i) \in Nat
    BY ShiftedIs, <1>4 DEF Remainder
  <1>6. \A i \in 1..4 : s[i] = 0 => Remainder(n, i) = 0
    BY <1>4 DEF Remainder
  <1> HIDE DEF k, b, s, D
  <1>7. \A i \in 1..4 : i > k => s[i] = 0
    <2>1. (s[2] = 0 => s[3] = 0) /\ (s[3] = 0 => s[4] = 0)
      <3>1. (s[2] = 0 => s[2 + 1] = 0) /\ (s[3] = 0 => s[3 + 1] = 0)
        BY <1>3
      <3> QED
        BY <3>1
    <2>2. k = 1 \/ k = 2 \/ k = 3 \/ k = 4
      BY <1>1
    <2> QED
      BY <1>1, <2>1, <2>2
  <1>8. s[5] = 0
    <2>1. k < 4 => s[4] = 0
      BY <1>1, <1>7
    <2>2. s[4] = 0 => s[4 + 1] = 0
      BY <1>3
    <2> QED
      BY <1>1, <2>1, <2>2
  <1>9. ASSUME NEW i \in 1..4 PROVE Worth(b, i) = Remainder(n, i) * Weight[i]
    <2>1. CASE i <= k
      BY <1>1, <1>2, <2>1 DEF Worth, D
    <2>2. CASE ~(i <= k)
      <3>1. Worth(b, i) = 0
        BY <1>2, <2>2 DEF Worth
      <3>2. Remainder(n, i) = 0
        BY <1>1, <1>6, <1>7, <2>2
      <3>3. Weight[i] \in Nat
        BY WeightIs
      <3> QED
        BY <3>1, <3>2, <3>3
    <2> QED
      BY <2>1, <2>2
  <1> DEFINE r1 == Remainder(n, 1)
             r2 == Remainder(n, 2)
             r3 == Remainder(n, 3)
             r4 == Remainder(n, 4)
  <1>10. Value(b) = r1 * 1 + r2 * D + r3 * (D * D) + r4 * (D * D * D)
    <2>1. Weight[1] = 1 /\ Weight[2] = D /\ Weight[3] = D * D /\ Weight[4] = D * D * D
      BY WeightIs DEF D
    <2>2. Worth(b, 1) = r1 * 1 /\ Worth(b, 2) = r2 * D /\ Worth(b, 3) = r3 * (D * D)
          /\ Worth(b, 4) = r4 * (D * D * D)
      BY <1>9, <2>1
    <2> HIDE DEF r1, r2, r3, r4
    <2> QED
      BY <2>2 DEF Value
  <1>11. r1 \in Nat /\ r2 \in Nat /\ r3 \in Nat /\ r4 \in Nat
         /\ n = D * s[2] + r1 /\ s[2] = D * s[3] + r2 /\ s[3] = D * s[4] + r3 /\ s[4] = r4 /\ s[2] \in Nat /\ s[3] \in Nat
    <2>1. s[1] = D * s[1 + 1] + r1 /\ s[2] = D * s[2 + 1] + r2 /\ s[3] = D * s[3 + 1] + r3
          /\ s[4] = D * s[4 + 1] + r4
          /\ r1 \in Nat /\ r2 \in Nat /\ r3 \in Nat /\ r4 \in Nat
      BY <1>5
    <2>2. s[1] = n /\ s[2] \in Nat /\ s[3] \in Nat
      BY <1>5
    <2>3. D * s[5] = 0
      BY <1>4, <1>8
    <2>4. D * s[1 + 1] = D * s[2] /\ D * s[2 + 1] = D * s[3] /\ D * s[3 + 1] = D * s[4]
          /\ D * s[4 + 1] = D * s[5]
      OBVIOUS
    <2> HIDE DEF r1, r2, r3, r4
    <2>5. s[4] = r4
      BY <2>1, <2>3, <2>4
    <2> QED
      BY <2>1, <2>2, <2>4, <2>5
  <1> HIDE DEF r1, r2, r3, r4
  <1>12. s[3] = D * r4 + r3
    BY <1>11
  <1>13. s[2] = D * (D * r4 + r3) + r2
    BY <1>11, <1>12
  <1>14. n = D * (D * (D * r4 + r3) + r2) + r1
    BY <1>11, <1>13
  <1>15. n = r1 * 1 + r2 * D + r3 * (D * D) + r4 * (D * D * D)
    BY <1>4, <1>11, <1>14
  <1> QED
    BY <1>10, <1>15 DEF b

-----------------------------------------------------------------------------
(* The decoders begin with a byte and a number.                            *)
LEMMA AtIs == ASSUME NEW s, NEW v PROVE At(s, v).err = OK /\ At(s, v).rest = s /\ At(s, v).val = v
  BY DEF At

LEMMA FirstByte ==
  ASSUME NEW s \in Seq(Bytes), NEW v
  PROVE  /\ s # <<>> => ReadByte(At(s, v)) = At(Tail(s), s[1])
         /\ s = <<>> => ReadByte(At(s, v)).err # OK
  <1> DEFINE r == At(s, v)
             d == ReadData(r, 1)
  <1>1. r.err = OK /\ r.rest = s /\ Len(s) \in Nat
    BY AtIs
  <1>2. ReadByte(r) = IF d.err = OK THEN [d EXCEPT !.val = d.val[1]] ELSE d
    BY DEF ReadByte
  <1>3. ASSUME s # <<>> PROVE ReadByte(r) = At(Tail(s), s[1])
    <2>1. ~(Len(s) < 1) /\ Tail(s) = SubSeq(s, 1 + 1, Len(s)) /\ SubSeq(s, 1, 1)[1] = s[1]
      BY <1>3
    <2>2. d = [r EXCEPT !.rest = SubSeq(@, 1 + 1, Len(@)), !.val = SubSeq(r.rest, 1, 1)]
      BY <1>1, <2>1 DEF ReadData
    <2>3. d = At(Tail(s), SubSeq(s, 1, 1))
      BY <1>1, <2>1, <2>2 DEF At
    <2> HIDE DEF d, r
    <2>5. d.err = OK /\ d.val = SubSeq(s, 1, 1)
      BY <2>3 DEF At
    <2>4. ReadByte(r) = [d EXCEPT !.val = s[1]]
      BY <1>2, <2>1, <2>5
    <2> QED
      BY <2>3, <2>4 DEF At
  <1>4. ASSUME s = <<>> PROVE ReadByte(r).err # OK
    <2>1. d = [r EXCEPT !.err = "BUFFER_TOO_SHORT", !.val = 0]
      BY <1>1, <1>4 DEF ReadData
    <2>2. d.err = "BUFFER_TOO_SHORT"
      BY <2>1 DEF At
    <2> QED
      BY <1>2, <2>2 DEF OK
  <1> QED
    BY <1>3, <1>4

LEMMA TakenData ==
  ASSUME NEW s \in Seq(Bytes), NEW v, NEW n \in Nat
  PROVE  /\ n <= Len(s) => ReadData(At(s, v), n) = At(SubSeq(s, n + 1, Len(s)), SubSeq(s, 1, n))
         /\ Len(s) < n => ReadData(At(s, v), n).err # OK
  <1> DEFINE r == At(s, v)
  <1>1. r.err = OK /\ r.rest = s /\ Len(s) \in Nat
    BY AtIs
  <1>2. ASSUME n <= Len(s) PROVE ReadData(r, n) = At(SubSeq(s, n + 1, Len(s)), SubSeq(s, 1, n))
    <2>1. ReadData(r, n) = [r EXCEPT !.rest = SubSeq(@, n + 1, Len(@)), !.val = SubSeq(r.rest, 1, n)]
      BY <1>1, <1>2 DEF ReadData
    <2> QED
      BY <1>1, <2>1 DEF At
  <1>3. ASSUME Len(s) < n PROVE ReadData(r, n).err # OK
    <2>1. ReadData(r, n) = [r EXCEPT !.err = "BUFFER_TOO_SHORT", !.val = 0]
      BY <1>1, <1>3 DEF ReadData
    <2> QED
      BY <2>1 DEF At, OK
  <1> QED
    BY <1>2, <1>3

LEMMA FirstNum ==
  ASSUME NEW s \in Seq(Bytes), NEW v
  PROVE  /\ 2 <= Len(s) => ReadNum(At(s, v)) = At(SubSeq(s, 3, Len(s)), Byte * s[1] + s[2])
         /\ Len(s) < 2 => ReadNum(At(s, v)).err # OK
  <1> DEFINE d == ReadData(At(s, v), 2)
  <1>1. ReadNum(At(s, v)) = IF d.err = OK THEN [d EXCEPT !.val = Byte * d.val[1] + d.val[2]] ELSE d
    BY DEF ReadNum
  <1>2. ASSUME 2 <= Len(s) PROVE ReadNum(At(s, v)) = At(SubSeq(s, 3, Len(s)), Byte * s[1] + s[2])
    <2>1. d = At(SubSeq(s, 2 + 1, Len(s)), SubSeq(s, 1, 2))
      BY <1>2, TakenData
    <2>2. SubSeq(s, 1, 2)[1] = s[1] /\ SubSeq(s, 1, 2)[2] = s[2] /\ 2 + 1 = 3
      BY <1>2
    <2> HIDE DEF d
    <2>5. d.err = OK /\ d.val = SubSeq(s, 1, 2)
      BY <2>1 DEF At
    <2>3. d.err = OK /\ d.val[1] = s[1] /\ d.val[2] = s[2]
      BY <2>2, <2>5
    <2>4. ReadNum(At(s, v)) = [d EXCEPT !.val = Byte * s[1] + s[2]]
      BY <1>1, <2>3
    <2> QED
      BY <2>1, <2>2, <2>4 DEF At
  <1>3. ASSUME Len(s) < 2 PROVE ReadNum(At(s, v)).err # OK
    <2>1. d.err # OK
      BY <1>3, TakenData
    <2> QED
      BY <1>1, <2>1
  <1> QED
    BY <1>2, <1>3

-----------------------------------------------------------------------------
(* The pieces of a sequence that was joined from two.                      *)
LEMMA Rejoined ==
  ASSUME NEW B, NEW a \in Seq(B), NEW b \in Seq(B), NEW s, Joins(s, a, b)
  PROVE  /\ s \in Seq(B) /\ Len(s) = Len(a) + Len(b) /\ Len(a) \in 0..Len(s)
         /\ SubSeq(s, 1, Len(a)) = a /\ SubSeq(s, Len(a) + 1, Len(s)) = b
  <1>1. s \in Seq(B) /\ Len(s) = Len(a) + Len(b) /\ Len(a) \in Nat /\ Len(b) \in Nat
    BY JoinsIs
  <1> DEFINE k == Len(a)
             x == SubSeq(s, 1, k)
             y == SubSeq(s, k + 1, Len(s))
  <1>2. k \in 0..Len(s)
    BY <1>1
  <1>3. x \in Seq(B) /\ y \in Seq(B) /\ Len(x) = k /\ Joins(s, x, y)
    <2> HIDE DEF k
    <2> QED
      BY <1>1, <1>2, Cut
  <1> HIDE DEF x, y
  <1>4. x = a /\ y = b
    BY <1>3, SamePrefix
  <1> QED
    BY <1>1, <1>2, <1>4 DEF x, y

LEMMA PrefixOf ==
  ASSUME NEW B, NEW a \in Seq(B), NEW b \in Seq(B), NEW s, Joins(s, a, b), NEW k \in 0..Len(s)
  PROVE  /\ k <= Len(a) => SubSeq(s, 1, k) = SubSeq(a, 1, k)
         /\ k >= Len(a) => k - Len(a) \in 0..Len(b) /\ Joins(SubSeq(s, 1, k), a, SubSeq(b, 1, k - Len(a)))
  <1>1. /\ s \in Seq(B) /\ Len(s) = Len(a) + Len(b) /\ Len(a) \in Nat /\ Len(b) \in Nat
        /\ \A i \in 1..Len(a) : s[i] = a[i]
        /\ \A i \in 1..Len(b) : s[Len(a) + i] = b[i]
    BY JoinsIs
  <1> DEFINE p == SubSeq(s, 1, k)
  <1>2. p \in Seq(B) /\ Len(p) = k /\ k \in Nat /\ \A i \in 1..k : p[i] = s[i]
    BY <1>1, Cut
  <1> HIDE DEF p
  <1>3. ASSUME k <= Len(a) PROVE p = SubSeq(a, 1, k)
    <2> DEFINE q == SubSeq(a, 1, k)
    <2>1. q \in Seq(B) /\ Len(q) = k /\ \A i \in 1..k : q[i] = a[i]
      <3>1. k \in 0..Len(a)
        BY <1>1, <1>2, <1>3
      <3> QED
        BY <3>1, Cut
    <2> HIDE DEF q
    <2>2. ASSUME NEW i \in 1..k PROVE p[i] = q[i]
      <3>1. i \in 1..Len(a)
        BY <1>1, <1>2, <1>3
      <3>2. p[i] = s[i] /\ s[i] = a[i] /\ q[i] = a[i]
        BY <1>1, <1>2, <2>1, <3>1
      <3> QED
        BY <3>2
    <2>3. p = q
      BY <1>2, <2>1, <2>2, SameElements
    <2> QED
      BY <2>3 DEF q
  <1>4. ASSUME k >= Len(a) PROVE k - Len(a) \in 0..Len(b) /\ Joins(p, a, SubSeq(b, 1, k - Len(a)))
    <2> DEFINE j == k - Len(a)
               c == SubSeq(b, 1, j)
               r == a \o c
    <2>1. j \in 0..Len(b) /\ k = Len(a) + j
      BY <1>1, <1>2, <1>4
    <2> HIDE DEF j
    <2>2. c \in Seq(B) /\ Len(c) = j /\ \A i \in 1..j : c[i] = b[i]
      BY <2>1, Cut
    <2> HIDE DEF c
    <2>3. Joins(r, a, c)
      BY DEF Joins
    <2> HIDE DEF r
    <2>4. /\ r \in Seq(B) /\ Len(r) = Len(a) + j
          /\ \A i \in 1..Len(a) : r[i] = a[i]
          /\ \A i \in 1..j : r[Len(a) + i] = c[i]
      <3>1. a \in Seq(B) /\ c \in Seq(B)
        BY <2>2
      <3>2. /\ r \in Seq(B) /\ Len(r) = Len(a) + Len(c)
            /\ \A i \in 1..Len(a) : r[i] = a[i]
            /\ \A i \in 1..Len(c) : r[Len(a) + i] = c[i]
        BY ONLY <2>3, <3>1, JoinsIs
      <3> QED
        BY ONLY <2>2, <3>2
    <2>5. ASSUME NEW i \in 1..k PROVE p[i] = r[i]
      <3>0. p[i] = s[i]
        BY <1>2
      <3>1. CASE i <= Len(a)
        <4>1. i \in 1..Len(a)
          BY <1>1, <1>2, <3>1
        <4> QED
          BY <1>1, <2>4, <3>0, <4>1
      <3>2. CASE ~(i <= Len(a))
        <4>1. i - Len(a) \in 1..j /\ i - Len(a) \in 1..Len(b) /\ Len(a) + (i - Len(a)) = i
          BY <1>1, <2>1, <3>2
        <4>2. r[Len(a) + (i - Len(a))] = c[i - Len(a)] /\ c[i - Len(a)] = b[i - Len(a)]
              /\ s[Len(a) + (i - Len(a))] = b[i - Len(a)]
          BY <1>1, <2>2, <2>4, <4>1
        <4> QED
          BY <3>0, <4>1, <4>2
      <3> QED
        BY <3>1, <3>2
    <2>6. p = r
      BY <1>2, <2>1, <2>4, <2>5, SameElements
    <2> QED
      BY <2>1, <2>3, <2>6 DEF c, j
  <1> QED
    BY <1>3, <1>4 DEF p

(* A number is read whole, or not at all.                                  *)
LEMMA ReadsNumber ==
  ASSUME NEW n \in Nat, n < Weight[5], NEW s \in Seq(Bytes), NEW w, Joins(w, VarnumBytes(n), s), NEW v
  PROVE  ReadVarnum(At(w, v)) = At(s, n)
  <1> DEFINE b == VarnumBytes(n)
             k == Digits(n)
  <1>1. b \in Seq(Bytes) /\ Len(b) = k /\ \A i \in 1..k : b[i] < Digit <=> i = k
    BY VarnumBytesAre
  <1>2. k \in 1..4
    BY DigitsAreMin, FourDigits
  <1>3. Value(b) = n
    BY ValueIs
  <1>4. Joins(w, b, s)
    OBVIOUS
  <1> HIDE DEF b, k
  <1>5. w \in Seq(Bytes) /\ Len(w) = k + Len(s) /\ k \in 0..Len(w) /\ SubSeq(w, 1, k) = b
        /\ SubSeq(w, k + 1, Len(w)) = s
    <2>1. b \in Seq(Bytes) /\ Joins(w, b, s)
      BY <1>1, <1>4
    <2>2. /\ w \in Seq(Bytes) /\ Len(w) = Len(b) + Len(s) /\ Len(b) \in 0..Len(w)
          /\ SubSeq(w, 1, Len(b)) = b /\ SubSeq(w, Len(b) + 1, Len(w)) = s
      BY ONLY <2>1, s \in Seq(Bytes), Rejoined
    <2> QED
      BY ONLY <1>1, <2>2
  <1>6. \A i \in 1..k : w[i] = b[i]
    BY <1>1, <1>4, JoinsIs
  <1>7. DigitsIn(w) = k
    <2>1. /\ DigitsIn(w) \in 1..5
          /\ DigitsIn(w) # 5 => DigitsIn(w) <= Len(w) /\ w[DigitsIn(w)] < Digit
          /\ \A i \in 1..4 : i <= Len(w) /\ w[i] < Digit => DigitsIn(w) <= i
      BY <1>5, DigitsAre
    <2>2. k <= Len(w) /\ k \in 1..k
      BY <1>2, <1>5
    <2>3. w[k] < Digit
      BY <1>1, <1>6, <2>2
    <2>4. DigitsIn(w) <= k
      BY <1>2, <2>1, <2>2, <2>3
    <2>5. DigitsIn(w) \in 1..k
      BY <1>2, <2>1, <2>4
    <2>6. w[DigitsIn(w)] < Digit
      BY <1>2, <2>1, <2>5
    <2> QED
      BY <1>1, <1>6, <2>5, <2>6
  <1>8. ReadVarnum([err |-> OK, rest |-> w, val |-> v]) = At(SubSeq(w, k + 1, Len(w)), Value(SubSeq(w, 1, k)))
    BY <1>2, <1>5, <1>7, VarnumIs
  <1> QED
    BY <1>3, <1>5, <1>8 DEF At

LEMMA CutNumber ==
  ASSUME NEW n \in Nat, NEW j \in 0..Len(VarnumBytes(n)), j < Len(VarnumBytes(n)), NEW v
  PROVE  LET m == ReadVarnum(At(SubSeq(VarnumBytes(n), 1, j), v)) IN m.err # OK
  <1> DEFINE b == VarnumBytes(n)
             k == Digits(n)
             p == SubSeq(b, 1, j)
  <1>1. b \in Seq(Bytes) /\ Len(b) = k /\ k \in 1..5 /\ \A i \in 1..k : b[i] < Digit <=> i = k
    BY VarnumBytesAre
  <1> HIDE DEF b, k
  <1>2. p \in Seq(Bytes) /\ Len(p) = j /\ \A i \in 1..j : p[i] = b[i]
    <2>1. j \in 0..Len(b)
      BY DEF b
    <2> QED
      BY <1>1, <2>1, Cut
  <1>3. j \in Nat /\ j < k
    BY <1>1 DEF b
  <1> HIDE DEF p
  <1>4. DigitsIn(p) = 5
    <2>1. /\ DigitsIn(p) \in 1..5
          /\ DigitsIn(p) # 5 => DigitsIn(p) <= Len(p) /\ p[DigitsIn(p)] < Digit
      BY <1>2, DigitsAre
    <2>2. ASSUME DigitsIn(p) # 5 PROVE FALSE
      <3>1. DigitsIn(p) \in 1..j /\ DigitsIn(p) \in 1..k /\ DigitsIn(p) # k
        BY <1>1, <1>2, <1>3, <2>1, <2>2
      <3>2. b[DigitsIn(p)] < Digit
        BY <1>2, <2>1, <2>2, <3>1
      <3> QED
        BY <1>1, <3>1, <3>2
    <2> QED
      BY <2>2
  <1>5. LET m == ReadVarnum([err |-> OK, rest |-> p, val |-> v]) IN m.err = OK <=> DigitsIn(p) # 5
    BY <1>2, VarnumIs
  <1> QED
    BY <1>4, <1>5 DEF At, p, b

-----------------------------------------------------------------------------
(* A packet: its header, what it announces, and what follows.              *)
Packs(b, h, n, body) == \E x : Joins(b, <<h>>, x) /\ Joins(x, VarnumBytes(n), body)

LEMMA HeadJoined ==
  ASSUME NEW h \in Bytes, NEW x \in Seq(Bytes), NEW b, Joins(b, <<h>>, x)
  PROVE  b \in Seq(Bytes) /\ Len(b) = 1 + Len(x) /\ Len(x) \in Nat /\ b[1] = h /\ b # <<>> /\ Tail(b) = x
  <1> DEFINE a == <<h>>
             t == SubSeq(b, Len(a) + 1, Len(b))
  <1>1. a \in Seq(Bytes) /\ Len(a) = 1 /\ a[1] = h
    OBVIOUS
  <1> HIDE DEF a
  <1>2. Joins(b, a, x)
    BY DEF a
  <1>3. /\ b \in Seq(Bytes) /\ Len(b) = Len(a) + Len(x) /\ Len(x) \in Nat
        /\ \A i \in 1..Len(a) : b[i] = a[i]
    <2>1. a \in Seq(Bytes)
      BY <1>1
    <2> QED
      BY <1>2, <2>1, JoinsIs
  <1>4. t = x
    <2>1. a \in Seq(Bytes)
      BY <1>1
    <2>2. SubSeq(b, Len(a) + 1, Len(b)) = x
      BY <1>2, <2>1, Rejoined
    <2> QED
      BY <2>2
  <1> HIDE DEF t
  <1>5. Len(b) = 1 + Len(x) /\ b[1] = h /\ b # <<>>
    BY <1>1, <1>3
  <1>6. Tail(b) = SubSeq(b, 1 + 1, Len(b))
    BY <1>3, <1>5
  <1>7. Tail(b) = t
    BY <1>1, <1>6 DEF t
  <1> QED
    BY <1>3, <1>4, <1>5, <1>7

LEMMA PacketOpened ==
  ASSUME NEW h \in Bytes, NEW n \in Nat, n < Weight[5], NEW body \in Seq(Bytes), NEW b, Packs(b, h, n, body)
  PROVE  /\ b \in Seq(Bytes) /\ b[1] = h /\ b # <<>>
         /\ ReadByte(Reader(b)).err = OK /\ ReadByte(Reader(b)).val = h
         /\ Opened(b) = At(body, n)
  <1>1. PICK x : Joins(b, <<h>>, x) /\ Joins(x, VarnumBytes(n), body)
    BY DEF Packs
  <1>2. x \in Seq(Bytes)
    <2>1. VarnumBytes(n) \in Seq(Bytes)
      BY VarnumBytesAre
    <2> QED
      BY <1>1, <2>1, JoinsIs
  <1>5. b \in Seq(Bytes) /\ b # <<>> /\ b[1] = h /\ Tail(b) = x
    BY <1>1, <1>2, HeadJoined
  <1>8. ReadByte(Reader(b)) = At(x, h)
    <2>1. Reader(b) = At(b, 0)
      BY DEF Reader, At
    <2> QED
      BY <1>5, <2>1, FirstByte
  <1>9. Opened(b) = At(body, n)
    BY <1>1, <1>8, ReadsNumber DEF Opened
  <1> QED
    BY <1>5, <1>8, <1>9 DEF At

(* What is left of a packet that was cut cannot be opened, or it lacks a   *)
(* part of what it announces.                                              *)
Lacking(w, n, body) ==
  \/ ReadByte(Reader(w)).err # OK
  \/ Opened(w).err # OK
  \/ \E j \in 0..Len(body) : j < Len(body) /\ Opened(w) = At(SubSeq(body, 1, j), n)

LEMMA PacketCut ==
  ASSUME NEW h \in Bytes, NEW n \in Nat, n < Weight[5], NEW body \in Seq(Bytes), NEW b, Packs(b, h, n, body),
         NEW k \in 0..Len(b), k < Len(b), NEW w, w = SubSeq(b, 1, k)
  PROVE  Lacking(w, n, body)
  <1> SUFFICES \/ ReadByte(Reader(w)).err # OK
               \/ Opened(w).err # OK
               \/ \E j \in 0..Len(body) : j < Len(body) /\ Opened(w) = At(SubSeq(body, 1, j), n)
    BY DEF Lacking
  <1>1. PICK x : Joins(b, <<h>>, x) /\ Joins(x, VarnumBytes(n), body)
    BY DEF Packs
  <1> DEFINE a == <<h>>
             v == VarnumBytes(n)
  <1>2. v \in Seq(Bytes)
    BY VarnumBytesAre
  <1>3. a \in Seq(Bytes) /\ Len(a) = 1 /\ a[1] = h
    OBVIOUS
  <1>4. Joins(b, a, x) /\ Joins(x, v, body)
    BY <1>1
  <1> HIDE DEF a
  <1>5. x \in Seq(Bytes) /\ Len(x) = Len(v) + Len(body) /\ Len(v) \in Nat /\ Len(body) \in Nat
    BY <1>2, <1>4, JoinsIs
  <1>6. b \in Seq(Bytes) /\ Len(b) = 1 + Len(x)
    BY <1>1, <1>5, HeadJoined
  <1>7. Reader(w) = At(w, 0)
    BY DEF Reader, At
  <1>8. CASE k = 0
    <2>1. w = <<>> /\ w \in Seq(Bytes)
      BY <1>6, <1>8
    <2> QED
      BY <1>7, <2>1, FirstByte
  <1>9. CASE k # 0
    <2> DEFINE m == k - 1
    <2>1. m \in 0..Len(x) /\ m < Len(x) /\ k >= 1
      BY <1>5, <1>6, <1>9
    <2> DEFINE y == SubSeq(x, 1, m)
    <2>2. Joins(w, a, y)
      BY <1>3, <1>4, <1>5, <2>1, PrefixOf
    <2>3. y \in Seq(Bytes) /\ Len(y) = m
      <3> HIDE DEF m
      <3> QED
        BY <1>5, <2>1, Cut
    <2> HIDE DEF y
    <2> HIDE DEF m
    <2>4. Joins(w, <<h>>, y)
      BY <2>2 DEF a
    <2>5. w \in Seq(Bytes) /\ w # <<>> /\ Tail(w) = y
      BY <2>3, <2>4, HeadJoined
    <2>6. ReadByte(Reader(w)) = At(y, w[1])
      BY <1>7, <2>5, FirstByte
    <2>7. CASE m < Len(v)
      <3>1. m \in 0..Len(v)
        BY <1>5, <2>1, <2>7
      <3>2. y = SubSeq(v, 1, m)
        BY <1>2, <1>4, <2>1, <2>7, <3>1, PrefixOf DEF y
      <3>3. ReadVarnum(At(y, w[1])).err # OK
        BY <2>7, <3>1, <3>2, CutNumber
      <3> QED
        BY <2>6, <3>3 DEF Opened
    <2>8. CASE ~(m < Len(v))
      <3> DEFINE j == m - Len(v)
                 z == SubSeq(body, 1, j)
      <3>1. m >= Len(v) /\ j < Len(body)
        BY <1>5, <2>1, <2>8
      <3>2. j \in 0..Len(body) /\ Joins(y, v, z)
        BY <1>2, <1>4, <2>1, <3>1, PrefixOf DEF y
      <3>3. z \in Seq(Bytes)
        <4> HIDE DEF j
        <4> QED
          BY <3>2, Cut
      <3>4. ReadVarnum(At(y, w[1])) = At(z, n)
        <4> HIDE DEF z
        <4> QED
          BY <3>2, <3>3, ReadsNumber
      <3>5. Opened(w) = At(z, n)
        BY <2>6, <3>4 DEF Opened
      <3> HIDE DEF j
      <3> QED
        BY <3>1, <3>2, <3>5
    <2> QED
      BY <2>7, <2>8
  <1> QED
    BY <1>8, <1>9

-----------------------------------------------------------------------------
(* A decoder succeeds when all of its checks do.                           *)
LEMMA FirstErrorIs ==
  ASSUME NEW T, NEW errs \in Seq(T)
  PROVE  FirstError(errs) = OK <=> \A i \in 1..Len(errs) : errs[i] = OK
  <1> DEFINE bad == {i \in DOMAIN errs : errs[i] # OK}
  <1>1. FirstError(errs) = IF bad = {} THEN OK ELSE errs[Min(bad)]
    BY DEF FirstError
  <1>2. DOMAIN errs = 1..Len(errs) /\ Len(errs) \in Nat
    OBVIOUS
  <1>3. CASE bad = {}
    BY <1>1, <1>2, <1>3
  <1>4. CASE bad # {}
    <2>1. bad \subseteq Nat
      BY <1>2
    <2>2. PICK x \in bad : \A y \in bad : x <= y
      BY <1>4, <2>1, Smallest
    <2>3. Min(bad) \in bad
      BY <2>2 DEF Min
    <2> QED
      BY <1>1, <1>2, <1>4, <2>3
  <1> QED
    BY <1>3, <1>4

LEMMA DecodedIs ==
  ASSUME NEW T, NEW errs \in Seq(T), NEW result
  PROVE  /\ (\A i \in 1..Len(errs) : errs[i] = OK) => Decoded(errs, result) = result
         /\ (\E i \in 1..Len(errs) : errs[i] # OK) => Decoded(errs, result).err # OK
  <1>1. FirstError(errs) = OK <=> \A i \in 1..Len(errs) : errs[i] = OK
    BY FirstErrorIs
  <1> QED
    BY <1>1 DEF Decoded, Fail

LEMMA TwoChecks ==
  ASSUME NEW a, NEW b, NEW result
  PROVE  /\ a = OK /\ b = OK => Decoded(<<a, b>>, result) = result
         /\ a # OK \/ b # OK => Decoded(<<a, b>>, result).err # OK
         /\ FirstError(<<a, b>>) = OK <=> a = OK /\ b = OK
  <1> DEFINE T == {a, b}
             s == <<a, b>>
  <1>1. s \in Seq(T) /\ Len(s) = 2 /\ s[1] = a /\ s[2] = b
    OBVIOUS
  <1> HIDE DEF s, T
  <1>2. \A i \in 1..2 : i = 1 \/ i = 2
    OBVIOUS
  <1>3. (\A i \in 1..Len(s) : s[i] = OK) <=> a = OK /\ b = OK
    BY <1>1, <1>2
  <1>4. /\ (\A i \in 1..Len(s) : s[i] = OK) => Decoded(s, result) = result
        /\ (\E i \in 1..Len(s) : s[i] # OK) => Decoded(s, result).err # OK
        /\ FirstError(s) = OK <=> \A i \in 1..Len(s) : s[i] = OK
    BY <1>1, DecodedIs, FirstErrorIs
  <1> QED
    BY <1>3, <1>4 DEF s

LEMMA FiveChecks ==
  ASSUME NEW a, NEW b, NEW c, NEW d, NEW e, NEW result
  PROVE  LET r == Decoded(<<a, b, c>> \o <<d, e>>, result)
         IN  /\ a = OK /\ b = OK /\ c = OK /\ d = OK /\ e = OK => r = result
             /\ a # OK \/ b # OK \/ c # OK \/ d # OK \/ e # OK => r.err # OK
  <1> DEFINE T == {a, b, c, d, e}
             x == <<a, b, c>>
             y == <<d, e>>
             s == x \o y
  <1>1. x \in Seq(T) /\ Len(x) = 3 /\ x[1] = a /\ x[2] = b /\ x[3] = c
        /\ y \in Seq(T) /\ Len(y) = 2 /\ y[1] = d /\ y[2] = e
    OBVIOUS
  <1> HIDE DEF x, y, T
  <1> HIDE DEF s
  <1>0. Joins(s, x, y)
    BY DEF Joins, s
  <1>6. /\ s \in Seq(T) /\ Len(s) = Len(x) + Len(y)
        /\ (\A i \in 1..Len(x) : s[i] = x[i]) /\ \A i \in 1..Len(y) : s[Len(x) + i] = y[i]
    <2>1. x \in Seq(T) /\ y \in Seq(T)
      BY <1>1
    <2> QED
      BY <1>0, <2>1, JoinsIs
  <1>7. /\ s[1] = x[1] /\ s[2] = x[2] /\ s[3] = x[3]
        /\ s[3 + 1] = y[1] /\ s[3 + 2] = y[2]
    BY <1>1, <1>6
  <1>2. s \in Seq(T) /\ Len(s) = 5 /\ s[1] = a /\ s[2] = b /\ s[3] = c /\ s[4] = d /\ s[5] = e
    BY <1>1, <1>6, <1>7
  <1>3. \A i \in 1..5 : i = 1 \/ i = 2 \/ i = 3 \/ i = 4 \/ i = 5
    OBVIOUS
  <1>4. (\A i \in 1..Len(s) : s[i] = OK) <=> a = OK /\ b = OK /\ c = OK /\ d = OK /\ e = OK
    BY <1>2, <1>3
  <1>5. /\ (\A i \in 1..Len(s) : s[i] = OK) => Decoded(s, result) = result
        /\ (\E i \in 1..Len(s) : s[i] # OK) => Decoded(s, result).err # OK
    BY <1>2, DecodedIs
  <1> QED
    BY <1>4, <1>5 DEF s, x, y

LEMMA SixChecks ==
  ASSUME NEW a, NEW b, NEW c, NEW d, NEW e, NEW f, NEW result
  PROVE  LET r == Decoded(<<a, b, c>> \o <<d, e, f>>, result)
         IN  /\ a = OK /\ b = OK /\ c = OK /\ d = OK /\ e = OK /\ f = OK => r = result
             /\ a # OK \/ b # OK \/ c # OK \/ d # OK \/ e # OK \/ f # OK => r.err # OK
  <1> DEFINE T == {a, b, c, d, e, f}
             x == <<a, b, c>>
             y == <<d, e, f>>
             s == x \o y
  <1>1. x \in Seq(T) /\ Len(x) = 3 /\ x[1] = a /\ x[2] = b /\ x[3] = c
        /\ y \in Seq(T) /\ Len(y) = 3 /\ y[1] = d /\ y[2] = e /\ y[3] = f
    OBVIOUS
  <1> HIDE DEF x, y, T
  <1> HIDE DEF s
  <1>0. Joins(s, x, y)
    BY DEF Joins, s
  <1>6. /\ s \in Seq(T) /\ Len(s) = Len(x) + Len(y)
        /\ (\A i \in 1..Len(x) : s[i] = x[i]) /\ \A i \in 1..Len(y) : s[Len(x) + i] = y[i]
    <2>1. x \in Seq(T) /\ y \in Seq(T)
      BY <1>1
    <2> QED
      BY <1>0, <2>1, JoinsIs
  <1>7. /\ s[1] = x[1] /\ s[2] = x[2] /\ s[3] = x[3]
        /\ s[3 + 1] = y[1] /\ s[3 + 2] = y[2] /\ s[3 + 3] = y[3]
    BY <1>1, <1>6
  <1>2. s \in Seq(T) /\ Len(s) = 6 /\ s[1] = a /\ s[2] = b /\ s[3] = c /\ s[4] = d /\ s[5] = e /\ s[6] = f
    BY <1>1, <1>6, <1>7
  <1>3. \A i \in 1..6 : i = 1 \/ i = 2 \/ i = 3 \/ i = 4 \/ i = 5 \/ i = 6
    OBVIOUS
  <1>4. (\A i \in 1..Len(s) : s[i] = OK) <=> a = OK /\ b = OK /\ c = OK /\ d = OK /\ e = OK /\ f = OK
    BY <1>2, <1>3
  <1>5. /\ (\A i \in 1..Len(s) : s[i] = OK) => Decoded(s, result) = result
        /\ (\E i \in 1..Len(s) : s[i] # OK) => Decoded(s, result).err # OK
    BY <1>2, DecodedIs
  <1> QED
    BY <1>4, <1>5 DEF s, x, y

-----------------------------------------------------------------------------
(* Numbers of two bytes and strings are read as they were written.         *)
LEMMA NumBytesAre ==
  ASSUME NEW id \in 0..Word16 - 1
  PROVE  /\ NumBytes(id) \in Seq(Bytes) /\ Len(NumBytes(id)) = 2
         /\ Byte * NumBytes(id)[1] + NumBytes(id)[2] = id
  <1> DEFINE q == id \div Byte
             r == id % Byte
  <1>1. Byte \in Nat /\ Byte > 0 /\ Byte * Byte \in Nat /\ id \in Nat /\ id < Byte * Byte
    BY DigitAssumption DEF Byte, Word16
  <1>2. q \in Nat /\ r \in 0..Byte - 1 /\ id = Byte * q + r
    BY <1>1, Divided
  <1>3. q < Byte
    BY <1>1, DividedBelow
  <1>4. NumBytes(id) = <<q, r>>
    BY DEF NumBytes
  <1> HIDE DEF q, r
  <1>5. q \in Bytes /\ r \in Bytes
    BY <1>1, <1>2, <1>3 DEF Bytes
  <1>6. <<q, r>> \in Seq(Bytes) /\ Len(<<q, r>>) = 2 /\ <<q, r>>[1] = q /\ <<q, r>>[2] = r
    BY <1>5
  <1> QED
    BY <1>2, <1>4, <1>6

LEMMA ReadsNum ==
  ASSUME NEW id \in 0..Word16 - 1, NEW s \in Seq(Bytes), NEW w, Joins(w, NumBytes(id), s), NEW v
  PROVE  ReadNum(At(w, v)) = At(s, id)
  <1> DEFINE a == NumBytes(id)
             t == SubSeq(w, Len(a) + 1, Len(w))
  <1>1. a \in Seq(Bytes)
    BY NumBytesAre
  <1>2. Len(a) = 2 /\ Byte * a[1] + a[2] = id
    BY NumBytesAre
  <1>3. Joins(w, a, s)
    OBVIOUS
  <1> HIDE DEF a
  <1>4. w \in Seq(Bytes) /\ Len(w) = Len(a) + Len(s) /\ Len(s) \in Nat /\ \A i \in 1..Len(a) : w[i] = a[i]
    BY <1>1, <1>3, JoinsIs
  <1>5. t = s
    BY <1>1, <1>3, Rejoined
  <1>6. w[1] = a[1] /\ w[2] = a[2] /\ 2 <= Len(w)
    BY <1>2, <1>4
  <1>7. SubSeq(w, 3, Len(w)) = s
    <2>1. Len(a) + 1 = 3
      BY <1>2
    <2> QED
      BY <1>5, <2>1
  <1>8. ReadNum(At(w, v)) = At(SubSeq(w, 3, Len(w)), Byte * w[1] + w[2])
    BY <1>4, <1>6, FirstNum
  <1> QED
    BY <1>2, <1>6, <1>7, <1>8

LEMMA StringBytesAre ==
  ASSUME NEW t \in Strings
  PROVE  /\ t \in Seq(Bytes) /\ Len(t) \in 0..Word16 - 1 /\ Len(t) \in Nat
         /\ NumBytes(Len(t)) \in Seq(Bytes) /\ Joins(StringBytes(t), NumBytes(Len(t)), t)
         /\ StringBytes(t) \in Seq(Bytes) /\ Len(StringBytes(t)) = Len(t) + 2
  <1>1. t \in Seq(Bytes) /\ Len(t) \in Nat /\ Len(t) < Word16
    BY DEF Strings, Bytes
  <1>2. Len(t) \in 0..Word16 - 1
    <2>1. Word16 \in Nat
      BY DigitAssumption DEF Word16, Byte
    <2> QED
      BY <1>1, <2>1
  <1>3. NumBytes(Len(t)) \in Seq(Bytes) /\ Len(NumBytes(Len(t))) = 2
    BY <1>2, NumBytesAre
  <1>4. Joins(StringBytes(t), NumBytes(Len(t)), t)
    BY DEF Joins, StringBytes
  <1>5. StringBytes(t) \in Seq(Bytes) /\ Len(StringBytes(t)) = Len(NumBytes(Len(t))) + Len(t)
    <2>1. NumBytes(Len(t)) \in Seq(Bytes)
      BY <1>3
    <2> QED
      BY <1>1, <1>4, <2>1, JoinsIs
  <1> QED
    BY <1>1, <1>2, <1>3, <1>4, <1>5

LEMMA ReadsString ==
  ASSUME NEW t \in Strings, NEW s \in Seq(Bytes), NEW w, Joins(w, StringBytes(t), s), NEW v
  PROVE  ReadString(At(w, v)) = At(s, t)
  <1> DEFINE a == NumBytes(Len(t))
             b == StringBytes(t)
             u == t \o s
  <1>1. t \in Seq(Bytes) /\ Len(t) \in 0..Word16 - 1 /\ Len(t) \in Nat /\ a \in Seq(Bytes)
        /\ Joins(b, a, t) /\ Joins(w, b, s)
    BY StringBytesAre
  <1>2. u \in Seq(Bytes) /\ Joins(u, t, s)
    BY <1>1 DEF Joins
  <1>3. Associative(Seq(Bytes))
    BY Associates
  <1> HIDE DEF a, b, u
  <1>4. Joins(w, a, u)
    <2>1. w = (a \o t) \o s
      BY <1>1 DEF Joins
    <2>2. (a \o t) \o s = a \o (t \o s)
      BY <1>1, <1>3, Zenon DEF Associative
    <2> QED
      BY <2>1, <2>2 DEF Joins, u
  <1>5. ReadNum(At(w, v)) = At(u, Len(t))
    BY <1>1, <1>2, <1>4, ReadsNum DEF a
  <1>6. SubSeq(u, 1, Len(t)) = t /\ SubSeq(u, Len(t) + 1, Len(u)) = s /\ Len(t) \in 0..Len(u)
    BY <1>1, <1>2, Rejoined
  <1>7. ReadData(At(u, Len(t)), Len(t)) = At(SubSeq(u, Len(t) + 1, Len(u)), SubSeq(u, 1, Len(t)))
    BY <1>1, <1>2, <1>6, TakenData
  <1>8. ReadString(At(w, v)) = ReadData(At(u, Len(t)), At(u, Len(t)).val)
    BY <1>5 DEF ReadString, At
  <1> QED
    BY <1>6, <1>7, <1>8 DEF At

-----------------------------------------------------------------------------
(* What the decoders make of a packet, and of one that was cut.            *)
PublishHeader(dup, qos, retained) == Header(PUBLISH, 8 * Bit(dup) + 2 * qos + Bit(retained))

LEMMA PublishHeaderIs ==
  ASSUME NEW dup \in BOOLEAN, NEW qos \in 0..2, NEW retained \in BOOLEAN
  PROVE  LET h == PublishHeader(dup, qos, retained)
         IN  /\ h \in Bytes /\ TypeOf(h) = PUBLISH /\ QosOf(h) = qos
             /\ dup <=> Bits(h, 3, 1) = 1
             /\ retained <=> Bits(h, 0, 1) = 1
  <1> DEFINE h == PublishHeader(dup, qos, retained)
             x == Bit(dup)
             y == Bit(retained)
  <1>1. /\ x \in 0..1 /\ y \in 0..1 /\ (dup <=> x = 1) /\ (retained <=> y = 1)
        /\ h = 48 + 8 * x + 2 * qos + y
    BY DEF Bit, PublishHeader, Header, PUBLISH
  <1>2. Bytes = 0..(2 * Digit - 1) /\ Digit \in Nat /\ Digit >= 128
    BY DigitAssumption, ExchangeAssumption DEF Bytes, Byte
  <1> HIDE DEF h, x, y
  <1>3. h \in Bytes /\ h \in Nat
    BY <1>1, <1>2
  <1>4. TypeOf(h) = PUBLISH
    BY <1>1 DEF TypeOf, PUBLISH
  <1>5. Bits(h, 3, 1) = (h \div 8) % 2 /\ Bits(h, 0, 1) = (h \div 1) % 2 /\ Bits(h, 1, 2) = (h \div 2) % 4
    <2>1. 2^3 = 8 /\ 2^1 = 2 /\ 2^0 = 1 /\ 2^2 = 4
      OBVIOUS
    <2> QED
      BY <2>1 DEF Bits
  <1>6. (h \div 8) % 2 = x
    BY <1>1
  <1>7. (h \div 1) % 2 = y
    BY <1>1
  <1>8. (h \div 2) % 4 = qos
    BY <1>1
  <1>9. QosOf(h) = qos
    BY <1>5, <1>8 DEF QosOf
  <1> QED
    BY <1>1, <1>3, <1>4, <1>5, <1>6, <1>7, <1>9 DEF h

LEMMA PublishInIs ==
  ASSUME NEW b, NEW dup \in BOOLEAN, NEW qos \in 0..2, NEW retained \in BOOLEAN,
         b[1] = PublishHeader(dup, qos, retained),
         NEW topic \in Strings, NEW id \in 0..Word16 - 1, NEW payload \in Seq(Bytes),
         NEW y \in Seq(Bytes), NEW body,
         Joins(body, StringBytes(topic), y), IF qos > 0 THEN Joins(y, NumBytes(id), payload) ELSE y = payload,
         NEW v
  PROVE  PublishIn(b, At(body, v)) =
           [err |-> OK, dup |-> dup, qos |-> qos, retained |-> retained, id |-> IF qos = 0 THEN 0 ELSE id,
            topic |-> topic, payload |-> payload]
  <1> DEFINE t == ReadString(At(body, v))
             i == IF QosOf(b[1]) > 0 THEN ReadNum(t) ELSE [t EXCEPT !.val = 0]
             r == [err |-> OK, dup |-> Bits(b[1], 3, 1) = 1, qos |-> QosOf(b[1]), retained |-> Bits(b[1], 0, 1) = 1,
                   id |-> i.val, topic |-> t.val, payload |-> i.rest]
  <1>1. PublishIn(b, At(body, v)) = Decoded(<<t.err, i.err>>, r)
    BY DEF PublishIn
  <1>2. t = At(y, topic)
    BY ReadsString
  <1>3. QosOf(b[1]) = qos /\ (dup <=> Bits(b[1], 3, 1) = 1) /\ (retained <=> Bits(b[1], 0, 1) = 1)
    BY PublishHeaderIs
  <1>4. i = At(payload, IF qos = 0 THEN 0 ELSE id)
    <2>1. CASE qos > 0
      <3>1. ReadNum(At(y, topic)) = At(payload, id)
        BY <2>1, ReadsNum
      <3>2. i = ReadNum(t) /\ qos # 0
        BY <1>3, <2>1
      <3> QED
        BY <1>2, <3>1, <3>2
    <2>2. CASE ~(qos > 0)
      <3>1. i = [t EXCEPT !.val = 0] /\ qos = 0 /\ y = payload
        BY <1>3, <2>2
      <3> HIDE DEF i, t
      <3> QED
        BY <1>2, <3>1 DEF At
    <2> QED
      BY <2>1, <2>2
  <1> HIDE DEF t, i
  <1>5. t.err = OK /\ t.val = topic /\ i.err = OK /\ i.rest = payload /\ i.val = IF qos = 0 THEN 0 ELSE id
    BY <1>2, <1>4 DEF At
  <1>6. Decoded(<<t.err, i.err>>, r) = r
    BY <1>5, TwoChecks
  <1>7. (Bits(b[1], 3, 1) = 1) = dup /\ (Bits(b[1], 0, 1) = 1) = retained
    BY <1>3
  <1> QED
    BY <1>1, <1>3, <1>5, <1>6, <1>7

LEMMA NeedsIs == ASSUME NEW c \in BOOLEAN, NEW e, e # OK PROVE Needs(c, e) = OK <=> c
  BY DEF Needs

LEMMA ErrorsAre ==
  /\ "MISSING_OR_WRONG_PACKET" # OK /\ "REMAINING_LENGTH_MISMATCH" # OK /\ "BUFFER_TOO_SHORT" # OK
  /\ "SUBACK_ARRAY_OVERFLOW" # OK /\ "VARNUM_OVERFLOW" # OK /\ "REMAINING_LENGTH_OVERFLOW" # OK
  BY DEF OK

LEMMA OpenFive ==
  ASSUME NEW b, NEW type, NEW d, NEW e, NEW result
  PROVE  LET r == Decoded(OpenErrors(b, type) \o <<d, e>>, result)
             h == ReadByte(Reader(b))
         IN  /\ h.err = OK /\ TypeOf(h.val) = type /\ Opened(b).err = OK /\ d = OK /\ e = OK => r = result
             /\ h.err # OK \/ Opened(b).err # OK \/ d # OK \/ e # OK => r.err # OK
             /\ r = result \/ r.err # OK
  <1> DEFINE h == ReadByte(Reader(b))
             x == Needs(TypeOf(h.val) = type, "MISSING_OR_WRONG_PACKET")
             y == Opened(b).err
  <1>1. OpenErrors(b, type) = <<h.err, x, y>>
    BY DEF OpenErrors
  <1>2. TypeOf(h.val) = type => x = OK
    BY DEF Needs
  <1> HIDE DEF x, y, h
  <1> DEFINE r == Decoded(<<h.err, x, y>> \o <<d, e>>, result)
  <1>3. /\ h.err = OK /\ x = OK /\ y = OK /\ d = OK /\ e = OK => r = result
        /\ h.err # OK \/ x # OK \/ y # OK \/ d # OK \/ e # OK => r.err # OK
    BY FiveChecks
  <1>4. r = Decoded(OpenErrors(b, type) \o <<d, e>>, result)
    BY <1>1
  <1> HIDE DEF r
  <1> QED
    BY <1>2, <1>3, <1>4 DEF h, y

LEMMA OpenSix ==
  ASSUME NEW b, NEW type, NEW d, NEW e, NEW f, NEW result
  PROVE  LET r == Decoded(OpenErrors(b, type) \o <<d, e, f>>, result)
             h == ReadByte(Reader(b))
         IN  /\ h.err = OK /\ TypeOf(h.val) = type /\ Opened(b).err = OK /\ d = OK /\ e = OK /\ f = OK => r = result
             /\ h.err # OK \/ Opened(b).err # OK \/ d # OK \/ e # OK \/ f # OK => r.err # OK
  <1> DEFINE h == ReadByte(Reader(b))
             x == Needs(TypeOf(h.val) = type, "MISSING_OR_WRONG_PACKET")
             y == Opened(b).err
  <1>1. OpenErrors(b, type) = <<h.err, x, y>>
    BY DEF OpenErrors
  <1>2. TypeOf(h.val) = type => x = OK
    BY DEF Needs
  <1> HIDE DEF x, y, h
  <1> DEFINE r == Decoded(<<h.err, x, y>> \o <<d, e, f>>, result)
  <1>3. /\ h.err = OK /\ x = OK /\ y = OK /\ d = OK /\ e = OK /\ f = OK => r = result
        /\ h.err # OK \/ x # OK \/ y # OK \/ d # OK \/ e # OK \/ f # OK => r.err # OK
    BY SixChecks
  <1>4. r = Decoded(OpenErrors(b, type) \o <<d, e, f>>, result)
    BY <1>1
  <1> HIDE DEF r
  <1> QED
    BY <1>2, <1>3, <1>4 DEF h, y

LEMMA DecodesPublish ==
  ASSUME NEW dup \in BOOLEAN, NEW qos \in 0..2, NEW retained \in BOOLEAN,
         NEW topic \in Strings, NEW id \in 0..Word16 - 1, NEW payload \in Seq(Bytes), NEW y \in Seq(Bytes),
         NEW body \in Seq(Bytes), Joins(body, StringBytes(topic), y),
         IF qos > 0 THEN Joins(y, NumBytes(id), payload) ELSE y = payload,
         Len(body) < Weight[5], NEW b, Packs(b, PublishHeader(dup, qos, retained), Len(body), body)
  PROVE  DecodePublish(b) =
           [err |-> OK, dup |-> dup, qos |-> qos, retained |-> retained, id |-> IF qos = 0 THEN 0 ELSE id,
            topic |-> topic, payload |-> payload]
  <1> DEFINE h == PublishHeader(dup, qos, retained)
             n == Opened(b)
             m == Len(body)
             c == [n EXCEPT !.rest = SubSeq(@, 1, n.val)]
             d == Needs(n.val >= 2, "REMAINING_LENGTH_MISMATCH")
             e == Needs(Len(n.rest) >= n.val, "BUFFER_TOO_SHORT")
             r == PublishIn(b, c)
  <1>1. h \in Bytes /\ TypeOf(h) = PUBLISH
    BY PublishHeaderIs
  <1> HIDE DEF h
  <1>2. m \in Nat /\ m < Weight[5] /\ Packs(b, h, m, body)
    BY DEF h
  <1> HIDE DEF m
  <1>3. b[1] = h /\ ReadByte(Reader(b)).err = OK /\ ReadByte(Reader(b)).val = h /\ n = At(body, m)
    BY <1>1, <1>2, PacketOpened
  <1>4. m >= 2
    <2>1. StringBytes(topic) \in Seq(Bytes) /\ Len(StringBytes(topic)) = Len(topic) + 2 /\ Len(topic) \in Nat
      BY StringBytesAre
    <2>2. Len(body) = Len(StringBytes(topic)) + Len(y) /\ Len(y) \in Nat
      BY <2>1, JoinsIs
    <2> QED
      BY <2>1, <2>2 DEF m
  <1> HIDE DEF n
  <1>5. n.err = OK /\ n.rest = body /\ n.val = m
    BY <1>3, AtIs
  <1>6. d = OK /\ e = OK
    BY <1>2, <1>4, <1>5 DEF Needs, m
  <1>7. SubSeq(body, 1, m) = body
    BY DEF m
  <1>8. c = At(body, m)
    <2>1. c = [n EXCEPT !.rest = SubSeq(body, 1, m)]
      BY <1>5
    <2> HIDE DEF c
    <2> QED
      BY <1>3, <1>7, <2>1 DEF At
  <1>9. r = [err |-> OK, dup |-> dup, qos |-> qos, retained |-> retained, id |-> IF qos = 0 THEN 0 ELSE id,
            topic |-> topic, payload |-> payload]
    <2> HIDE DEF c
    <2>1. b[1] = PublishHeader(dup, qos, retained)
      BY <1>3 DEF h
    <2> QED
      BY <1>8, <2>1, PublishInIs
  <1>10. DecodePublish(b) = Decoded(OpenErrors(b, PUBLISH) \o <<d, e>>, r)
    BY DEF DecodePublish, n
  <1> HIDE DEF d, e, r
  <1>11. Opened(b).err = OK
    BY <1>5 DEF n
  <1>12. Decoded(OpenErrors(b, PUBLISH) \o <<d, e>>, r) = r
    BY <1>1, <1>3, <1>6, <1>11, OpenFive
  <1> QED
    BY <1>9, <1>10, <1>12

LEMMA RefusesCutPublish ==
  ASSUME NEW h \in Bytes, NEW body \in Seq(Bytes), Len(body) < Weight[5], NEW b, Packs(b, h, Len(body), body),
         NEW k \in 0..Len(b), k < Len(b), NEW w, w = SubSeq(b, 1, k)
  PROVE  DecodePublish(w).err # OK
  <1> DEFINE n == Opened(w)
             m == Len(body)
             d == Needs(n.val >= 2, "REMAINING_LENGTH_MISMATCH")
             e == Needs(Len(n.rest) >= n.val, "BUFFER_TOO_SHORT")
             r == PublishIn(w, [n EXCEPT !.rest = SubSeq(@, 1, n.val)])
  <1>1. m \in Nat
    OBVIOUS
  <1>2. \/ ReadByte(Reader(w)).err # OK
        \/ n.err # OK
        \/ \E j \in 0..m : j < m /\ n = At(SubSeq(body, 1, j), m)
    <2>1. m < Weight[5] /\ Packs(b, h, m, body) /\ k \in 0..Len(b) /\ k < Len(b) /\ w = SubSeq(b, 1, k)
      OBVIOUS
    <2> HIDE DEF m, n
    <2>2. Lacking(w, m, body)
      BY <1>1, <2>1, PacketCut
    <2> QED
      BY <2>2 DEF m, n, Lacking
  <1>3. ASSUME NEW j \in 0..m, j < m, n = At(SubSeq(body, 1, j), m) PROVE e # OK
    <2>1. Len(SubSeq(body, 1, j)) = j
      BY <1>3, Cut
    <2> HIDE DEF n
    <2>2. n.rest = SubSeq(body, 1, j) /\ n.val = m
      BY <1>3, AtIs
    <2>3. ~(Len(n.rest) >= n.val)
      <3> HIDE DEF m
      <3> QED
        BY <1>1, <1>3, <2>1, <2>2
    <2> QED
      BY <2>3, ErrorsAre DEF Needs
  <1>4. DecodePublish(w) = Decoded(OpenErrors(w, PUBLISH) \o <<d, e>>, r)
    BY DEF DecodePublish
  <1> HIDE DEF d, e, r
  <1>5. ReadByte(Reader(w)).err # OK \/ Opened(w).err # OK \/ e # OK
    BY <1>2, <1>3
  <1>6. Decoded(OpenErrors(w, PUBLISH) \o <<d, e>>, r).err # OK
    BY <1>5, OpenFive
  <1> QED
    BY <1>4, <1>6

Short(w, n, body) ==
  \/ ReadByte(Reader(w)).err # OK
  \/ Opened(w).err # OK
  \/ \E j \in 0..n : j < n /\ Opened(w) = At(SubSeq(body, 1, j), n) /\ SubSeq(body, 1, j) \in Seq(Bytes)
                     /\ Len(SubSeq(body, 1, j)) = j /\ j \in Nat

LEMMA PacketCutIs ==
  ASSUME NEW h \in Bytes, NEW n \in Nat, NEW body \in Seq(Bytes), n = Len(body), n < Weight[5], NEW b,
         Packs(b, h, n, body),
         NEW k \in 0..Len(b), k < Len(b), NEW w, w = SubSeq(b, 1, k)
  PROVE  Short(w, n, body)
  <1>1. Lacking(w, n, body)
    BY PacketCut
  <1>2. ASSUME NEW j \in 0..n PROVE SubSeq(body, 1, j) \in Seq(Bytes) /\ Len(SubSeq(body, 1, j)) = j /\ j \in Nat
    BY <1>2, Cut
  <1> QED
    BY <1>1, <1>2 DEF Lacking, Short

LEMMA HeaderIs ==
  ASSUME NEW type \in 0..15, NEW flags \in 0..15
  PROVE  Header(type, flags) \in Bytes /\ TypeOf(Header(type, flags)) = type
  <1>1. Bytes = 0..(2 * Digit - 1) /\ Digit \in Nat /\ Digit >= 128
    BY DigitAssumption, ExchangeAssumption DEF Bytes, Byte
  <1> QED
    BY <1>1 DEF Header, TypeOf

LEMMA DecodesAck ==
  ASSUME NEW type, NEW h \in Bytes, TypeOf(h) = type, NEW id \in 0..Word16 - 1, NEW b,
         Packs(b, h, 2, NumBytes(id)), 2 < Weight[5]
  PROVE  /\ DecodeAck(b, type) = [err |-> OK, id |-> id]
         /\ \A k \in 0..Len(b) : k < Len(b) => DecodeAck(SubSeq(b, 1, k), type).err # OK
  <1> DEFINE body == NumBytes(id)
             e(w) == ReadNum(Opened(w)).err
             d(w) == Needs(Opened(w).val = 2, "REMAINING_LENGTH_MISMATCH")
             r(w) == [err |-> OK, id |-> ReadNum(Opened(w)).val]
  <1>1. body \in Seq(Bytes) /\ Len(body) = 2 /\ 2 \in Nat
    BY NumBytesAre
  <1>2. ReadNum(At(body, 2)) = At(<<>>, id)
    <2>1. Joins(body, body, <<>>) /\ <<>> \in Seq(Bytes)
      BY <1>1 DEF Joins
    <2> QED
      BY <2>1, ReadsNum
  <1> HIDE DEF body
  <1>3. Packs(b, h, 2, body)
    BY DEF body
  <1>4. ASSUME NEW w PROVE DecodeAck(w, type) = Decoded(OpenErrors(w, type) \o <<d(w), e(w)>>, r(w))
    BY DEF DecodeAck
  <1>5. ReadByte(Reader(b)).err = OK /\ ReadByte(Reader(b)).val = h /\ Opened(b) = At(body, 2)
    BY <1>1, <1>3, PacketOpened
  <1>6. d(b) = OK /\ e(b) = OK /\ r(b) = [err |-> OK, id |-> id] /\ Opened(b).err = OK
    BY <1>2, <1>5 DEF Needs, At
  <1>7. ASSUME NEW k \in 0..Len(b), k < Len(b)
        PROVE  LET w == SubSeq(b, 1, k) IN ReadByte(Reader(w)).err # OK \/ Opened(w).err # OK \/ e(w) # OK
    <2> DEFINE w == SubSeq(b, 1, k)
    <2>1. Short(w, 2, body)
      <3>1. w = SubSeq(b, 1, k)
        OBVIOUS
      <3> HIDE DEF w, e, d, r
      <3> QED
        BY <1>1, <1>3, <1>7, <3>1, PacketCutIs
    <2>2. ASSUME NEW s \in Seq(Bytes), Len(s) < 2 PROVE ReadNum(At(s, 2)).err # OK
      BY <2>2, FirstNum
    <2> QED
      BY <2>1, <2>2 DEF Short
  <1> HIDE DEF d, e, r
  <1>8. DecodeAck(b, type) = r(b)
    <2>1. DecodeAck(b, type) = Decoded(OpenErrors(b, type) \o <<d(b), e(b)>>, r(b))
      BY <1>4
    <2>2. Decoded(OpenErrors(b, type) \o <<d(b), e(b)>>, r(b)) = r(b)
      BY <1>5, <1>6, OpenFive
    <2> QED
      BY <2>1, <2>2
  <1>9. ASSUME NEW k \in 0..Len(b), k < Len(b) PROVE DecodeAck(SubSeq(b, 1, k), type).err # OK
    <2> DEFINE w == SubSeq(b, 1, k)
    <2>1. ReadByte(Reader(w)).err # OK \/ Opened(w).err # OK \/ e(w) # OK
      BY <1>7, <1>9
    <2>2. DecodeAck(w, type) = Decoded(OpenErrors(w, type) \o <<d(w), e(w)>>, r(w))
      BY <1>4
    <2> HIDE DEF w
    <2>3. DecodeAck(w, type).err # OK
      BY <2>1, <2>2, OpenFive
    <2> QED
      BY <2>3 DEF w
  <1> QED
    BY <1>6, <1>8, <1>9

LEMMA DecodesConnack ==
  ASSUME NEW present \in BOOLEAN, NEW code \in Bytes, NEW b,
         Packs(b, Header(CONNACK, 0), 2, <<Bit(present), code>>), 2 < Weight[5]
  PROVE  /\ DecodeConnack(b).err = OK /\ DecodeConnack(b).present = present
         /\ DecodeConnack(b).code = 0 <=> code = 0
         /\ \A k \in 0..Len(b) : k < Len(b) => DecodeConnack(SubSeq(b, 1, k)).err # OK
  <1> DEFINE x == Bit(present)
             body == <<x, code>>
             h == Header(CONNACK, 0)
             f(w) == ReadByte(Opened(w))
             c(w) == ReadByte(f(w))
             d(w) == Needs(Opened(w).val = 2, "REMAINING_LENGTH_MISMATCH")
             r(w) == [err |-> OK, present |-> Bits(f(w).val, 0, 1) = 1, code |-> Min({c(w).val, 6})]
  <1>0. h \in Bytes /\ TypeOf(h) = CONNACK
    <2>1. CONNACK \in 0..15 /\ 0 \in 0..15
      BY DEF CONNACK
    <2> QED
      BY <2>1, HeaderIs
  <1>1. x \in Bytes /\ x \in 0..1 /\ (x = 1) = present
    BY DigitAssumption DEF Bit, Bytes, Byte
  <1> HIDE DEF x, h
  <1>2. body \in Seq(Bytes) /\ Len(body) = 2 /\ 2 \in Nat /\ body # <<>> /\ Tail(body) = <<code>> /\ body[1] = x
        /\ <<code>> \in Seq(Bytes) /\ <<code>> # <<>> /\ <<code>>[1] = code /\ Tail(<<code>>) = <<>>
    BY <1>1
  <1>3. Packs(b, h, 2, body)
    BY DEF x, h
  <1> HIDE DEF body
  <1>4. ASSUME NEW w PROVE DecodeConnack(w) = Decoded(OpenErrors(w, CONNACK) \o <<d(w), f(w).err, c(w).err>>, r(w))
    BY DEF DecodeConnack
  <1>5. ReadByte(Reader(b)).err = OK /\ ReadByte(Reader(b)).val = h /\ Opened(b) = At(body, 2)
    BY <1>0, <1>2, <1>3, PacketOpened
  <1>6. f(b) = At(<<code>>, x) /\ c(b) = At(<<>>, code)
    <2>1. ReadByte(At(body, 2)) = At(<<code>>, x)
      BY <1>2, FirstByte
    <2>2. ReadByte(At(<<code>>, x)) = At(<<>>, code)
      BY <1>2, FirstByte
    <2> QED
      BY <1>5, <2>1, <2>2
  <1>7. ASSUME NEW k \in 0..Len(b), k < Len(b)
        PROVE  LET w == SubSeq(b, 1, k)
               IN  ReadByte(Reader(w)).err # OK \/ Opened(w).err # OK \/ f(w).err # OK \/ c(w).err # OK
    <2> DEFINE w == SubSeq(b, 1, k)
    <2>1. Short(w, 2, body)
      <3>1. w = SubSeq(b, 1, k)
        OBVIOUS
      <3> HIDE DEF w, c, f, d, r
      <3> QED
        BY <1>0, <1>2, <1>3, <1>7, <3>1, PacketCutIs
    <2>2. ASSUME NEW s \in Seq(Bytes), Len(s) < 2
          PROVE ReadByte(At(s, 2)).err # OK \/ ReadByte(ReadByte(At(s, 2))).err # OK
      <3>1. CASE s = <<>>
        BY <3>1, FirstByte
      <3>2. CASE s # <<>>
        <4>1. Tail(s) = <<>> /\ <<>> \in Seq(Bytes)
          BY <2>2, <3>2
        <4>2. ReadByte(At(s, 2)) = At(<<>>, s[1])
          BY <3>2, <4>1, FirstByte
        <4>3. ReadByte(At(<<>>, s[1])).err # OK
          BY <4>1, FirstByte
        <4> QED
          BY <4>2, <4>3
      <3> QED
        BY <3>1, <3>2
    <2> QED
      BY <2>1, <2>2 DEF Short
  <1>8. d(b) = OK /\ f(b).err = OK /\ c(b).err = OK /\ Opened(b).err = OK /\ f(b).val = x /\ c(b).val = code
    BY <1>5, <1>6 DEF Needs, At
  <1> HIDE DEF d, f, c
  <1>9. r(b).err = OK /\ r(b).present = present /\ (r(b).code = 0 <=> code = 0)
    <2>1. Bits(x, 0, 1) = x
      <3>1. 2^0 = 1 /\ 2^1 = 2
        OBVIOUS
      <3> QED
        BY <1>1, <3>1 DEF Bits
    <2>2. Min({code, 6}) \in {code, 6} /\ Min({code, 6}) <= code
      <3>1. {code, 6} \subseteq Nat /\ {code, 6} # {}
        BY DEF Bytes
      <3>2. \E m \in {code, 6} : \A o \in {code, 6} : m <= o
        BY <3>1, Smallest
      <3> QED
        BY <3>2 DEF Min
    <2>3. code \in Nat
      BY DEF Bytes
    <2> QED
      BY <1>1, <1>8, <2>1, <2>2, <2>3
  <1> HIDE DEF r
  <1>10. DecodeConnack(b) = r(b)
    <2>1. DecodeConnack(b) = Decoded(OpenErrors(b, CONNACK) \o <<d(b), f(b).err, c(b).err>>, r(b))
      BY <1>4
    <2>2. Decoded(OpenErrors(b, CONNACK) \o <<d(b), f(b).err, c(b).err>>, r(b)) = r(b)
      BY <1>0, <1>5, <1>8, OpenSix
    <2> QED
      BY <2>1, <2>2
  <1>11. ASSUME NEW k \in 0..Len(b), k < Len(b) PROVE DecodeConnack(SubSeq(b, 1, k)).err # OK
    <2> DEFINE w == SubSeq(b, 1, k)
    <2>1. ReadByte(Reader(w)).err # OK \/ Opened(w).err # OK \/ f(w).err # OK \/ c(w).err # OK
      BY <1>7, <1>11
    <2>2. DecodeConnack(w) = Decoded(OpenErrors(w, CONNACK) \o <<d(w), f(w).err, c(w).err>>, r(w))
      BY <1>4
    <2> HIDE DEF w
    <2>3. DecodeConnack(w).err # OK
      BY <2>1, <2>2, OpenSix
    <2> QED
      BY <2>3 DEF w
  <1> QED
    BY <1>9, <1>10, <1>11

LEMMA LeastIs ==
  ASSUME NEW a \in Nat, NEW b \in Nat, NEW c \in Nat
  PROVE  LET m == Min({a, b, c}) IN m \in Nat /\ m \in {a, b, c} /\ m <= a /\ m <= b /\ m <= c
  <1> DEFINE S == {a, b, c}
  <1>1. S \subseteq Nat /\ S # {}
    OBVIOUS
  <1>2. \E x \in S : \A y \in S : x <= y
    BY <1>1, Smallest
  <1>3. Min(S) \in S /\ \A y \in S : Min(S) <= y
    BY <1>2 DEF Min
  <1> QED
    BY <1>1, <1>3

LEMMA DecodesSuback ==
  ASSUME NEW id \in 0..Word16 - 1, NEW codes \in Seq(Bytes), codes # <<>>, 2 + Len(codes) < Weight[5],
         NEW max \in Nat,
         NEW body, Joins(body, NumBytes(id), codes), NEW b, Packs(b, Header(SUBACK, 0), 2 + Len(codes), body)
  PROVE  /\ Len(codes) <= max =>
              LET r == DecodeSuback(b, max)
              IN  r.err = OK /\ r.id = id /\ \A i \in DOMAIN codes : r.granted[i] = Granted(codes[i])
         /\ \A k \in 0..Len(b) : k < Len(b) => DecodeSuback(SubSeq(b, 1, k), max).err # OK
  <1> DEFINE h == Header(SUBACK, 0)
             m == 2 + Len(codes)
             i(w) == ReadNum(Opened(w))
             n(w) == Opened(w).val - 2
             stored(w) == Min({n(w), max + 1, Len(i(w).rest)})
             d(w) == Needs(Opened(w).val >= 3, "REMAINING_LENGTH_MISMATCH")
             p(w) == Needs(n(w) <= max + 1 \/ stored(w) <= max, "SUBACK_ARRAY_OVERFLOW")
             q(w) == Needs(n(w) = stored(w), "BUFFER_TOO_SHORT")
             full(w) == FirstError(<<p(w), q(w)>>)
             r(w) == [err |-> full(w), id |-> i(w).val, granted |-> [j \in 1..stored(w) |-> Granted(i(w).rest[j])]]
  <1>0. h \in Bytes /\ TypeOf(h) = SUBACK
    <2>1. SUBACK \in 0..15 /\ 0 \in 0..15
      BY DEF SUBACK
    <2> QED
      BY <2>1, HeaderIs
  <1> HIDE DEF h
  <1>1. NumBytes(id) \in Seq(Bytes) /\ Len(NumBytes(id)) = 2
    BY NumBytesAre
  <1>2. body \in Seq(Bytes) /\ Len(body) = m /\ m \in Nat /\ m >= 3 /\ Len(codes) = m - 2 /\ Len(codes) \in Nat
    <2>1. NumBytes(id) \in Seq(Bytes)
      BY <1>1
    <2>2. body \in Seq(Bytes) /\ Len(body) = Len(NumBytes(id)) + Len(codes) /\ Len(codes) \in Nat
      BY <2>1, JoinsIs
    <2>3. Len(codes) > 0
      OBVIOUS
    <2> QED
      BY <1>1, <2>2, <2>3
  <1>3. Packs(b, h, m, body) /\ m < Weight[5]
    BY DEF h
  <1> HIDE DEF m
  <1>4. ASSUME NEW w PROVE DecodeSuback(w, max) = Decoded(OpenErrors(w, SUBACK) \o <<d(w), i(w).err>>, r(w))
    BY DEF DecodeSuback
  <1>5. ReadByte(Reader(b)).err = OK /\ ReadByte(Reader(b)).val = h /\ Opened(b) = At(body, m)
    BY <1>0, <1>2, <1>3, PacketOpened
  <1>6. i(b) = At(codes, id)
    BY <1>5, ReadsNum
  <1>7. Opened(b).err = OK /\ Opened(b).val = m /\ i(b).err = OK /\ i(b).rest = codes /\ i(b).val = id
    BY <1>5, <1>6 DEF At
  <1>8. ASSUME Len(codes) <= max
        PROVE  LET s == DecodeSuback(b, max)
               IN  s.err = OK /\ s.id = id /\ \A j \in DOMAIN codes : s.granted[j] = Granted(codes[j])
    <2>1. n(b) = Len(codes) /\ d(b) = OK
      BY <1>2, <1>7 DEF Needs
    <2>2. stored(b) = Len(codes)
      <3>1. stored(b) = Min({Len(codes), max + 1, Len(codes)})
        BY <1>7, <2>1
      <3>2. LET l == Min({Len(codes), max + 1, Len(codes)}) IN l \in {Len(codes), max + 1, Len(codes)} /\ l <= Len(codes)
        BY <1>2, LeastIs
      <3> QED
        BY <1>2, <1>8, <3>1, <3>2
    <2>3. p(b) = OK /\ q(b) = OK
      BY <1>2, <1>8, <2>1, <2>2 DEF Needs
    <2> HIDE DEF p, q
    <2>4. full(b) = OK
      BY <2>3, TwoChecks
    <2> HIDE DEF full, stored, i, d
    <2>5. DecodeSuback(b, max) = r(b)
      <3> HIDE DEF r
      <3>1. DecodeSuback(b, max) = Decoded(OpenErrors(b, SUBACK) \o <<d(b), i(b).err>>, r(b))
        BY <1>4
      <3>2. Decoded(OpenErrors(b, SUBACK) \o <<d(b), i(b).err>>, r(b)) = r(b)
        BY <1>0, <1>5, <1>7, <2>1, OpenFive
      <3> QED
        BY <3>1, <3>2
    <2>6. r(b).err = OK /\ r(b).id = id /\ r(b).granted = [j \in 1..Len(codes) |-> Granted(codes[j])]
      BY <1>7, <2>2, <2>4
    <2>7. DOMAIN codes = 1..Len(codes)
      OBVIOUS
    <2> QED
      BY <2>5, <2>6, <2>7
  <1>9. ASSUME NEW k \in 0..Len(b), k < Len(b)
        PROVE  LET w == SubSeq(b, 1, k)
               IN  ReadByte(Reader(w)).err # OK \/ Opened(w).err # OK \/ i(w).err # OK \/ full(w) # OK
    <2> DEFINE w == SubSeq(b, 1, k)
    <2>1. Short(w, m, body)
      <3>1. w = SubSeq(b, 1, k)
        OBVIOUS
      <3> HIDE DEF w
      <3> QED
        BY <1>0, <1>2, <1>3, <1>9, <3>1, PacketCutIs
    <2>2. ASSUME NEW s \in Seq(Bytes), NEW j \in Nat, Len(s) = j, j < m, Opened(w) = At(s, m)
          PROVE i(w).err # OK \/ full(w) # OK
      <3>1. CASE j < 2
        BY <2>2, <3>1, FirstNum
      <3>2. CASE ~(j < 2)
        <4>1. ReadNum(At(s, m)) = At(SubSeq(s, 3, Len(s)), Byte * s[1] + s[2])
          BY <2>2, <3>2, FirstNum
        <4>2. i(w).rest = SubSeq(s, 3, Len(s)) /\ Opened(w).val = m
          BY <2>2, <4>1 DEF At
        <4>3. Len(SubSeq(s, 3, Len(s))) = j - 2
          BY <2>2, <3>2
        <4>4. stored(w) = Min({m - 2, max + 1, j - 2})
          BY <4>2, <4>3
        <4>5. LET l == Min({m - 2, max + 1, j - 2}) IN l <= j - 2 /\ l \in Nat
          <5>1. m - 2 \in Nat /\ max + 1 \in Nat /\ j - 2 \in Nat
            BY <1>2, <2>2, <3>2
          <5> QED
            BY <5>1, LeastIs
        <4>6. ~(n(w) = stored(w))
          BY <1>2, <2>2, <4>2, <4>4, <4>5
        <4>7. q(w) # OK
          BY <4>6, ErrorsAre DEF Needs
        <4> HIDE DEF q, p
        <4> QED
          BY <4>7, TwoChecks
      <3> QED
        BY <3>1, <3>2
    <2> HIDE DEF w, i, full
    <2>3. \A s \in Seq(Bytes), j \in Nat : Len(s) = j /\ j < m /\ Opened(w) = At(s, m) => i(w).err # OK \/ full(w) # OK
      BY <2>2
    <2>4. ReadByte(Reader(w)).err # OK \/ Opened(w).err # OK \/ i(w).err # OK \/ full(w) # OK
      BY <2>1, <2>3 DEF Short
    <2> QED
      BY <2>4 DEF w
  <1>10. ASSUME NEW k \in 0..Len(b), k < Len(b) PROVE DecodeSuback(SubSeq(b, 1, k), max).err # OK
    <2> DEFINE w == SubSeq(b, 1, k)
    <2>1. ReadByte(Reader(w)).err # OK \/ Opened(w).err # OK \/ i(w).err # OK \/ full(w) # OK
      BY <1>9, <1>10
    <2>2. DecodeSuback(w, max) = Decoded(OpenErrors(w, SUBACK) \o <<d(w), i(w).err>>, r(w))
      BY <1>4
    <2> HIDE DEF w
    <2>3. r(w).err = full(w)
      OBVIOUS
    <2> HIDE DEF r, i, full, d
    <2> DEFINE D == Decoded(OpenErrors(w, SUBACK) \o <<d(w), i(w).err>>, r(w))
    <2>4. D.err # OK
      <3>1. CASE ReadByte(Reader(w)).err # OK \/ Opened(w).err # OK \/ i(w).err # OK
        BY <3>1, OpenFive
      <3>2. CASE full(w) # OK
        <4>1. D = r(w) \/ D.err # OK
          BY OpenFive
        <4> QED
          BY <2>3, <3>2, <4>1
      <3> QED
        BY <2>1, <3>1, <3>2
    <2> HIDE DEF D
    <2>5. DecodeSuback(w, max).err # OK
      BY <2>2, <2>4 DEF D
    <2> QED
      BY <2>5 DEF w
  <1> QED
    BY <1>8, <1>10

(* The remaining length alone.                                             *)
LEMMA DecodesNumber ==
  ASSUME NEW n \in Nat, n < Weight[5]
  PROVE  LET b == VarnumBytes(n)
         IN  /\ DetectRemainingLength(b) = [err |-> OK, val |-> n]
             /\ ReadVarnum(Reader(Append(b, Digit))).rest = <<Digit>>
             /\ \A k \in 0..Len(b) : k < Len(b) => DetectRemainingLength(SubSeq(b, 1, k)).err # OK
  <1> DEFINE b == VarnumBytes(n)
  <1>1. b \in Seq(Bytes)
    BY VarnumBytesAre
  <1>2. Digit \in Bytes
    BY DigitAssumption DEF Bytes, Byte
  <1>3. ReadVarnum(Reader(b)) = At(<<>>, n)
    <2>1. Joins(b, b, <<>>) /\ <<>> \in Seq(Bytes)
      <3> HIDE DEF b
      <3> QED
        BY <1>1 DEF Joins
    <2>2. Joins(b, VarnumBytes(n), <<>>) /\ Reader(b) = At(b, 0)
      BY <2>1 DEF Reader, At
    <2> DEFINE s == <<>>
    <2>3. s \in Seq(Bytes) /\ Joins(b, VarnumBytes(n), s)
      BY <2>1, <2>2
    <2> HIDE DEF b, s
    <2>4. ReadVarnum(At(b, 0)) = At(s, n)
      BY <2>3, ReadsNumber
    <2> QED
      BY <2>2, <2>4 DEF s
  <1>4. ReadVarnum(Reader(Append(b, Digit))) = At(<<Digit>>, n)
    <2> DEFINE w == Append(b, Digit)
               s == <<Digit>>
    <2>1. Joins(w, b, s) /\ s \in Seq(Bytes)
      <3> HIDE DEF b
      <3> QED
        BY <1>1, <1>2 DEF Joins
    <2> HIDE DEF s, w
    <2>2. Reader(w) = At(w, 0)
      BY DEF Reader, At
    <2>3. ReadVarnum(At(w, 0)) = At(s, n)
      BY <2>1, ReadsNumber
    <2> QED
      BY <2>2, <2>3 DEF s, w
  <1>5. ASSUME NEW k \in 0..Len(b), k < Len(b) PROVE DetectRemainingLength(SubSeq(b, 1, k)).err # OK
    <2> DEFINE w == SubSeq(b, 1, k)
               m == ReadVarnum(Reader(w))
    <2>1. Reader(w) = At(w, 0)
      BY DEF Reader, At
    <2>2. ReadVarnum(At(w, 0)).err # OK
      BY <1>5, CutNumber
    <2>3. m.err # OK
      BY <2>1, <2>2
    <2>4. DetectRemainingLength(w) =
            CASE m.err = OK -> [err |-> OK, val |-> m.val]
              [] m.err = "VARNUM_OVERFLOW" -> [err |-> "REMAINING_LENGTH_OVERFLOW", val |-> 0]
              [] OTHER -> [err |-> m.err, val |-> 0]
      BY DEF DetectRemainingLength
    <2> HIDE DEF m
    <2>5. CASE m.err = "VARNUM_OVERFLOW"
      BY <2>3, <2>4, <2>5, ErrorsAre
    <2>6. CASE m.err # "VARNUM_OVERFLOW"
      BY <2>3, <2>4, <2>6
    <2> QED
      BY <2>5, <2>6
  <1>6. DetectRemainingLength(b) = [err |-> OK, val |-> n]
    <2> HIDE DEF b
    <2> DEFINE m == ReadVarnum(Reader(b))
    <2>1. m.err = OK /\ m.val = n
      BY <1>3 DEF At
    <2>2. DetectRemainingLength(b) =
            CASE m.err = OK -> [err |-> OK, val |-> m.val]
              [] m.err = "VARNUM_OVERFLOW" -> [err |-> "REMAINING_LENGTH_OVERFLOW", val |-> 0]
              [] OTHER -> [err |-> m.err, val |-> 0]
      BY DEF DetectRemainingLength
    <2> HIDE DEF m
    <2>3. m.err # "VARNUM_OVERFLOW"
      BY <2>1, ErrorsAre
    <2> QED
      BY <2>1, <2>2, <2>3
  <1>7. ReadVarnum(Reader(Append(b, Digit))).rest = <<Digit>>
    BY <1>4, AtIs
  <1> QED
    BY <1>5, <1>6, <1>7

-----------------------------------------------------------------------------
(* What the encoders write.                                                *)
VarnumLimits(n) == {k \in 1..2 : n < Weight[k + 1]} \cup {k \in 3..4 : n < Weight[k + 1] - 1} \cup {5}

LEMMA VarnumLengthIs ==
  ASSUME NEW n \in Nat
  PROVE  /\ VarnumLength(n) \in 1..5
         /\ VarnumLength(n) # 5 => n < Weight[5] /\ Digits(n) <= VarnumLength(n)
         /\ VarnumLength(n) = 5 => n + 1 >= Weight[5]
  <1> DEFINE S == VarnumLimits(n)
  <1>1. S \subseteq Nat /\ 5 \in S /\ S \subseteq 1..5
    BY DEF VarnumLimits
  <1>2. PICK x \in S : \A y \in S : x <= y
    BY <1>1, Smallest
  <1>3. Min(S) \in S /\ \A y \in S : Min(S) <= y
    BY <1>2 DEF Min
  <1>4. VarnumLength(n) = Min(S)
    BY DEF VarnumLength, VarnumLimits
  <1> DEFINE k == VarnumLength(n)
  <1>5. k \in S /\ \A y \in S : k <= y
    BY <1>3, <1>4
  <1> HIDE DEF k, S
  <1>6. k \in 1..5
    BY <1>1, <1>5
  <1>7. ASSUME k # 5 PROVE n < Weight[5] /\ Digits(n) <= k
    <2>1. k \in 1..4 /\ n < Weight[k + 1]
      <3>1. k \in 1..4 /\ (n < Weight[k + 1] \/ n < Weight[k + 1] - 1)
        BY <1>5, <1>7 DEF S, VarnumLimits
      <3>2. Weight[k + 1] \in Nat
        <4>1. k + 1 \in 1..5
          BY <3>1
        <4> QED
          BY <4>1, WeightIs
      <3> QED
        BY <3>1, <3>2
    <2>2. Shifted(n)[k + 1] = 0
      BY <2>1, ShiftedBelow
    <2>3. Digits(n) <= k /\ Digits(n) \in 1..5
      BY <2>1, <2>2, DigitsAreMin
    <2>4. Digits(n) # 5
      BY <2>1, <2>3
    <2> QED
      BY <2>3, <2>4, FourDigits
  <1>8. ASSUME k = 5 PROVE n + 1 >= Weight[5]
    <2>1. 4 \notin S
      BY <1>5, <1>8
    <2>2. ~(n < Weight[4 + 1] - 1)
      BY <2>1 DEF S, VarnumLimits
    <2>3. Weight[5] \in Nat
      BY WeightIs
    <2> QED
      BY <2>2, <2>3
  <1> QED
    BY <1>6, <1>7, <1>8 DEF k

Wr(size, buf) == [err |-> OK, size |-> size, buf |-> buf]

LEMMA WriteDataIs ==
  ASSUME NEW size \in Nat, NEW b \in Seq(Bytes), NEW x \in Seq(Bytes)
  PROVE  LET w == WriteData(Wr(size, b), x) IN (w = Wr(size, b \o x) /\ Len(b) + Len(x) <= size) \/ w.err # OK
  <1> DEFINE r == Wr(size, b)
             w == WriteData(r, x)
  <1>1. r.err = OK /\ r.buf = b /\ r.size = size
    BY DEF Wr
  <1>2. w = IF r.size < Len(r.buf) + Len(x) THEN [r EXCEPT !.err = "BUFFER_TOO_SHORT"] ELSE [r EXCEPT !.buf = @ \o x]
    BY <1>1 DEF WriteData
  <1>3. [r EXCEPT !.err = "BUFFER_TOO_SHORT"].err # OK
    BY ErrorsAre DEF Wr
  <1>4. [r EXCEPT !.buf = @ \o x] = Wr(size, b \o x)
    <2> DEFINE y == b \o x
    <2> HIDE DEF y
    <2>1. [r EXCEPT !.buf = y] = Wr(size, y)
      BY DEF Wr
    <2> QED
      BY <1>1, <2>1 DEF y
  <1>5. Len(b) \in Nat /\ Len(x) \in Nat
    OBVIOUS
  <1> HIDE DEF r, w
  <1>6. (w = Wr(size, b \o x) /\ ~(size < Len(b) + Len(x))) \/ w.err # OK
    BY <1>1, <1>2, <1>3, <1>4
  <1> QED
    BY <1>5, <1>6 DEF w, r

LEMMA LeastOfTwo ==
  ASSUME NEW a \in Nat, NEW b \in Nat
  PROVE  Min({a, b}) \in Nat /\ Min({a, b}) \in {a, b} /\ Min({a, b}) <= a /\ Min({a, b}) <= b
  <1>1. {a, b, b} = {a, b}
    OBVIOUS
  <1>2. LET m == Min({a, b, b}) IN m \in Nat /\ m \in {a, b, b} /\ m <= a /\ m <= b
    BY LeastIs
  <1> QED
    BY <1>1, <1>2

LEMMA WriteVarnumIs ==
  ASSUME NEW size \in Nat, NEW b \in Seq(Bytes), NEW n \in Nat
  PROVE  LET w == WriteVarnum(Wr(size, b), n)
         IN  /\ (w = Wr(size, b \o VarnumBytes(n)) /\ Digits(n) # 5) \/ w.err # OK
             /\ size - Len(b) >= 4 => (w.err = OK <=> Digits(n) # 5)
  <1> DEFINE r == Wr(size, b)
             w == WriteVarnum(r, n)
             k == Digits(n)
             room == size - Len(b)
             v == VarnumBytes(n)
  <1>1. r.err = OK /\ r.buf = b /\ r.size = size
    BY DEF Wr
  <1>2. w = CASE room < Min({k, 4}) -> [r EXCEPT !.err = "BUFFER_TOO_SHORT"]
              [] ~(room < Min({k, 4})) /\ room >= 4 /\ k > 4 -> [r EXCEPT !.err = "VARNUM_OVERFLOW"]
              [] OTHER -> WriteData(r, v)
    <2>1. w = CASE r.err # OK -> r
        [] r.err = OK /\ room < Min({k, 4}) -> [r EXCEPT !.err = "BUFFER_TOO_SHORT"]
        [] r.err = OK /\ room >= 4 /\ k > 4 -> [r EXCEPT !.err = "VARNUM_OVERFLOW"]
        [] OTHER -> WriteData(r, v)
      BY <1>1 DEF WriteVarnum
    <2>2. ~(room < Min({k, 4}) /\ room >= 4)
      <3>1. k \in Nat /\ 4 \in Nat /\ room \in Int
        BY DigitsAreMin
      <3> HIDE DEF k, room
      <3>2. Min({k, 4}) <= 4 /\ Min({k, 4}) \in Nat
        BY <3>1, LeastOfTwo
      <3> QED
        BY <3>1, <3>2
    <2> HIDE DEF w, r, room, k, v
    <2> QED
      BY <1>1, <2>1, <2>2
  <1>3. [r EXCEPT !.err = "BUFFER_TOO_SHORT"].err # OK /\ [r EXCEPT !.err = "VARNUM_OVERFLOW"].err # OK
    BY ErrorsAre DEF Wr
  <1>4. k \in 1..5 /\ Len(v) = k /\ v \in Seq(Bytes)
    BY VarnumBytesAre
  <1>5. Min({k, 4}) \in Nat /\ Min({k, 4}) \in {k, 4} /\ Min({k, 4}) <= k /\ Min({k, 4}) <= 4
    <2>1. k \in Nat /\ 4 \in Nat
      BY <1>4
    <2> HIDE DEF k
    <2> QED
      BY <2>1, LeastOfTwo
  <1>6. WriteData(r, v) = Wr(size, b \o v) \/ WriteData(r, v).err # OK
    <2> HIDE DEF v
    <2> QED
      BY <1>4, WriteDataIs
  <1>7. room >= k => WriteData(r, v) = [r EXCEPT !.buf = @ \o v]
    <2>1. room >= k => ~(r.size < Len(r.buf) + Len(v))
      <3>1. Len(b) \in Nat
        OBVIOUS
      <3> HIDE DEF v, k, r
      <3> QED
        BY <1>1, <1>4, <3>1
    <2> QED
      BY <1>1, <2>1 DEF WriteData
  <1>8. [r EXCEPT !.buf = @ \o v].err = OK
    BY DEF Wr
  <1>9. room \in Int
    OBVIOUS
  <1> HIDE DEF r, w, k, v, room
  <1>10. (w = Wr(size, b \o v) /\ k # 5) \/ w.err # OK
    <2>1. CASE room < Min({k, 4})
      BY <1>2, <1>3, <2>1
    <2>2. CASE ~(room < Min({k, 4})) /\ room >= 4 /\ k > 4
      BY <1>2, <1>3, <2>2
    <2>3. CASE ~(room < Min({k, 4})) /\ ~(room >= 4 /\ k > 4)
      <3>1. k # 5
        BY <1>4, <1>5, <1>9, <2>3
      <3>2. w = WriteData(r, v)
        BY <1>2, <2>3
      <3> QED
        BY <1>6, <3>1, <3>2
    <2> QED
      BY <2>1, <2>2, <2>3
  <1>11. ASSUME room >= 4 PROVE w.err = OK <=> k # 5
    <2>1. ~(room < Min({k, 4}))
      BY <1>5, <1>9, <1>11
    <2>2. CASE k = 5
      <3>1. k > 4
        BY <2>2
      <3>2. w = [r EXCEPT !.err = "VARNUM_OVERFLOW"]
        BY <1>2, <1>11, <2>1, <3>1
      <3> QED
        BY <1>3, <2>2, <3>2
    <2>3. CASE k # 5
      <3>1. ~(k > 4) /\ room >= k
        BY <1>4, <1>9, <1>11, <2>3
      <3>2. w = WriteData(r, v)
        BY <1>2, <2>1, <3>1
      <3> QED
        BY <1>7, <1>8, <2>3, <3>1, <3>2
    <2> QED
      BY <2>2, <2>3
  <1> QED
    BY <1>10, <1>11 DEF r, w, k, v, room

LEMMA EncodeIs ==
  ASSUME NEW size \in Nat, NEW h \in Bytes, NEW n \in Nat, NEW fields \in Seq(Bytes), NEW e,
         e = Encode(size, h, n, fields),
         e.err = OK
  PROVE  /\ n < Weight[5] /\ Packs(e.bytes, h, n, fields) /\ e = [err |-> OK, bytes |-> e.bytes]
         /\ Len(e.bytes) <= size
  <1> DEFINE a == WriteByte(Writer(size), h)
             b == WriteVarnum(a, n)
             c == WriteData(b, fields)
             v == VarnumBytes(n)
             s == <<h>>
  <1>1. e = IF VarnumLength(n) = 5 THEN Fail("REMAINING_LENGTH_OVERFLOW")
            ELSE IF c.err = OK THEN [err |-> OK, bytes |-> c.buf] ELSE Fail(c.err)
    BY DEF Encode
  <1>2. Fail("REMAINING_LENGTH_OVERFLOW").err # OK /\ Fail(c.err).err = c.err
    BY ErrorsAre DEF Fail
  <1> HIDE DEF c
  <1>3. VarnumLength(n) # 5 /\ c.err = OK /\ e = [err |-> OK, bytes |-> c.buf]
    BY <1>1, <1>2
  <1>4. n < Weight[5]
    BY <1>3, VarnumLengthIs
  <1>5. ASSUME NEW w, w.err # OK PROVE WriteData(w, fields) = w /\ WriteVarnum(w, n) = w
    BY <1>5 DEF WriteData, WriteVarnum
  <1>6. a = Wr(size, s) \/ a.err # OK
    <2> DEFINE o == <<>>
    <2>1. Writer(size) = Wr(size, o) /\ o \o s = s
      BY DEF Writer, Wr
    <2>2. a = WriteData(Writer(size), s) /\ s \in Seq(Bytes) /\ o \in Seq(Bytes)
      BY DEF WriteByte
    <2> HIDE DEF s, a, o
    <2>3. WriteData(Wr(size, o), s) = Wr(size, o \o s) \/ WriteData(Wr(size, o), s).err # OK
      BY <2>2, WriteDataIs
    <2> QED
      BY <2>1, <2>2, <2>3
  <1>7. s \in Seq(Bytes)
    OBVIOUS
  <1> HIDE DEF a, s
  <1>8. b.err = OK
    <2>1. CASE b.err # OK
      BY <1>3, <1>5, <2>1 DEF c
    <2> QED
      BY <2>1
  <1>9. a = Wr(size, s)
    BY <1>5, <1>6, <1>8
  <1>10. b = Wr(size, s \o v)
    BY <1>7, <1>8, <1>9, WriteVarnumIs
  <1>0. v \in Seq(Bytes)
    BY VarnumBytesAre
  <1>11. c = Wr(size, (s \o v) \o fields) /\ Len(s \o v) + Len(fields) <= size
    <2>1. c = WriteData(Wr(size, s \o v), fields)
      BY <1>10 DEF c
    <2> DEFINE x == s \o v
    <2>3. x \in Seq(Bytes)
      <3> HIDE DEF v
      <3> QED
        BY <1>0, <1>7
    <2> HIDE DEF x
    <2>2. \/ WriteData(Wr(size, x), fields) = Wr(size, x \o fields) /\ Len(x) + Len(fields) <= size
          \/ WriteData(Wr(size, x), fields).err # OK
      BY <2>3, WriteDataIs
    <2> QED
      BY <1>3, <2>1, <2>2 DEF x
  <1>12. e.bytes = (s \o v) \o fields
    BY <1>3, <1>11 DEF Wr
  <1> HIDE DEF v
  <1>14. (s \o v) \o fields = s \o (v \o fields)
    <2>1. Associative(Seq(Bytes))
      BY Associates
    <2> QED
      BY <1>0, <1>7, <2>1, Zenon DEF Associative
  <1>15. Joins(e.bytes, s, v \o fields) /\ Joins(v \o fields, v, fields)
    BY <1>12, <1>14 DEF Joins
  <1>16. Packs(e.bytes, h, n, fields)
    BY <1>15 DEF Packs, s, v
  <1>17. Len(e.bytes) <= size
    <2>1. Len((s \o v) \o fields) = Len(s \o v) + Len(fields)
      BY <1>0, <1>7
    <2> QED
      BY <1>11, <1>12, <2>1
  <1> QED
    BY <1>3, <1>4, <1>16, <1>17

-----------------------------------------------------------------------------
(* The lengths computed beforehand.                                        *)
Sized(s, n) == s \in Seq(Bytes) /\ Len(s) = n /\ n \in Nat

LEMMA SizedIs == ASSUME NEW s \in Seq(Bytes) PROVE Sized(s, Len(s))
  BY DEF Sized

LEMMA SizedEmpty == Sized(<<>>, 0)
  BY DEF Sized

LEMMA SizedJoin ==
  ASSUME NEW a, NEW m, Sized(a, m), NEW b, NEW n, Sized(b, n)
  PROVE  Sized(a \o b, m + n)
  BY DEF Sized

LEMMA SizedString == ASSUME NEW t \in Strings PROVE Sized(StringBytes(t), Len(t) + 2)
  BY StringBytesAre DEF Sized

LEMMA SizedNum == ASSUME NEW id \in 0..Word16 - 1 PROVE Sized(NumBytes(id), 2)
  BY NumBytesAre DEF Sized

Totals(t, l) == t = [i \in 0..Len(l) |-> IF i = 0 THEN 0 ELSE t[i - 1] + l[i]]

LEMMA TotalDef == ASSUME NEW l PROVE Total(l) = (CHOOSE t : Totals(t, l))[Len(l)]
  BY DEF Total, Totals

(* Lengths that are added up are that of what is concatenated.             *)
LEMMA TotalIs ==
  ASSUME NEW B, NEW s \in Seq(Seq(B)), NEW l, Len(l) = Len(s), \A i \in 1..Len(s) : l[i] = Len(s[i])
  PROVE  FlattenSeq(s) \in Seq(B) /\ Total(l) = Len(FlattenSeq(s))
  <1> DEFINE n == Len(s)
  <1>0. n \in Nat
    OBVIOUS
  <1>1. PICK f : f \in [1..n -> Seq(B)] /\ Builds(f, s)
    BY Builder
  <1> DEFINE t == [i \in 0..n |-> IF i = 0 THEN 0 ELSE Len(f[i])]
             e(i) == IF i = 0 THEN 0 ELSE t[i - 1] + l[i]
  <1>2. t[0] = 0 /\ \A i \in 1..n : t[i] = Len(f[i]) /\ t[i] \in Nat
    <2>1. t[0] = 0 /\ \A i \in 1..n : t[i] = Len(f[i])
      BY <1>0
    <2>2. \A i \in 1..n : Len(f[i]) \in Nat
      BY <1>1
    <2> HIDE DEF t
    <2> QED
      BY <2>1, <2>2
  <1>20. \A i \in 1..n : s[i] \in Seq(B)
    OBVIOUS
  <1>21. \A i \in 1..n : f[i] = IF i = 1 THEN s[i] ELSE f[i - 1] \o s[i]
    BY <1>1 DEF Builds, BuiltTo
  <1>3. ASSUME NEW i \in 0..n PROVE t[i] = e(i)
    <2>1. CASE i = 0
      BY <1>2, <2>1
    <2>2. CASE i = 1
      <3> HIDE DEF t
      <3>0. 1 \in 1..n
        <4> HIDE DEF n
        <4> QED
          BY <1>0, <2>2
      <3>1. f[1] = s[1] /\ 1 \in 1..n
        BY <1>21, <3>0
      <3>2. t[1] = Len(s[1]) /\ l[1] = Len(s[1]) /\ Len(s[1]) \in Nat
        BY <1>2, <3>1
      <3>3. e(i) = t[0] + l[1]
        BY <2>2
      <3> HIDE DEF e
      <3> QED
        BY <1>2, <2>2, <3>2, <3>3
    <2>3. CASE i # 0 /\ i # 1
      <3>1. i \in 1..n /\ i - 1 \in 1..n
        BY <1>0, <2>3
      <3>2. f[i] = f[i - 1] \o s[i]
        BY <1>21, <2>3, <3>1
      <3>3. f[i - 1] \in Seq(B) /\ s[i] \in Seq(B)
        <4> HIDE DEF t, n
        <4> QED
          BY <1>1, <1>20, <3>1
      <3>4. Len(f[i]) = Len(f[i - 1]) + Len(s[i])
        BY <3>2, <3>3
      <3>5. e(i) = t[i - 1] + l[i]
        BY <2>3
      <3> HIDE DEF t, e
      <3>6. t[i] = Len(f[i]) /\ t[i - 1] = Len(f[i - 1]) /\ l[i] = Len(s[i])
        BY <1>2, <3>1
      <3> QED
        BY <3>4, <3>5, <3>6
    <2> QED
      BY <2>1, <2>2, <2>3
  <1>4. Totals(t, l)
    <2>1. t = [i \in 0..n |-> e(i)]
      <3>1. DOMAIN t = 0..n /\ t = [i \in 0..n |-> t[i]]
        OBVIOUS
      <3> HIDE DEF t, e
      <3> QED
        BY <1>3, <3>1
    <2> HIDE DEF t
    <2> QED
      BY <2>1 DEF Totals
  <1> HIDE DEF t
  <1> DEFINE g == CHOOSE g : Totals(g, l)
  <1>5. Totals(g, l)
    BY <1>4
  <1>6. Total(l) = g[n]
    BY TotalDef
  <1> HIDE DEF g
  <1>7. g[0] = 0 /\ \A i \in 0..n : i # 0 => g[i] = g[i - 1] + l[i]
    <2> DEFINE z(i) == IF i = 0 THEN 0 ELSE g[i - 1] + l[i]
    <2>1. g = [i \in 0..n |-> z(i)]
      BY <1>5 DEF Totals
    <2> HIDE DEF z
    <2>2. \A i \in 0..n : g[i] = z(i)
      BY <2>1
    <2>3. 0 \in 0..n
      BY <1>0
    <2> QED
      BY <2>2, <2>3 DEF z
  <1>8. \A i \in 0..n : i # 0 => t[i] = t[i - 1] + l[i]
    BY <1>3
  <1> DEFINE S == {i \in Nat : i \in 0..n => g[i] = t[i]}
  <1>9. 0 \in S
    BY <1>2, <1>7
  <1>10. ASSUME NEW i \in Nat, i \in S PROVE i + 1 \in S
    <2> SUFFICES ASSUME i + 1 \in 0..n PROVE g[i + 1] = t[i + 1]
      OBVIOUS
    <2>1. i \in 0..n /\ i + 1 # 0 /\ (i + 1) - 1 = i
      BY <1>0
    <2>2. g[i] = t[i]
      BY <1>10, <2>1
    <2>3. g[i + 1] = g[(i + 1) - 1] + l[i + 1] /\ t[i + 1] = t[(i + 1) - 1] + l[i + 1]
      BY <1>7, <1>8, <2>1
    <2> QED
      BY <2>1, <2>2, <2>3
  <1> HIDE DEF S
  <1>11. n \in S
    BY <1>0, <1>9, <1>10, Induction
  <1>12. Total(l) = t[n]
    BY <1>0, <1>6, <1>11 DEF S
  <1>13. CASE s = <<>>
    <2>1. n = 0 /\ FlattenSeq(s) = <<>>
      BY <1>13, FlattenEmpty
    <2> QED
      BY <1>2, <1>12, <2>1
  <1>14. CASE s # <<>>
    <2>1. FlattenSeq(s) = f[n] /\ FlattenSeq(s) \in Seq(B)
      BY <1>1, <1>14, FlattenBuilt
    <2>2. n \in 1..n
      BY <1>14
    <2> QED
      BY <1>2, <1>12, <2>1, <2>2
  <1> QED
    BY <1>13, <1>14

-----------------------------------------------------------------------------
(* Every packet has the length it announces.                               *)
LEMMA JoinsMore ==
  ASSUME NEW B, NEW u \in Seq(B), NEW v \in Seq(B), NEW w \in Seq(B), NEW s, Joins(s, u, v)
  PROVE  Joins(s \o w, u, v \o w)
  <1>1. (u \o v) \o w = u \o (v \o w)
    OBVIOUS
  <1> QED
    BY <1>1, Zenon DEF Joins

LEMMA PacksMore ==
  ASSUME NEW h \in Bytes, NEW n \in Nat, NEW f \in Seq(Bytes), NEW b, Packs(b, h, n, f), NEW p \in Seq(Bytes)
  PROVE  Packs(b \o p, h, n, f \o p)
  <1>1. PICK x : Joins(b, <<h>>, x) /\ Joins(x, VarnumBytes(n), f)
    BY DEF Packs
  <1> DEFINE v == VarnumBytes(n)
             s == <<h>>
  <1>2. v \in Seq(Bytes) /\ s \in Seq(Bytes)
    BY VarnumBytesAre
  <1>3. Joins(b, s, x) /\ Joins(x, v, f)
    BY <1>1
  <1> HIDE DEF v, s
  <1>4. x \in Seq(Bytes)
    BY <1>2, <1>3, JoinsIs
  <1>5. Joins(b \o p, s, x \o p)
    BY <1>2, <1>3, <1>4, JoinsMore, Zenon
  <1>6. Joins(x \o p, v, f \o p)
    BY <1>2, <1>3, JoinsMore, Zenon
  <1> QED
    BY <1>5, <1>6 DEF Packs, v, s

LEMMA PublishPacked ==
  ASSUME NEW p \in Publishes, PublishMessage(p).err = OK
  PROVE  \E body \in Seq(Bytes), y \in Seq(Bytes) :
           /\ Packs(PublishMessage(p).bytes, PublishHeader(p.dup, p.qos, p.retained), Len(body), body)
           /\ Len(body) < Weight[5]
           /\ Joins(body, StringBytes(p.topic), y)
           /\ IF p.qos > 0 THEN Joins(y, NumBytes(p.id), p.payload) ELSE y = p.payload
  <1> DEFINE m == [qos |-> p.qos, retained |-> p.retained, len |-> Len(p.payload)]
             e == EncodePublish(BufferSize, p.dup, p.id, p.topic, m)
             i == IF p.qos > 0 THEN NumBytes(p.id) ELSE <<>>
             k == IF p.qos > 0 THEN 2 ELSE 0
             t == StringBytes(p.topic)
             lt == Len(p.topic)
             lp == Len(p.payload)
             n == 2 + lt + lp + k
             h == PublishHeader(p.dup, p.qos, p.retained)
             y == i \o p.payload
             body == t \o y
  <1>1. /\ p.dup \in BOOLEAN /\ p.retained \in BOOLEAN /\ p.qos \in 0..2
        /\ p.id \in 0..Word16 - 1 /\ p.topic \in Strings /\ p.payload \in Seq(Bytes) /\ BufferSize \in Nat
    BY ExchangeAssumption DEF Bytes
  <1>2. e = Encode(BufferSize, h, n, t \o i)
    BY DEF EncodePublish, PublishHeader
  <1>3. Sized(i, k) /\ i \in Seq(Bytes) /\ k \in Nat
    <2>1. CASE p.qos > 0
      BY <1>1, <2>1, SizedNum DEF Sized
    <2>2. CASE ~(p.qos > 0)
      BY <2>2, SizedEmpty DEF Sized
    <2> QED
      BY <2>1, <2>2
  <1>4. Sized(t, Len(p.topic) + 2) /\ t \in Seq(Bytes) /\ Len(p.topic) \in Nat /\ Len(p.payload) \in Nat
    BY <1>1, SizedString, StringBytesAre
  <1>5. h \in Bytes
    BY <1>1, PublishHeaderIs
  <1>6. PublishMessage(p) = IF e.err = OK THEN [e EXCEPT !.bytes = @ \o p.payload] ELSE e
    BY DEF PublishMessage
  <1> HIDE DEF e
  <1>7. e.err = OK
    BY <1>6
  <1>8. p.qos > 0 => i = NumBytes(p.id)
    OBVIOUS
  <1>9. ~(p.qos > 0) => y = p.payload
    <2>1. <<>> \o p.payload = p.payload
      BY <1>1
    <2> QED
      BY <2>1
  <1>17. Joins(y, i, p.payload) /\ Joins(body, t, y)
    BY DEF Joins
  <1> HIDE DEF h, t, i, k
  <1>10. t \o i \in Seq(Bytes) /\ n \in Nat
    <2>1. t \o i \in Seq(Bytes)
      BY <1>3, <1>4
    <2>2. n \in Nat
      <3>1. k \in Nat /\ Len(p.topic) \in Nat /\ Len(p.payload) \in Nat
        BY <1>3, <1>4
      <3>2. lt \in Nat /\ lp \in Nat
        BY <3>1
      <3> HIDE DEF lt, lp
      <3> QED
        BY <3>1, <3>2
    <2> QED
      BY <2>1, <2>2
  <1>11. n < Weight[5] /\ Packs(e.bytes, h, n, t \o i) /\ e = [err |-> OK, bytes |-> e.bytes]
    <2> DEFINE u == t \o i
    <2>1. u \in Seq(Bytes) /\ n \in Nat /\ e = Encode(BufferSize, h, n, u)
      BY <1>2, <1>10
    <2> HIDE DEF u, n
    <2>2. n < Weight[5] /\ Packs(e.bytes, h, n, u) /\ e = [err |-> OK, bytes |-> e.bytes]
      BY <1>1, <1>5, <1>7, <2>1, EncodeIs
    <2> QED
      BY <2>2 DEF u
  <1>12. PublishMessage(p).bytes = e.bytes \o p.payload
    <2> DEFINE x == e.bytes
    <2>1. e = [err |-> OK, bytes |-> x]
      BY <1>11
    <2>2. PublishMessage(p) = [e EXCEPT !.bytes = x \o p.payload]
      BY <1>6, <1>7
    <2> DEFINE z == x \o p.payload
    <2> HIDE DEF x, z
    <2>3. [e EXCEPT !.bytes = z].bytes = z
      BY <2>1
    <2> QED
      BY <2>2, <2>3 DEF x, z
  <1>13. y \in Seq(Bytes) /\ body \in Seq(Bytes) /\ Len(body) = n
    <2>1. Sized(p.payload, Len(p.payload))
      BY <1>1, SizedIs
    <2>2. Sized(y, k + Len(p.payload))
      BY <1>3, <2>1, SizedJoin
    <2> HIDE DEF y
    <2>3. Sized(body, (Len(p.topic) + 2) + (k + Len(p.payload)))
      BY <1>4, <2>2, SizedJoin
    <2> HIDE DEF body
    <2>4. k \in Nat /\ lt \in Nat /\ lp \in Nat
      BY <1>3, <1>4
    <2> HIDE DEF lt, lp
    <2>5. (lt + 2) + (k + lp) = n
      BY <2>4
    <2> QED
      BY <2>2, <2>3, <2>5 DEF Sized, lt, lp
  <1>14. (t \o i) \o p.payload = body
    <2>1. Associative(Seq(Bytes))
      BY Associates
    <2> QED
      BY <1>1, <1>3, <1>4, <2>1, Zenon DEF Associative
  <1>15. Packs(e.bytes \o p.payload, h, n, body)
    <2> DEFINE u == t \o i
               q == p.payload
    <2>1. u \in Seq(Bytes) /\ n \in Nat /\ Packs(e.bytes, h, n, u) /\ q \in Seq(Bytes) /\ u \o q = body
      BY <1>1, <1>10, <1>11, <1>14
    <2> HIDE DEF u, n, body, q
    <2>2. Packs(e.bytes \o q, h, n, u \o q)
      BY <1>5, <2>1, PacksMore
    <2> QED
      BY <2>1, <2>2 DEF q
  <1> HIDE DEF n, y, body
  <1>16. Packs(PublishMessage(p).bytes, h, Len(body), body) /\ Len(body) < Weight[5]
    BY <1>11, <1>12, <1>13, <1>15
  <1>18. IF p.qos > 0 THEN Joins(y, NumBytes(p.id), p.payload) ELSE y = p.payload
    BY <1>8, <1>9, <1>17
  <1> QED
    BY <1>13, <1>16, <1>17, <1>18 DEF t, h

Announced(b) == b \in Seq(Bytes) /\ LET n == Opened(b) IN n.err = OK /\ n.val = Len(n.rest)

LEMMA PacksAnnounced ==
  ASSUME NEW h \in Bytes, NEW n, n < Weight[5], NEW body, Sized(body, n), NEW b, Packs(b, h, n, body)
  PROVE  Announced(b)
  <1>1. body \in Seq(Bytes) /\ Len(body) = n /\ n \in Nat
    BY DEF Sized
  <1>2. b \in Seq(Bytes) /\ Opened(b) = At(body, n)
    BY <1>1, PacketOpened
  <1> QED
    BY <1>1, <1>2, AtIs DEF Announced

LEMMA EncodedAnnounced ==
  ASSUME NEW h \in Bytes, NEW n, NEW fields, Sized(fields, n), NEW e, e = Encode(BufferSize, h, n, fields), e.err = OK
  PROVE  Announced(e.bytes) /\ Len(e.bytes) <= BufferSize
  <1>1. fields \in Seq(Bytes) /\ n \in Nat /\ BufferSize \in Nat
    BY ExchangeAssumption DEF Sized
  <1>2. n < Weight[5] /\ Packs(e.bytes, h, n, fields) /\ Len(e.bytes) <= BufferSize
    BY <1>1, EncodeIs
  <1> QED
    BY <1>2, PacksAnnounced

LEMMA BitIs == ASSUME NEW b PROVE Bit(b) \in 0..1
  BY DEF Bit

LEMMA ConnectAnnounced ==
  ASSUME NEW c \in Connects, NEW e, e = EncodeConnect(BufferSize, c.options, c.will), e.err = OK
  PROVE  Announced(e.bytes) /\ Len(e.bytes) <= BufferSize
  <1> DEFINE o == c.options
             will == c.will
             named == o.username # <<>> \/ o.password # <<>>
             secret == o.password # <<>>
             cl == Len(o.clientId)
             wl == IF will # <<>> THEN Len(will[1].topic) + 2 + Len(will[1].payload) + 2 ELSE 0
             nl == IF named THEN Len(o.username) + 2 ELSE 0
             pl == IF secret THEN Len(o.password) + 2 ELSE 0
             remLen == 10 + cl + 2 + wl + nl + pl
             extra == IF will # <<>> THEN 4 + 8 * will[1].qos + 32 * Bit(will[1].retained) ELSE 0
             flags == 2 * Bit(o.clean) + 64 * Bit(secret) + 128 * Bit(named) + extra
             mqtt == <<77, 81, 84, 84>>
             x1 == StringBytes(mqtt)
             x2 == <<4, flags>>
             x3 == NumBytes(o.keepAlive)
             x4 == StringBytes(o.clientId)
             x5 == IF will # <<>> THEN StringBytes(will[1].topic) \o StringBytes(will[1].payload) ELSE <<>>
             x6 == IF named THEN StringBytes(o.username) ELSE <<>>
             x7 == IF secret /\ o.username # <<>> THEN StringBytes(o.password) ELSE <<>>
             fields == x1 \o x2 \o x3 \o x4 \o x5 \o x6 \o x7
             h == Header(CONNECT, 0)
  <1>1. e = Encode(BufferSize, h, remLen, fields)
    BY DEF EncodeConnect
  <1>2. Digit \in Nat /\ Digit >= 128 /\ Bytes = 0..(2 * Digit - 1)
    BY DigitAssumption, ExchangeAssumption DEF Bytes, Byte
  <1>3. h \in Bytes
    <2>1. CONNECT \in 0..15 /\ 0 \in 0..15
      BY DEF CONNECT
    <2> QED
      BY <2>1, HeaderIs
  <1>4. /\ o.clientId \in Strings /\ o.username \in Strings /\ o.password \in Strings
        /\ o.keepAlive \in 0..Word16 - 1
        /\ o.username = <<>> => o.password = <<>>
        /\ will # <<>> => will[1].topic \in Strings /\ will[1].payload \in Strings /\ will[1].qos \in 0..2
    BY ExchangeAssumption
  <1>5. Sized(x1, 6)
    <2>1. mqtt \in Strings /\ Len(mqtt) = 4
      <3>1. mqtt \in Seq(0..Byte - 1)
        <4>1. Byte \in Nat /\ Byte >= 256
          BY <1>2 DEF Byte
        <4>2. 77 \in 0..Byte - 1 /\ 81 \in 0..Byte - 1 /\ 84 \in 0..Byte - 1
          BY <4>1
        <4> QED
          BY <4>2
      <3>2. Len(mqtt) = 4
        OBVIOUS
      <3>3. 4 < Word16
        <4>1. Byte \in Nat /\ Byte >= 256
          BY <1>2 DEF Byte
        <4>2. Byte * 2 <= Byte * Byte /\ Byte * Byte \in Int /\ Byte * 2 \in Int
          BY <4>1, Multiplied
        <4> QED
          BY <4>1, <4>2 DEF Word16
      <3> HIDE DEF mqtt
      <3> QED
        BY <3>1, <3>2, <3>3 DEF Strings
    <2> HIDE DEF mqtt
    <2>2. Sized(StringBytes(mqtt), Len(mqtt) + 2)
      BY <2>1, SizedString
    <2> QED
      BY <2>1, <2>2
  <1>6. Sized(x2, 2)
    <2> DEFINE a == Bit(o.clean)
               b == Bit(secret)
               d == Bit(named)
    <2>1. a \in 0..1 /\ b \in 0..1 /\ d \in 0..1
      BY BitIs
    <2>2. extra \in 0..52
      <3>1. CASE will # <<>>
        <4> DEFINE q == will[1].qos
                   t == Bit(will[1].retained)
        <4>1. q \in 0..2 /\ t \in 0..1 /\ extra = 4 + 8 * q + 32 * t
          BY <1>4, <3>1, BitIs
        <4> HIDE DEF extra, q, t
        <4> QED
          BY <4>1
      <3>2. CASE ~(will # <<>>)
        BY <3>2
      <3> QED
        BY <3>1, <3>2
    <2>3. flags = 2 * a + 64 * b + 128 * d + extra
      OBVIOUS
    <2> HIDE DEF flags, extra, a, b, d
    <2>4. flags \in Bytes /\ 4 \in Bytes
      BY <1>2, <2>1, <2>2, <2>3
    <2> QED
      BY <2>4 DEF Sized
  <1>7. Sized(x3, 2)
    BY <1>4, SizedNum
  <1>8. Sized(x4, cl + 2) /\ cl \in Nat
    BY <1>4, SizedString, StringBytesAre
  <1>9. Sized(x5, wl) /\ wl \in Nat
    <2>1. CASE will # <<>>
      <3> DEFINE a == will[1].topic
                 b == will[1].payload
      <3>1. a \in Strings /\ b \in Strings /\ wl = Len(a) + 2 + Len(b) + 2
            /\ x5 = StringBytes(a) \o StringBytes(b)
        BY <1>4, <2>1
      <3> HIDE DEF a, b, wl, x5
      <3>2. Sized(StringBytes(a), Len(a) + 2) /\ Sized(StringBytes(b), Len(b) + 2) /\ Len(a) \in Nat
            /\ Len(b) \in Nat
        BY <3>1, SizedString, StringBytesAre
      <3>3. Sized(x5, (Len(a) + 2) + (Len(b) + 2))
        BY <3>1, <3>2, SizedJoin
      <3>4. (Len(a) + 2) + (Len(b) + 2) = wl /\ wl \in Nat
        BY <3>1, <3>2
      <3> QED
        BY <3>3, <3>4
    <2>2. CASE ~(will # <<>>)
      <3>1. wl = 0 /\ x5 = <<>>
        BY <2>2
      <3> HIDE DEF wl, x5
      <3> QED
        BY <3>1, SizedEmpty
    <2> QED
      BY <2>1, <2>2
  <1>10. Sized(x6, nl) /\ nl \in Nat
    <2>1. CASE named
      <3>1. nl = Len(o.username) + 2 /\ x6 = StringBytes(o.username)
        BY <2>1
      <3> HIDE DEF nl, x6
      <3> QED
        BY <1>4, <3>1, SizedString, StringBytesAre
    <2>2. CASE ~named
      <3>1. nl = 0 /\ x6 = <<>>
        BY <2>2
      <3> HIDE DEF nl, x6
      <3> QED
        BY <3>1, SizedEmpty
    <2> QED
      BY <2>1, <2>2
  <1>11. Sized(x7, pl) /\ pl \in Nat
    <2>1. CASE secret
      <3>1. pl = Len(o.password) + 2 /\ x7 = StringBytes(o.password)
        BY <1>4, <2>1
      <3> HIDE DEF pl, x7
      <3> QED
        BY <1>4, <3>1, SizedString, StringBytesAre
    <2>2. CASE ~secret
      <3>1. pl = 0 /\ x7 = <<>>
        BY <2>2
      <3> HIDE DEF pl, x7
      <3> QED
        BY <3>1, SizedEmpty
    <2> QED
      BY <2>1, <2>2
  <1> HIDE DEF x1, x2, x3, x4, x5, x6, x7, cl, wl, nl, pl
  <1>12. Sized(fields, 6 + 2 + 2 + (cl + 2) + wl + nl + pl)
    <2> DEFINE y2 == x1 \o x2
               y3 == y2 \o x3
               y4 == y3 \o x4
               y5 == y4 \o x5
               y6 == y5 \o x6
               y7 == y6 \o x7
    <2>1. Sized(y2, 6 + 2)
      BY <1>5, <1>6, SizedJoin
    <2> HIDE DEF y2
    <2>2. Sized(y3, 6 + 2 + 2)
      BY <1>7, <2>1, SizedJoin
    <2> HIDE DEF y3
    <2>3. Sized(y4, 6 + 2 + 2 + (cl + 2))
      BY <1>8, <2>2, SizedJoin
    <2> HIDE DEF y4
    <2>4. Sized(y5, 6 + 2 + 2 + (cl + 2) + wl)
      BY <1>9, <2>3, SizedJoin
    <2> HIDE DEF y5
    <2>5. Sized(y6, 6 + 2 + 2 + (cl + 2) + wl + nl)
      BY <1>10, <2>4, SizedJoin
    <2> HIDE DEF y6
    <2>6. Sized(y7, 6 + 2 + 2 + (cl + 2) + wl + nl + pl)
      BY <1>11, <2>5, SizedJoin
    <2> QED
      BY <2>6 DEF y2, y3, y4, y5, y6, y7
  <1>13. 6 + 2 + 2 + (cl + 2) + wl + nl + pl = remLen
    BY <1>8, <1>9, <1>10, <1>11
  <1> HIDE DEF fields, remLen, h
  <1>14. Sized(fields, remLen)
    BY <1>12, <1>13
  <1> QED
    BY <1>1, <1>3, <1>14, EncodedAnnounced

LEMMA FiltersAnnounced ==
  ASSUME NEW h \in Bytes, NEW id \in 0..Word16 - 1, NEW s \in Seq(Seq(Bytes)), NEW l,
         Len(l) = Len(s), \A i \in 1..Len(s) : l[i] = Len(s[i]),
         NEW e, e = Encode(BufferSize, h, 2 + Total(l), NumBytes(id) \o FlattenSeq(s)), e.err = OK
  PROVE  Announced(e.bytes) /\ Len(e.bytes) <= BufferSize
  <1> DEFINE f == FlattenSeq(s)
             t == Total(l)
             fields == NumBytes(id) \o f
             n == 2 + t
  <1>1. f \in Seq(Bytes) /\ t = Len(f)
    BY TotalIs
  <1>2. e = Encode(BufferSize, h, n, fields)
    OBVIOUS
  <1> HIDE DEF f, t
  <1>3. Sized(f, t)
    BY <1>1, SizedIs
  <1>4. Sized(fields, n)
    BY <1>3, SizedNum, SizedJoin
  <1> HIDE DEF fields, n
  <1> QED
    BY <1>2, <1>4, EncodedAnnounced

LEMMA IdsAre == {1, Word16 - 1} \subseteq 0..Word16 - 1
  <1>1. Byte \in Nat /\ Byte >= 256
    BY DigitAssumption, ExchangeAssumption DEF Byte
  <1>2. Byte * 2 <= Byte * Byte /\ Byte * Byte \in Int /\ Byte * 2 \in Int
    BY <1>1, Multiplied
  <1>3. Word16 \in Nat /\ Word16 > 1
    BY <1>1, <1>2 DEF Word16
  <1> HIDE DEF Word16
  <1> QED
    BY <1>3

LEMMA QosIsByte == 0..2 \subseteq Bytes
  BY DigitAssumption, ExchangeAssumption DEF Bytes, Byte

LEMMA SubscribeHeaderIs == Header(SUBSCRIBE, 2) \in Bytes /\ Header(UNSUBSCRIBE, 2) \in Bytes
  <1>1. SUBSCRIBE \in 0..15 /\ UNSUBSCRIBE \in 0..15 /\ 2 \in 0..15
    BY DEF SUBSCRIBE, UNSUBSCRIBE
  <1> QED
    BY <1>1, HeaderIs

LEMMA FilterIs ==
  ASSUME NEW f \in Filters, NEW i \in DOMAIN f
  PROVE  /\ f[i].topic \in Strings /\ f[i].qos \in Bytes /\ StringBytes(f[i].topic) \in Seq(Bytes)
         /\ Len(StringBytes(f[i].topic)) = 2 + Len(f[i].topic) /\ Len(f[i].topic) \in Nat
  <1> DEFINE S == [topic : Strings, qos : 0..2]
  <1>1. f \in Seq(S)
    BY ExchangeAssumption
  <1> HIDE DEF S
  <1>0. f[i] \in S
    BY <1>1
  <1>2. f[i] \in [topic : Strings, qos : 0..2]
    BY <1>0 DEF S
  <1> DEFINE t == f[i].topic
  <1>3. t \in Strings /\ f[i].qos \in Bytes
    BY <1>2, QosIsByte
  <1> HIDE DEF t
  <1>4. StringBytes(t) \in Seq(Bytes) /\ Len(StringBytes(t)) = Len(t) + 2 /\ Len(t) \in Nat
    BY <1>3, StringBytesAre
  <1>5. Len(StringBytes(t)) = 2 + Len(t)
    BY <1>4
  <1> QED
    BY <1>3, <1>4, <1>5 DEF t

LEMMA SubscribeAnnounced ==
  ASSUME NEW id \in {1, Word16 - 1}, NEW f \in Filters, NEW e, e = EncodeSubscribe(BufferSize, id, f), e.err = OK
  PROVE  Announced(e.bytes) /\ Len(e.bytes) <= BufferSize
  <1> DEFINE b(i) == StringBytes(f[i].topic)
             p(i) == Append(b(i), f[i].qos)
             z(i) == 2 + Len(f[i].topic) + 1
             s == [i \in DOMAIN f |-> p(i)]
             l == [i \in DOMAIN f |-> z(i)]
             h == Header(SUBSCRIBE, 2)
  <1>1. e = Encode(BufferSize, h, 2 + Total(l), NumBytes(id) \o FlattenSeq(s))
    BY DEF EncodeSubscribe
  <1>2. ASSUME NEW i \in DOMAIN f PROVE p(i) \in Seq(Bytes) /\ Len(p(i)) = z(i)
    <2>1. b(i) \in Seq(Bytes) /\ f[i].qos \in Bytes /\ Len(b(i)) = 2 + Len(f[i].topic)
          /\ Len(f[i].topic) \in Nat
      BY FilterIs
    <2> HIDE DEF b
    <2> QED
      BY <2>1
  <1>3. Len(f) \in Nat /\ DOMAIN f = 1..Len(f)
    BY ExchangeAssumption
  <1> HIDE DEF p, z
  <1>4. s \in Seq(Seq(Bytes)) /\ Len(s) = Len(f) /\ Len(l) = Len(f)
    BY <1>2, <1>3
  <1>5. \A i \in 1..Len(f) : l[i] = Len(s[i])
    BY <1>2, <1>3
  <1>6. id \in 0..Word16 - 1
    BY IdsAre
  <1> HIDE DEF s, l, h
  <1>7. h \in Bytes /\ \A i \in 1..Len(s) : l[i] = Len(s[i])
    BY <1>4, <1>5, SubscribeHeaderIs DEF h
  <1>8. Len(l) = Len(s)
    BY <1>4
  <1> QED
    BY <1>1, <1>4, <1>6, <1>7, <1>8, FiltersAnnounced

LEMMA UnsubscribeAnnounced ==
  ASSUME NEW id \in {1, Word16 - 1}, NEW f \in Filters, NEW e, e = EncodeUnsubscribe(BufferSize, id, f), e.err = OK
  PROVE  Announced(e.bytes) /\ Len(e.bytes) <= BufferSize
  <1> DEFINE p(i) == StringBytes(f[i].topic)
             z(i) == 2 + Len(f[i].topic)
             s == [i \in DOMAIN f |-> p(i)]
             l == [i \in DOMAIN f |-> z(i)]
             h == Header(UNSUBSCRIBE, 2)
  <1>1. e = Encode(BufferSize, h, 2 + Total(l), NumBytes(id) \o FlattenSeq(s))
    BY DEF EncodeUnsubscribe
  <1>2. ASSUME NEW i \in DOMAIN f PROVE p(i) \in Seq(Bytes) /\ Len(p(i)) = z(i)
    BY FilterIs
  <1>3. Len(f) \in Nat /\ DOMAIN f = 1..Len(f)
    BY ExchangeAssumption
  <1> HIDE DEF p, z
  <1>4. s \in Seq(Seq(Bytes)) /\ Len(s) = Len(f) /\ Len(l) = Len(f)
    BY <1>2, <1>3
  <1>5. \A i \in 1..Len(f) : l[i] = Len(s[i])
    BY <1>2, <1>3
  <1>6. id \in 0..Word16 - 1
    BY IdsAre
  <1> HIDE DEF s, l, h
  <1>7. h \in Bytes /\ \A i \in 1..Len(s) : l[i] = Len(s[i])
    BY <1>4, <1>5, SubscribeHeaderIs DEF h
  <1>8. Len(l) = Len(s)
    BY <1>4
  <1> QED
    BY <1>1, <1>4, <1>6, <1>7, <1>8, FiltersAnnounced

(* Two is a number of one digit.                                           *)
LEMMA TwoIs == 2 < Weight[5] /\ VarnumBytes(2) = <<2>>
  <1> DEFINE v == VarnumBytes(2)
             k == Digits(2)
  <1>1. 2 < Weight[1 + 1]
    BY ExchangeAssumption, WeightIs
  <1>2. Shifted(2)[1 + 1] = 0
    BY <1>1, ShiftedBelow
  <1>3. k \in 1..5 /\ (Shifted(2)[1 + 1] = 0 => k <= 1)
    BY DigitsAreMin
  <1>4. k = 1
    BY <1>2, <1>3
  <1>5. v \in Seq(Bytes) /\ Len(v) = k /\ \A i \in 1..k : v[i] = Remainder(2, i) + (IF i < k THEN Digit ELSE 0)
    BY VarnumBytesAre
  <1>6. Remainder(2, 1) = 2
    <2>1. Shifted(2)[1] = 2
      BY ShiftedIs
    <2>2. 2 % Digit = 2
      BY DigitAssumption, ExchangeAssumption
    <2> QED
      BY <2>1, <2>2 DEF Remainder
  <1>7. 2 < Weight[5]
    BY <1>4, FourDigits
  <1> HIDE DEF v, k
  <1>8. v[1] = 2 /\ Len(v) = 1
    BY <1>4, <1>5, <1>6
  <1>9. v = <<2>>
    BY <1>5, <1>8
  <1> QED
    BY <1>7, <1>9 DEF v

LEMMA AckPacked ==
  ASSUME NEW a \in Acks, NEW e, e = EncodeAck(BufferSize, a.type, a.id), e.err = OK
  PROVE  /\ \E h \in Bytes : TypeOf(h) = a.type /\ Packs(e.bytes, h, 2, NumBytes(a.id)) /\ a.id \in 0..Word16 - 1
         /\ Len(e.bytes) <= BufferSize
  <1> DEFINE flags == IF a.type = PUBREL THEN 2 ELSE 0
             h == Header(a.type, flags)
             body == NumBytes(a.id)
  <1>1. a.type \in {PUBACK, PUBREC, PUBREL, PUBCOMP, UNSUBACK} /\ a.id \in 0..Word16 - 1 /\ BufferSize \in Nat
    BY ExchangeAssumption
  <1>2. h \in Bytes /\ TypeOf(h) = a.type
    <2>1. a.type \in 0..15 /\ flags \in 0..15
      BY <1>1 DEF PUBACK, PUBREC, PUBREL, PUBCOMP, UNSUBACK
    <2> HIDE DEF flags
    <2> QED
      BY <2>1, HeaderIs
  <1>3. e = Encode(BufferSize, h, 2, body)
    BY DEF EncodeAck
  <1>4. body \in Seq(Bytes)
    BY <1>1, NumBytesAre
  <1> HIDE DEF h, body
  <1>5. Packs(e.bytes, h, 2, body) /\ Len(e.bytes) <= BufferSize
    <2>1. BufferSize \in Nat /\ 2 \in Nat /\ e.err = OK
      BY <1>1
    <2> QED
      BY ONLY <1>2, <1>3, <1>4, <2>1, EncodeIs
  <1> QED
    BY <1>1, <1>2, <1>5 DEF body

LEMMA ZeroAnnounced ==
  ASSUME NEW type \in {PINGREQ, DISCONNECT}, NEW e, e = EncodeZero(BufferSize, type), e.err = OK
  PROVE  Announced(e.bytes) /\ Len(e.bytes) <= BufferSize
  <1> DEFINE h == Header(type, 0)
  <1>1. type \in 0..15 /\ 0 \in 0..15
    BY DEF PINGREQ, DISCONNECT
  <1>2. h \in Bytes
    BY <1>1, HeaderIs
  <1> DEFINE s == <<>>
             n == 0
  <1>3. e = Encode(BufferSize, h, n, s) /\ Sized(s, n)
    BY SizedEmpty DEF EncodeZero
  <1> HIDE DEF h, s, n
  <1> QED
    BY <1>2, <1>3, EncodedAnnounced

LEMMA ConnackPacked ==
  ASSUME NEW c \in Connacks
  PROVE  /\ Packs(ConnackBytes(c).bytes, Header(CONNACK, 0), 2, <<Bit(c.present), c.code>>)
         /\ ConnackBytes(c).err = OK /\ c.present \in BOOLEAN /\ c.code \in Bytes
  <1> DEFINE x == Bit(c.present)
             y == c.code
             h == Header(CONNACK, 0)
  <1>1. ConnackBytes(c).err = OK /\ ConnackBytes(c).bytes = <<h, 2, x, y>>
    BY DEF ConnackBytes, FromBroker
  <1>2. <<h, 2, x, y>> = <<h>> \o <<2, x, y>> /\ <<2, x, y>> = <<2>> \o <<x, y>>
    <2> HIDE DEF h, x, y
    <2> QED
      OBVIOUS
  <1>3. Joins(ConnackBytes(c).bytes, <<h>>, <<2, x, y>>) /\ Joins(<<2, x, y>>, VarnumBytes(2), <<x, y>>)
    BY <1>1, <1>2, TwoIs DEF Joins
  <1>4. c.present \in BOOLEAN /\ y \in Bytes
    BY ExchangeAssumption DEF Bytes
  <1>5. Packs(ConnackBytes(c).bytes, h, 2, <<x, y>>)
    BY <1>3 DEF Packs
  <1> QED
    BY <1>1, <1>4, <1>5

LEMMA SubackPacked ==
  ASSUME NEW s \in Subacks
  PROVE  LET body == NumBytes(s.id) \o s.codes
         IN  /\ Packs(SubackBytes(s).bytes, Header(SUBACK, 0), 2 + Len(s.codes), body)
             /\ SubackBytes(s).err = OK /\ Sized(body, 2 + Len(s.codes)) /\ 2 + Len(s.codes) < Weight[5]
             /\ s.id \in 0..Word16 - 1 /\ s.codes \in Seq(Bytes) /\ s.codes # <<>>
  <1> DEFINE h == Header(SUBACK, 0)
             a == <<h>>
             n == 2 + Len(s.codes)
             v == VarnumBytes(n)
             i == NumBytes(s.id)
             c == s.codes
             body == i \o c
             x == v \o body
  <1>1. s.id \in 0..Word16 - 1 /\ c \in Seq(Bytes) /\ c # <<>> /\ n < Weight[5]
    BY ExchangeAssumption DEF Bytes
  <1>2. SubackBytes(s).err = OK /\ SubackBytes(s).bytes = ((a \o v) \o i) \o c
    BY DEF SubackBytes, FromBroker
  <1>3. h \in Bytes
    <2>1. SUBACK \in 0..15 /\ 0 \in 0..15
      BY DEF SUBACK
    <2> QED
      BY <2>1, HeaderIs
  <1>4. n \in Nat
    BY <1>1
  <1>5. v \in Seq(Bytes) /\ a \in Seq(Bytes) /\ i \in Seq(Bytes)
    <2>1. v \in Seq(Bytes)
      <3> HIDE DEF n
      <3> QED
        BY <1>4, VarnumBytesAre
    <2>2. a \in Seq(Bytes)
      BY <1>3
    <2>3. i \in Seq(Bytes)
      BY <1>1, NumBytesAre
    <2> QED
      BY <2>1, <2>2, <2>3
  <1>6. Sized(body, n)
    <2>1. Sized(c, Len(c)) /\ Sized(i, 2)
      BY <1>1, SizedIs, SizedNum
    <2> QED
      BY <2>1, SizedJoin
  <1>7. ((a \o v) \o i) \o c = a \o x
    <2>1. Associative(Seq(Bytes))
      BY Associates
    <2>2. a \o v \in Seq(Bytes) /\ body \in Seq(Bytes)
      BY <1>5, <1>6 DEF Sized
    <2>5. c \in Seq(Bytes) /\ i \in Seq(Bytes)
      BY <1>1, <1>5
    <2> DEFINE av == a \o v
    <2> HIDE DEF a, v, i, c, av
    <2>6. av \in Seq(Bytes)
      BY <2>2 DEF av
    <2>7. (av \o i) \o c = av \o (i \o c)
      BY <2>1, <2>5, <2>6, Zenon DEF Associative
    <2>3. ((a \o v) \o i) \o c = (a \o v) \o (i \o c)
      BY <2>7 DEF av
    <2>4. (a \o v) \o body = a \o (v \o body)
      BY <1>5, <2>1, <2>2, Zenon DEF Associative
    <2> QED
      BY <2>3, <2>4
  <1>8. Joins(SubackBytes(s).bytes, <<h>>, x) /\ Joins(x, v, body)
    BY <1>2, <1>7 DEF Joins
  <1>9. Packs(SubackBytes(s).bytes, h, n, body)
    BY <1>8 DEF Packs
  <1> QED
    BY <1>1, <1>2, <1>6, <1>9

-----------------------------------------------------------------------------
(* The packet under way is what an encoder made of something to be sent,   *)
(* and no more of it is lost than there is: ExchangeInv is inductive.      *)
EncodedFrom(kind, body, e) ==
  \/ kind = "PUBLISH" /\ body \in Publishes /\ e = PublishMessage(body)
  \/ kind = "CONNECT" /\ body \in Connects /\ e = EncodeConnect(BufferSize, body.options, body.will)
  \/ kind = "SUBSCRIBE" /\ body \in Filters
     /\ \E id \in {1, Word16 - 1} : e = EncodeSubscribe(BufferSize, id, body)
  \/ kind = "UNSUBSCRIBE" /\ body \in Filters
     /\ \E id \in {1, Word16 - 1} : e = EncodeUnsubscribe(BufferSize, id, body)
  \/ kind = "ACK" /\ body \in Acks /\ e = EncodeAck(BufferSize, body.type, body.id)
  \/ kind = "ZERO" /\ body \in {PINGREQ, DISCONNECT} /\ e = EncodeZero(BufferSize, body)
  \/ kind = "CONNACK" /\ body \in Connacks /\ e = ConnackBytes(body)
  \/ kind = "SUBACK" /\ body \in Subacks /\ e = SubackBytes(body)
  \/ /\ kind = "NUMBER" /\ body \in Numbers
     /\ LET w == WriteVarnum(Writer(5), body)
        IN  e = IF w.err = OK THEN [err |-> OK, bytes |-> w.buf] ELSE Fail(w.err)

ExchangeInv ==
  /\ (packet = Nothing /\ encoded = Fail("NONE")) \/ EncodedFrom(packet.kind, packet.body, encoded)
  /\ encoded.err = OK => encoded.bytes \in Seq(Bytes) /\ cut \in 0..Len(encoded.bytes)

LEMMA NumberWritten ==
  ASSUME NEW n \in Nat, NEW e,
         LET w == WriteVarnum(Writer(5), n)
         IN  e = IF w.err = OK THEN [err |-> OK, bytes |-> w.buf] ELSE Fail(w.err)
  PROVE  /\ e.err = OK <=> n < Weight[5]
         /\ e.err = OK => e.bytes = VarnumBytes(n)
  <1> DEFINE w == WriteVarnum(Writer(5), n)
             o == <<>>
  <1>1. Writer(5) = Wr(5, o) /\ o \in Seq(Bytes) /\ Len(o) = 0 /\ 5 \in Nat
    BY DEF Writer, Wr
  <1>2. e = IF w.err = OK THEN [err |-> OK, bytes |-> w.buf] ELSE Fail(w.err)
    OBVIOUS
  <1>3. VarnumBytes(n) \in Seq(Bytes) /\ o \o VarnumBytes(n) = VarnumBytes(n)
    BY VarnumBytesAre
  <1> HIDE DEF o
  <1>4. LET x == WriteVarnum(Wr(5, o), n)
        IN  /\ (x = Wr(5, o \o VarnumBytes(n)) /\ Digits(n) # 5) \/ x.err # OK
            /\ 5 - Len(o) >= 4 => (x.err = OK <=> Digits(n) # 5)
    BY <1>1, WriteVarnumIs
  <1>5. w = WriteVarnum(Wr(5, o), n) /\ 5 - Len(o) >= 4
    BY <1>1
  <1> HIDE DEF w
  <1>6. (w.err = OK => w = Wr(5, o \o VarnumBytes(n))) /\ (w.err = OK <=> Digits(n) # 5)
    BY <1>4, <1>5
  <1>7. (e.err = OK <=> w.err = OK) /\ (w.err = OK => e.bytes = w.buf)
    BY <1>2 DEF Fail
  <1>8. w.err = OK => w.buf = VarnumBytes(n)
    BY <1>3, <1>6 DEF Wr
  <1> QED
    BY <1>6, <1>7, <1>8, FourDigits

LEMMA SentIsTyped ==
  ASSUME NEW kind, NEW body, NEW e, EncodedFrom(kind, body, e), e.err = OK
  PROVE  e.bytes \in Seq(Bytes)
  <1>1. CASE kind = "PUBLISH" /\ body \in Publishes /\ e = PublishMessage(body)
    <2>1. PublishMessage(body).err = OK
      BY <1>1
    <2>2. PICK s \in Seq(Bytes) : /\ Packs(e.bytes, PublishHeader(body.dup, body.qos, body.retained), Len(s), s)
                                  /\ Len(s) < Weight[5]
      BY <1>1, <2>1, PublishPacked
    <2> DEFINE h == PublishHeader(body.dup, body.qos, body.retained)
    <2>3. h \in Bytes
      BY <1>1, ExchangeAssumption, PublishHeaderIs
    <2> DEFINE n == Len(s)
    <2>4. n \in Nat /\ n < Weight[5] /\ Packs(e.bytes, h, n, s)
      BY <2>2
    <2> HIDE DEF h, n
    <2> QED
      BY <2>3, <2>4, PacketOpened
  <1>2. CASE kind = "CONNECT" /\ body \in Connects /\ e = EncodeConnect(BufferSize, body.options, body.will)
    BY <1>2, ConnectAnnounced DEF Announced
  <1>3. CASE kind = "SUBSCRIBE" /\ body \in Filters
             /\ \E id \in {1, Word16 - 1} : e = EncodeSubscribe(BufferSize, id, body)
    BY <1>3, SubscribeAnnounced DEF Announced
  <1>4. CASE kind = "UNSUBSCRIBE" /\ body \in Filters
             /\ \E id \in {1, Word16 - 1} : e = EncodeUnsubscribe(BufferSize, id, body)
    BY <1>4, UnsubscribeAnnounced DEF Announced
  <1>5. CASE kind = "ACK" /\ body \in Acks /\ e = EncodeAck(BufferSize, body.type, body.id)
    <2>1. PICK h \in Bytes : Packs(e.bytes, h, 2, NumBytes(body.id)) /\ body.id \in 0..Word16 - 1
      BY <1>5, AckPacked
    <2>2. NumBytes(body.id) \in Seq(Bytes) /\ 2 \in Nat
      BY <2>1, NumBytesAre
    <2> QED
      BY <2>1, <2>2, TwoIs, PacketOpened
  <1>6. CASE kind = "ZERO" /\ body \in {PINGREQ, DISCONNECT} /\ e = EncodeZero(BufferSize, body)
    BY <1>6, ZeroAnnounced DEF Announced
  <1>7. CASE kind = "CONNACK" /\ body \in Connacks /\ e = ConnackBytes(body)
    <2> DEFINE s == <<Bit(body.present), body.code>>
               h == Header(CONNACK, 0)
    <2>1. Packs(e.bytes, h, 2, s) /\ body.code \in Bytes
      BY <1>7, ConnackPacked
    <2>2. Bit(body.present) \in Bytes
      BY DigitAssumption DEF Bit, Bytes, Byte
    <2>3. s \in Seq(Bytes) /\ 2 \in Nat
      BY <2>1, <2>2
    <2>4. h \in Bytes
      <3>1. CONNACK \in 0..15 /\ 0 \in 0..15
        BY DEF CONNACK
      <3> QED
        BY <3>1, HeaderIs
    <2> HIDE DEF s, h
    <2> QED
      BY <2>1, <2>3, <2>4, TwoIs, PacketOpened
  <1>8. CASE kind = "SUBACK" /\ body \in Subacks /\ e = SubackBytes(body)
    <2> DEFINE s == NumBytes(body.id) \o body.codes
               n == 2 + Len(body.codes)
               h == Header(SUBACK, 0)
    <2>1. Packs(e.bytes, h, n, s) /\ Sized(s, n) /\ n < Weight[5]
      BY <1>8, SubackPacked
    <2>2. h \in Bytes
      <3>1. SUBACK \in 0..15 /\ 0 \in 0..15
        BY DEF SUBACK
      <3> QED
        BY <3>1, HeaderIs
    <2> HIDE DEF s, h, n
    <2>3. s \in Seq(Bytes) /\ n \in Nat
      BY <2>1 DEF Sized
    <2> QED
      BY <2>1, <2>2, <2>3, PacketOpened
  <1>9. CASE /\ kind = "NUMBER" /\ body \in Numbers
             /\ LET w == WriteVarnum(Writer(5), body)
                IN  e = IF w.err = OK THEN [err |-> OK, bytes |-> w.buf] ELSE Fail(w.err)
    <2>1. body \in Nat
      BY <1>9, ExchangeAssumption
    <2>2. e.bytes = VarnumBytes(body)
      BY <1>9, <2>1, NumberWritten
    <2> QED
      BY <2>1, <2>2, VarnumBytesAre
  <1> QED
    BY <1>1, <1>2, <1>3, <1>4, <1>5, <1>6, <1>7, <1>8, <1>9 DEF EncodedFrom

-----------------------------------------------------------------------------
(* What arrives is the packet, or what is left of it.                      *)
LEMMA WireIs ==
  ASSUME NEW b, b = encoded.bytes, b \in Seq(Bytes), cut \in 0..Len(b)
  PROVE  /\ cut = 0 => Wire = b
         /\ cut > 0 => \E k \in 0..Len(b) : k < Len(b) /\ Wire = SubSeq(b, 1, k)
  <1>1. Wire = SubSeq(b, 1, Len(b) - cut) /\ Len(b) \in Nat
    BY DEF Wire
  <1>2. cut = 0 => Wire = b
    BY <1>1
  <1>3. ASSUME cut > 0 PROVE \E k \in 0..Len(b) : k < Len(b) /\ Wire = SubSeq(b, 1, k)
    <2> DEFINE k == Len(b) - cut
    <2>1. k \in 0..Len(b) /\ k < Len(b) /\ Wire = SubSeq(b, 1, k)
      BY <1>1, <1>3
    <2> HIDE DEF k
    <2> QED
      BY <2>1
  <1> QED
    BY <1>2, <1>3

LEMMA RefusedSurvives == ASSUME encoded.err # OK, packet.kind # "NUMBER" PROVE Survives
  BY DEF Survives, AnnouncedLength, ReadAsEncoded, LengthIsSafe, CutIsRefused, Whole

LEMMA PlainSurvives ==
  ASSUME packet.kind \in {"CONNECT", "SUBSCRIBE", "UNSUBSCRIBE", "ZERO"}, Announced(encoded.bytes)
  PROVE  Survives
  BY DEF Survives, AnnouncedLength, ReadAsEncoded, LengthIsSafe, CutIsRefused, Whole, Decodes, Announced

LEMMA SurvivesIs ==
  ASSUME packet.kind # "NUMBER", Announced(encoded.bytes), cut \in 0..Len(encoded.bytes),
         cut = 0 /\ Wire = encoded.bytes => ReadAsEncoded,
         \A k \in 0..Len(encoded.bytes) :
           k < Len(encoded.bytes) /\ Wire = SubSeq(encoded.bytes, 1, k) => Received.err # OK
  PROVE  Survives
  <1> DEFINE b == encoded.bytes
  <1>1. b \in Seq(Bytes)
    BY DEF Announced
  <1>2. /\ cut = 0 => Wire = b
        /\ cut > 0 => \E k \in 0..Len(b) : k < Len(b) /\ Wire = SubSeq(b, 1, k)
    BY <1>1, WireIs
  <1>3. AnnouncedLength
    BY DEF AnnouncedLength, Announced
  <1>4. ReadAsEncoded
    <2>1. CASE cut = 0
      BY <1>2, <2>1
    <2>2. CASE cut # 0
      BY <2>2 DEF ReadAsEncoded, Whole
    <2> QED
      BY <2>1, <2>2
  <1>5. LengthIsSafe
    BY DEF LengthIsSafe
  <1>6. CutIsRefused
    BY <1>2 DEF CutIsRefused
  <1> QED
    BY <1>3, <1>4, <1>5, <1>6 DEF Survives

LEMMA PublishSurvives ==
  ASSUME NEW p \in Publishes, packet.kind = "PUBLISH", packet.body = p, encoded = PublishMessage(p),
         encoded.err = OK,
         cut \in 0..Len(encoded.bytes)
  PROVE  Survives
  <1> DEFINE b == encoded.bytes
             h == PublishHeader(p.dup, p.qos, p.retained)
             r == [err |-> OK, dup |-> p.dup, qos |-> p.qos, retained |-> p.retained,
                   id |-> IF p.qos = 0 THEN 0 ELSE p.id,
                   topic |-> p.topic, payload |-> p.payload]
  <1>1. PublishMessage(p).err = OK
    OBVIOUS
  <1>2. PICK s \in Seq(Bytes), y \in Seq(Bytes) :
          /\ Packs(PublishMessage(p).bytes, h, Len(s), s) /\ Len(s) < Weight[5] /\ Joins(s, StringBytes(p.topic), y)
          /\ IF p.qos > 0 THEN Joins(y, NumBytes(p.id), p.payload) ELSE y = p.payload
    BY <1>1, PublishPacked
  <1>3. /\ p.dup \in BOOLEAN /\ p.retained \in BOOLEAN /\ p.qos \in 0..2
        /\ p.id \in 0..Word16 - 1 /\ p.topic \in Strings /\ p.payload \in Seq(Bytes)
    BY ExchangeAssumption DEF Bytes
  <1>4. h \in Bytes
    BY <1>3, PublishHeaderIs
  <1>5. Packs(b, h, Len(s), s)
    BY <1>2
  <1> HIDE DEF b
  <1>6. DecodePublish(b) = r
    BY <1>2, <1>3, <1>5, DecodesPublish
  <1> HIDE DEF h, r
  <1>7. Announced(b)
    <2> DEFINE n == Len(s)
    <2>1. Sized(s, n) /\ n < Weight[5] /\ Packs(b, h, n, s)
      BY <1>2, <1>5, SizedIs
    <2> HIDE DEF n
    <2> QED
      BY <1>4, <2>1, PacksAnnounced
  <1>8. Received = DecodePublish(Wire)
    BY DEF Received
  <1>9. Wire = b => ReadAsEncoded
    BY <1>6, <1>8 DEF ReadAsEncoded, r
  <1>10. ASSUME NEW k \in 0..Len(b), k < Len(b), Wire = SubSeq(b, 1, k) PROVE Received.err # OK
    BY <1>2, <1>4, <1>5, <1>8, <1>10, RefusesCutPublish
  <1> QED
    BY <1>7, <1>9, <1>10, SurvivesIs DEF b

LEMMA AckSurvives ==
  ASSUME NEW a \in Acks, packet.kind = "ACK", packet.body = a, encoded = EncodeAck(BufferSize, a.type, a.id),
         encoded.err = OK, cut \in 0..Len(encoded.bytes)
  PROVE  Survives
  <1> DEFINE b == encoded.bytes
             s == NumBytes(a.id)
  <1>1. PICK h \in Bytes : TypeOf(h) = a.type /\ Packs(b, h, 2, s) /\ a.id \in 0..Word16 - 1
    BY AckPacked
  <1>2. Sized(s, 2)
    BY <1>1, SizedNum
  <1> HIDE DEF b
  <1>3. /\ DecodeAck(b, a.type) = [err |-> OK, id |-> a.id]
        /\ \A k \in 0..Len(b) : k < Len(b) => DecodeAck(SubSeq(b, 1, k), a.type).err # OK
    BY <1>1, TwoIs, DecodesAck
  <1>4. Announced(b)
    <2> HIDE DEF s
    <2> QED
      BY <1>1, <1>2, TwoIs, PacksAnnounced
  <1>5. Received = DecodeAck(Wire, a.type)
    BY DEF Received
  <1>6. Wire = b => ReadAsEncoded
    BY <1>3, <1>5 DEF ReadAsEncoded
  <1>7. \A k \in 0..Len(b) : k < Len(b) /\ Wire = SubSeq(b, 1, k) => Received.err # OK
    BY <1>3, <1>5
  <1> QED
    BY <1>4, <1>6, <1>7, SurvivesIs DEF b

LEMMA ConnackSurvives ==
  ASSUME NEW c \in Connacks, packet.kind = "CONNACK", packet.body = c, encoded = ConnackBytes(c),
         cut \in 0..Len(encoded.bytes)
  PROVE  Survives
  <1> DEFINE b == encoded.bytes
             s == <<Bit(c.present), c.code>>
             h == Header(CONNACK, 0)
  <1>1. Packs(b, h, 2, s) /\ c.present \in BOOLEAN /\ c.code \in Bytes
    BY ConnackPacked
  <1>2. h \in Bytes
    <2>1. CONNACK \in 0..15 /\ 0 \in 0..15
      BY DEF CONNACK
    <2> QED
      BY <2>1, HeaderIs
  <1>3. Sized(s, 2)
    <2>1. Bit(c.present) \in Bytes
      BY DigitAssumption DEF Bit, Bytes, Byte
    <2> QED
      BY <1>1, <2>1 DEF Sized
  <1> HIDE DEF b
  <1>4. /\ DecodeConnack(b).err = OK /\ DecodeConnack(b).present = c.present
        /\ DecodeConnack(b).code = 0 <=> c.code = 0
        /\ \A k \in 0..Len(b) : k < Len(b) => DecodeConnack(SubSeq(b, 1, k)).err # OK
    BY <1>1, TwoIs, DecodesConnack
  <1>5. Announced(b)
    <2> HIDE DEF s, h
    <2> QED
      BY <1>1, <1>2, <1>3, TwoIs, PacksAnnounced
  <1>6. Received = DecodeConnack(Wire)
    BY DEF Received
  <1>7. Wire = b => ReadAsEncoded
    BY <1>4, <1>6 DEF ReadAsEncoded
  <1>8. \A k \in 0..Len(b) : k < Len(b) /\ Wire = SubSeq(b, 1, k) => Received.err # OK
    BY <1>4, <1>6
  <1> QED
    BY <1>5, <1>7, <1>8, SurvivesIs DEF b

LEMMA SubackSurvives ==
  ASSUME NEW s \in Subacks, packet.kind = "SUBACK", packet.body = s, encoded = SubackBytes(s),
         cut \in 0..Len(encoded.bytes)
  PROVE  Survives
  <1> DEFINE b == encoded.bytes
             body == NumBytes(s.id) \o s.codes
             n == 2 + Len(s.codes)
             h == Header(SUBACK, 0)
             r == DecodeSuback(b, Asked)
  <1>1. /\ Packs(b, h, n, body) /\ Sized(body, n) /\ n < Weight[5]
        /\ s.id \in 0..Word16 - 1 /\ s.codes \in Seq(Bytes) /\ s.codes # <<>>
    BY SubackPacked
  <1>2. h \in Bytes
    <2>1. SUBACK \in 0..15 /\ 0 \in 0..15
      BY DEF SUBACK
    <2> QED
      BY <2>1, HeaderIs
  <1>3. Joins(body, NumBytes(s.id), s.codes) /\ Asked \in Nat
    BY ExchangeAssumption DEF Joins
  <1> HIDE DEF b, body
  <1>4. /\ Len(s.codes) <= Asked =>
             r.err = OK /\ r.id = s.id /\ \A i \in DOMAIN s.codes : r.granted[i] = Granted(s.codes[i])
        /\ \A k \in 0..Len(b) : k < Len(b) => DecodeSuback(SubSeq(b, 1, k), Asked).err # OK
    BY <1>1, <1>3, DecodesSuback
  <1>5. Announced(b)
    <2> HIDE DEF n, h
    <2> QED
      BY <1>1, <1>2, PacksAnnounced
  <1>6. Received = DecodeSuback(Wire, Asked)
    BY DEF Received
  <1>7. Wire = b => ReadAsEncoded
    BY <1>4, <1>6 DEF ReadAsEncoded, Granted
  <1>8. \A k \in 0..Len(b) : k < Len(b) /\ Wire = SubSeq(b, 1, k) => Received.err # OK
    BY <1>4, <1>6
  <1> QED
    BY <1>5, <1>7, <1>8, SurvivesIs DEF b

LEMMA NumberSurvives ==
  ASSUME NEW n \in Nat, packet.kind = "NUMBER", packet.body = n,
         LET w == WriteVarnum(Writer(5), n)
         IN  encoded = IF w.err = OK THEN [err |-> OK, bytes |-> w.buf] ELSE Fail(w.err),
         encoded.err = OK => cut \in 0..Len(encoded.bytes)
  PROVE  Survives
  <1> DEFINE b == encoded.bytes
             v == VarnumBytes(n)
  <1>1. (encoded.err = OK <=> n < Weight[5]) /\ (encoded.err = OK => b = v)
    BY NumberWritten
  <1>2. v \in Seq(Bytes) /\ Len(v) = Digits(n)
    BY VarnumBytesAre
  <1>3. AnnouncedLength
    BY DEF AnnouncedLength
  <1>4. LengthIsSafe
    <2>1. VarnumLength(n) \in 1..5 /\ Weight[5] \in Nat
      BY VarnumLengthIs, WeightIs
    <2>2. VarnumLength(n) # 5 => n < Weight[5] /\ Digits(n) <= VarnumLength(n)
      BY VarnumLengthIs
    <2>3. VarnumLength(n) = 5 => n + 1 >= Weight[5]
      BY VarnumLengthIs
    <2>4. VarnumLength(n) < 5 => encoded.err = OK /\ Len(b) <= VarnumLength(n)
      BY <1>1, <1>2, <2>1, <2>2
    <2> HIDE DEF v
    <2> QED
      BY <1>1, <2>3, <2>4 DEF LengthIsSafe
  <1>5. Received = DetectRemainingLength(Wire)
    BY DEF Received
  <1>6. ASSUME encoded.err = OK
        PROVE  /\ DetectRemainingLength(v) = [err |-> OK, val |-> n]
               /\ ReadVarnum(Reader(Append(v, Digit))).rest = <<Digit>>
               /\ \A k \in 0..Len(v) : k < Len(v) => DetectRemainingLength(SubSeq(v, 1, k)).err # OK
    BY <1>1, <1>6, DecodesNumber
  <1>7. ASSUME encoded.err = OK
        PROVE  /\ cut = 0 => Wire = v
               /\ cut > 0 => \E k \in 0..Len(v) : k < Len(v) /\ Wire = SubSeq(v, 1, k)
    <2>1. v = encoded.bytes /\ cut \in 0..Len(v)
      BY <1>1, <1>7
    <2> HIDE DEF v
    <2> QED
      BY <1>2, <2>1, WireIs
  <1> HIDE DEF v
  <1>8. ReadAsEncoded
    BY <1>5, <1>6, <1>7 DEF ReadAsEncoded, Whole
  <1>9. CutIsRefused
    BY <1>5, <1>6, <1>7 DEF CutIsRefused
  <1> QED
    BY <1>3, <1>4, <1>8, <1>9 DEF Survives

LEMMA ExchangeInvImplies == ASSUME ExchangeInv PROVE Survives
  <1> DEFINE kind == packet.kind
             body == packet.body
  <1>1. encoded.err = OK => cut \in 0..Len(encoded.bytes)
    BY DEF ExchangeInv
  <1>2. CASE packet = Nothing /\ encoded = Fail("NONE")
    <2>1. encoded.err # OK /\ packet.kind # "NUMBER"
      BY <1>2 DEF Nothing, Fail, OK
    <2> QED
      BY <2>1, RefusedSurvives
  <1>3. CASE encoded.err # OK /\ kind # "NUMBER"
    BY <1>3, RefusedSurvives
  <1>4. CASE encoded.err = OK /\ kind = "PUBLISH" /\ body \in Publishes /\ encoded = PublishMessage(body)
    BY <1>1, <1>4, PublishSurvives
  <1>5. CASE encoded.err = OK /\ kind = "CONNECT" /\ body \in Connects
             /\ encoded = EncodeConnect(BufferSize, body.options, body.will)
    <2>1. Announced(encoded.bytes)
      BY <1>5, ConnectAnnounced
    <2> QED
      BY <1>5, <2>1, PlainSurvives
  <1>6. CASE encoded.err = OK /\ kind = "SUBSCRIBE" /\ body \in Filters
             /\ \E id \in {1, Word16 - 1} : encoded = EncodeSubscribe(BufferSize, id, body)
    <2>1. Announced(encoded.bytes)
      BY <1>6, SubscribeAnnounced
    <2> QED
      BY <1>6, <2>1, PlainSurvives
  <1>7. CASE encoded.err = OK /\ kind = "UNSUBSCRIBE" /\ body \in Filters
             /\ \E id \in {1, Word16 - 1} : encoded = EncodeUnsubscribe(BufferSize, id, body)
    <2>1. Announced(encoded.bytes)
      BY <1>7, UnsubscribeAnnounced
    <2> QED
      BY <1>7, <2>1, PlainSurvives
  <1>8. CASE encoded.err = OK /\ kind = "ACK" /\ body \in Acks
             /\ encoded = EncodeAck(BufferSize, body.type, body.id)
    BY <1>1, <1>8, AckSurvives
  <1>9. CASE encoded.err = OK /\ kind = "ZERO" /\ body \in {PINGREQ, DISCONNECT}
             /\ encoded = EncodeZero(BufferSize, body)
    <2>1. Announced(encoded.bytes)
      BY <1>9, ZeroAnnounced
    <2> QED
      BY <1>9, <2>1, PlainSurvives
  <1>10. CASE encoded.err = OK /\ kind = "CONNACK" /\ body \in Connacks /\ encoded = ConnackBytes(body)
    BY <1>1, <1>10, ConnackSurvives
  <1>11. CASE encoded.err = OK /\ kind = "SUBACK" /\ body \in Subacks /\ encoded = SubackBytes(body)
    BY <1>1, <1>11, SubackSurvives
  <1>12. CASE /\ kind = "NUMBER" /\ body \in Numbers
              /\ LET w == WriteVarnum(Writer(5), body)
                 IN  encoded = IF w.err = OK THEN [err |-> OK, bytes |-> w.buf] ELSE Fail(w.err)
    <2>1. body \in Nat
      BY <1>12, ExchangeAssumption
    <2> QED
      BY <1>1, <1>12, <2>1, NumberSurvives
  <1> QED
    BY <1>2, <1>3, <1>4, <1>5, <1>6, <1>7, <1>8, <1>9, <1>10, <1>11, <1>12 DEF ExchangeInv, EncodedFrom

LEMMA ExchangeInvTypes == ASSUME ExchangeInv PROVE ExchangeTypeOK
  <1> SUFFICES ASSUME encoded.err = OK PROVE ExchangeTypeOK
    BY DEF ExchangeTypeOK
  <1> DEFINE kind == packet.kind
  <1>1. encoded.bytes \in Seq(0..Byte - 1) /\ cut \in 0..Len(encoded.bytes)
    BY DEF ExchangeInv, Bytes
  <1>2. EncodedFrom(kind, packet.body, encoded)
    BY DEF ExchangeInv, Fail, OK
  <1>3. ASSUME kind \in {"CONNECT", "SUBSCRIBE", "UNSUBSCRIBE", "ACK", "ZERO"}
        PROVE Len(encoded.bytes) <= BufferSize
    <2>1. CASE kind = "CONNECT"
      BY <1>2, <2>1, ConnectAnnounced DEF EncodedFrom
    <2>2. CASE kind = "SUBSCRIBE"
      BY <1>2, <2>2, SubscribeAnnounced DEF EncodedFrom
    <2>3. CASE kind = "UNSUBSCRIBE"
      BY <1>2, <2>3, UnsubscribeAnnounced DEF EncodedFrom
    <2>4. CASE kind = "ACK"
      BY <1>2, <2>4, AckPacked DEF EncodedFrom
    <2>5. CASE kind = "ZERO"
      BY <1>2, <2>5, ZeroAnnounced DEF EncodedFrom
    <2> QED
      BY <1>3, <2>1, <2>2, <2>3, <2>4, <2>5
  <1> QED
    BY <1>1, <1>3 DEF ExchangeTypeOK

LEMMA ExchangeInvHolds == ASSUME ExchangeInit PROVE ExchangeInv
  BY DEF ExchangeInit, ExchangeInv, Fail, OK

LEMMA SendsWhole ==
  ASSUME NEW kind, NEW body, NEW e, Send(kind, body, e), EncodedFrom(kind, body, e)
  PROVE  ExchangeInv'
  <1>1. packet' = [kind |-> kind, body |-> body] /\ encoded' = e /\ cut' = 0
    BY DEF Send
  <1>2. EncodedFrom(packet'.kind, packet'.body, encoded')
    BY <1>1
  <1>3. ASSUME e.err = OK PROVE encoded'.bytes \in Seq(Bytes) /\ cut' \in 0..Len(encoded'.bytes)
    <2>1. e.bytes \in Seq(Bytes)
      BY <1>3, SentIsTyped
    <2> QED
      BY <1>1, <2>1
  <1> QED
    BY <1>1, <1>2, <1>3 DEF ExchangeInv

LEMMA ExchangeInvKept == ASSUME ExchangeInv, [ExchangeNext]_exchangeVars PROVE ExchangeInv'
  <1>1. CASE UNCHANGED exchangeVars
    BY <1>1 DEF exchangeVars, ExchangeInv
  <1>2. ASSUME NEW p \in Publishes, SendPublish(p) PROVE ExchangeInv'
    BY <1>2, SendsWhole DEF SendPublish, EncodedFrom
  <1>3. ASSUME NEW c \in Connects, SendConnect(c) PROVE ExchangeInv'
    BY <1>3, SendsWhole DEF SendConnect, EncodedFrom
  <1>4. ASSUME NEW id \in {1, Word16 - 1}, NEW f \in Filters, SendSubscribe(id, f) PROVE ExchangeInv'
    BY <1>4, SendsWhole DEF SendSubscribe, EncodedFrom
  <1>5. ASSUME NEW id \in {1, Word16 - 1}, NEW f \in Filters, SendUnsubscribe(id, f) PROVE ExchangeInv'
    BY <1>5, SendsWhole DEF SendUnsubscribe, EncodedFrom
  <1>6. ASSUME NEW a \in Acks, SendAck(a) PROVE ExchangeInv'
    BY <1>6, SendsWhole DEF SendAck, EncodedFrom
  <1>7. ASSUME NEW type \in {PINGREQ, DISCONNECT}, SendZero(type) PROVE ExchangeInv'
    BY <1>7, SendsWhole DEF SendZero, EncodedFrom
  <1>8. ASSUME NEW c \in Connacks, SendConnack(c) PROVE ExchangeInv'
    BY <1>8, SendsWhole DEF SendConnack, EncodedFrom
  <1>9. ASSUME NEW s \in Subacks, SendSuback(s) PROVE ExchangeInv'
    BY <1>9, SendsWhole DEF SendSuback, EncodedFrom
  <1>10. ASSUME NEW n \in Numbers, SendNumber(n) PROVE ExchangeInv'
    BY <1>10, SendsWhole DEF SendNumber, EncodedFrom
  <1>11. CASE LoseByte
    <2>1. encoded.err = OK /\ cut < Len(encoded.bytes) /\ cut' = cut + 1 /\ packet' = packet
          /\ encoded' = encoded
      BY <1>11 DEF LoseByte
    <2>2. encoded.bytes \in Seq(Bytes) /\ cut \in 0..Len(encoded.bytes)
      BY <2>1 DEF ExchangeInv
    <2>3. cut' \in 0..Len(encoded.bytes)
      BY <2>1, <2>2
    <2> QED
      BY <2>1, <2>2, <2>3 DEF ExchangeInv
  <1>12. CASE Done
    BY <1>12 DEF Done, ExchangeInv, Fail, OK
  <1> QED
    BY <1>1, <1>2, <1>3, <1>4, <1>5, <1>6, <1>7, <1>8, <1>9, <1>10, <1>11, <1>12 DEF ExchangeNext

(* The encoders of packet.c write bytes only, and none behind the end of   *)
(* the write buffer.                                                       *)
THEOREM PacketsTypedAndFit == ExchangeSpec => []ExchangeTypeOK
  <1>1. ExchangeInit => ExchangeInv
    BY ExchangeInvHolds
  <1>2. ExchangeInv /\ [ExchangeNext]_exchangeVars => ExchangeInv'
    BY ExchangeInvKept
  <1>3. ExchangeInv => ExchangeTypeOK
    BY ExchangeInvTypes
  <1> QED
    BY <1>1, <1>2, <1>3, PTL DEF ExchangeSpec

(* What either side encodes is what the other decodes, for every topic,    *)
(* payload, id, flag and length: the codec of packet.c and helpers.c reads *)
(* a packet as it was written, announces its true length, refuses what it  *)
(* cannot write, and never takes a packet that was cut for a whole one.    *)
THEOREM PacketsSurvive == ExchangeSpec => []Survives
  <1>1. ExchangeInit => ExchangeInv
    BY ExchangeInvHolds
  <1>2. ExchangeInv /\ [ExchangeNext]_exchangeVars => ExchangeInv'
    BY ExchangeInvKept
  <1>3. ExchangeInv => Survives
    BY ExchangeInvImplies
  <1> QED
    BY <1>1, <1>2, <1>3, PTL DEF ExchangeSpec
=============================================================================
