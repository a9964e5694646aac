----------------------------- MODULE PumpProofs -----------------------------
(* Safety of the pump control, for every tank, litre, window and residue.  *)
EXTENDS Pump, TLAPS

(* A start of the firmware yields a well-typed state, whatever caused it.  *)
LEMMA StartTyped ==
  ASSUME NEW why \in {"POWER", "ABORT", "PAYLOAD"}, Start(why), button' \in BOOLEAN
  PROVE  TypeOK'
  BY TankAssumption, CallAssumption, SMT DEF Start, Constructed, TypeOK, Double, Drops

(* Arithmetic on doubles stays among the doubles.                          *)
LEMMA DoubleArithmetic ==
  ASSUME NEW a \in Double, NEW b \in Double
  PROVE  Plus(a, b) \in Double /\ Minus(a, b) \in Double
  BY NaNAssumption DEF Double, Plus, Minus

(* get_stock always returns a uint32_t's worth of litres.                  *)
LEMMA GetStockTyped ==
  ASSUME stock \in Double
  PROVE  GetStock \subseteq Nat
  BY NaNAssumption, TankAssumption, WordAssumption DEF GetStock, Double, Below

(* set_stock leaves a double within the capacity if it found one.          *)
LEMMA SetStockBounded ==
  ASSUME NEW s \in Double, stock \in Double, SetStock(s)
  PROVE  /\ stock' \in Double
         /\ WithinCapacity => WithinCapacity'
  BY DEF SetStock, WithinCapacity

LEMMA NextTyped == TypeOK /\ [Next]_vars => TypeOK'
<1> SUFFICES ASSUME TypeOK, [Next]_vars PROVE TypeOK'
  OBVIOUS
<1> USE NaNAssumption, TankAssumption, WordAssumption, CallAssumption
<1>1. CASE InitPump
  BY <1>1, StartTyped DEF InitPump, ErrorCheck, CanLock, Lock, TypeOK
<1>2. ASSUME NEW r \in Residue, RefuseSupply(r) PROVE TypeOK'
  BY <1>2 DEF RefuseSupply, AmountFrom, history, TypeOK
<1>3. ASSUME NEW r \in Residue, AdmitSupply(r) PROVE TypeOK'
  <2>1. r \in Double
    OBVIOUS
  <2>2. CASE ~CanUnlock
    BY <1>3, <2>2, StartTyped DEF AdmitSupply, ErrorCheck, TypeOK
  <2>3. CASE CanUnlock
    <3>1. /\ locked' = FALSE /\ led' = "HIGH" /\ pc' = "press" /\ ret' = "NONE"
          /\ amount' = r /\ elapsed' = 0 /\ poured' = 0
          /\ UNCHANGED <<relay, stock, drawn, fills, reason, button>>
      BY <1>3, <2>3 DEF AdmitSupply, AmountFrom, ErrorCheck, Unlock
    <3>2. /\ pc' \in {"reset", "ready", "press", "pour", "settle"}
         /\ locked' \in BOOLEAN /\ button' \in BOOLEAN
         /\ led' \in {"FLOAT", "LOW", "HIGH"} /\ relay' \in {"FLOAT", "LOW", "HIGH"}
      BY <3>1 DEF TypeOK
    <3>3. stock' \in Double /\ amount' \in Double
      BY <2>1, <3>1 DEF TypeOK
    <3>4. elapsed' \in 0..WaitPolls
      BY <3>1 DEF TypeOK
    <3>5. ret' \in {"NONE", "OK", "FAIL"} /\ reason' \in {"POWER", "ABORT", "PAYLOAD"}
          /\ drawn' \in 0..MaxDrawn /\ fills' \in Nat /\ poured' \in Nat
      BY <3>1 DEF TypeOK
    <3> QED
      BY <3>2, <3>3, <3>4, <3>5 DEF TypeOK
  <2> QED
    BY <2>2, <2>3
<1>4. ASSUME NEW litres \in Deliveries, ReplenishStock(litres) PROVE TypeOK'
  <2>1. PICK held \in GetStock :
           /\ SetStock(Drops((held + litres) % Word))
           /\ ret' \in {"FAIL", "OK"}
    BY <1>4 DEF ReplenishStock
  <2>2. held \in Nat /\ litres \in Nat
    BY GetStockTyped DEF TypeOK
  <2>3. Drops((held + litres) % Word) \in Double
    BY <2>2 DEF Drops, Double
  <2>4. stock' \in Double
    BY <2>1, <2>3, SetStockBounded DEF TypeOK
  <2> QED
    BY <1>4, <2>1, <2>4 DEF ReplenishStock, history, TypeOK
<1>5. CASE Poll
  BY <1>5 DEF Poll, history, TypeOK
<1>6. CASE GiveUp
  BY <1>6, StartTyped DEF GiveUp, ErrorCheck, CanLock, Lock, TypeOK
<1>7. CASE MotorOn
  BY <1>7 DEF MotorOn, history, TypeOK
<1>8. CASE PourDrop
  <2>1. amount' \in Double
    BY <1>8, DoubleArithmetic DEF PourDrop, TypeOK, Double
  <2> QED
    BY <1>8, <2>1 DEF PourDrop, TypeOK
<1>9. CASE MotorOff
  BY <1>9 DEF MotorOff, history, TypeOK
<1>10. CASE Settle
  <2>1. CASE ~CanLock
    BY <1>10, <2>1, StartTyped DEF Settle, ErrorCheck, TypeOK
  <2>2. CASE CanLock
    <3>1. PICK litres \in GetStock : SetStock(Minus(Drops(litres), amount))
      BY <1>10, <2>2 DEF Settle, ErrorCheck
    <3>2. Drops(litres) \in Double
      BY GetStockTyped DEF TypeOK, Drops, Double
    <3>3. stock' \in Double
      BY <3>1, <3>2, DoubleArithmetic, SetStockBounded DEF TypeOK
    <3> QED
      BY <1>10, <2>2, <3>3 DEF Settle, ErrorCheck, Lock, TypeOK
  <2> QED
    BY <2>1, <2>2
<1>11. CASE Press \/ Release
  BY <1>11 DEF Press, Release, pumpVars, history, TypeOK
<1>12. CASE PowerCycle
  BY <1>12, StartTyped DEF PowerCycle, TypeOK
<1>13. CASE UNCHANGED vars
  BY <1>13 DEF vars, pumpVars, history, TypeOK
<1> QED
  BY <1>1, <1>2, <1>3, <1>4, <1>5, <1>6, <1>7, <1>8, <1>9, <1>10, <1>11, <1>12, <1>13
  DEF Next, Proceed

(* The variables of the class keep their types at every step.              *)
THEOREM PumpTyped == Spec => []TypeOK
<1>1. Init => TypeOK
  BY TankAssumption, CallAssumption DEF Init, Constructed, TypeOK, Double, Drops
<1> QED
  BY <1>1, NextTyped, PTL DEF Spec

-----------------------------------------------------------------------------
(* The inductive invariant. Where the firmware is in the class fixes the   *)
(* member `locked`, the LED and the relay, hence that every lock_pump and  *)
(* unlock_pump finds the state it accepts; Interlock and NeverAborts alone *)
(* do not say enough about the place a step starts from.                   *)
Levels ==
  /\ pc = "reset"  => ~locked /\ led = "FLOAT" /\ relay = "FLOAT"
  /\ pc = "ready"  => locked  /\ led = "LOW"   /\ relay = "LOW"
  /\ pc = "press"  => ~locked /\ led = "HIGH"  /\ relay = "LOW"
  /\ pc = "pour"   => ~locked /\ led = "HIGH"  /\ relay = "HIGH"
  /\ pc = "settle" => ~locked /\ led = "HIGH"  /\ relay = "LOW"

PumpInv == TypeOK /\ Levels /\ NeverAborts /\ WithinCapacity /\ UnlockedWithStock

(* A start by anything but a failed check establishes the invariant.       *)
LEMMA StartInv ==
  ASSUME NEW why \in {"POWER", "PAYLOAD"}, Start(why), button' \in BOOLEAN
  PROVE  PumpInv'
<1>1. TypeOK'
  BY StartTyped
<1>2. /\ pc' = "reset" /\ ~locked' /\ led' = "FLOAT" /\ relay' = "FLOAT"
      /\ stock' = Drops(Stock) /\ reason' = why
  BY DEF Start, Constructed
<1>3. Drops(Stock) \in Int /\ Drops(Capacity) \in Int /\ Drops(Stock) <= Drops(Capacity)
  BY TankAssumption DEF Drops
<1> QED
  BY <1>1, <1>2, <1>3, NaNAssumption
  DEF PumpInv, Levels, NeverAborts, WithinCapacity, UnlockedWithStock, Below

LEMMA NextInv == PumpInv /\ [Next]_vars => PumpInv'
<1> SUFFICES ASSUME PumpInv, [Next]_vars PROVE PumpInv'
  OBVIOUS
<1>0. TypeOK'
  BY NextTyped DEF PumpInv
<1>1. CASE InitPump
  BY <1>0, <1>1 DEF InitPump, ErrorCheck, CanLock, Lock,
     PumpInv, Levels, NeverAborts, WithinCapacity, UnlockedWithStock, Below
<1>2. ASSUME NEW r \in Residue, RefuseSupply(r) PROVE PumpInv'
  BY <1>0, <1>2 DEF RefuseSupply, history,
     PumpInv, Levels, NeverAborts, WithinCapacity, UnlockedWithStock, Below
<1>3. ASSUME NEW r \in Residue, AdmitSupply(r) PROVE PumpInv'
  <2>1. /\ pc = "ready" /\ Sufficient /\ pc' = "press" /\ ~locked' /\ led' = "HIGH"
        /\ UNCHANGED <<relay, stock, reason>>
    BY <1>3 DEF AdmitSupply, ErrorCheck, CanUnlock, Unlock, PumpInv, Levels
  <2>2. stock = NaN \/ stock >= Drops(MinSupply)
    BY <2>1, TankAssumption, NaNAssumption DEF Sufficient, Below, PumpInv, TypeOK, Double, Drops
  <2> QED
    BY <1>0, <2>1, <2>2
    DEF PumpInv, Levels, NeverAborts, WithinCapacity, UnlockedWithStock, Below
<1>4. ASSUME NEW litres \in Deliveries, ReplenishStock(litres) PROVE PumpInv'
  <2>1. PICK held \in GetStock : SetStock(Drops((held + litres) % Word))
    BY <1>4 DEF ReplenishStock
  <2>2. held \in Nat /\ litres \in Nat
    BY GetStockTyped, WordAssumption DEF PumpInv, TypeOK
  <2>3. Drops((held + litres) % Word) \in Double
    BY <2>2, WordAssumption, TankAssumption DEF Drops, Double
  <2>4. WithinCapacity'
    BY <2>1, <2>3, SetStockBounded DEF PumpInv, TypeOK
  <2> QED
    BY <1>0, <1>4, <2>4 DEF ReplenishStock, history, PumpInv, Levels, NeverAborts, UnlockedWithStock
<1>5. CASE Poll
  BY <1>0, <1>5 DEF Poll, history,
     PumpInv, Levels, NeverAborts, WithinCapacity, UnlockedWithStock, Below
<1>6. CASE GiveUp
  BY <1>0, <1>6 DEF GiveUp, ErrorCheck, CanLock, Lock,
     PumpInv, Levels, NeverAborts, WithinCapacity, UnlockedWithStock, Below
<1>7. CASE MotorOn
  BY <1>0, <1>7 DEF MotorOn, history,
     PumpInv, Levels, NeverAborts, WithinCapacity, UnlockedWithStock, Below
<1>8. CASE PourDrop
  BY <1>0, <1>8 DEF PourDrop,
     PumpInv, Levels, NeverAborts, WithinCapacity, UnlockedWithStock, Below
<1>9. CASE MotorOff
  BY <1>0, <1>9 DEF MotorOff, history,
     PumpInv, Levels, NeverAborts, WithinCapacity, UnlockedWithStock, Below
<1>10. CASE Settle
  <2>1. PICK litres \in GetStock :
           ErrorCheck(CanLock,
             /\ SetStock(Minus(Drops(litres), amount))
             /\ Lock
             /\ pc' = "ready" /\ ret' = "OK"
             /\ UNCHANGED <<relay, amount, elapsed, drawn, poured, fills>>)
    BY <1>10 DEF Settle
  <2>2. /\ SetStock(Minus(Drops(litres), amount)) /\ Lock /\ pc' = "ready"
        /\ UNCHANGED <<relay, reason>>
    BY <1>10, <2>1 DEF Settle, ErrorCheck, CanLock, PumpInv, Levels
  <2>3. Drops(litres) \in Double
    BY GetStockTyped, TankAssumption DEF PumpInv, TypeOK, Drops, Double
  <2>4. WithinCapacity'
    BY <2>2, <2>3, DoubleArithmetic, SetStockBounded DEF PumpInv, TypeOK
  <2> QED
    BY <1>0, <1>10, <2>2, <2>4
    DEF Settle, Lock, PumpInv, Levels, NeverAborts, UnlockedWithStock
<1>11. CASE Press \/ Release
  BY <1>0, <1>11 DEF Press, Release, pumpVars, history,
     PumpInv, Levels, NeverAborts, WithinCapacity, UnlockedWithStock, Below
<1>12. CASE PowerCycle
  BY <1>12, StartInv DEF PowerCycle, PumpInv, TypeOK
<1>13. CASE UNCHANGED vars
  BY <1>0, <1>13 DEF vars, pumpVars, history,
     PumpInv, Levels, NeverAborts, WithinCapacity, UnlockedWithStock, Below
<1> QED
  BY <1>1, <1>2, <1>3, <1>4, <1>5, <1>6, <1>7, <1>8, <1>9, <1>10, <1>11, <1>12, <1>13
  DEF Next, Proceed

LEMMA InitInv == Init => PumpInv
  BY TankAssumption, CallAssumption, NaNAssumption
  DEF Init, Constructed, PumpInv, TypeOK, Double, Drops, Levels, NeverAborts,
      WithinCapacity, UnlockedWithStock, Below

(* The motor runs only while the pump is unlocked and shown as such, and   *)
(* everything is off whenever no supply is active.                         *)
THEOREM PumpInterlocked == Spec => []Interlock
<1>1. PumpInv => Interlock
  BY DEF PumpInv, TypeOK, Levels, Interlock
<1> QED
  BY <1>1, InitInv, NextInv, PTL DEF Spec

(* No error check of the class ever fires.                                 *)
THEOREM PumpNeverAborts == Spec => []NeverAborts
<1>1. PumpInv => NeverAborts
  BY DEF PumpInv
<1> QED
  BY <1>1, InitInv, NextInv, PTL DEF Spec

(* The stock on the books never exceeds the tank.                          *)
THEOREM PumpWithinCapacity == Spec => []WithinCapacity
<1>1. PumpInv => WithinCapacity
  BY DEF PumpInv
<1> QED
  BY <1>1, InitInv, NextInv, PTL DEF Spec

(* A pump is unlocked only with the smallest supply on the books.          *)
THEOREM PumpUnlockedWithStock == Spec => []UnlockedWithStock
<1>1. PumpInv => UnlockedWithStock
  BY DEF PumpInv
<1> QED
  BY <1>1, InitInv, NextInv, PTL DEF Spec

(* The books move only while the motor is off: an action property.         *)
LEMMA SettleDryStep ==
  ASSUME PumpInv, [Next]_vars
  PROVE  stock' # stock /\ pc' # "reset" => relay # "HIGH" /\ relay' # "HIGH"
<1>1. CASE \E litres \in Deliveries : ReplenishStock(litres)
  BY <1>1 DEF ReplenishStock, PumpInv, Levels
<1>2. CASE Settle
  BY <1>2 DEF Settle, ErrorCheck, CanLock, PumpInv, Levels
<1>3. CASE PowerCycle
  BY <1>3 DEF PowerCycle, Start, Constructed
<1>4. CASE InitPump
  BY <1>4 DEF InitPump, ErrorCheck, CanLock, PumpInv, Levels
<1>5. CASE \E r \in Residue : RefuseSupply(r) \/ AdmitSupply(r)
  BY <1>5 DEF RefuseSupply, AdmitSupply, ErrorCheck, CanUnlock, PumpInv, Levels
<1>6. CASE Poll \/ GiveUp \/ MotorOn \/ PourDrop \/ MotorOff
  BY <1>6 DEF Poll, GiveUp, MotorOn, PourDrop, MotorOff, ErrorCheck, CanLock, PumpInv, Levels
<1>7. CASE Press \/ Release \/ UNCHANGED vars
  BY <1>7 DEF Press, Release, vars, pumpVars
<1> QED
  BY <1>1, <1>2, <1>3, <1>4, <1>5, <1>6, <1>7 DEF Next, Proceed

THEOREM PumpSettlesDry == Spec => BooksSettleDry
  BY InitInv, NextInv, SettleDryStep, PTL DEF Spec, BooksSettleDry

-----------------------------------------------------------------------------
(* The books of a pump whose caller passes zero and that is not refilled.  *)

(* What is known of a supply before it is booked.                          *)
InSupply  == pc \in {"press", "pour", "settle"}
Unbooked  == IF InSupply THEN poured ELSE 0
Filled    == IF InSupply /\ poured > 0 THEN fills - 1 ELSE fills
Fraction(d) == d % UnitsPerLitre

(* Before a supply is booked the books are as they were when it began; the *)
(* fraction of a litre they hold is what the next booking will cut off, so *)
(* it counts towards the drift already.                                    *)
BooksInv ==
  /\ stock \in Int
  /\ InSupply => amount = poured /\ stock >= 0
  /\ poured > 0 /\ InSupply => fills > 0
  /\ pc = "press" => poured = 0
  /\ stock <= Drops(Stock) - (drawn - Unbooked)
  /\ Drops(Stock) - (drawn - Unbooked) - stock + Fraction(stock)
       <= Filled * (UnitsPerLitre - 1)

LEMMA Division ==
  ASSUME NEW a \in Int
  PROVE  /\ a \div UnitsPerLitre \in Int
         /\ Fraction(a) \in 0..UnitsPerLitre - 1
         /\ a = Drops(a \div UnitsPerLitre) + Fraction(a)
<1>1. UnitsPerLitre \in Int /\ UnitsPerLitre > 0
  BY TankAssumption
<1>2. a = UnitsPerLitre * (a \div UnitsPerLitre) + (a % UnitsPerLitre)
  BY <1>1, Z3
<1>3. a \div UnitsPerLitre \in Int /\ a % UnitsPerLitre \in 0..UnitsPerLitre - 1
  BY <1>1
<1> QED
  BY <1>1, <1>2, <1>3 DEF Fraction, Drops

(* Whole litres have no fraction.                                          *)
LEMMA WholeLitres ==
  ASSUME NEW l \in Int
  PROVE  Fraction(Drops(l)) = 0
<1>1. UnitsPerLitre \in Int /\ UnitsPerLitre > 0
  BY TankAssumption
<1>2. (l * UnitsPerLitre) % UnitsPerLitre = 0
  BY <1>1, Z3
<1> QED
  BY <1>2 DEF Fraction, Drops

LEMMA BooksNext ==
  ASSUME Residue \subseteq {0}, Deliveries = {}, PumpInv, BooksInv, [Next]_vars
  PROVE  BooksInv'
<1> DEFINE U == UnitsPerLitre
           S == Drops(Stock)
<1>0. /\ U \in Nat \ {0} /\ S \in Int
      /\ drawn \in Nat /\ fills \in Nat /\ poured \in Nat /\ stock \in Int
  BY TankAssumption, CallAssumption DEF PumpInv, TypeOK, BooksInv, Drops
<1>1. CASE /\ UNCHANGED <<stock, amount, drawn, poured, fills>>
           /\ InSupply' = InSupply /\ (pc' = "press" => pc = "press")
  BY <1>1 DEF BooksInv, Unbooked, Filled, Fraction
<1>2. CASE InitPump
  <2>1. /\ UNCHANGED <<stock, amount, drawn, poured, fills>>
        /\ InSupply' = InSupply /\ (pc' = "press" => pc = "press")
    BY <1>2 DEF InitPump, ErrorCheck, CanLock, PumpInv, Levels, InSupply
  <2> QED
    BY <1>1, <2>1
<1>3. ASSUME NEW r \in Residue, RefuseSupply(r) PROVE BooksInv'
  <2>1. UNCHANGED <<stock, drawn, poured, fills, pc>> /\ pc = "ready"
    BY <1>3 DEF RefuseSupply, history
  <2> QED
    BY <2>1 DEF BooksInv, Unbooked, Filled, Fraction, InSupply
<1>4. ASSUME NEW r \in Residue, AdmitSupply(r) PROVE BooksInv'
  <2>1. /\ UNCHANGED <<stock, drawn, fills>> /\ amount' = 0 /\ poured' = 0
        /\ pc = "ready" /\ pc' = "press" /\ Sufficient
    BY <1>4 DEF AdmitSupply, AmountFrom, ErrorCheck, CanUnlock, PumpInv, Levels
  <2>2. stock >= 0
    BY <1>0, <2>1, TankAssumption, NaNAssumption DEF Sufficient, Below, Drops
  <2> QED
    BY <2>1, <2>2 DEF BooksInv, Unbooked, Filled, Fraction, InSupply
<1>5. CASE Poll
  <2>1. /\ UNCHANGED <<stock, amount, drawn, poured, fills>>
        /\ InSupply' = InSupply /\ (pc' = "press" => pc = "press")
    BY <1>5 DEF Poll, history, InSupply
  <2> QED
    BY <1>1, <2>1
<1>6. CASE GiveUp
  <2>1. /\ UNCHANGED <<stock, drawn, fills, poured>>
        /\ pc = "press" /\ pc' = "ready"
    BY <1>6 DEF GiveUp, ErrorCheck, CanLock, PumpInv, Levels
  <2> QED
    BY <2>1 DEF BooksInv, Unbooked, Filled, Fraction, InSupply
<1>7. CASE MotorOn
  <2>1. /\ UNCHANGED <<stock, amount, drawn, poured, fills>>
        /\ InSupply' = InSupply /\ (pc' = "press" => pc = "press")
    BY <1>7 DEF MotorOn, history, InSupply
  <2> QED
    BY <1>1, <2>1
<1>8. CASE PourDrop
  <2>1. /\ InSupply /\ InSupply' /\ pc' = "pour" /\ UNCHANGED stock
        /\ poured' = poured + 1 /\ drawn' = drawn + 1
        /\ fills' = IF poured = 0 THEN fills + 1 ELSE fills
    BY <1>8 DEF PourDrop, InSupply
  <2>2. amount' = poured'
    BY <1>0, <1>8, <2>1, NaNAssumption DEF PourDrop, Plus, BooksInv
  <2>3. Filled' = Filled /\ drawn' - Unbooked' = drawn - Unbooked /\ fills' > 0
    BY <1>0, <2>1 DEF Filled, Unbooked, BooksInv
  <2> QED
    BY <1>0, <2>1, <2>2, <2>3 DEF BooksInv, Fraction
<1>9. CASE MotorOff
  <2>1. /\ UNCHANGED <<stock, amount, drawn, poured, fills>>
        /\ InSupply' = InSupply /\ (pc' = "press" => pc = "press")
    BY <1>9 DEF MotorOff, history, InSupply
  <2> QED
    BY <1>1, <2>1
<1>10. CASE Settle
  <2> DEFINE whole == stock \div U
  <2>1. InSupply /\ pc' = "ready" /\ ~InSupply' /\ UNCHANGED <<drawn, poured, fills>>
    BY <1>10 DEF Settle, ErrorCheck, CanLock, PumpInv, Levels, InSupply
  <2>2. GetStock = {whole}
    <3>1. stock # NaN /\ stock >= 0 /\ ~Below(stock, 0)
      BY <1>0, <2>1, NaNAssumption DEF BooksInv, Below
    <3> QED
      BY <3>1 DEF GetStock
  <2>3. SetStock(Minus(Drops(whole), amount))
    <3>1. PICK litres \in GetStock :
             ErrorCheck(CanLock,
               /\ SetStock(Minus(Drops(litres), amount))
               /\ Lock
               /\ pc' = "ready" /\ ret' = "OK"
               /\ UNCHANGED <<relay, amount, elapsed, drawn, poured, fills>>)
      BY <1>10 DEF Settle
    <3>2. SetStock(Minus(Drops(litres), amount))
      BY <1>10, <3>1 DEF Settle, ErrorCheck, CanLock, PumpInv, Levels
    <3>3. litres = whole
      BY <2>2
    <3> QED
      BY <3>2, <3>3
  <2>4. whole \in Int /\ Drops(whole) \in Int /\ stock = Drops(whole) + Fraction(stock)
        /\ Fraction(stock) \in 0..U - 1
    <3>1. whole \in Int /\ stock = Drops(whole) + Fraction(stock) /\ Fraction(stock) \in 0..U - 1
      BY <1>0, Division
    <3>2. Drops(whole) \in Int
      BY <1>0, <3>1 DEF Drops
    <3> QED
      BY <3>1, <3>2
  <2>5. Minus(Drops(whole), amount) = Drops(whole) - poured
    BY <1>0, <2>1, <2>4, NaNAssumption DEF Minus, BooksInv
  <2>6. stock' = Drops(whole) - poured
    <3>1. ~Below(Drops(Capacity), Drops(whole) - poured)
      BY <1>0, <2>4, TankAssumption, NaNAssumption
      DEF PumpInv, WithinCapacity, Below, Drops
    <3> QED
      BY <2>3, <2>5, <3>1 DEF SetStock
  <2>7. stock' \in Int /\ stock' <= S - drawn
    BY <1>0, <2>1, <2>4, <2>6 DEF BooksInv, Unbooked
  <2>8. S - drawn - stock' + Fraction(stock') <= fills * (U - 1)
    <3>1. S - drawn - stock' <= Filled * (U - 1)
      BY <1>0, <2>1, <2>4, <2>6 DEF BooksInv, Unbooked
    <3>2. CASE poured = 0
      <4>1. Fraction(stock') = 0
        BY <2>4, <2>6, <3>2, WholeLitres
      <4> QED
        BY <1>0, <2>1, <2>7, <3>1, <3>2, <4>1 DEF Filled
    <3>3. CASE poured > 0
      <4>1. Fraction(stock') \in 0..U - 1
        BY <2>7, Division
      <4>2. Filled = fills - 1
        BY <2>1, <3>3 DEF Filled
      <4>3. (fills - 1) * (U - 1) + (U - 1) = fills * (U - 1)
        BY <1>0
      <4> QED
        BY <1>0, <2>7, <3>1, <4>1, <4>2, <4>3
    <3> QED
      BY <1>0, <3>2, <3>3
  <2> QED
    BY <1>0, <2>1, <2>7, <2>8 DEF BooksInv, Unbooked, Filled, Fraction
<1>11. CASE Press \/ Release
  <2>1. /\ UNCHANGED <<stock, amount, drawn, poured, fills>>
        /\ InSupply' = InSupply /\ (pc' = "press" => pc = "press")
    BY <1>11 DEF Press, Release, pumpVars, history, InSupply
  <2> QED
    BY <1>1, <2>1
<1>12. CASE PowerCycle
  <2>1. stock' = S /\ drawn' = 0 /\ poured' = 0 /\ fills' = 0 /\ ~InSupply'
    BY <1>12 DEF PowerCycle, Start, Constructed, InSupply
  <2>2. Fraction(S) = 0
    BY WholeLitres, TankAssumption
  <2> QED
    BY <1>0, <2>1, <2>2 DEF BooksInv, Unbooked, Filled, Fraction
<1>13. CASE UNCHANGED vars
  <2>1. /\ UNCHANGED <<stock, amount, drawn, poured, fills>>
        /\ InSupply' = InSupply /\ (pc' = "press" => pc = "press")
    BY <1>13 DEF vars, pumpVars, history, InSupply
  <2> QED
    BY <1>1, <2>1
<1> QED
  BY <1>2, <1>3, <1>4, <1>5, <1>6, <1>7, <1>8, <1>9, <1>10, <1>11, <1>12, <1>13
  DEF Next, Proceed

LEMMA BooksInit == Init => BooksInv
<1>1. Fraction(Drops(Stock)) = 0
  BY WholeLitres, TankAssumption
<1> QED
  BY <1>1, TankAssumption
  DEF Init, Constructed, BooksInv, InSupply, Unbooked, Filled, Fraction, Drops

(* With a caller that passes zero, and no deliveries, the books never      *)
(* claim more than is left, and lose less than a litre for each supply     *)
(* that poured: any tank, any litre, any number of supplies.               *)
THEOREM PumpBooks ==
  ASSUME Residue \subseteq {0}, Deliveries = {}
  PROVE  Spec => [](BooksConservative /\ DriftBounded)
<1>1. PumpInv /\ BooksInv => BooksConservative /\ DriftBounded
  <2> SUFFICES ASSUME PumpInv, BooksInv, pc \in {"ready", "press"}
               PROVE  /\ stock <= Drops(Stock) - drawn
                      /\ Drops(Stock) - drawn - stock <= fills * (UnitsPerLitre - 1)
    BY DEF BooksConservative, DriftBounded
  <2>1. drawn \in Nat /\ fills \in Nat /\ Unbooked = 0 /\ Filled = fills
    BY DEF PumpInv, TypeOK, BooksInv, Unbooked, Filled, InSupply
  <2>2. Fraction(stock) >= 0 /\ stock \in Int /\ Fraction(stock) \in Int
    BY Division, TankAssumption DEF BooksInv
  <2>3. Drops(Stock) \in Int /\ fills * (UnitsPerLitre - 1) \in Int
    BY <2>1, TankAssumption DEF Drops
  <2> QED
    BY <2>1, <2>2, <2>3 DEF BooksInv
<1> QED
  BY <1>1, InitInv, NextInv, BooksInit, BooksNext, PTL DEF Spec

(* ... in particular, the drift of the books is less than a litre for each *)
(* supply that poured.                                                     *)
THEOREM PumpDrift ==
  ASSUME Residue \subseteq {0}, Deliveries = {}
  PROVE  Spec => []DriftBounded
<1>1. Spec => [](BooksConservative /\ DriftBounded)
  BY PumpBooks
<1>2. BooksConservative /\ DriftBounded => DriftBounded
  OBVIOUS
<1> QED
  BY <1>1, <1>2, PTL
=============================================================================
