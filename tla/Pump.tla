-------------------------------- MODULE Pump --------------------------------
(***************************************************************************)
(* The class PumpInteraction of the firmware: the lock, the status LED,    *)
(* the motor relay and the stock book-keeping of one gas pump, and the     *)
(* blocking call supply_fuel that unlocks the pump, waits for the button,  *)
(* runs the motor while the button is held and books the amount.           *)
(*                                                                         *)
(* Volumes are counted in drops, the 0.01 litre that one turn of the       *)
(* pouring loop adds; a C double is an integer number of drops or NaN.     *)
(***************************************************************************)
EXTENDS Integers

CONSTANTS
  UnitsPerLitre,  \* drops in a litre (100 in the code)
  Capacity,       \* litres, the build flag CAPACITY
  Stock,          \* litres, the build flag STOCK
  MinSupply,      \* litres, MIN_FUEL_SUPPLY_IN_LITERS
  MaxSupply,      \* litres, MAX_FUEL_SUPPLY_IN_LITERS, which no code reads
  Word,           \* 2^32 for a uint32_t
  NaN,            \* the double that is not a number
  Residue,        \* what the caller's variable may hold when the call starts
  Unrepresentable,\* litres that a double outside uint32_t may convert to
  Deliveries,     \* litres a replenishment may bring
  WaitPolls,      \* polls of the button in the 60 s window
  MaxDrawn        \* bound: drops poured between two restarts (none in the code)

Double == Int \cup {NaN}

ASSUME NaNAssumption == NaN \notin Int
ASSUME TankAssumption ==
  /\ UnitsPerLitre \in Nat \ {0}
  /\ Capacity \in Nat
  /\ Stock \in 0..Capacity
  /\ MinSupply \in Nat \ {0} /\ MaxSupply \in Nat
ASSUME WordAssumption ==
  /\ Word \in Nat /\ Capacity < Word
  /\ Unrepresentable \in SUBSET (0..Word - 1) /\ Unrepresentable # {}
  /\ Deliveries \in SUBSET (0..Word - 1)
ASSUME CallAssumption ==
  /\ Residue \in SUBSET Double
  /\ WaitPolls \in Nat
  /\ MaxDrawn \in Nat

VARIABLES
  pc,       \* where the firmware is in the class
  locked,   \* the member `locked`: TRUE once lock_pump ran
  led,      \* level of the status LED pin
  relay,    \* level of the motor relay pin
  stock,    \* the member `stock`, in drops
  amount,   \* the variable suppliedAmount refers to
  elapsed,  \* polls since the pump was unlocked
  ret,      \* what the last call returned
  button,   \* environment: the customer holds the button
  reason,   \* history: why the firmware last started
  drawn,    \* history: drops poured since then
  poured,   \* history: drops poured in the current supply
  fills     \* history: supplies since then that poured anything

pumpVars == <<pc, locked, led, relay, stock, amount, elapsed, ret>>
history  == <<reason, drawn, poured, fills>>
vars     == <<pumpVars, button, history>>

Drops(litres) == litres * UnitsPerLitre

-----------------------------------------------------------------------------
(* Arithmetic on doubles as the class uses it.                             *)

Plus(a, b)  == IF a = NaN \/ b = NaN THEN NaN ELSE a + b
Minus(a, b) == IF a = NaN \/ b = NaN THEN NaN ELSE a - b
Below(a, b) == a # NaN /\ b # NaN /\ a < b

(* get_stock returns the double member as uint32_t: the fraction is        *)
(* dropped, and a value no uint32_t can hold gives any of Unrepresentable. *)
GetStockRounded == {(stock + UnitsPerLitre - 1) \div UnitsPerLitre} \* mutant
GetStockSigned == IF stock = NaN THEN {0} ELSE {stock \div UnitsPerLitre} \* mutant
GetStock ==
  CASE stock = NaN                     -> Unrepresentable
    [] stock # NaN /\ stock >= 0       -> {stock \div UnitsPerLitre}
    [] Below(stock, 0) /\ Below(-UnitsPerLitre, stock) -> {0}
    [] OTHER                           -> Unrepresentable

(* set_stock refuses what is above the capacity and keeps the old value.   *)
SetStockUnguarded(s) == stock' = s \* mutant
SetStock(s) == stock' = IF Below(Drops(Capacity), s) THEN stock ELSE s

-----------------------------------------------------------------------------
(* Power on, and every restart: the global object is constructed anew, its *)
(* `locked` is the zero of static storage, the pins are inputs.            *)
Constructed(why) ==
  [pc |-> "reset", locked |-> FALSE, led |-> "FLOAT", relay |-> "FLOAT",
   stock |-> Drops(Stock), amount |-> 0, elapsed |-> 0, ret |-> "NONE",
   reason |-> why, drawn |-> 0, poured |-> 0, fills |-> 0]

Init ==
  LET c == Constructed("POWER") IN
  /\ pc = c.pc /\ locked = c.locked /\ led = c.led /\ relay = c.relay
  /\ stock = c.stock /\ amount = c.amount /\ elapsed = c.elapsed /\ ret = c.ret
  /\ reason = c.reason /\ drawn = c.drawn /\ poured = c.poured /\ fills = c.fills
  /\ button \in BOOLEAN

Start(why) ==
  LET c == Constructed(why) IN
  /\ pc' = c.pc /\ locked' = c.locked /\ led' = c.led /\ relay' = c.relay
  /\ stock' = c.stock /\ amount' = c.amount /\ elapsed' = c.elapsed /\ ret' = c.ret
  /\ reason' = c.reason /\ drawn' = c.drawn /\ poured' = c.poured /\ fills' = c.fills

(* Both report ESP_FAIL, and do nothing, in the state they would lead to.  *)
LockTestInverted == locked \* mutant
CanLock   == ~locked
CanUnlock == locked
Lock      == locked' = TRUE /\ led' = "LOW"
Unlock    == locked' = FALSE /\ led' = "HIGH"

(* ESP_ERROR_CHECK: the firmware aborts, and so restarts, on a failure.    *)
ErrorCheck(ok, step) == IF ok THEN step /\ UNCHANGED reason ELSE Start("ABORT")

(* init_pump: the relay pin is driven for the first time since the reset.  *)
InitPump ==
  /\ pc = "reset"
  /\ ErrorCheck(CanLock,
       /\ relay' = "LOW"
       /\ Lock
       /\ pc' = "ready" /\ ret' = "OK"
       /\ UNCHANGED <<stock, amount, elapsed, drawn, poured, fills>>)
  /\ UNCHANGED button

(* supply_fuel up to the wait for the button; r is what the caller's       *)
(* variable holds, which the pouring loop then adds to.                    *)
NotEmpty == ~Below(stock, 1) \* mutant
Sufficient == ~Below(stock, Drops(MinSupply))
AmountKept(r) == amount' = amount \* mutant
AmountFrom(r) == amount' = r

RefuseSupply(r) ==
  /\ pc = "ready"
  /\ ~Sufficient
  /\ AmountFrom(r) /\ ret' = "FAIL"
  /\ UNCHANGED <<pc, locked, led, relay, stock, elapsed, button, history>>

AdmitSupply(r) ==
  /\ pc = "ready"
  /\ Sufficient
  /\ ErrorCheck(CanUnlock,
       /\ Unlock
       /\ AmountFrom(r) /\ elapsed' = 0 /\ poured' = 0
       /\ pc' = "press" /\ ret' = "NONE"
       /\ UNCHANGED <<relay, stock, drawn, fills>>)
  /\ UNCHANGED button

(* The window of 60 seconds: one poll of the button that finds it up.      *)
PollOnceMore == \* mutant
  /\ pc = "press" /\ ~button /\ elapsed <= WaitPolls
  /\ elapsed' = elapsed + 1
  /\ UNCHANGED <<pc, locked, led, relay, stock, amount, ret, button, history>>
PollFromNow == \* mutant
  /\ pc = "press" /\ ~button /\ elapsed < WaitPolls
  /\ elapsed' = 0
  /\ UNCHANGED <<pc, locked, led, relay, stock, amount, ret, button, history>>
Poll ==
  /\ pc = "press" /\ ~button /\ elapsed < WaitPolls
  /\ elapsed' = elapsed + 1
  /\ UNCHANGED <<pc, locked, led, relay, stock, amount, ret, button, history>>

GiveUpUnlocked == \* mutant
  /\ pc = "press" /\ elapsed = WaitPolls
  /\ pc' = "ready" /\ ret' = "FAIL"
  /\ UNCHANGED <<locked, led, relay, stock, amount, elapsed, button, history>>
GiveUp ==
  /\ pc = "press" /\ elapsed = WaitPolls
  /\ ErrorCheck(CanLock,
       /\ Lock
       /\ pc' = "ready" /\ ret' = "FAIL"
       /\ UNCHANGED <<relay, stock, amount, elapsed, drawn, poured, fills>>)
  /\ UNCHANGED button

MotorOn ==
  /\ pc = "press" /\ button /\ elapsed < WaitPolls
  /\ relay' = "HIGH" /\ pc' = "pour"
  /\ UNCHANGED <<locked, led, stock, amount, elapsed, ret, button, history>>

(* One turn of the pouring loop. Only the button ends the loop in the      *)
(* code; MaxDrawn bounds it here.                                          *)
PourAndBook == \* mutant
  /\ pc = "pour" /\ button /\ drawn < MaxDrawn
  /\ SetStock(Minus(stock, 1))
  /\ amount' = Plus(amount, 1)
  /\ poured' = poured + 1 /\ drawn' = drawn + 1
  /\ fills' = IF poured = 0 THEN fills + 1 ELSE fills
  /\ UNCHANGED <<pc, locked, led, relay, elapsed, ret, button, reason>>
PourDrop ==
  /\ pc = "pour" /\ button /\ drawn < MaxDrawn
  /\ amount' = Plus(amount, 1)
  /\ poured' = poured + 1 /\ drawn' = drawn + 1
  /\ fills' = IF poured = 0 THEN fills + 1 ELSE fills
  /\ UNCHANGED <<pc, locked, led, relay, stock, elapsed, ret, button, reason>>

MotorLeftOn == \* mutant
  /\ pc = "pour" /\ ~button
  /\ pc' = "settle"
  /\ UNCHANGED <<locked, led, relay, stock, amount, elapsed, ret, button, history>>
MotorOff ==
  /\ pc = "pour" /\ ~button
  /\ relay' = "LOW" /\ pc' = "settle"
  /\ UNCHANGED <<locked, led, stock, amount, elapsed, ret, button, history>>

(* The tail of supply_fuel: the result of set_stock is not looked at.      *)
Settle ==
  /\ pc = "settle"
  /\ \E litres \in GetStock :
       ErrorCheck(CanLock,
         /\ SetStock(Minus(Drops(litres), amount))
         /\ Lock
         /\ pc' = "ready" /\ ret' = "OK"
         /\ UNCHANGED <<relay, amount, elapsed, drawn, poured, fills>>)
  /\ UNCHANGED button

(* replenish_stock, an operation the class offers and the firmware never   *)
(* calls: the sum is a uint32_t.                                           *)
ReplenishStock(litres) ==
  /\ pc = "ready"
  /\ \E held \in GetStock :
       LET sum == Drops((held + litres) % Word) IN
       /\ SetStock(sum)
       /\ ret' = IF Below(Drops(Capacity), sum) THEN "FAIL" ELSE "OK"
  /\ UNCHANGED <<pc, locked, led, relay, amount, elapsed, button, history>>

-----------------------------------------------------------------------------
(* The environment: the customer at the button, and the power supply.      *)
Press   == ~button /\ button' = TRUE /\ UNCHANGED <<pumpVars, history>>
Release == button /\ button' = FALSE /\ UNCHANGED <<pumpVars, history>>
PowerCycle == Start("POWER") /\ UNCHANGED button

(* The steps the firmware takes by itself inside a call.                   *)
Proceed == Poll \/ GiveUp \/ MotorOn \/ PourDrop \/ MotorOff \/ Settle

Next ==
  \/ InitPump
  \/ \E r \in Residue : RefuseSupply(r) \/ AdmitSupply(r)
  \/ \E litres \in Deliveries : ReplenishStock(litres)
  \/ Proceed
  \/ Press \/ Release \/ PowerCycle

Spec == Init /\ [][Next]_vars

(* The processor keeps running, a customer does not hold the button for    *)
(* ever, and a loop that reads the button again and again sees it up.      *)
FairSpec == Spec /\ WF_vars(Proceed) /\ WF_vars(Release) /\ SF_vars(MotorOff)

-----------------------------------------------------------------------------
TypeOK ==
  /\ pc \in {"reset", "ready", "press", "pour", "settle"}
  /\ locked \in BOOLEAN /\ button \in BOOLEAN
  /\ led \in {"FLOAT", "LOW", "HIGH"} /\ relay \in {"FLOAT", "LOW", "HIGH"}
  /\ stock \in Double /\ amount \in Double
  /\ elapsed \in 0..WaitPolls
  /\ ret \in {"NONE", "OK", "FAIL"} /\ reason \in {"POWER", "ABORT", "PAYLOAD"}
  /\ drawn \in 0..MaxDrawn /\ fills \in Nat /\ poured \in Nat

(* The LED, the member `locked` and the relay agree at every step: the     *)
(* motor can run only while the pump is unlocked and shown as such, and    *)
(* once no call is active everything is off again (supply_fuel, 84-125).   *)
Interlock ==
  /\ relay = "HIGH" => ~locked /\ led = "HIGH"
  /\ pc = "ready" => locked /\ led = "LOW" /\ relay = "LOW"
  /\ led = "HIGH" => ~locked

(* No ESP_ERROR_CHECK of the class ever fires: unlock_pump and lock_pump   *)
(* are always called in the state they accept (lines 28, 84, 100, 125), so *)
(* the pump never restarts itself in the middle of a supply.               *)
NeverAborts == reason # "ABORT"

(* Whatever the caller's variable held, and whatever is delivered, the     *)
(* stock on the books never exceeds the tank (the guard of set_stock).     *)
WithinCapacity == ~Below(Drops(Capacity), stock)

(* A pump is unlocked only with a litre on the books, however the books    *)
(* came about; a stock that is not a number slips through (line 81).       *)
UnlockedWithStock ==
  pc \in {"press", "pour", "settle"} => stock = NaN \/ stock >= Drops(MinSupply)

(* The books move only while the motor is off: no step changes the stock   *)
(* with the relay on, before or after it, unless the firmware restarts.    *)
BooksSettleDry ==
  [][stock' # stock /\ pc' # "reset" => relay # "HIGH" /\ relay' # "HIGH"]_vars

(* With a caller that passes zero and no deliveries, the books never claim *)
(* more than what is left of the initial stock once every supply is booked *)
(* (get_stock rounds down, line 123), at any number of supplies.           *)
BooksConservative ==
  pc \in {"ready", "press"} => stock <= Drops(Stock) - drawn

(* ... and every supply that poured costs the books less than one litre    *)
(* more than it poured: the drift line 123 builds up is bounded.           *)
DriftBounded ==
  pc \in {"ready", "press"} =>
    Drops(Stock) - drawn - stock <= fills * (UnitsPerLitre - 1)

(* PumpInteraction.h names a largest supply; a supply stays within it.     *)
WithinMaxSupply == poured <= Drops(MaxSupply)

(* The litres get_stock reports between two supplies are the whole litres  *)
(* that are left of the initial stock.                                     *)
StockIsCurrent ==
  pc = "ready" => GetStock = {(Drops(Stock) - drawn) \div UnitsPerLitre}

(* A supply that started comes back to its caller, or the power fails: the *)
(* window closes or the customer lets go (lines 92, 111).                  *)
SupplyReturns == pc = "press" ~> pc \in {"ready", "reset"}
=============================================================================
