\* The class under any caller: every residue, and replenishments.
CONSTANTS
  UnitsPerLitre = 2
  Capacity = 4
  Stock = 3
  MinSupply = 1
  MaxSupply = 1
  Word = 16
  NaN = NaN
  Residue <- AnyResidue
  Unrepresentable <- SomeLitres
  Deliveries <- SomeDeliveries
  WaitPolls = 2
  MaxDrawn = 5
SPECIFICATION FairSpec
INVARIANTS TypeOK Interlock NeverAborts WithinCapacity UnlockedWithStock
PROPERTIES BooksSettleDry SupplyReturns
