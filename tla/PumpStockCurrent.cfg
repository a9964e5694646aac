\* Is the reported stock what is left of the initial stock?
CONSTANTS
  UnitsPerLitre = 3
  Capacity = 5
  Stock = 5
  MinSupply = 1
  MaxSupply = 1
  Word = 16
  NaN = NaN
  Residue <- ZeroResidue
  Unrepresentable <- SomeLitres
  Deliveries <- NoDeliveries
  WaitPolls = 1
  MaxDrawn = 18
SPECIFICATION Spec
INVARIANT StockIsCurrent
