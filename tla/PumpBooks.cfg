\* The books of a pump whose caller passes zero.
CONSTANTS
  UnitsPerLitre = 3
  Capacity = 5
  Stock = 5
  MinSupply = 1
  MaxSupply = 1
  Word = 16
  NaN = NaN
  Residue <- ZeroResidue
  Unrepresentable <- SomeLitres
  Deliveries <- NoDeliveries
  WaitPolls = 1
  MaxDrawn = 18
SPECIFICATION Spec
INVARIANTS BooksConservative DriftBounded
