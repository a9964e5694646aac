\* The connection comes back and every message is dealt with.
CONSTANTS
  UnitsPerLitre = 1
  Capacity = 3
  Stock = 2
  MinSupply = 1
  MaxSupply = 1
  Word = 16
  NaN = NaN
  Residue <- ZeroResidue
  Unrepresentable <- SomeLitres
  Deliveries <- NoDeliveries
  WaitPolls = 1
  MaxDrawn = 1
  Downlinks <- EveryKind
  MaxInbox = 3
  MaxSent = 1
  MaxOutages = 1
SPECIFICATION DeviceFairSpec
PROPERTIES Recovers CallbackReturns
