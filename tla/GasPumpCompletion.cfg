\* Is every completed supply reported in the end?
CONSTANTS
  UnitsPerLitre = 1
  Capacity = 3
  Stock = 2
  MinSupply = 1
  MaxSupply = 1
  Word = 16
  NaN = NaN
  Residue <- ZeroResidue
  Unrepresentable <- SomeLitres
  Deliveries <- NoDeliveries
  WaitPolls = 1
  MaxDrawn = 1
  Downlinks <- OnlyGranted
  MaxInbox = 3
  MaxSent = 1
  MaxOutages = 0
SPECIFICATION DeviceFairSpec
PROPERTY CompletionReported
