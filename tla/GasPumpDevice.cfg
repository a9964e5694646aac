\* Safety of the whole thread under every kind of message, lost power and
\* lost connections.
CONSTANTS
  UnitsPerLitre = 1
  Capacity = 3
  Stock = 2
  MinSupply = 1
  MaxSupply = 1
  Word = 16
  NaN = NaN
  Residue <- AnyResidue
  Unrepresentable <- SomeLitres
  Deliveries <- NoDeliveries
  WaitPolls = 1
  MaxDrawn = 2
  Downlinks <- EveryKind
  MaxInbox = 3
  MaxSent = 2
  MaxOutages = 1
SPECIFICATION DeviceSpec
INVARIANTS DeviceTypeOK CallsOnReadyPump OpenOnlyForAuthorization QuietWhenReporting NoPhantomReports TimestampsAreReal SubscribedInLoop
PROPERTIES KeepsPromise
