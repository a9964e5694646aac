CONSTANTS
  \* client
  Answers <- SomeAnswers
  Frames <- SomeFrames
  MaxConnects = 2
  MaxFrames = 2
  \* frames
  Lengths <- SomeLengths
  MaxTransfers = 1
SPECIFICATION LibrarySpec
INVARIANTS ConnectedMeansAccepted NeverDeaf DeliveredInOrder NothingLeftBehind ReadAsSent TrueMeansWhole
PROPERTY HandshakeEnds
\* A client that has used up its connections may stop.
CHECK_DEADLOCK FALSE
