CONSTANTS
  Digit = 128
  \* codec
  BufferSize = 40
  Publishes <- SomePublishes
  Connects <- ClientConnects
  Filters <- SomeFilters
  Subacks <- SomeSubacks
  Acks <- SomeAcks
  Connacks <- SomeConnacks
  Numbers <- SomeNumbers
  Asked = 1
  \* framing
  ReadBufSize = 8
  DropOptions = {TRUE, FALSE}
  BrokerPackets <- SomePackets
  MaxPackets = 3
  \* timers
  Half = 16
  Timeouts <- SomeTimeouts
  \* session
  MaxPacketId = 2
  QosLevels = {1, 2}
  MaxConnects = 3
  MaxPublishes = 2
  MaxMessages = 1
  \* keepAlive
  KeepAlive = 4
  Gap = 1
  Callback = 6
  Delay = 1
  Patience = 6
  MaxWaiting = 2
SPECIFICATION LibrarySpec
INVARIANTS Survives FramingInStep DeadlineErrors OpensWithConnect ConfirmedReceived
INVARIANTS RegisteredIsSubscribed AcksAwaited TimeoutIsReal DeadBrokerNoticed
PROPERTY BrokerStays
\* A client that has used up its bounds may stop.
CHECK_DEADLOCK FALSE
