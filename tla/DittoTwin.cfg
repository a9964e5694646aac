CONSTANTS
  Stock = 1
  OrderTypes <- SomeTypes
  MaxOrders = 2
  Redelivered = 1
  TwinDrops = 1
  DeviceDrops = 1
  Restarts = 1
SPECIFICATION FairSpec
INVARIANT OnlyAuthorizations
PROPERTIES Settles CatchesUp OrdersAnswered
\* The traffic of the last order comes to an end.
CHECK_DEADLOCK FALSE
