\* The hub plugin and more answers in one poll than the bus has room for.
CONSTANTS
  Registered <- HubAlone
  TransportHangs = FALSE
  Capacity = 2
  MaxMessages = 3
  MaxInjected = 0
SPECIFICATION FairSpec
PROPERTY ShutdownCompletes
CHECK_DEADLOCK FALSE
