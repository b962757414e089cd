\* The two built-in plugins and one that hears everything, a hub and a transport that may hang.
CONSTANTS
  Registered <- BuiltInsAndTeller
  TransportHangs = TRUE
  Capacity = 4
  MaxMessages = 2
  MaxInjected = 1
SPECIFICATION FairSpec
INVARIANT ReceiptsMatchSends
INVARIANT DispatchIsComplete
PROPERTY StopsUnlessStuck
PROPERTY MessagesHandled
CHECK_DEADLOCK FALSE
