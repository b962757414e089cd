\* One operator connection and one client, whose calls may time out.
CONSTANTS
  i1 = i1
  b1 = b1
  b2 = b2
  Ids = {i1}
  Binaries = {b1, b2}
  IdOf <- VersionsOnly
  Subscribed = {b1}
  Slots = {s1, s2}
  Operators = {o1}
  Clients = {k1}
  NoSlot = NoSlot
  NoBinary = NoBinary
  NoId = NoId
SPECIFICATION Spec
INVARIANT OldCodeStopped
