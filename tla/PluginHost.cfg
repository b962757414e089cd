\* The registry with one operator, two versions of one plugin; tools in two
\* instances; two install processes with three commands between them; up to
\* three manifests with two dependencies each, listed or not, cyclic or not.
CONSTANTS
  i1 = i1
  b1 = b1
  b2 = b2
  Ids = {i1}
  Binaries = {b1, b2}
  IdOf <- VersionsOnly
  Subscribed = {b1}
  Slots = {s1, s2}
  Operators = {o1}
  Clients = {k1, k2}
  NoSlot = NoSlot
  NoBinary = NoBinary
  NoId = NoId
  Instances = {n1, n2}
  Sessions = {"default", "agent-event"}
  MaxInvocations = 3
  MaxMessages = 2
  MaxHistory = 2
  Missing = Missing
  algo = algo
  echo = echo
  algo1 = algo1
  algo2 = algo2
  algo3 = algo3
  echo1 = echo1
  echo2 = echo2
  algoFile = algoFile
  echoFile = echoFile
  ManifestId <- Manifests
  Releases <- Published
  WrongAbi = {}
  Malformed = {}
  Overreaching = {algo3}
  Importers = {echo2}
  Uninstallable <- OwnFiles
  Processes = {p1, p2}
  MaxCommands = 3
  Absent = Absent
  Torn = Torn
  PluginNames = {1, 2, 3}
  MaxDependencies = 2
SPECIFICATION HostSpec
SYMMETRY Alike
INVARIANT OneGeneration
INVARIANT ActiveIsListed
INVARIANT PromptAlternates
INVARIANT RemembersConversation
INVARIANT TrustedWasSigned
INVARIANT StartLoadsWhatItCan
INVARIANT LoadOrderRight
CHECK_DEADLOCK FALSE
