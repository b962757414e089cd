\* As PluginHost.cfg, with one release to install and one tool call.
CONSTANTS
  i1 = i1
  b1 = b1
  b2 = b2
  Ids = {i1}
  Binaries = {b1, b2}
  IdOf <- VersionsOnly
  Subscribed = {b1}
  Slots = {s1, s2}
  Operators = {o1}
  Clients = {k1, k2}
  NoSlot = NoSlot
  NoBinary = NoBinary
  NoId = NoId
  Instances = {n1, n2}
  Sessions = {"default", "agent-event"}
  MaxInvocations = 1
  MaxMessages = 2
  MaxHistory = 2
  Missing = Missing
  algo = algo
  echo = echo
  algo1 = algo1
  algo2 = algo2
  algo3 = algo3
  echo1 = echo1
  echo2 = echo2
  algoFile = algoFile
  echoFile = echoFile
  ManifestId <- Manifests
  Releases <- Published
  WrongAbi = {}
  Malformed = {}
  Overreaching = {algo3}
  Importers = {echo2}
  Uninstallable <- OwnFiles
  Processes = {p1, p2}
  MaxCommands = 1
  Absent = Absent
  Torn = Torn
  PluginNames = {1, 2, 3}
  MaxDependencies = 1
SPECIFICATION HostSpec
SYMMETRY Alike
PROPERTY InstallReachesHost
CHECK_DEADLOCK FALSE
