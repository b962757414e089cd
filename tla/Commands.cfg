\* Wallet: two processes, two wallets, two good passwords and a short one, two
\* settings of two values.  Address book: the same processes, two contacts, one
\* group of the agent and a peer, two keys (values the passwords have too).  Funding: two amounts, three runs,
\* three rounds.  Discovery: two addresses, three transactions in any order, with
\* rounds before the first one asked for.
CONSTANTS
  ByteBits = 8
  WordBits = 11
  Buffer = 30
  SeedBytes = 3
  Checksum <- Sum
  Shells = {p1, p2}
  Seeds <- TwoSeeds
  Passwords = {s1, s2, short}
  Short = {short}
  Settings = {network, hub}
  Network = network
  Values = {default, other}
  Default = default
  NoFile = NoFile
  Empty = Empty
  Torn = Torn
  g1 = g1
  me = me
  a1 = a1
  Procs = {p1, p2}
  Names = {n1, n2}
  Groups = {g1}
  Addrs = {me, a1}
  Self = me
  Keys = {s1, s2}
  ContactFiles <- ShortContactFiles
  GroupFiles <- ShortGroupFiles
  None = None
  Bad = Bad
  Amounts = {small, large}
  MaxRuns = 3
  MaxRound = 2
  Addresses = {1, 2}
  NoAddress = 0
  Rounds = {1, 2, 3, 4}
  AfterRound = 1
  Limit = 3
SYMMETRY Alike
VIEW Telling
SPECIFICATION Spec
INVARIANT WalletReadable
INVARIANT SettingsSurvive
PROPERTY WalletKept
INVARIANT MembersHaveGroup
INVARIANT BackupFaithful
INVARIANT SentUnderRightKey
INVARIANT FundedAsReported
INVARIANT DiscoveredMatchesChain
CHECK_DEADLOCK FALSE
