\* Two host processes and two lives of an agent; three messages from two senders.
CONSTANTS
  Hosts = {h1, h2}
  NoHost = NoHost
  MaxStarts = 2
  MaxExits = 2
  alice = alice
  bob = bob
  Conversations = {alice, bob}
  From <- Senders
  MaxMessages = 3
  MaxAttempts = 2
  MaxRuns = 2
  Nobody = Nobody
SPECIFICATION Spec
INVARIANT StoppedIsClean
INVARIANT AtMostOneReply
PROPERTY ShutdownReturns
PROPERTY HostComesBack
PROPERTY CatchesUp
CHECK_DEADLOCK FALSE
