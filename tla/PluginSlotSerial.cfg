\* One admin connection, sequentially consistent accesses.
CONSTANTS
  Callers = {c1, c2, c3}
  Timed = {c1, c2}
  Admins = {a1}
  Modules = {m1, m2}
  StoreBuffer = FALSE
  Cancellation = TRUE
SPECIFICATION FairSpec
INVARIANT DrainedMeansQuiet
PROPERTY ImplementsGate
CHECK_DEADLOCK FALSE
