\* Two admin connections, sequential accesses.
CONSTANTS
  Callers = {c1}
  Timed = {c1}
  Admins = {a1, a2}
  Modules = {m1, m2}
  StoreBuffer = FALSE
  Cancellation = FALSE
SPECIFICATION Spec
INVARIANT DrainedMeansQuiet
CHECK_DEADLOCK FALSE
