\* Two admin connections, dropped reloads and unloads, delayed stores, plugin code that may hang.
CONSTANTS
  Callers = {c1, c2}
  Timed = {c1}
  Admins = {a1, a2}
  Modules = {m1}
  StoreBuffer = TRUE
  Cancellation = TRUE
SPECIFICATION FairSpec
INVARIANT CountMatchesCalls
INVARIANT RefusalHasOwner
PROPERTY DrainReturns
PROPERTY InvokeAnswered
CHECK_DEADLOCK FALSE
