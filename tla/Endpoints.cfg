\* A2A server: three tasks, with and without a hub, a store of two.  The agent's
\* bridge: two callers make three calls over two connections, where one unread
\* request fills the socket.  The server's: one life, in which it is connected
\* once, with two socket objects at a time; two lines may wait, so that a chunk
\* can hold an answer and a notification.
CONSTANTS
  Tasks = {t1, t2, t3}
  Capacity = 2
  MaxAttempts = 2
  Wide = {t1}
  MayHang = {t2}
  Callers = {c1, c2}
  MaxCalls = 3
  MaxConns = 2
  MaxUnread = 1
  Free = Free
  NSockets = 2
  Requests = {u1}
  Plugins = {p1}
  MaxConnects = 1
  MaxLines = 2
SPECIFICATION Spec
INVARIANT StoreConsistent
INVARIANT OpenTaskHasWorker
PROPERTY TasksEnd
PROPERTY ImplementsBoard
INVARIANT NothingPending
INVARIANT OneConnection
INVARIANT DisconnectedIsQuiet
PROPERTY AnswersOwnRequest
PROPERTY CallsReturn
CHECK_DEADLOCK FALSE
