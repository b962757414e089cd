------------------------------ MODULE TsBridge ------------------------------
(***************************************************************************)
(* The server's client of the plugin host (rust-bridge.ts): one object, on *)
(* one thread, that keeps a connection up, matches responses to calls by   *)
(* id and mirrors the host's tools into a registry.  Events (of a socket,  *)
(* of a timer, of the server) run to completion one after the other; the   *)
(* continuations of promises they settle run before the next event.        *)
(***************************************************************************)
EXTENDS Naturals, Sequences, FiniteSets

CONSTANTS
  NSockets,       \* addresses of socket objects
  Requests,       \* calls of the server: invoke, listTools, healthCheck, ...
  Plugins,        \* plugins the host may report tools of
  MaxConnects,    \* bound: calls of connect
  MaxLines        \* bound: lines on their way from the host

ASSUME TsBridgeAssumption ==
  NSockets \in Nat \ {0} /\ MaxConnects \in Nat /\ MaxLines \in Nat \ {0}

Sockets == 1..NSockets

(* refreshTools runs once for every connection and whenever the server asks *)
(* for it (0); it makes two calls, one after the other.                     *)
Refreshes == 0..NSockets
Calls == (Refreshes \X {"list", "tools"}) \cup Requests

VARIABLES
  socket,         \* this.socket, 0 for null
  status,         \* status[k]: what has become of socket k
  closed,         \* this.closed
  timers,         \* reconnect timers running
  call,           \* call[c]: "pending" in this.pending, settled ("ok", "err")
                  \* while its continuation has not run, or "none"
  got,            \* got[c]: the plugins a settled call reported, and on what
                  \* socket
  requests,       \* requests[k]: calls written to k that wait for an answer
  lines,          \* lines[k]: lines from the host that have not been handled
  chunk,          \* the socket whose chunk of data is being handled, or 0
  tools,          \* tools[p]: the socket p's tools were reported on, 0 if none
  connects,       \* history: calls of connect
  late            \* history: sockets still connecting when disconnect was called

callVars == <<call, got>>
wireVars == <<requests, lines>>
tsVars == <<socket, status, closed, timers, callVars, wireVars, chunk, tools,
          connects, late>>

Response(c, P, ok) == [call |-> c, plugins |-> P, ok |-> ok]
Notification(P) == [call |-> <<>>, plugins |-> P, ok |-> TRUE]

Nothing == [plugins |-> {}, on |-> 0]

Settled == {c \in Calls : call[c] \in {"ok", "err"}}

(* The event loop may take the next event.                                  *)
Idle == chunk = 0 /\ Settled = {}

TsTypeOK ==
  /\ socket \in 0..NSockets
  /\ status \in [Sockets -> {"free", "connecting", "open", "lost"}]
  /\ closed \in BOOLEAN /\ timers \in Nat
  /\ call \in [Calls -> {"none", "pending", "ok", "err"}]
  /\ got \in [Calls -> [plugins : SUBSET Plugins, on : 0..NSockets]]
  /\ requests \in [Sockets -> SUBSET Calls]
  /\ \A k \in Sockets : Len(lines[k]) <= MaxLines
  /\ chunk \in 0..NSockets
  /\ tools \in [Plugins -> 0..NSockets]
  /\ connects \in 0..MaxConnects /\ late \in SUBSET Sockets
  /\ socket # 0 => status[socket] \in {"open", "lost"}

TsInit ==
  /\ socket = 0 /\ status = [k \in Sockets |-> "free"]
  /\ closed = FALSE /\ timers = 0
  /\ call = [c \in Calls |-> "none"]
  /\ got = [c \in Calls |-> Nothing]
  /\ requests = [k \in Sockets |-> {}]
  /\ lines = [k \in Sockets |-> <<>>]
  /\ chunk = 0 /\ tools = [p \in Plugins |-> 0]
  /\ connects = 0 /\ late = {}

-----------------------------------------------------------------------------
(* rpc: refused at once without a socket, or with one that is destroyed; a  *)
(* socket that is lost may or may not be known to be.                       *)
Rpc(c, s) ==
  \/ /\ s # 0 => status[s] = "lost"
     /\ call' = [call EXCEPT ![c] = "err"]
     /\ UNCHANGED requests
  \/ /\ s # 0
     /\ call' = [call EXCEPT ![c] = "pending"]
     /\ requests' = [requests EXCEPT ![s] = @ \cup {c}]

(* The pending calls are rejected, their number is cleared.                 *)
Rejected == [c \in Calls |-> IF call[c] = "pending" THEN "err" ELSE call[c]]

(* Ids are not used twice: a call may be made under the name c when nothing *)
(* is left of the last one.                                                 *)
Fresh(c) ==
  /\ call[c] = "none"
  /\ \A k \in Sockets :
       c \notin requests[k] /\ \A i \in DOMAIN lines[k] : lines[k][i].call # c

(* doConnect                                                                *)
Dial(k) ==
  /\ status[k] = "free" /\ Fresh(<<k, "list">>) /\ Fresh(<<k, "tools">>)
  /\ status' = [status EXCEPT ![k] = "connecting"]

(* Faulty variant: a timer that is running is not looked at.                *)
ScheduleAgain(n) == timers' = IF closed THEN timers ELSE timers + n

(* scheduleReconnect, called n times in a turn.                             *)
Schedule(n) == timers' = IF closed \/ timers > 0 THEN timers ELSE 1

(* unregisterAllTools                                                       *)
UnregisterAllTools == tools' = [p \in Plugins |-> 0]

ReleaseSocket == socket' = 0

(* Faulty variant: a timer that is running is forgotten.                    *)
ForgetTimer == UNCHANGED timers

ClearTimer == timers' = 0

-----------------------------------------------------------------------------
(* The server calls the bridge.                                             *)

Connect ==
  /\ Idle /\ connects < MaxConnects
  /\ connects' = connects + 1
  /\ closed' = FALSE
  /\ late' = {}
  /\ \E k \in Sockets : Dial(k)
  /\ UNCHANGED <<socket, timers, callVars, wireVars, chunk, tools>>

Disconnect ==
  /\ Idle /\ connects > 0 /\ ~closed
  /\ closed' = TRUE
  /\ ClearTimer
  /\ UnregisterAllTools
  /\ status' = IF socket = 0 THEN status ELSE [status EXCEPT ![socket] = "lost"]
  /\ ReleaseSocket
  /\ call' = Rejected
  /\ late' = {k \in Sockets : status[k] = "connecting"}
  /\ UNCHANGED <<got, wireVars, chunk, connects>>

Request(c) ==
  /\ Idle /\ Fresh(c)
  /\ Rpc(c, socket)
  /\ UNCHANGED <<socket, status, closed, timers, got, lines, chunk, tools,
                 connects, late>>

(* refreshTools, called by the server, up to its first await.               *)
Refresh ==
  /\ Idle /\ Fresh(<<0, "list">>) /\ Fresh(<<0, "tools">>)
  /\ UnregisterAllTools
  /\ Rpc(<<0, "list">>, socket)
  /\ UNCHANGED <<socket, status, closed, timers, got, lines, chunk, connects, late>>

-----------------------------------------------------------------------------
(* Events of sockets and timers.                                            *)

(* "connect": the socket is installed and refreshTools begins.              *)
Connected(k) ==
  /\ Idle /\ status[k] = "connecting"
  /\ status' = [status EXCEPT ![k] = "open"]
  /\ socket' = k
  /\ UnregisterAllTools
  /\ call' = [call EXCEPT ![<<k, "list">>] = "pending"]
  /\ requests' = [requests EXCEPT ![k] = @ \cup {<<k, "list">>}]
  /\ UNCHANGED <<closed, timers, got, lines, chunk, connects, late>>

(* The host ends the connection; what it has sent before may be lost.       *)
PeerCloses(k) ==
  /\ status[k] = "open" /\ chunk # k
  /\ status' = [status EXCEPT ![k] = "lost"]
  /\ UNCHANGED <<socket, closed, timers, callVars, wireVars, chunk, tools,
                 connects, late>>

(* "close", after a connection is lost or, with the "error" event before it *)
(* in the same turn, could not be made: scheduleReconnect is called by both *)
(* handlers.                                                                *)
Close(k) ==
  /\ Idle /\ status[k] \in {"connecting", "lost"}
  /\ status' = [status EXCEPT ![k] = "free"]
  /\ requests' = [requests EXCEPT ![k] = {}]
  /\ lines' = [lines EXCEPT ![k] = <<>>]
  /\ ReleaseSocket
  /\ call' = Rejected
  /\ UnregisterAllTools
  /\ Schedule(IF status[k] = "connecting" /\ socket = 0 THEN 2 ELSE 1)
  /\ UNCHANGED <<closed, got, chunk, connects, late>>

TimerFires ==
  /\ Idle /\ timers > 0
  /\ timers' = timers - 1
  /\ \E k \in Sockets : Dial(k)
  /\ UNCHANGED <<socket, closed, callVars, wireVars, chunk, tools, connects, late>>

CallTimesOut(c) ==
  /\ Idle /\ call[c] = "pending"
  /\ call' = [call EXCEPT ![c] = "err"]
  /\ UNCHANGED <<socket, status, closed, timers, got, wireVars, chunk, tools,
                 connects, late>>

(* handleData has found the buffer too long and destroys the socket that is *)
(* installed.                                                               *)
Overflow(k) ==
  /\ Idle /\ status[k] = "open" /\ socket # 0
  /\ status' = [status EXCEPT ![socket] = "lost"]
  /\ UNCHANGED <<socket, closed, timers, callVars, wireVars, chunk, tools,
                 connects, late>>

(* handleData takes a line, the first one of a chunk or the next.  A        *)
(* response to no pending call is dropped; a notification replaces  *)
(* the tools of its plugin, by none if it lists none.                       *)
Line(k) ==
  /\ chunk = k \/ Idle
  /\ status[k] = "open" /\ lines[k] # <<>>
  /\ LET l == Head(lines[k]) IN
       /\ lines' = [lines EXCEPT ![k] = Tail(@)]
       /\ chunk' \in {0} \cup (IF Len(lines[k]) > 1 THEN {k} ELSE {})
       /\ \/ /\ l.call = <<>>
             /\ \E t \in {0, k} :
                  tools' = [p \in Plugins |-> IF p \in l.plugins THEN t ELSE tools[p]]
             /\ UNCHANGED <<call, got>>
          \/ /\ l.call # <<>> /\ call[l.call] = "pending"
             /\ call' = [call EXCEPT ![l.call] = IF l.ok THEN "ok" ELSE "err"]
             /\ got' = [got EXCEPT ![l.call] = [plugins |-> l.plugins, on |-> k]]
             /\ UNCHANGED tools
          \/ /\ l.call # <<>> /\ call[l.call] # "pending"
             /\ UNCHANGED <<call, got, tools>>
  /\ UNCHANGED <<socket, status, closed, timers, requests, connects, late>>

-----------------------------------------------------------------------------
(* The rest of refreshTools, and the server's own awaits.                   *)

ListArrived(r) ==
  /\ chunk = 0 /\ call[<<r, "list">>] = "ok"
  /\ LET l == <<r, "list">>  t == <<r, "tools">> IN
       /\ call[t] = "none"
       /\ \/ /\ socket # 0 => status[socket] = "lost"
             /\ call' = [call EXCEPT ![l] = "none", ![t] = "err"]
             /\ UNCHANGED requests
          \/ /\ socket # 0
             /\ call' = [call EXCEPT ![l] = "none", ![t] = "pending"]
             /\ requests' = [requests EXCEPT ![socket] = @ \cup {t}]
       /\ got' = [got EXCEPT ![l] = Nothing]
  /\ UNCHANGED <<socket, status, closed, timers, lines, chunk, tools, connects,
                 late>>

ToolsArrived(r) ==
  /\ chunk = 0 /\ call[<<r, "tools">>] = "ok"
  /\ LET t == <<r, "tools">> IN
       /\ tools' = [p \in Plugins |-> IF p \in got[t].plugins THEN got[t].on ELSE tools[p]]
       /\ call' = [call EXCEPT ![t] = "none"]
       /\ got' = [got EXCEPT ![t] = Nothing]
  /\ UNCHANGED <<socket, status, closed, timers, wireVars, chunk, connects, late>>

(* A refresh that fails is only logged; a request is the server's business. *)
CallDone(c) ==
  /\ chunk = 0
  /\ call[c] = "err" \/ (c \in Requests /\ call[c] = "ok")
  /\ call' = [call EXCEPT ![c] = "none"]
  /\ got' = [got EXCEPT ![c] = Nothing]
  /\ UNCHANGED <<socket, status, closed, timers, wireVars, chunk, tools, connects,
                 late>>

-----------------------------------------------------------------------------
(* The host answers in any order, with tools of any of its plugins, late or *)
(* never, and pushes notifications.  What it sends while a chunk is handled *)
(* is not part of it.                                                       *)

Answer(k, c, P, ok) ==
  /\ status[k] = "open" /\ c \in requests[k] /\ Len(lines[k]) < MaxLines /\ chunk # k
  /\ requests' = [requests EXCEPT ![k] = @ \ {c}]
  /\ lines' = [lines EXCEPT ![k] = Append(@, Response(c, P, ok))]
  /\ UNCHANGED <<socket, status, closed, timers, callVars, chunk, tools, connects, late>>

Notify(k, p) ==
  /\ status[k] = "open" /\ Len(lines[k]) < MaxLines /\ chunk # k
  /\ lines' = [lines EXCEPT ![k] = Append(@, Notification({p}))]
  /\ UNCHANGED <<socket, status, closed, timers, callVars, requests, chunk, tools,
                 connects, late>>

-----------------------------------------------------------------------------
TsNext ==
  \/ Connect \/ Disconnect \/ Refresh \/ TimerFires
  \/ \E c \in Requests : Request(c)
  \/ \E k \in Sockets : \/ Connected(k) \/ PeerCloses(k)
                        \/ Close(k) \/ Overflow(k) \/ Line(k)
  \/ \E c \in Calls : CallTimesOut(c) \/ CallDone(c)
  \/ \E r \in Refreshes : ListArrived(r) \/ ToolsArrived(r)
  \/ \E k \in Sockets : \E c \in requests[k] :
       \/ Answer(k, c, {}, FALSE)
       \/ \E P \in SUBSET Plugins :
            (P = {} \/ c \in Refreshes \X {"tools"}) /\ Answer(k, c, P, TRUE)
  \/ \E k \in Sockets, p \in Plugins : Notify(k, p)

TsSpec == TsInit /\ [][TsNext]_tsVars

-----------------------------------------------------------------------------
(* A bridge that has been connected, once, has exactly one connection, or    *)
(* one attempt at it, or one timer that will make the next attempt: a        *)
(* connection that is lost or fails is always tried again, and never twice   *)
(* (scheduleReconnect, which the handlers of "error" and "close" both call). *)
(* And nothing belongs to a connection that is gone: what is pending was     *)
(* written to the socket that is installed, whose end rejects it, and every  *)
(* registered tool was reported on it, even when an answer, a notification   *)
(* and the loss of the connection meet.                                      *)
OneConnection ==
  /\ TsTypeOK
  /\ connects > 0 /\ ~closed =>
       timers + Cardinality({k \in Sockets : status[k] # "free"}) = 1
  /\ \A c \in Calls : call[c] = "pending" =>
       socket # 0 /\ \A k \in Sockets \ {socket} : c \notin requests[k]
  /\ \A p \in Plugins : tools[p] # 0 => tools[p] = socket

(* After disconnect nothing starts again: no timer runs, and the only        *)
(* connection that may still come up, with the calls made on it, is one that *)
(* was being made when disconnect was called.                                *)
DisconnectedIsQuiet ==
  closed =>
    /\ timers = 0
    /\ \A k \in Sockets : status[k] \in {"connecting", "open"} => k \in late
    /\ socket = 0 => \A p \in Plugins : tools[p] = 0
=============================================================================
