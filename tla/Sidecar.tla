------------------------------- MODULE Sidecar -------------------------------
(***************************************************************************)
(* The life of an agent and of its plugin host: cmd_run (main.rs) from its *)
(* start to its end, the supervisor task it spawns (sidecar.rs), and the   *)
(* start of the host process.  The socket file is left where it is by a    *)
(* host that dies, and an agent that is killed leaves its host behind.     *)
(***************************************************************************)
EXTENDS Naturals

CONSTANTS
  Hosts,          \* host processes that can exist at a time
  NoHost,         \* no such process, or no socket file
  MaxStarts,      \* bound: how often the agent is started
  MaxExits        \* bound: how often a host exits by itself

ASSUME SidecarAssumption ==
  MaxStarts \in Nat /\ MaxExits \in Nat /\ NoHost \notin Hosts

VARIABLES
  agent,          \* how far cmd_run has come
  sup,            \* where the supervisor task is
  backoff,        \* its backoff, in seconds
  child,          \* its host process
  host,           \* host[h]: how far the process has come
  socket,         \* the host that has made the file plugins.sock
  permit,         \* SidecarHandle.shutdown holds a notification
  starts, exits,  \* starts of the agent, and exits of hosts, so far
  killed          \* history: an agent was killed

agentVars == <<agent, starts, killed>>
supVars == <<sup, backoff, child, permit>>
sidecarVars == <<agentVars, supVars, host, socket, exits>>

Runs(h) == host[h] \notin {"none", "exited"}
Served == socket # NoHost /\ host[socket] = "serving"

SidecarTypeOK ==
  /\ agent \in {"down", "waiting", "connecting", "servers", "running", "stopping"}
  /\ sup \in {"none", "spawn", "wait", "backoff", "kill", "clean", "done"}
  /\ backoff \in {1, 2, 4, 8, 16, 30}
  /\ child \in Hosts \cup {NoHost} /\ socket \in Hosts \cup {NoHost}
  /\ host \in [Hosts -> {"none", "starting", "stale", "binding", "serving", "exited"}]
  /\ permit \in BOOLEAN /\ killed \in BOOLEAN
  /\ starts \in 0..MaxStarts /\ exits \in 0..MaxExits
  /\ child # NoHost <=> sup \in {"wait", "kill"}
  /\ agent = "down" => sup = "none"

SidecarInit ==
  /\ agent = "down" /\ sup = "none" /\ backoff = 1
  /\ child = NoHost /\ host = [h \in Hosts |-> "none"]
  /\ socket = NoHost /\ permit = FALSE
  /\ starts = 0 /\ exits = 0 /\ killed = FALSE

-----------------------------------------------------------------------------
(* The host process, up to its accept loop. *)

BecomesHost(h, state) == host' = [host EXCEPT ![h] = state]

(* Another host that can be connected to ends this one.                     *)
CheckSocket(h) ==
  /\ host[h] = "starting"
  /\ BecomesHost(h, IF Served THEN "exited" ELSE IF socket # NoHost THEN "stale" ELSE "binding")
  /\ UNCHANGED <<agentVars, supVars, socket, exits>>

RemoveStale(h) ==
  /\ host[h] = "stale"
  /\ BecomesHost(h, IF socket = NoHost THEN "exited" ELSE "binding")
  /\ socket' = NoHost
  /\ UNCHANGED <<agentVars, supVars, exits>>

(* The plugins are loaded by now.  A file that is there again is an error.  *)
Bind(h) ==
  /\ host[h] = "binding"
  /\ IF socket = NoHost
     THEN BecomesHost(h, "serving") /\ socket' = h
     ELSE BecomesHost(h, "exited") /\ UNCHANGED socket
  /\ UNCHANGED <<agentVars, supVars, exits>>

(* It crashes or returns, at startup or later.                              *)
Exit(h) ==
  /\ Runs(h) /\ exits < MaxExits
  /\ BecomesHost(h, "exited")
  /\ exits' = exits + 1
  /\ UNCHANGED <<agentVars, supVars, socket>>

(* A host whose agent is gone is reaped by init.                            *)
ReapOrphan(h) ==
  /\ host[h] = "exited" /\ h # child
  /\ BecomesHost(h, "none")
  /\ UNCHANGED <<agentVars, supVars, socket, exits>>

-----------------------------------------------------------------------------
(* The supervisor. *)

Spawn ==
  /\ sup = "spawn"
  /\ \E h \in Hosts :
       /\ host[h] = "none"
       /\ BecomesHost(h, "starting")
       /\ child' = h
  /\ sup' = "wait"
  /\ backoff' = 1
  /\ UNCHANGED <<agentVars, socket, permit, exits>>

SpawnFails ==
  /\ sup = "spawn"
  /\ sup' = "backoff"
  /\ UNCHANGED <<agentVars, backoff, child, host, socket, permit, exits>>

(* Faulty variant: the supervisor ends with the host it supervises.         *)
ReapAndReturn ==
  /\ sup = "wait" /\ host[child] = "exited"
  /\ sup' = "done"
  /\ BecomesHost(child, "none") /\ child' = NoHost
  /\ UNCHANGED <<agentVars, backoff, socket, permit, exits>>

(* child.wait() returns, whatever the exit status.                          *)
Reap ==
  /\ sup = "wait" /\ host[child] = "exited"
  /\ sup' = "backoff"
  /\ BecomesHost(child, "none") /\ child' = NoHost
  /\ UNCHANGED <<agentVars, backoff, socket, permit, exits>>

(* The sleep ends first.                                                    *)
Backoff ==
  /\ sup = "backoff"
  /\ sup' = "spawn"
  /\ backoff' = IF 2 * backoff > 30 THEN 30 ELSE 2 * backoff
  /\ UNCHANGED <<agentVars, child, host, socket, permit, exits>>

StopInBackoff ==
  /\ sup = "backoff" /\ permit
  /\ permit' = FALSE
  /\ sup' = "done"
  /\ socket' = NoHost
  /\ UNCHANGED <<agentVars, backoff, child, host, exits>>

StopInWait ==
  /\ sup = "wait" /\ permit
  /\ permit' = FALSE
  /\ sup' = "kill"
  /\ UNCHANGED <<agentVars, backoff, child, host, socket, exits>>

(* Faulty variant: the child is left to itself.                             *)
KillOmitted ==
  /\ sup = "kill"
  /\ sup' = "clean"
  /\ child' = NoHost
  /\ UNCHANGED <<agentVars, backoff, host, socket, permit, exits>>

(* child.kill(): the host is dead and reaped when it returns.               *)
Kill ==
  /\ sup = "kill"
  /\ sup' = "clean"
  /\ BecomesHost(child, "none") /\ child' = NoHost
  /\ UNCHANGED <<agentVars, backoff, socket, permit, exits>>

RemoveSocket ==
  /\ sup = "clean"
  /\ sup' = "done"
  /\ socket' = NoHost
  /\ UNCHANGED <<agentVars, backoff, child, host, permit, exits>>

-----------------------------------------------------------------------------
(* cmd_run *)

GoesOn(from, to) ==
  /\ agent = from /\ agent' = to
  /\ UNCHANGED <<starts, killed, supVars, host, socket, exits>>

(* Wallet, stores and clients are opened, and the supervisor is spawned     *)
(* unless plugins are disabled or the binary is not there.                  *)
cmd_run ==
  /\ agent = "down" /\ starts < MaxStarts
  /\ starts' = starts + 1
  /\ \/ agent' = "waiting" /\ sup' = "spawn"
     \/ agent' = "servers" /\ sup' = "none"
  /\ backoff' = 1 /\ permit' = FALSE
  /\ UNCHANGED <<child, host, socket, exits, killed>>

wait_for_socket == Served /\ GoesOn("waiting", "connecting")
WaitTimesOut == GoesOn("waiting", "servers")
ConnectBridge == GoesOn("connecting", "servers")

(* The health and the A2A server are spawned, the runtime or the message    *)
(* loop is set up.                                                          *)
StartServers == GoesOn("servers", "running")

(* Faulty variant: notify_waiters, which nobody hears who is not waiting.   *)
ShutdownUnheard ==
  /\ agent = "running" /\ sup # "none"
  /\ agent' = "stopping"
  /\ permit' = (sup \in {"wait", "backoff"})
  /\ UNCHANGED <<starts, killed, sup, backoff, child, host, socket, exits>>

(* Ctrl-C, or the loop ends or panics.  SidecarHandle::shutdown: notify_one, *)
(* whose permit is kept until somebody waits for it, and then the join.     *)
Shutdown ==
  /\ agent = "running" /\ sup # "none"
  /\ agent' = "stopping"
  /\ permit' = TRUE
  /\ UNCHANGED <<starts, killed, sup, backoff, child, host, socket, exits>>

Ends ==
  /\ agent' = "down" /\ sup' = "none" /\ child' = NoHost
  /\ permit' = FALSE /\ backoff' = 1
  /\ UNCHANGED <<starts, socket, exits>>

Joined ==
  /\ agent = "stopping" /\ sup = "done"
  /\ Ends /\ UNCHANGED <<host, killed>>

(* cmd_run returns before its shutdown: nano.toml does not parse, a plugin  *)
(* of the runtime does not start, or the runtime fails.  The tasks are      *)
(* dropped with the tokio runtime, and the child is killed when it drops.   *)
EarlyReturn ==
  /\ agent = "servers" \/ agent = "running"
  /\ Ends
  /\ host' = [h \in Hosts |-> IF h = child THEN "none" ELSE host[h]]
  /\ UNCHANGED killed

AgentKilled ==
  /\ agent # "down"
  /\ Ends
  /\ killed' = TRUE
  /\ UNCHANGED host

-----------------------------------------------------------------------------
SidecarNext ==
  \/ \E h \in Hosts : CheckSocket(h) \/ RemoveStale(h) \/ Bind(h) \/ Exit(h) \/ ReapOrphan(h)
  \/ Spawn \/ SpawnFails \/ Reap \/ Backoff
  \/ StopInBackoff \/ StopInWait \/ Kill \/ RemoveSocket
  \/ cmd_run \/ wait_for_socket \/ WaitTimesOut \/ ConnectBridge \/ StartServers
  \/ Shutdown \/ Joined \/ EarlyReturn \/ AgentKilled

SidecarSpec == SidecarInit /\ [][SidecarNext]_sidecarVars

HostStarts(h) == CheckSocket(h) \/ RemoveStale(h) \/ Bind(h) \/ ReapOrphan(h)
SupervisorSteps == Spawn \/ SpawnFails \/ Reap \/ Backoff \/ Kill \/ RemoveSocket \/ Joined

(* A host that starts gets to its accept loop, the supervisor's task runs,  *)
(* select! prefers no branch forever, and an attempt to spawn the host      *)
(* works again some time.                                                   *)
SidecarFairness ==
  /\ \A h \in Hosts : WF_sidecarVars(HostStarts(h))
  /\ SF_sidecarVars(Spawn) /\ WF_sidecarVars(SupervisorSteps)
  /\ SF_sidecarVars(StopInBackoff \/ StopInWait)

-----------------------------------------------------------------------------
(* "Kills the child cleanly on drop/shutdown": when cmd_run has returned no *)
(* host is running, however it returned, and after a shutdown the socket    *)
(* file is gone, in whatever state of the restart cycle it came -- unless   *)
(* an agent was killed.                                                     *)
StoppedIsClean ==
  /\ SidecarTypeOK
  /\ ~killed =>
       /\ agent = "down" \/ sup = "done" => \A h \in Hosts : ~Runs(h)
       /\ sup = "done" => socket = NoHost

(* cmd_run returns once it is told to stop.                                 *)
ShutdownReturns == agent = "stopping" ~> agent = "down"

(* A host that has lost its file to another one which started beside it.    *)
Unreachable == \E h \in Hosts : host[h] = "serving" /\ socket # h

(* While an agent runs its plugins, a host that exits is replaced by one    *)
(* that can be connected to.  (Two hosts that start together, as after an   *)
(* agent was killed, may take each other's file away.)                      *)
HostComesBack ==
  sup \in {"wait", "backoff"} /\ ~Served
    ~> Served \/ Unreachable \/ sup = "kill" \/ agent \in {"stopping", "down"}
=============================================================================
