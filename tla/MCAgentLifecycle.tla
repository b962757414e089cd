--------------------------- MODULE MCAgentLifecycle ---------------------------
(* The agent that runs: its process with the plugin host's, and its message *)
(* loop.  Each is explored while the other is as it was created, where none *)
(* of its fair actions is enabled.                                          *)
EXTENDS Sidecar, MessageLoop

CONSTANTS alice, bob

\* Two messages of one conversation around one of another.
Senders == [n \in Messages |-> IF n = 2 THEN bob ELSE alice]

Init == SidecarInit /\ LoopInit

Next ==
  \/ LoopInit /\ SidecarNext /\ UNCHANGED loopVars
  \/ SidecarInit /\ LoopNext /\ UNCHANGED sidecarVars

Spec == Init /\ [][Next]_<<sidecarVars, loopVars>> /\ SidecarFairness /\ LoopFairness
=============================================================================
