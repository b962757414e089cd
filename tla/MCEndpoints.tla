----------------------------- MODULE MCEndpoints -----------------------------
(* The ends of the connections: the agent's A2A server, and the two clients *)
(* of the plugin host, the agent's and the server's.  They share no         *)
(* variable, and each is explored while the others are as they were         *)
(* created, where no fair action of A2ATasks or PluginBridge is enabled.    *)
EXTENDS A2ATasks, PluginBridge, TsBridge

Init == TasksInit /\ BridgeInit /\ TsInit

\* One of the two servers there are at first is enough beside the bridges.
NoTasks == TasksInit /\ ~hub

Next ==
  \/ BridgeInit /\ TsInit /\ TasksNext /\ UNCHANGED <<bridgeVars, tsVars>>
  \/ NoTasks /\ TsInit /\ BridgeNext /\ UNCHANGED <<taskVars, tsVars>>
  \/ NoTasks /\ BridgeInit /\ TsNext /\ UNCHANGED <<taskVars, bridgeVars>>

Spec == /\ Init /\ [][Next]_<<taskVars, bridgeVars, tsVars>>
        /\ TasksFairness /\ BridgeFairness
=============================================================================
