----------------------------- MODULE MCPluginHost -----------------------------
(* The registry, the tools of the plugins, their installation and the order *)
(* of loading, one at a time: none of them reads what another one keeps.    *)
EXTENDS MCPluginRegistry, PluginTools, PluginInstall, LoadOrder

CONSTANTS algo, echo, algo1, algo2, algo3, echo1, echo2, algoFile, echoFile

Manifests == [b \in {algo1, algo2, algo3, echo1, echo2} |-> IF b \in {echo1, echo2} THEN echo ELSE algo]

Release(version, tier, artifact, binary, sig) ==
  [id |-> Manifests[binary], version |-> version, tier |-> tier,
   artifact |-> artifact, binary |-> binary, sig |-> sig]

(* Of the three versions of algo the first one is signed and the last one   *)
(* asks for too much; the second version of echo imports host functions.    *)
Published ==
  {Release(1, "trusted", algoFile, algo1, [of |-> algo1, trusted |-> TRUE]),
   Release(2, "untrusted", algoFile, algo2, Absent),
   Release(3, "untrusted", algoFile, algo3, Absent),
   Release(1, "untrusted", echoFile, echo1, Absent),
   Release(2, "untrusted", echoFile, echo2, Absent)}

OwnFiles == {<<algo, algoFile>>, <<echo, echoFile>>}

HostInit == Init /\ ToolsInit /\ InstallInit /\ OrderInit

HostNext ==
  \/ ToolsInit /\ InstallInit /\ OrderInit
     /\ Next /\ UNCHANGED <<toolVars, installVars, orderVars>>
  \/ Init /\ InstallInit /\ OrderInit
     /\ ToolsNext /\ UNCHANGED <<vars, installVars, orderVars>>
  \/ Init /\ ToolsInit /\ OrderInit
     /\ InstallNext /\ UNCHANGED <<vars, toolVars, orderVars>>
  \/ Init /\ ToolsInit /\ InstallInit
     /\ OrderNext /\ UNCHANGED <<vars, toolVars, installVars>>

HostSpec == HostInit /\ [][HostNext]_<<vars, toolVars, installVars, orderVars>>

Alike == Permutations(Instances) \cup Permutations(Processes)
=============================================================================
