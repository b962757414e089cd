-------------------------- MODULE MCPluginRegistry --------------------------
(* Two versions of one plugin.                                              *)
EXTENDS PluginRegistry
CONSTANTS i1, b1, b2

VersionsOnly == [b \in {b1, b2} |-> i1]
=============================================================================
