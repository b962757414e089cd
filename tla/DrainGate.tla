----------------------------- MODULE DrainGate -----------------------------
(***************************************************************************)
(* What a plugin slot of the host promises to those who call a plugin and  *)
(* to those who replace it (specs/plugin/plugin-host.spec.md, "Hot-Reload  *)
(* Drain Pattern"), with no atomics, no counters and no polling: a gate    *)
(* that calls pass, and that has to be closed, and empty unless the drain  *)
(* deadline has passed, when the module behind it is replaced or retired.  *)
(*                                                                         *)
(* PluginSlot implements this specification under the mapping given there. *)
(***************************************************************************)
CONSTANTS Callers, Modules

VARIABLES
  gate,      \* "open": calls may enter; "closed": draining; "gone": unloaded;
             \* "left": refusing calls, with nobody at work on it
  inside,    \* the calls that have entered and not yet left
  module,    \* the module behind the gate
  overdue    \* the drain in progress has waited as long as it is willing to

gateVars == <<gate, inside, module, overdue>>

Init ==
  /\ gate = "open"
  /\ inside = {}
  /\ module \in Modules
  /\ overdue = FALSE

Enter(c) ==
  /\ gate = "open"
  /\ c \notin inside
  /\ inside' = inside \cup {c}
  /\ UNCHANGED <<gate, module, overdue>>

Leave(c) ==
  /\ c \in inside
  /\ inside' = inside \ {c}
  /\ UNCHANGED <<gate, module, overdue>>

Close ==
  /\ gate \in {"open", "left"}
  /\ gate' = "closed"
  /\ overdue' = FALSE
  /\ UNCHANGED <<inside, module>>

DeadlinePasses ==
  /\ gate = "closed"
  /\ overdue' = TRUE
  /\ UNCHANGED <<gate, inside, module>>

(* Nobody may be inside when the module changes, except past the deadline. *)
Quiescent == inside = {} \/ overdue

Swap ==
  /\ gate = "closed"
  /\ Quiescent
  /\ module' \in Modules
  /\ UNCHANGED <<gate, inside, overdue>>

Reopen ==
  /\ gate = "closed"
  /\ gate' = "open"
  /\ overdue' = FALSE
  /\ UNCHANGED <<inside, module>>

Retire ==
  /\ gate = "closed"
  /\ Quiescent
  /\ gate' = "gone"
  /\ overdue' = FALSE
  /\ UNCHANGED <<inside, module>>

(* Who closed the gate, or unloaded what is behind it, is cut off.          *)
Abandon ==
  /\ gate \in {"closed", "gone"}
  /\ gate' = "left"
  /\ overdue' = FALSE
  /\ UNCHANGED <<inside, module>>

Next ==
  \/ \E c \in Callers : Enter(c) \/ Leave(c)
  \/ Close
  \/ DeadlinePasses
  \/ Swap
  \/ Reopen
  \/ Retire
  \/ Abandon

(* A drain ends: the gate reopens, is gone, or is left to the next drain. *)
DrainEnds == gate = "closed" ~> gate # "closed"

Spec == Init /\ [][Next]_gateVars /\ DrainEnds
=============================================================================
