---------------------------- MODULE RegistryProofs ----------------------------
(***************************************************************************)
(* Proofs about PluginRegistry, for any ids, binaries, slots, operators    *)
(* and clients.                                                            *)
(***************************************************************************)
EXTENDS PluginRegistry, TLAPS

Busy(o) == ostep[o] # "idle"

(* No two operators have requests under way about one plugin.  (With two of *)
(* them a slot can be activated after it was removed: RegistryDoubleUnload.) *)
OneOperatorEach ==
  \A o, p \in Operators : o # p /\ Busy(o) /\ Busy(p) => oid[o] # oid[p]

-----------------------------------------------------------------------------
(* The slot a request has looked up is the one its id maps to all along, and *)
(* nobody else changes its state.                                           *)
OperatorsOK ==
  \A o \in Operators : Busy(o) =>
    /\ oid[o] \in Ids /\ oslot[o] \in Slots /\ slots[oid[o]] = oslot[o]
    /\ ostep[o] \in {"drain", "drained"} => state[oslot[o]] = "DRAINING"
    /\ ostep[o] = "stored" => state[oslot[o]] = IF onew[o] = NoBinary THEN "UNLOADED" ELSE "DRAINING"
    /\ ostep[o] \in {"drained", "stored"} /\ oslot[o] \notin gaveUp => guards[oslot[o]] = {}

(* A listed slot is an object, and has the id it is listed under.            *)
SlotsOK ==
  \A i \in Ids : slots[i] # NoSlot =>
    /\ state[slots[i]] # "FREE"
    /\ manifest[slots[i]] \in Binaries /\ IdOf[manifest[slots[i]]] = i

ModulesOK ==
  \A s \in Slots : state[s] # "FREE" => module[s] \in Binaries /\ manifest[s] \in Binaries

ActiveListed == \A s \in Slots : state[s] = "ACTIVE" => s \in Listed

(* A client keeps its slot alive, owns a guard of it from the acquire on and *)
(* runs the module that is in it, unless a drain of the slot has given up.   *)
ClientsOK ==
  \A c \in Clients :
    /\ cslot[c] # NoSlot => state[cslot[c]] # "FREE"
    /\ cstep[c] \in {"held", "running"} => c \in guards[cslot[c]]
    /\ cstep[c] = "running" /\ cslot[c] \notin gaveUp => runs[c] = module[cslot[c]]

GuardsOK ==
  \A s \in Slots : \A c \in guards[s] : cslot[c] = s /\ cstep[c] \in {"held", "running"}

UnlistedOK == \A s \in Slots : s \notin Listed /\ s \notin gaveUp => guards[s] = {}

RegistryInv ==
  /\ RequestTypes /\ OperatorsOK /\ SlotsOK /\ ModulesOK /\ ActiveListed
  /\ ClientsOK /\ GuardsOK /\ UnlistedOK

LEMMA RegistryInvInit == Init => RegistryInv
<1> SUFFICES ASSUME Init PROVE RegistryInv
  OBVIOUS
<1>1. RequestTypes
  BY DEF Init, RequestTypes
<1>2. OperatorsOK /\ SlotsOK /\ ModulesOK /\ ActiveListed
  BY DEF Init, OperatorsOK, Busy, SlotsOK, ModulesOK, ActiveListed
<1>3. ClientsOK /\ GuardsOK /\ UnlistedOK
  BY DEF Init, ClientsOK, GuardsOK, UnlistedOK
<1>4. QED
  BY <1>1, <1>2, <1>3 DEF RegistryInv

LEMMA RegistryFacts ==
  ASSUME RequestTypes
  PROVE  /\ Listed \subseteq Slots /\ NoSlot \notin Slots /\ NoBinary \notin Binaries
         /\ \A s \in Slots : s \in Listed <=> \E i \in Ids : slots[i] = s
         /\ IdOf \in [Binaries -> Ids]
BY RegistryAssumption DEF RegistryAssumption, RequestTypes, Listed

-----------------------------------------------------------------------------
(* Requests of an operator.                                                  *)

LEMMA InvLoad ==
  ASSUME RegistryInv, NEW o \in Operators, NEW b \in Binaries, Load(o, b)
  PROVE  RegistryInv'
<1>1. /\ RequestTypes /\ OperatorsOK /\ SlotsOK /\ ModulesOK /\ ActiveListed
      /\ ClientsOK /\ GuardsOK /\ UnlistedOK
  BY DEF RegistryInv
<1>2. IdOf[b] \in Ids /\ NoSlot \notin Slots
  BY <1>1, RegistryFacts
<1>3. UNCHANGED <<guards, gaveUp, ostep, oslot, onew, oid, cstep, cslot, snapshot, runs>>
  BY DEF Load, operatorVars, clientVars
<1>4. PICK s \in Slots :
        /\ state[s] = "FREE" /\ slots[IdOf[b]] = NoSlot
        /\ slots' = [slots EXCEPT ![IdOf[b]] = s]
        /\ state' = [state EXCEPT ![s] = "ACTIVE"]
        /\ manifest' = [manifest EXCEPT ![s] = b]
        /\ module' = [module EXCEPT ![s] = b]
  BY DEF Load
<1>5. /\ slots' \in [Ids -> Slots \cup {NoSlot}] /\ slots'[IdOf[b]] = s
      /\ \A i \in Ids : i # IdOf[b] => slots'[i] = slots[i]
  BY <1>1, <1>2, <1>4 DEF RequestTypes
<1>6. /\ state' \in [Slots -> {"FREE", "ACTIVE", "DRAINING", "UNLOADED"}]
      /\ manifest' \in [Slots -> Binaries \cup {NoBinary}]
      /\ module' \in [Slots -> Binaries \cup {NoBinary}]
      /\ state'[s] = "ACTIVE" /\ manifest'[s] = b /\ module'[s] = b
      /\ \A t \in Slots : t # s =>
           state'[t] = state[t] /\ manifest'[t] = manifest[t] /\ module'[t] = module[t]
  BY <1>1, <1>4 DEF RequestTypes
<1>7. RequestTypes'
  BY <1>1, <1>3, <1>5, <1>6 DEF RequestTypes
<1>8. \A i \in Ids : slots[i] # s
  BY <1>1, <1>2, <1>4 DEF SlotsOK
<1>9. /\ \A t \in Slots : t \in Listed' <=> t = s \/ t \in Listed
  BY <1>1, <1>2, <1>4, <1>5, <1>7, RegistryFacts DEF Listed
<1>10. OperatorsOK'
  <2> SUFFICES ASSUME NEW p \in Operators, Busy(p)
               PROVE  /\ slots'[oid[p]] = slots[oid[p]] /\ oslot[p] # s
    BY <1>1, <1>3, <1>6 DEF OperatorsOK, Busy
  <2>1. oid[p] \in Ids /\ oslot[p] \in Slots /\ slots[oid[p]] = oslot[p]
    BY <1>1 DEF OperatorsOK
  <2>2. QED
    BY <1>2, <1>4, <1>5, <1>8, <2>1
<1>11. SlotsOK'
  <2> SUFFICES ASSUME NEW i \in Ids, slots'[i] # NoSlot
               PROVE  /\ state'[slots'[i]] # "FREE"
                      /\ manifest'[slots'[i]] \in Binaries /\ IdOf[manifest'[slots'[i]]] = i
    BY DEF SlotsOK
  <2>1. CASE i = IdOf[b]
    BY <1>5, <1>6, <2>1
  <2>2. CASE i # IdOf[b]
    <3>1. slots'[i] = slots[i] /\ slots[i] \in Slots /\ slots[i] # s
      BY <1>1, <1>5, <1>8, <2>2 DEF RequestTypes
    <3>2. QED
      BY <1>1, <1>6, <3>1 DEF SlotsOK
  <2>3. QED
    BY <2>1, <2>2
<1>12. (ModulesOK /\ ActiveListed)'
  BY <1>1, <1>6, <1>9 DEF ModulesOK, ActiveListed
<1>13. ClientsOK'
  <2>1. \A c \in Clients : cslot[c] # NoSlot => cslot[c] \in Slots /\ cslot[c] # s
    BY <1>1, <1>4 DEF ClientsOK, RequestTypes
  <2>2. \A c \in Clients : cstep[c] \in {"held", "running"} => cslot[c] # NoSlot
    BY <1>1 DEF RequestTypes
  <2>3. QED
    BY <1>1, <1>3, <1>6, <2>1, <2>2 DEF ClientsOK
<1>14. (GuardsOK /\ UnlistedOK)'
  BY <1>1, <1>3, <1>9 DEF GuardsOK, UnlistedOK
<1>15. QED
  BY <1>7, <1>10, <1>11, <1>12, <1>13, <1>14 DEF RegistryInv

LEMMA InvLookup ==
  ASSUME RegistryInv, NEW o \in Operators, NEW i \in Ids, NEW b \in Binaries \cup {NoBinary},
         OperatorLookup(o, i, b)
  PROVE  RegistryInv'
<1>1. /\ RequestTypes /\ OperatorsOK /\ SlotsOK /\ ModulesOK /\ ActiveListed
      /\ ClientsOK /\ GuardsOK /\ UnlistedOK
  BY DEF RegistryInv
<1>2. UNCHANGED <<slots, state, manifest, module, guards, gaveUp, cstep, cslot, snapshot, runs>>
  BY DEF OperatorLookup, slotVars, clientVars
<1>3. slots[i] \in Slots /\ ostep[o] = "idle"
  BY <1>1 DEF OperatorLookup, RequestTypes
<1>4. /\ ostep' \in [Operators -> {"idle", "found", "drain", "drained", "stored"}]
      /\ oslot' \in [Operators -> Slots \cup {NoSlot}]
      /\ onew' \in [Operators -> Binaries \cup {NoBinary}]
      /\ oid' \in [Operators -> Ids \cup {NoId}]
      /\ ostep'[o] = "found" /\ oslot'[o] = slots[i] /\ oid'[o] = i
      /\ \A p \in Operators : p # o =>
           /\ ostep'[p] = ostep[p] /\ oslot'[p] = oslot[p]
           /\ onew'[p] = onew[p] /\ oid'[p] = oid[p]
  BY <1>1, <1>3 DEF OperatorLookup, RequestTypes
<1>5. RequestTypes'
  BY <1>1, <1>2, <1>4 DEF RequestTypes
<1>6. OperatorsOK'
  <2> SUFFICES ASSUME NEW p \in Operators, Busy(p)'
      PROVE  /\ oid'[p] \in Ids /\ oslot'[p] \in Slots /\ slots[oid'[p]] = oslot'[p]
             /\ ostep'[p] \in {"drain", "drained"} => state[oslot'[p]] = "DRAINING"
             /\ ostep'[p] = "stored" =>
                  state[oslot'[p]] = IF onew'[p] = NoBinary THEN "UNLOADED" ELSE "DRAINING"
             /\ ostep'[p] \in {"drained", "stored"} /\ oslot'[p] \notin gaveUp => guards[oslot'[p]] = {}
    BY <1>2 DEF OperatorsOK
  <2>1. CASE p = o
    BY <1>3, <1>4, <2>1
  <2>2. CASE p # o
    BY <1>1, <1>4, <2>2 DEF OperatorsOK, Busy
  <2>3. QED
    BY <2>1, <2>2
<1>7. (SlotsOK /\ ModulesOK /\ ActiveListed /\ UnlistedOK)'
  BY <1>1, <1>2 DEF SlotsOK, ModulesOK, ActiveListed, UnlistedOK, Listed
<1>8. (ClientsOK /\ GuardsOK)'
  BY <1>1, <1>2 DEF ClientsOK, GuardsOK
<1>9. QED
  BY <1>5, <1>6, <1>7, <1>8 DEF RegistryInv

(* The slots of two requests that are under way are two.                     *)
LEMMA DifferentSlots ==
  ASSUME RegistryInv, OneOperatorEach, NEW o \in Operators, NEW p \in Operators,
         o # p, Busy(o), Busy(p)
  PROVE  oslot[o] # oslot[p] /\ oid[o] # oid[p]
<1>1. /\ oid[o] \in Ids /\ oid[p] \in Ids /\ oid[o] # oid[p]
      /\ oslot[o] \in Slots /\ oslot[p] \in Slots
      /\ slots[oid[o]] = oslot[o] /\ slots[oid[p]] = oslot[p] /\ NoSlot \notin Slots
  BY RegistryFacts DEF RegistryInv, OperatorsOK, OneOperatorEach
<1>2. IdOf[manifest[oslot[o]]] = oid[o] /\ IdOf[manifest[oslot[p]]] = oid[p]
  BY <1>1 DEF RegistryInv, SlotsOK
<1>3. QED
  BY <1>1, <1>2

(* A step on the request's slot that keeps the request going, or ends it.    *)
LEMMA InvRequest ==
  ASSUME RegistryInv, OneOperatorEach, NEW o \in Operators,
         StartDrain(o) \/ EndDrain(o) \/ Swap(o) \/ Activate(o) \/ MarkUnloaded(o)
  PROVE  RegistryInv'
<1> DEFINE s == oslot[o]
<1>1. /\ RequestTypes /\ OperatorsOK /\ SlotsOK /\ ModulesOK /\ ActiveListed
      /\ ClientsOK /\ GuardsOK /\ UnlistedOK
  BY DEF RegistryInv
<1>2. Busy(o)
  BY DEF Busy, StartDrain, EndDrain, Swap, Activate, MarkUnloaded
<1>3. /\ oid[o] \in Ids /\ s \in Slots /\ slots[oid[o]] = s /\ s # NoSlot
      /\ s \in Listed /\ state[s] # "FREE"
      /\ Listed \subseteq Slots /\ NoSlot \notin Slots /\ NoBinary \notin Binaries
  <2>1. oid[o] \in Ids /\ s \in Slots /\ slots[oid[o]] = s
    BY <1>1, <1>2 DEF OperatorsOK
  <2>2. QED
    BY <1>1, <2>1, RegistryFacts DEF SlotsOK
<1>4. UNCHANGED <<slots, manifest, guards, cstep, cslot, snapshot, runs>>
  BY DEF StartDrain, EndDrain, Swap, Activate, MarkUnloaded, clientVars
<1>5. /\ state' \in [Slots -> {"FREE", "ACTIVE", "DRAINING", "UNLOADED"}]
      /\ state'[s] # "FREE" /\ \A t \in Slots : t # s => state'[t] = state[t]
  <2>1. state' = state \/ \E v \in {"ACTIVE", "DRAINING", "UNLOADED"} : state' = [state EXCEPT ![s] = v]
    BY DEF StartDrain, EndDrain, Swap, Activate, MarkUnloaded
  <2>2. QED
    BY <1>1, <1>3, <2>1 DEF RequestTypes
<1>6. /\ module' \in [Slots -> Binaries \cup {NoBinary}]
      /\ module'[s] # module[s] => Swap(o) /\ module'[s] \in Binaries
      /\ \A t \in Slots : t # s => module'[t] = module[t]
  <2>1. module' = module \/ (Swap(o) /\ module' = [module EXCEPT ![s] = onew[o]] /\ onew[o] # NoBinary)
    BY DEF StartDrain, EndDrain, Swap, Activate, MarkUnloaded
  <2>2. QED
    BY <1>1, <1>3, <2>1 DEF RequestTypes
<1>7. gaveUp' \in SUBSET Slots /\ gaveUp \subseteq gaveUp' /\ \A t \in Slots : t # s => t \in gaveUp' <=> t \in gaveUp
  BY <1>1, <1>3 DEF StartDrain, EndDrain, Swap, Activate, MarkUnloaded, RequestTypes
<1>8. /\ ostep' \in [Operators -> {"idle", "found", "drain", "drained", "stored"}]
      /\ oslot' \in [Operators -> Slots \cup {NoSlot}]
      /\ onew' \in [Operators -> Binaries \cup {NoBinary}]
      /\ oid' \in [Operators -> Ids \cup {NoId}]
      /\ \A p \in Operators : p # o =>
           /\ ostep'[p] = ostep[p] /\ oslot'[p] = oslot[p]
           /\ onew'[p] = onew[p] /\ oid'[p] = oid[p]
  BY <1>1 DEF StartDrain, EndDrain, Swap, Activate, MarkUnloaded, OperatorDone, RequestTypes
<1>9. RequestTypes'
  BY <1>1, <1>4, <1>5, <1>6, <1>7, <1>8 DEF RequestTypes
<1>10. ASSUME NEW p \in Operators, p # o, Busy(p)'
       PROVE  /\ oid'[p] \in Ids /\ oslot'[p] \in Slots /\ slots'[oid'[p]] = oslot'[p]
              /\ ostep'[p] \in {"drain", "drained"} => state'[oslot'[p]] = "DRAINING"
              /\ ostep'[p] = "stored" =>
                   state'[oslot'[p]] = IF onew'[p] = NoBinary THEN "UNLOADED" ELSE "DRAINING"
              /\ ostep'[p] \in {"drained", "stored"} /\ oslot'[p] \notin gaveUp'
                   => guards'[oslot'[p]] = {}
  <2>1. Busy(p) /\ oslot[p] # s /\ oslot[p] \in Slots
    BY <1>1, <1>2, <1>8, <1>10, DifferentSlots DEF Busy, OperatorsOK
  <2>2. state'[oslot[p]] = state[oslot[p]] /\ (oslot[p] \in gaveUp' <=> oslot[p] \in gaveUp)
    BY <1>5, <1>7, <2>1
  <2>3. QED
    BY <1>1, <1>4, <1>8, <1>10, <2>1, <2>2 DEF OperatorsOK
<1>11. ASSUME Busy(o)'
       PROVE  /\ oid'[o] \in Ids /\ oslot'[o] \in Slots /\ slots'[oid'[o]] = oslot'[o]
              /\ ostep'[o] \in {"drain", "drained"} => state'[oslot'[o]] = "DRAINING"
              /\ ostep'[o] = "stored" =>
                   state'[oslot'[o]] = IF onew'[o] = NoBinary THEN "UNLOADED" ELSE "DRAINING"
              /\ ostep'[o] \in {"drained", "stored"} /\ oslot'[o] \notin gaveUp'
                   => guards'[oslot'[o]] = {}
  <2>1. ~Activate(o)
    BY <1>1, <1>11 DEF Activate, OperatorDone, Busy, RequestTypes
  <2>2. UNCHANGED <<oslot, onew, oid>>
    BY <2>1 DEF StartDrain, EndDrain, Swap, MarkUnloaded
  <2>3. CASE StartDrain(o)
    <3>1. ostep'[o] = "drain" /\ state'[s] = "DRAINING"
      BY <1>1, <1>3, <2>3 DEF StartDrain, RequestTypes
    <3>2. QED
      BY <1>3, <1>4, <2>2, <3>1
  <2>4. CASE EndDrain(o)
    <3>1. ostep'[o] = "drained" /\ ostep[o] = "drain" /\ state' = state
      BY <1>1, <2>4 DEF EndDrain, RequestTypes
    <3>2. state[s] = "DRAINING"
      BY <1>1, <1>2, <3>1 DEF OperatorsOK
    <3>3. s \notin gaveUp' => guards[s] = {}
      BY <2>4 DEF EndDrain
    <3>4. QED
      BY <1>3, <1>4, <2>2, <3>1, <3>2, <3>3
  <2>5. CASE Swap(o)
    <3>1. ostep'[o] = "stored" /\ ostep[o] = "drained" /\ state' = state /\ gaveUp' = gaveUp /\ onew[o] # NoBinary
      BY <1>1, <2>5 DEF Swap, RequestTypes
    <3>2. state[s] = "DRAINING" /\ (s \notin gaveUp => guards[s] = {})
      BY <1>1, <1>2, <3>1 DEF OperatorsOK
    <3>3. QED
      BY <1>3, <1>4, <2>2, <3>1, <3>2
  <2>6. CASE MarkUnloaded(o)
    <3>1. /\ ostep'[o] = "stored" /\ ostep[o] = "drained" /\ state'[s] = "UNLOADED"
          /\ gaveUp' = gaveUp /\ onew[o] = NoBinary
      BY <1>1, <1>3, <2>6 DEF MarkUnloaded, RequestTypes
    <3>2. s \notin gaveUp => guards[s] = {}
      BY <1>1, <1>2, <3>1 DEF OperatorsOK
    <3>3. QED
      BY <1>3, <1>4, <2>2, <3>1, <3>2
  <2>7. QED
    BY <2>1, <2>3, <2>4, <2>5, <2>6
<1>12. OperatorsOK'
  BY <1>10, <1>11 DEF OperatorsOK
<1>13. SlotsOK'
  <2>1. \A i \in Ids : slots[i] # NoSlot => slots[i] \in Slots
    BY <1>1 DEF RequestTypes
  <2>2. QED
    BY <1>1, <1>4, <1>5, <2>1 DEF SlotsOK
<1>14. (ModulesOK /\ ActiveListed /\ UnlistedOK)'
  <2>1. Listed' = Listed
    BY <1>4 DEF Listed
  <2>2. ModulesOK'
    BY <1>1, <1>3, <1>4, <1>5, <1>6 DEF ModulesOK
  <2>3. ActiveListed'
    BY <1>1, <1>3, <1>5, <2>1 DEF ActiveListed
  <2>4. UnlistedOK'
    BY <1>1, <1>4, <1>7, <2>1 DEF UnlistedOK
  <2>5. QED
    BY <2>2, <2>3, <2>4
<1>15. ClientsOK'
  <2> SUFFICES ASSUME NEW c \in Clients
               PROVE  /\ cslot[c] # NoSlot => state'[cslot[c]] # "FREE"
                      /\ cstep[c] \in {"held", "running"} => c \in guards[cslot[c]]
                      /\ cstep[c] = "running" /\ cslot[c] \notin gaveUp'
                           => runs[c] = module'[cslot[c]]
    BY <1>4 DEF ClientsOK
  <2>1. cslot[c] # NoSlot => cslot[c] \in Slots /\ state'[cslot[c]] # "FREE"
    BY <1>1, <1>5 DEF ClientsOK, RequestTypes
  <2>2. ASSUME cstep[c] = "running", cslot[c] \notin gaveUp'
        PROVE  module'[cslot[c]] = module[cslot[c]]
    <3>1. cslot[c] \in Slots /\ c \in guards[cslot[c]] /\ cslot[c] \notin gaveUp
      BY <1>1, <1>7, <2>2 DEF RequestTypes, ClientsOK
    <3>2. CASE Swap(o) /\ cslot[c] = s
      <4>1. ostep[o] = "drained"
        BY <3>2 DEF Swap
      <4>2. guards[s] = {}
        BY <1>1, <1>2, <3>1, <3>2, <4>1 DEF OperatorsOK
      <4>3. QED
        BY <3>1, <3>2, <4>2
    <3>3. CASE ~Swap(o) \/ cslot[c] # s
      BY <1>6, <3>1, <3>3
    <3>4. QED
      BY <3>2, <3>3
  <2>3. QED
    BY <1>1, <1>7, <2>1, <2>2 DEF ClientsOK
<1>16. GuardsOK'
  BY <1>1, <1>4 DEF GuardsOK
<1>17. QED
  BY <1>9, <1>12, <1>13, <1>14, <1>15, <1>16 DEF RegistryInv

(* What is removed has been marked and drained, or its drain has given up.   *)
LEMMA InvRemove ==
  ASSUME RegistryInv, OneOperatorEach, NEW o \in Operators, RemoveById(o)
  PROVE  RegistryInv'
<1> DEFINE s == oslot[o]
<1>1. /\ RequestTypes /\ OperatorsOK /\ SlotsOK /\ ModulesOK /\ ActiveListed
      /\ ClientsOK /\ GuardsOK /\ UnlistedOK
  BY DEF RegistryInv
<1>2. Busy(o) /\ ostep[o] = "stored" /\ onew[o] = NoBinary
  BY DEF Busy, RemoveById
<1>3. /\ oid[o] \in Ids /\ s \in Slots /\ slots[oid[o]] = s /\ NoSlot \notin Slots
      /\ state[s] = "UNLOADED" /\ (s \notin gaveUp => guards[s] = {})
  BY <1>1, <1>2, RegistryFacts DEF OperatorsOK
<1>4. UNCHANGED <<state, manifest, module, guards, gaveUp, cstep, cslot, snapshot, runs>>
  BY DEF RemoveById, clientVars
<1>5. /\ slots' \in [Ids -> Slots \cup {NoSlot}] /\ slots'[oid[o]] = NoSlot
      /\ \A i \in Ids : i # oid[o] => slots'[i] = slots[i]
  BY <1>1, <1>3 DEF RemoveById, RequestTypes
<1>6. /\ ostep' \in [Operators -> {"idle", "found", "drain", "drained", "stored"}]
      /\ oslot' \in [Operators -> Slots \cup {NoSlot}]
      /\ onew' \in [Operators -> Binaries \cup {NoBinary}]
      /\ oid' \in [Operators -> Ids \cup {NoId}] /\ ostep'[o] = "idle"
      /\ \A p \in Operators : p # o =>
           /\ ostep'[p] = ostep[p] /\ oslot'[p] = oslot[p]
           /\ onew'[p] = onew[p] /\ oid'[p] = oid[p]
  BY <1>1 DEF RemoveById, OperatorDone, RequestTypes
<1>7. RequestTypes'
  BY <1>1, <1>4, <1>5, <1>6 DEF RequestTypes
<1>8. \A t \in Slots : t \in Listed /\ t # s => t \in Listed'
  BY <1>1, <1>3, <1>5, <1>7, RegistryFacts DEF Listed
<1>9. OperatorsOK'
  <2> SUFFICES ASSUME NEW p \in Operators, p # o, Busy(p)
               PROVE  slots'[oid[p]] = slots[oid[p]]
    BY <1>1, <1>4, <1>6 DEF OperatorsOK, Busy
  <2>1. oid[p] # oid[o] /\ oid[p] \in Ids
    BY <1>1, <1>2, DifferentSlots DEF OperatorsOK
  <2>2. QED
    BY <1>5, <2>1
<1>10. (SlotsOK /\ ModulesOK)'
  BY <1>1, <1>4, <1>5 DEF SlotsOK, ModulesOK
<1>11. (ActiveListed /\ UnlistedOK)'
  <2>1. ActiveListed'
    BY <1>1, <1>3, <1>4, <1>8 DEF ActiveListed
  <2>2. UnlistedOK'
    BY <1>1, <1>3, <1>4, <1>8 DEF UnlistedOK
  <2>3. QED
    BY <2>1, <2>2
<1>12. (ClientsOK /\ GuardsOK)'
  BY <1>1, <1>4 DEF ClientsOK, GuardsOK
<1>13. QED
  BY <1>7, <1>9, <1>10, <1>11, <1>12 DEF RegistryInv

LEMMA InvFree ==
  ASSUME RegistryInv, NEW s \in Slots, FreeSlot(s)
  PROVE  RegistryInv'
<1>1. /\ RequestTypes /\ OperatorsOK /\ SlotsOK /\ ModulesOK /\ ActiveListed
      /\ ClientsOK /\ GuardsOK /\ UnlistedOK
  BY DEF RegistryInv
<1>2. UNCHANGED <<slots, guards, ostep, oslot, onew, oid, cstep, cslot, snapshot, runs>>
  BY DEF FreeSlot, operatorVars, clientVars
<1>3. /\ s \notin Listed /\ (\A o \in Operators : oslot[o] # s)
      /\ \A c \in Clients : cslot[c] # s
  BY DEF FreeSlot
<1>4. /\ state' \in [Slots -> {"FREE", "ACTIVE", "DRAINING", "UNLOADED"}]
      /\ manifest' \in [Slots -> Binaries \cup {NoBinary}]
      /\ module' \in [Slots -> Binaries \cup {NoBinary}]
      /\ gaveUp' \in SUBSET Slots
      /\ state'[s] = "FREE"
      /\ \A t \in Slots : t # s =>
           /\ state'[t] = state[t] /\ manifest'[t] = manifest[t] /\ module'[t] = module[t]
           /\ t \in gaveUp' <=> t \in gaveUp
  BY <1>1 DEF FreeSlot, RequestTypes
<1>5. RequestTypes'
  BY <1>1, <1>2, <1>4 DEF RequestTypes
<1>6. Listed' = Listed
  BY <1>2 DEF Listed
<1>7. guards[s] = {}
  <2>1. guards[s] \subseteq Clients /\ \A c \in guards[s] : cslot[c] = s
    BY <1>1 DEF GuardsOK, RequestTypes
  <2>2. QED
    BY <1>3, <2>1
<1>8. OperatorsOK'
  BY <1>1, <1>2, <1>3, <1>4 DEF OperatorsOK, Busy
<1>9. SlotsOK'
  <2>1. \A i \in Ids : slots[i] # NoSlot => slots[i] \in Slots /\ slots[i] # s
    BY <1>1, <1>3 DEF RequestTypes, Listed
  <2>2. QED
    BY <1>1, <1>2, <1>4, <2>1 DEF SlotsOK
<1>10. (ModulesOK /\ ActiveListed /\ UnlistedOK)'
  <2>1. ModulesOK' /\ ActiveListed'
    BY <1>1, <1>4, <1>6 DEF ModulesOK, ActiveListed
  <2>2. UnlistedOK'
    BY <1>1, <1>2, <1>4, <1>6, <1>7 DEF UnlistedOK
  <2>3. QED
    BY <2>1, <2>2
<1>11. ClientsOK'
  <2> SUFFICES ASSUME NEW c \in Clients
               PROVE  /\ cslot[c] # NoSlot => state'[cslot[c]] # "FREE"
                      /\ cstep[c] \in {"held", "running"} => c \in guards[cslot[c]]
                      /\ cstep[c] = "running" /\ cslot[c] \notin gaveUp'
                           => runs[c] = module'[cslot[c]]
    BY <1>2 DEF ClientsOK
  <2>1. cslot[c] # s
    BY <1>3
  <2>2. (cslot[c] # NoSlot => cslot[c] \in Slots) /\ (cstep[c] = "running" => cslot[c] # NoSlot)
    BY <1>1 DEF RequestTypes
  <2>3. QED
    BY <1>1, <1>4, <2>1, <2>2 DEF ClientsOK
<1>12. GuardsOK'
  BY <1>1, <1>2 DEF GuardsOK
<1>13. QED
  BY <1>5, <1>8, <1>9, <1>10, <1>11, <1>12 DEF RegistryInv

-----------------------------------------------------------------------------
(* Requests of a client.                                                     *)

(* A client that owns no guard goes to a listed slot, or to none.            *)
LEMMA InvClientMoves ==
  ASSUME RegistryInv, NEW c \in Clients,
         UNCHANGED <<slotVars, operatorVars>>, cstep[c] \notin {"held", "running"},
         NEW step \in {"idle", "next", "found"}, NEW s \in Slots \cup {NoSlot},
         NEW todo \in SUBSET Binaries, NEW code \in Binaries \cup {NoBinary},
         s # NoSlot => state[s] # "FREE", step = "found" => s # NoSlot,
         cstep' = [cstep EXCEPT ![c] = step], cslot' = [cslot EXCEPT ![c] = s],
         snapshot' = [snapshot EXCEPT ![c] = todo], runs' = [runs EXCEPT ![c] = code]
  PROVE  RegistryInv'
<1>1. /\ RequestTypes /\ OperatorsOK /\ SlotsOK /\ ModulesOK /\ ActiveListed
      /\ ClientsOK /\ GuardsOK /\ UnlistedOK
  BY DEF RegistryInv
<1> USE DEF slotVars, operatorVars
<1>2. /\ cstep' \in [Clients -> {"idle", "next", "found", "held", "running"}]
      /\ cslot' \in [Clients -> Slots \cup {NoSlot}] /\ snapshot' \in [Clients -> SUBSET Binaries]
      /\ runs' \in [Clients -> Binaries \cup {NoBinary}]
      /\ cstep'[c] = step /\ cslot'[c] = s
      /\ \A d \in Clients : d # c =>
           cstep'[d] = cstep[d] /\ cslot'[d] = cslot[d] /\ runs'[d] = runs[d]
  BY <1>1 DEF RequestTypes
<1>3. RequestTypes'
  BY <1>1, <1>2 DEF RequestTypes
<1>4. (OperatorsOK /\ SlotsOK /\ ModulesOK /\ ActiveListed /\ UnlistedOK)'
  BY <1>1 DEF OperatorsOK, Busy, SlotsOK, ModulesOK, ActiveListed, UnlistedOK, Listed
<1>5. ClientsOK'
  <2> SUFFICES ASSUME NEW d \in Clients
               PROVE  /\ cslot'[d] # NoSlot => state[cslot'[d]] # "FREE"
                      /\ cstep'[d] \in {"held", "running"} => d \in guards[cslot'[d]]
                      /\ cstep'[d] = "running" /\ cslot'[d] \notin gaveUp
                           => runs'[d] = module[cslot'[d]]
    BY DEF ClientsOK
  <2>1. CASE d = c
    BY <1>2, <2>1
  <2>2. CASE d # c
    BY <1>1, <1>2, <2>2 DEF ClientsOK
  <2>3. QED
    BY <2>1, <2>2
<1>6. GuardsOK'
  <2>1. \A t \in Slots : c \notin guards[t] /\ guards[t] \subseteq Clients
    BY <1>1 DEF GuardsOK, RequestTypes
  <2>2. QED
    BY <1>1, <1>2, <2>1 DEF GuardsOK
<1>7. QED
  BY <1>3, <1>4, <1>5, <1>6 DEF RegistryInv

LEMMA InvClientLookup ==
  ASSUME RegistryInv, NEW c \in Clients,
         \/ \E i \in Ids : InvokeLookup(c, i)
         \/ EventSnapshot(c)
         \/ \E b \in Binaries : EventLookup(c, b)
  PROVE  RegistryInv'
<1>1. RequestTypes /\ SlotsOK /\ NoSlot \notin Slots
  BY RegistryFacts DEF RegistryInv
<1>2. /\ snapshot = [snapshot EXCEPT ![c] = snapshot[c]] /\ cslot = [cslot EXCEPT ![c] = cslot[c]]
      /\ runs = [runs EXCEPT ![c] = runs[c]]
      /\ snapshot[c] \in SUBSET Binaries /\ runs[c] \in Binaries \cup {NoBinary}
      /\ cslot[c] \in Slots \cup {NoSlot} /\ (cslot[c] # NoSlot => state[cslot[c]] # "FREE")
  BY <1>1 DEF RequestTypes, RegistryInv, ClientsOK
<1>3. ASSUME NEW i \in Ids, InvokeLookup(c, i) PROVE RegistryInv'
  <2>1. slots[i] \in Slots /\ state[slots[i]] # "FREE"
    BY <1>1, <1>3 DEF InvokeLookup, RequestTypes, SlotsOK
  <2>2. /\ UNCHANGED <<slotVars, operatorVars, snapshot, runs>> /\ cstep[c] = "idle"
        /\ cstep' = [cstep EXCEPT ![c] = "found"] /\ cslot' = [cslot EXCEPT ![c] = slots[i]]
    BY <1>3 DEF InvokeLookup
  <2>3. QED
    BY <1>1, <1>2, <2>1, <2>2, InvClientMoves
<1>4. CASE EventSnapshot(c)
  <2> DEFINE todo == {manifest[s] : s \in Listed} \cap Subscribed
  <2>1. todo \in SUBSET Binaries
    BY RegistryAssumption DEF RegistryAssumption
  <2>2. /\ UNCHANGED <<slotVars, operatorVars, cslot, runs>> /\ cstep[c] = "idle"
        /\ cstep' = [cstep EXCEPT ![c] = "next"] /\ snapshot' = [snapshot EXCEPT ![c] = todo]
    BY <1>4 DEF EventSnapshot
  <2> HIDE DEF todo
  <2>3. QED
    BY <1>2, <2>1, <2>2, InvClientMoves
<1>5. ASSUME NEW b \in Binaries, EventLookup(c, b) PROVE RegistryInv'
  <2> DEFINE s == slots[IdOf[b]]
             step == IF s # NoSlot THEN "found" ELSE IF snapshot'[c] = {} THEN "idle" ELSE "next"
  <2>1. IdOf[b] \in Ids
    BY <1>1, RegistryFacts
  <2>2. s \in Slots \cup {NoSlot} /\ (s # NoSlot => state[s] # "FREE")
    BY <1>1, <2>1 DEF RequestTypes, SlotsOK
  <2>3. /\ UNCHANGED <<slotVars, operatorVars, runs>> /\ cstep[c] = "next"
        /\ cstep' = [cstep EXCEPT ![c] = step] /\ cslot' = [cslot EXCEPT ![c] = s]
        /\ snapshot' = [snapshot EXCEPT ![c] = snapshot[c] \ {b}]
    BY <1>5 DEF EventLookup
  <2>4. step \in {"idle", "next", "found"} /\ (step = "found" => s # NoSlot)
    OBVIOUS
  <2>5. snapshot[c] \ {b} \in SUBSET Binaries
    BY <1>2
  <2> HIDE DEF s, step
  <2>6. QED
    BY <1>2, <2>2, <2>3, <2>4, <2>5, InvClientMoves
<1>6. QED
  BY <1>3, <1>4, <1>5

LEMMA InvAcquire ==
  ASSUME RegistryInv, NEW c \in Clients, Acquire(c)
  PROVE  RegistryInv'
<1> DEFINE s == cslot[c]
<1>1. /\ RequestTypes /\ OperatorsOK /\ SlotsOK /\ ModulesOK /\ ActiveListed
      /\ ClientsOK /\ GuardsOK /\ UnlistedOK
  BY DEF RegistryInv
<1>2. s \in Slots /\ cstep[c] = "found"
  BY <1>1 DEF Acquire, RequestTypes
<1>3. UNCHANGED <<slots, state, manifest, module, gaveUp, ostep, oslot, onew, oid, snapshot>>
  BY DEF Acquire, operatorVars
<1>4. CASE state[s] # "ACTIVE"
  <2> DEFINE step == IF snapshot[c] = {} THEN "idle" ELSE "next"
  <2>1. /\ UNCHANGED <<slotVars, operatorVars, snapshot>>
        /\ cstep' = [cstep EXCEPT ![c] = step] /\ cslot' = [cslot EXCEPT ![c] = NoSlot]
        /\ runs' = [runs EXCEPT ![c] = NoBinary]
    BY <1>3, <1>4 DEF Acquire, ClientDone, slotVars, operatorVars
  <2>2. snapshot = [snapshot EXCEPT ![c] = snapshot[c]] /\ snapshot[c] \in SUBSET Binaries
    BY <1>1 DEF RequestTypes
  <2>3. step \in {"idle", "next", "found"} /\ step # "found"
    OBVIOUS
  <2> HIDE DEF step
  <2>4. QED
    BY <1>2, <2>1, <2>2, <2>3, InvClientMoves
<1>5. CASE state[s] = "ACTIVE"
  <2>1. /\ guards' = [guards EXCEPT ![s] = @ \cup {c}]
        /\ cstep' = [cstep EXCEPT ![c] = "held"] /\ UNCHANGED <<cslot, runs>>
    BY <1>5 DEF Acquire
  <2>2. /\ guards' \in [Slots -> SUBSET Clients] /\ guards'[s] = guards[s] \cup {c}
        /\ \A t \in Slots : t # s => guards'[t] = guards[t]
        /\ cstep' \in [Clients -> {"idle", "next", "found", "held", "running"}]
        /\ cstep'[c] = "held" /\ \A d \in Clients : d # c => cstep'[d] = cstep[d]
    BY <1>1, <1>2, <2>1 DEF RequestTypes
  <2>3. RequestTypes'
    BY <1>1, <1>2, <1>3, <2>1, <2>2 DEF RequestTypes
  <2>4. OperatorsOK'
    <3> SUFFICES ASSUME NEW o \in Operators, Busy(o),
                        ostep[o] \in {"drained", "stored"}
                 PROVE  oslot[o] # s
      BY <1>1, <1>3, <2>2 DEF OperatorsOK, Busy
    <3>1. QED
      BY <1>1, <1>5 DEF OperatorsOK
  <2>5. (SlotsOK /\ ModulesOK /\ ActiveListed)'
    BY <1>1, <1>3 DEF SlotsOK, ModulesOK, ActiveListed, Listed
  <2>6. UnlistedOK'
    BY <1>1, <1>2, <1>3, <1>5, <2>2 DEF UnlistedOK, ActiveListed, Listed
  <2>7. ClientsOK'
    <3> SUFFICES ASSUME NEW d \in Clients
                 PROVE  /\ cslot[d] # NoSlot => state[cslot[d]] # "FREE"
                        /\ cstep'[d] \in {"held", "running"} => d \in guards'[cslot[d]]
                        /\ cstep'[d] = "running" /\ cslot[d] \notin gaveUp
                             => runs[d] = module[cslot[d]]
      BY <1>3, <2>1 DEF ClientsOK
    <3>1. CASE d = c
      BY <1>1, <2>2, <3>1 DEF ClientsOK
    <3>2. CASE d # c
      <4>1. cstep[d] \in {"held", "running"} => cslot[d] \in Slots
        BY <1>1 DEF RequestTypes
      <4>2. QED
        BY <1>1, <2>2, <3>2, <4>1 DEF ClientsOK
    <3>3. QED
      BY <3>1, <3>2
  <2>8. GuardsOK'
    BY <1>1, <1>2, <2>1, <2>2 DEF GuardsOK, RequestTypes
  <2>9. QED
    BY <2>3, <2>4, <2>5, <2>6, <2>7, <2>8 DEF RegistryInv
<1>6. QED
  BY <1>4, <1>5

LEMMA InvRun ==
  ASSUME RegistryInv, NEW c \in Clients, Run(c)
  PROVE  RegistryInv'
<1>1. /\ RequestTypes /\ OperatorsOK /\ SlotsOK /\ ModulesOK /\ ActiveListed
      /\ ClientsOK /\ GuardsOK /\ UnlistedOK
  BY DEF RegistryInv
<1>2. /\ UNCHANGED <<slots, state, manifest, module, guards, gaveUp, ostep, oslot, onew, oid,
                     cslot, snapshot>>
      /\ cstep[c] = "held" /\ cslot[c] \in Slots
  BY <1>1 DEF Run, slotVars, operatorVars, RequestTypes
<1>3. module[cslot[c]] \in Binaries
  <2>1. NoSlot \notin Slots
    BY <1>1, RegistryFacts
  <2>2. QED
    BY <1>1, <1>2, <2>1 DEF ClientsOK, ModulesOK
<1>4. /\ cstep' \in [Clients -> {"idle", "next", "found", "held", "running"}]
      /\ runs' \in [Clients -> Binaries \cup {NoBinary}]
      /\ cstep'[c] = "running" /\ runs'[c] = module[cslot[c]]
      /\ \A d \in Clients : d # c => cstep'[d] = cstep[d] /\ runs'[d] = runs[d]
  BY <1>1, <1>3 DEF Run, RequestTypes
<1>5. RequestTypes'
  <2>1. NoBinary \notin Binaries
    BY <1>1, RegistryFacts
  <2>2. QED
    BY <1>1, <1>2, <1>3, <1>4, <2>1 DEF RequestTypes
<1>6. (OperatorsOK /\ SlotsOK /\ ModulesOK /\ ActiveListed /\ UnlistedOK)'
  BY <1>1, <1>2 DEF OperatorsOK, Busy, SlotsOK, ModulesOK, ActiveListed, UnlistedOK, Listed
<1>7. (ClientsOK /\ GuardsOK)'
  <2>1. ClientsOK'
    BY <1>1, <1>2, <1>4 DEF ClientsOK
  <2>2. GuardsOK'
    BY <1>1, <1>2, <1>4 DEF GuardsOK, RequestTypes
  <2>3. QED
    BY <2>1, <2>2
<1>8. QED
  BY <1>5, <1>6, <1>7 DEF RegistryInv

(* A call returns or times out: either way the guard is dropped.             *)
LEMMA InvReturn ==
  ASSUME RegistryInv, NEW c \in Clients, Return(c) \/ Timeout(c)
  PROVE  RegistryInv'
<1> DEFINE s == cslot[c]
<1>1. /\ RequestTypes /\ OperatorsOK /\ SlotsOK /\ ModulesOK /\ ActiveListed
      /\ ClientsOK /\ GuardsOK /\ UnlistedOK
  BY DEF RegistryInv
<1> USE DEF LetGo
<1>2. /\ UNCHANGED <<slots, state, manifest, module, gaveUp, ostep, oslot, onew, oid, snapshot>>
      /\ cstep[c] = "running" /\ s \in Slots
  BY <1>1 DEF Return, Timeout, operatorVars, RequestTypes
<1>3. /\ guards' \in [Slots -> SUBSET Clients] /\ guards'[s] = guards[s] \ {c}
      /\ \A t \in Slots : t # s => guards'[t] = guards[t]
  BY <1>1, <1>2 DEF Return, Timeout, RequestTypes
<1>4. /\ cstep' \in [Clients -> {"idle", "next", "found", "held", "running"}]
      /\ cslot' \in [Clients -> Slots \cup {NoSlot}]
      /\ runs' \in [Clients -> Binaries \cup {NoBinary}]
      /\ cstep'[c] \in {"idle", "next"} /\ cslot'[c] = NoSlot
      /\ \A d \in Clients : d # c =>
           cstep'[d] = cstep[d] /\ cslot'[d] = cslot[d] /\ runs'[d] = runs[d]
  BY <1>1 DEF Return, Timeout, ClientDone, RequestTypes
<1>5. RequestTypes'
  BY <1>1, <1>2, <1>3, <1>4 DEF RequestTypes
<1>6. \A t \in Slots : guards'[t] \subseteq guards[t]
  BY <1>1, <1>2, <1>3
<1>7. OperatorsOK'
  BY <1>1, <1>2, <1>6 DEF OperatorsOK, Busy
<1>8. (SlotsOK /\ ModulesOK /\ ActiveListed /\ UnlistedOK)'
  BY <1>1, <1>2, <1>6 DEF SlotsOK, ModulesOK, ActiveListed, UnlistedOK, Listed
<1>9. ClientsOK'
  <2> SUFFICES ASSUME NEW d \in Clients
               PROVE  /\ cslot'[d] # NoSlot => state[cslot'[d]] # "FREE"
                      /\ cstep'[d] \in {"held", "running"} => d \in guards'[cslot'[d]]
                      /\ cstep'[d] = "running" /\ cslot'[d] \notin gaveUp
                           => runs'[d] = module[cslot'[d]]
    BY <1>2 DEF ClientsOK
  <2>1. CASE d = c
    BY <1>4, <2>1
  <2>2. CASE d # c
    <3>1. cstep[d] \in {"held", "running"} => cslot[d] \in Slots
      BY <1>1 DEF RequestTypes
    <3>2. QED
      BY <1>1, <1>3, <1>4, <2>2, <3>1 DEF ClientsOK
  <2>3. QED
    BY <2>1, <2>2
<1>10. GuardsOK'
  <2> SUFFICES ASSUME NEW t \in Slots, NEW d \in guards'[t]
               PROVE  cslot'[d] = t /\ cstep'[d] \in {"held", "running"}
    BY DEF GuardsOK
  <2>1. d \in guards[t] /\ d \in Clients /\ d # c
    BY <1>1, <1>3, <1>6 DEF GuardsOK, RequestTypes
  <2>2. QED
    BY <1>1, <1>4, <2>1 DEF GuardsOK
<1>11. QED
  BY <1>5, <1>7, <1>8, <1>9, <1>10 DEF RegistryInv

-----------------------------------------------------------------------------
(* The invariant is about requests, not about the threads they leave behind.  *)
LEMMA InvSame ==
  ASSUME RegistryInv,
         UNCHANGED <<slots, state, manifest, module, guards, gaveUp, ostep, oslot, onew, oid,
                     cstep, cslot, snapshot, runs>>
  PROVE  RegistryInv'
<1>1. RequestTypes'
  BY DEF RegistryInv, RequestTypes
<1>2. (OperatorsOK /\ SlotsOK /\ ModulesOK /\ ActiveListed)'
  BY DEF RegistryInv, OperatorsOK, Busy, SlotsOK, ModulesOK, ActiveListed, Listed
<1>3. (ClientsOK /\ GuardsOK /\ UnlistedOK)'
  BY DEF RegistryInv, ClientsOK, GuardsOK, UnlistedOK, Listed
<1>4. QED
  BY <1>1, <1>2, <1>3 DEF RegistryInv

(* A call that times out leaves a thread that runs some binary for some id.   *)
LEMMA ThreadTypesKept == RegistryInv /\ ThreadTypes /\ [Next]_vars => ThreadTypes'
<1> SUFFICES ASSUME RegistryInv, ThreadTypes, [Next]_vars PROVE ThreadTypes'
  OBVIOUS
<1> USE DEF ThreadTypes
<1>1. CASE UNCHANGED vars
  BY <1>1 DEF vars, clientVars
<1>2. ASSUME NEW o \in Operators, OperatorNext(o) PROVE ThreadTypes'
  BY <1>2 DEF OperatorNext, Load, OperatorLookup, StartDrain, EndDrain, Swap, Activate,
              MarkUnloaded, RemoveById, clientVars
<1>3. ASSUME NEW c \in Clients, ClientNext(c) PROVE ThreadTypes'
  <2>1. CASE Timeout(c)
    <3>1. /\ cslot[c] \in Slots /\ state[cslot[c]] # "FREE"
          /\ runs[c] \in Binaries
      BY <2>1, RegistryFacts DEF Timeout, RegistryInv, RequestTypes, ClientsOK
    <3>2. IdOf[manifest[cslot[c]]] \in Ids
      BY <3>1, RegistryFacts DEF RegistryInv, ModulesOK
    <3>3. QED
      BY <2>1, <3>1, <3>2 DEF Timeout, LetGo, ClientDone
  <2>2. CASE Return(c)
    BY <2>2 DEF Return, LetGo, ClientDone
  <2>3. CASE Acquire(c)
    BY <2>3 DEF Acquire, ClientDone
  <2>4. CASE Run(c) \/ EventSnapshot(c)
    BY <2>4 DEF Run, EventSnapshot
  <2>5. ASSUME NEW i \in Ids, InvokeLookup(c, i) PROVE ThreadTypes'
    BY <2>5 DEF InvokeLookup
  <2>6. ASSUME NEW b \in Binaries, EventLookup(c, b) PROVE ThreadTypes'
    BY <2>6 DEF EventLookup
  <2>7. QED
    BY <1>3, <2>1, <2>2, <2>3, <2>4, <2>5, <2>6 DEF ClientNext
<1>4. ASSUME NEW s \in Slots, FreeSlot(s) PROVE ThreadTypes'
  BY <1>4 DEF FreeSlot, clientVars
<1>5. ASSUME NEW t \in strays, StrayEnds(t) PROVE ThreadTypes'
  BY <1>5 DEF StrayEnds
<1>6. QED
  BY <1>1, <1>2, <1>3, <1>4, <1>5 DEF Next

LEMMA RegistryInvInductive == RegistryInv /\ OneOperatorEach /\ [Next]_vars => RegistryInv'
<1> SUFFICES ASSUME RegistryInv, OneOperatorEach, [Next]_vars PROVE RegistryInv'
  OBVIOUS
<1>1. CASE UNCHANGED vars
  BY <1>1, InvSame DEF vars, slotVars, operatorVars, clientVars
<1>2. ASSUME NEW o \in Operators, OperatorNext(o) PROVE RegistryInv'
  BY <1>2, InvLoad, InvLookup, InvRequest, InvRemove DEF OperatorNext
<1>3. ASSUME NEW c \in Clients, ClientNext(c) PROVE RegistryInv'
  BY <1>3, InvClientLookup, InvAcquire, InvRun, InvReturn DEF ClientNext
<1>4. ASSUME NEW s \in Slots, FreeSlot(s) PROVE RegistryInv'
  BY <1>4, InvFree
<1>5. ASSUME NEW t \in strays, StrayEnds(t) PROVE RegistryInv'
  BY <1>5, InvSame DEF StrayEnds, slotVars, operatorVars
<1>6. QED
  BY <1>1, <1>2, <1>3, <1>4, <1>5 DEF Next

(* Two calls on one plugin that run different code: they are on two slots,   *)
(* one of which is out of the registry, or on a slot that was swapped under  *)
(* one of them; either way a drain has given up.                             *)
LEMMA OneGenerationHolds == RegistryInv => OneGeneration
<1> SUFFICES ASSUME RegistryInv, NEW c \in Clients, NEW d \in Clients,
                    cstep[c] = "running", cstep[d] = "running",
                    IdOf[manifest[cslot[c]]] = IdOf[manifest[cslot[d]]],
                    cslot[c] \notin gaveUp, cslot[d] \notin gaveUp
             PROVE  cslot[c] = cslot[d] /\ runs[c] = runs[d]
  BY DEF OneGeneration
<1>1. /\ RequestTypes /\ SlotsOK /\ ClientsOK /\ UnlistedOK
      /\ cslot[c] \in Slots /\ cslot[d] \in Slots
  BY DEF RegistryInv, RequestTypes
<1>2. cslot[c] \in Listed /\ cslot[d] \in Listed
  BY <1>1 DEF ClientsOK, UnlistedOK
<1>3. PICK i \in Ids, j \in Ids : slots[i] = cslot[c] /\ slots[j] = cslot[d]
  BY <1>1, <1>2, RegistryFacts
<1>4. i = j
  BY <1>1, <1>3, RegistryFacts DEF SlotsOK
<1>5. runs[c] = module[cslot[c]] /\ runs[d] = module[cslot[d]]
  BY <1>1 DEF ClientsOK
<1>6. QED
  BY <1>3, <1>4, <1>5

(* As long as no two operators are at one plugin, a slot that calls can      *)
(* enter is in the registry, and calls run two generations of a plugin side  *)
(* by side only after a drain gave up.  (Threads of calls that have timed    *)
(* out are no calls: RegistryTimedOutCall.)                                  *)
THEOREM ActiveSlotsAreListed ==
  Spec /\ []OneOperatorEach => [](ActiveIsListed /\ OneGeneration)
<1>1. Init => RegistryInv /\ ThreadTypes
  BY RegistryInvInit DEF Init, ThreadTypes
<1>2. RegistryInv /\ ThreadTypes => ActiveIsListed /\ OneGeneration
  BY OneGenerationHolds DEF RegistryInv, ActiveListed, ActiveIsListed, TypeOK
<1>3. QED
  BY <1>1, <1>2, RegistryInvInductive, ThreadTypesKept, PTL DEF Spec
=============================================================================
