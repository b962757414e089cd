--------------------------- MODULE PluginRegistry ---------------------------
(***************************************************************************)
(* The plugin registry of corvid-plugin-host (registry.rs) and the request *)
(* handlers that use it (main.rs): a map from plugin ids to shared slots,  *)
(* read and written by connections that keep the slot they looked up       *)
(* across awaits.                                                          *)
(*                                                                         *)
(* A slot is an object of its own, alive while the map or a handler refers *)
(* to it.  Its call counter is the set of clients that own a guard, and    *)
(* try_acquire is one step: PluginSlot has the atomics below it.           *)
(***************************************************************************)
EXTENDS Naturals, FiniteSets

CONSTANTS
  Ids,          \* plugin ids
  Binaries,     \* WASM binaries, each with its manifest
  IdOf,         \* IdOf[b]: the id in the manifest of b
  Subscribed,   \* binaries whose event_filter holds the dispatched event
  Slots,        \* addresses of slot objects
  Operators,    \* connections that load, unload and reload plugins
  Clients,      \* connections that invoke tools and dispatch events
  NoSlot, NoBinary, NoId

ASSUME RegistryAssumption ==
  /\ IdOf \in [Binaries -> Ids]
  /\ Subscribed \subseteq Binaries
  /\ NoSlot \notin Slots /\ NoBinary \notin Binaries /\ NoId \notin Ids

VARIABLES
  slots,        \* slots[i]: the slot the registry maps i to
  state,        \* state[s]: PluginSlot.state, "FREE" when there is no such object
  manifest,     \* manifest[s]: PluginSlot.manifest (as the binary it is from)
  module,       \* module[s]: PluginSlot.module (as the binary it is from)
  guards,       \* guards[s]: clients that own a CallGuard of s
  gaveUp,       \* history: slots some drain of which hit its deadline
  ostep,        \* ostep[o]: how far operator o has come with its request
  oslot,        \* oslot[o]: the slot that request looked up
  onew,         \* onew[o]: the binary to reload to; NoBinary: an unload
  oid,          \* oid[o]: the id that request names
  cstep,        \* cstep[c]: how far client c has come
  cslot,        \* cslot[c]: the slot it looked up
  snapshot,     \* snapshot[c]: manifests an event has still to be dispatched to
  runs,         \* runs[c]: the module c executes
  invoking,     \* clients whose request is an invocation, bounded by a timeout
  strays        \* code that is executing although its call has timed out

slotVars == <<slots, state, manifest, module, guards, gaveUp>>
operatorVars == <<ostep, oslot, onew, oid>>
clientVars == <<cstep, cslot, snapshot, runs, invoking, strays>>
vars == <<slotVars, operatorVars, clientVars>>

Listed == {slots[i] : i \in Ids} \ {NoSlot}

RequestTypes ==
  /\ slots \in [Ids -> Slots \cup {NoSlot}]
  /\ state \in [Slots -> {"FREE", "ACTIVE", "DRAINING", "UNLOADED"}]
  /\ manifest \in [Slots -> Binaries \cup {NoBinary}]
  /\ module \in [Slots -> Binaries \cup {NoBinary}]
  /\ guards \in [Slots -> SUBSET Clients]
  /\ gaveUp \in SUBSET Slots
  /\ ostep \in [Operators -> {"idle", "found", "drain", "drained", "stored"}]
  /\ oslot \in [Operators -> Slots \cup {NoSlot}]
  /\ onew \in [Operators -> Binaries \cup {NoBinary}]
  /\ oid \in [Operators -> Ids \cup {NoId}]
  /\ cstep \in [Clients -> {"idle", "next", "found", "held", "running"}]
  /\ cslot \in [Clients -> Slots \cup {NoSlot}]
  /\ snapshot \in [Clients -> SUBSET Binaries]
  /\ runs \in [Clients -> Binaries \cup {NoBinary}]
  /\ \A c \in Clients : cstep[c] \in {"found", "held", "running"} => cslot[c] # NoSlot
  /\ \A c \in Clients : cstep[c] = "running" => runs[c] # NoBinary

ThreadTypes ==
  /\ invoking \in SUBSET Clients
  /\ strays \in SUBSET [id : Ids, module : Binaries]

TypeOK == RequestTypes /\ ThreadTypes

Init ==
  /\ slots = [i \in Ids |-> NoSlot]
  /\ state = [s \in Slots |-> "FREE"]
  /\ manifest = [s \in Slots |-> NoBinary]
  /\ module = [s \in Slots |-> NoBinary]
  /\ guards = [s \in Slots |-> {}]
  /\ gaveUp = {}
  /\ ostep = [o \in Operators |-> "idle"]
  /\ oslot = [o \in Operators |-> NoSlot]
  /\ onew = [o \in Operators |-> NoBinary]
  /\ oid = [o \in Operators |-> NoId]
  /\ cstep = [c \in Clients |-> "idle"]
  /\ cslot = [c \in Clients |-> NoSlot]
  /\ snapshot = [c \in Clients |-> {}]
  /\ runs = [c \in Clients |-> NoBinary]
  /\ invoking = {}
  /\ strays = {}

-----------------------------------------------------------------------------
(* plugin.load: the slot is built first, and inserted under the write lock  *)
(* if the id is vacant; otherwise it is dropped and the request fails.      *)
Load(o, b) ==
  /\ ostep[o] = "idle"
  /\ slots[IdOf[b]] = NoSlot
  /\ \E s \in Slots :
       /\ state[s] = "FREE"
       /\ slots' = [slots EXCEPT ![IdOf[b]] = s]
       /\ state' = [state EXCEPT ![s] = "ACTIVE"]
       /\ manifest' = [manifest EXCEPT ![s] = b]
       /\ module' = [module EXCEPT ![s] = b]
  /\ UNCHANGED <<guards, gaveUp, operatorVars, clientVars>>

(* plugin.unload and plugin.reload: registry.get under the read lock.  The  *)
(* id of a reload is the request's, never compared with the new manifest's. *)
OperatorLookup(o, i, b) ==
  /\ ostep[o] = "idle"
  /\ slots[i] # NoSlot
  /\ ostep' = [ostep EXCEPT ![o] = "found"]
  /\ oslot' = [oslot EXCEPT ![o] = slots[i]]
  /\ onew' = [onew EXCEPT ![o] = b]
  /\ oid' = [oid EXCEPT ![o] = i]
  /\ UNCHANGED <<slotVars, clientVars>>

StartDrain(o) ==
  /\ ostep[o] = "found"
  /\ ostep' = [ostep EXCEPT ![o] = "drain"]
  /\ state' = [state EXCEPT ![oslot[o]] = "DRAINING"]
  /\ UNCHANGED <<slots, manifest, module, guards, gaveUp, oslot, onew, oid,
                 clientVars>>

(* Faulty variant: the drain does not wait.                                 *)
EndDrainAtOnce(o) ==
  /\ ostep[o] = "drain"
  /\ ostep' = [ostep EXCEPT ![o] = "drained"]
  /\ UNCHANGED <<slotVars, oslot, onew, oid, clientVars>>

(* The poll loop ends: nobody owns a guard, or the deadline has passed.     *)
EndDrain(o) ==
  /\ ostep[o] = "drain"
  /\ \/ guards[oslot[o]] = {} /\ UNCHANGED gaveUp
     \/ guards[oslot[o]] # {} /\ gaveUp' = gaveUp \cup {oslot[o]}
  /\ ostep' = [ostep EXCEPT ![o] = "drained"]
  /\ UNCHANGED <<slots, state, manifest, module, guards, oslot, onew, oid,
                 clientVars>>

(* drain_and_reload replaces the module and nothing else of the slot.       *)
Swap(o) ==
  /\ ostep[o] = "drained" /\ onew[o] # NoBinary
  /\ ostep' = [ostep EXCEPT ![o] = "stored"]
  /\ module' = [module EXCEPT ![oslot[o]] = onew[o]]
  /\ UNCHANGED <<slots, state, manifest, guards, gaveUp, oslot, onew, oid,
                 clientVars>>

OperatorDone(o) ==
  /\ ostep' = [ostep EXCEPT ![o] = "idle"]
  /\ oslot' = [oslot EXCEPT ![o] = NoSlot]
  /\ onew' = [onew EXCEPT ![o] = NoBinary]
  /\ oid' = [oid EXCEPT ![o] = NoId]

Activate(o) ==
  /\ ostep[o] = "stored" /\ onew[o] # NoBinary
  /\ state' = [state EXCEPT ![oslot[o]] = "ACTIVE"]
  /\ OperatorDone(o)
  /\ UNCHANGED <<slots, manifest, module, guards, gaveUp, clientVars>>

MarkUnloaded(o) ==
  /\ ostep[o] = "drained" /\ onew[o] = NoBinary
  /\ ostep' = [ostep EXCEPT ![o] = "stored"]
  /\ state' = [state EXCEPT ![oslot[o]] = "UNLOADED"]
  /\ UNCHANGED <<slots, manifest, module, guards, gaveUp, oslot, onew, oid,
                 clientVars>>

(* Faulty variant: unload only takes the slot out of the map.               *)
RemoveOldest(o) ==
  /\ ostep[o] = "found" /\ onew[o] = NoBinary
  /\ slots' = [slots EXCEPT ![oid[o]] = NoSlot]
  /\ OperatorDone(o)
  /\ UNCHANGED <<state, manifest, module, guards, gaveUp, clientVars>>

(* remove(id): whatever slot the id maps to by now.                         *)
RemoveById(o) ==
  /\ ostep[o] = "stored" /\ onew[o] = NoBinary
  /\ slots' = [slots EXCEPT ![oid[o]] = NoSlot]
  /\ OperatorDone(o)
  /\ UNCHANGED <<state, manifest, module, guards, gaveUp, clientVars>>

(* The last Arc of a slot goes away.                                        *)
FreeSlot(s) ==
  /\ state[s] # "FREE"
  /\ s \notin Listed
  /\ \A o \in Operators : oslot[o] # s
  /\ \A c \in Clients : cslot[c] # s
  /\ state' = [state EXCEPT ![s] = "FREE"]
  /\ manifest' = [manifest EXCEPT ![s] = NoBinary]
  /\ module' = [module EXCEPT ![s] = NoBinary]
  /\ gaveUp' = gaveUp \ {s}
  /\ UNCHANGED <<slots, guards, operatorVars, clientVars>>

-----------------------------------------------------------------------------
(* plugin.invoke: registry.get.                                             *)
InvokeLookup(c, i) ==
  /\ cstep[c] = "idle"
  /\ slots[i] # NoSlot
  /\ cstep' = [cstep EXCEPT ![c] = "found"]
  /\ cslot' = [cslot EXCEPT ![c] = slots[i]]
  /\ invoking' = invoking \cup {c}
  /\ UNCHANGED <<slotVars, operatorVars, snapshot, runs, strays>>

(* plugin.event: list_manifests, then one plugin after the other, each      *)
(* looked up again by the id in the manifest.                               *)
EventSnapshot(c) ==
  /\ cstep[c] = "idle"
  /\ snapshot' = [snapshot EXCEPT ![c] = {manifest[s] : s \in Listed} \cap Subscribed]
  /\ snapshot'[c] # {}
  /\ cstep' = [cstep EXCEPT ![c] = "next"]
  /\ UNCHANGED <<slotVars, operatorVars, cslot, runs, invoking, strays>>

(* Faulty variant: a plugin unloaded since the snapshot is not skipped.     *)
EventLookupUnchecked(c, b) ==
  /\ cstep[c] = "next"
  /\ b \in snapshot[c]
  /\ snapshot' = [snapshot EXCEPT ![c] = @ \ {b}]
  /\ cslot' = [cslot EXCEPT ![c] = slots[IdOf[b]]]
  /\ cstep' = [cstep EXCEPT ![c] = "found"]
  /\ UNCHANGED <<slotVars, operatorVars, runs, invoking, strays>>

EventLookup(c, b) ==
  /\ cstep[c] = "next"
  /\ b \in snapshot[c]
  /\ snapshot' = [snapshot EXCEPT ![c] = @ \ {b}]
  /\ LET s == slots[IdOf[b]] IN
       /\ cslot' = [cslot EXCEPT ![c] = s]
       /\ cstep' = [cstep EXCEPT ![c] = IF s # NoSlot THEN "found"
                                        ELSE IF snapshot'[c] = {} THEN "idle"
                                        ELSE "next"]
  /\ UNCHANGED <<slotVars, operatorVars, runs, invoking, strays>>

(* The client is through with a plugin: an event goes on to the next one.   *)
ClientDone(c) ==
  /\ cstep' = [cstep EXCEPT ![c] = IF snapshot[c] = {} THEN "idle" ELSE "next"]
  /\ cslot' = [cslot EXCEPT ![c] = NoSlot]
  /\ runs' = [runs EXCEPT ![c] = NoBinary]
  /\ invoking' = invoking \ {c}

Acquire(c) ==
  /\ cstep[c] = "found"
  /\ \/ /\ state[cslot[c]] = "ACTIVE"
        /\ guards' = [guards EXCEPT ![cslot[c]] = @ \cup {c}]
        /\ cstep' = [cstep EXCEPT ![c] = "held"]
        /\ UNCHANGED <<cslot, runs, invoking>>
     \/ /\ state[cslot[c]] # "ACTIVE"
        /\ ClientDone(c)
        /\ UNCHANGED guards
  /\ UNCHANGED <<slots, state, manifest, module, gaveUp, operatorVars, snapshot,
                 strays>>

(* The module is cloned under its read lock and run.                        *)
Run(c) ==
  /\ cstep[c] = "held"
  /\ cstep' = [cstep EXCEPT ![c] = "running"]
  /\ runs' = [runs EXCEPT ![c] = module[cslot[c]]]
  /\ UNCHANGED <<slotVars, operatorVars, cslot, snapshot, invoking, strays>>

(* The handler is through with the call and drops its guard.                *)
LetGo(c) ==
  /\ guards' = [guards EXCEPT ![cslot[c]] = @ \ {c}]
  /\ ClientDone(c)
  /\ UNCHANGED <<slots, state, manifest, module, gaveUp, operatorVars, snapshot>>

Return(c) ==
  /\ cstep[c] = "running"
  /\ LetGo(c)
  /\ UNCHANGED strays

(* The tier's wall-clock timeout answers an invocation and lets its guard   *)
(* go; the blocking thread runs on.                                         *)
Timeout(c) ==
  /\ cstep[c] = "running" /\ c \in invoking
  /\ LetGo(c)
  /\ strays' = strays \cup {[id |-> IdOf[manifest[cslot[c]]], module |-> runs[c]]}

(* The last of the threads that run this code comes to its end.             *)
StrayEnds(t) ==
  /\ strays' = strays \ {t}
  /\ UNCHANGED <<slotVars, operatorVars, cstep, cslot, snapshot, runs, invoking>>

-----------------------------------------------------------------------------
OperatorNext(o) ==
  \/ \E b \in Binaries : Load(o, b)
  \/ \E i \in Ids, b \in Binaries \cup {NoBinary} : OperatorLookup(o, i, b)
  \/ StartDrain(o) \/ EndDrain(o) \/ Swap(o) \/ Activate(o)
  \/ MarkUnloaded(o) \/ RemoveById(o)

ClientNext(c) ==
  \/ \E i \in Ids : InvokeLookup(c, i)
  \/ EventSnapshot(c)
  \/ \E b \in Binaries : EventLookup(c, b)
  \/ Acquire(c) \/ Run(c) \/ Return(c) \/ Timeout(c)

Next ==
  \/ \E o \in Operators : OperatorNext(o)
  \/ \E c \in Clients : ClientNext(c)
  \/ \E s \in Slots : FreeSlot(s)
  \/ \E t \in strays : StrayEnds(t)

Spec == Init /\ [][Next]_vars

-----------------------------------------------------------------------------

(* Two generations of a plugin never serve calls side by side: calls that   *)
(* are under way on one id are calls on one slot and on one module of it,   *)
(* whatever is loaded, reloaded and unloaded meanwhile, unless a drain of a *)
(* slot gave up.  Threads whose call has timed out are no calls any more;   *)
(* OldCodeStopped is about those.                                           *)
OneGeneration ==
  \A c, d \in Clients :
    /\ cstep[c] = "running" /\ cstep[d] = "running"
    /\ IdOf[manifest[cslot[c]]] = IdOf[manifest[cslot[d]]]
    /\ cslot[c] # cslot[d] \/ runs[c] # runs[d]
    => {cslot[c], cslot[d]} \cap gaveUp # {}

(* Once a drain has ended without giving up, and the new module is in       *)
(* ("3 in-flight calls complete; old instance shuts down; new instance      *)
(* loads and activates"), nothing executes the old one.                     *)
OldCodeStopped ==
  \A t \in strays, s \in Listed \ gaveUp :
    state[s] = "ACTIVE" /\ IdOf[manifest[s]] = t.id => t.module = module[s]

(* A slot that calls can still enter is one the registry knows: no call     *)
(* starts on a plugin after its unload has returned, and none on a slot     *)
(* that is not there.                                                       *)
ActiveIsListed ==
  TypeOK /\ \A s \in Slots : state[s] = "ACTIVE" => s \in Listed

=============================================================================
