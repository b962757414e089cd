----------------------------- MODULE PluginSlot -----------------------------
(***************************************************************************)
(* One plugin slot of corvid-plugin-host (registry.rs) and the requests    *)
(* that meet on it, at the granularity of single atomic accesses.          *)
(*                                                                         *)
(* A caller is one plugin.invoke or plugin.event request together with the *)
(* blocking thread it spawns to run the WASM code; callers in Timed are    *)
(* plugin.invoke requests, which race that thread against the tier's       *)
(* wall-clock timeout, the others are event dispatches, which do not.  An  *)
(* admin is one connection issuing plugin.reload and plugin.unload         *)
(* requests one after the other; two admins are two connections.           *)
(***************************************************************************)
EXTENDS Naturals, Sequences, FiniteSets

CONSTANTS
  Callers,        \* requests that call the plugin
  Timed,          \* those of them that are bounded by the tier's timeout
  Admins,         \* connections that reload or unload the plugin
  Modules,        \* compiled WASM modules
  StoreBuffer,    \* TRUE: a plain atomic store may be delayed past the loads
                  \* that follow it (x86); FALSE: accesses are sequential
  Cancellation    \* TRUE: the future of a reload or an unload may be dropped at
                  \* an await

ASSUME ConstantsAssumption ==
  /\ IsFiniteSet(Callers)
  /\ Timed \subseteq Callers
  /\ Modules # {}
  /\ StoreBuffer \in BOOLEAN
  /\ Cancellation \in BOOLEAN

VARIABLES
  state,          \* PluginSlot.state, as other cores see it
  active_calls,   \* PluginSlot.active_calls
  module,         \* PluginSlot.module
  listed,         \* the registry's map still holds the slot
  call,           \* call[c]: how far caller c has come
  step,           \* step[a]: how far admin a has come
  op,             \* op[a]: what a is doing
  new,            \* new[a]: the module a is reloading to
  expired,        \* admins whose 30 s drain deadline has passed
  forced,         \* history: admins that stopped waiting because it had
  abandoned,      \* history: an unload was dropped half-way and no drain has
                  \* begun since
  buffer          \* buffer[a]: stores to state that a's core still holds back

slotVars == <<state, active_calls, module, listed>>
adminVars == <<step, op, new, expired, forced, abandoned, buffer>>
vars == <<slotVars, call, adminVars>>

SlotState == {"ACTIVE", "DRAINING", "UNLOADED"}
CallStep == {"idle", "found", "checked", "counted", "backout", "held",
             "running", "finished", "timedout", "orphan"}
AdminStep == {"idle", "found", "poll", "sleep", "swap", "activate", "retire",
              "remove"}

(* Callers whose increment of active_calls is not undone yet. *)
Counted(c) == call[c] \in {"counted", "backout", "held", "running", "finished",
                           "timedout"}
(* Callers that own a CallGuard. *)
Holds(c) == call[c] \in {"held", "running", "finished", "timedout"}

Draining(a) == step[a] \in {"poll", "sleep", "swap", "activate", "retire"}
(* An admin at work has a store or the removal of the slot before it, or a  *)
(* store that its core still holds back.                                    *)
AtWork(a) == Draining(a) \/ step[a] = "remove" \/ buffer[a] # <<>>

TypeOK ==
  /\ state \in SlotState
  /\ active_calls \in Nat
  /\ module \in Modules
  /\ listed \in BOOLEAN
  /\ call \in [Callers -> CallStep]
  /\ step \in [Admins -> AdminStep]
  /\ op \in [Admins -> {"reload", "unload"}]
  /\ new \in [Admins -> Modules]
  /\ expired \in SUBSET Admins
  /\ forced \in SUBSET Admins
  /\ abandoned \in BOOLEAN
  /\ buffer \in [Admins -> Seq(SlotState)]

Init ==
  /\ state = "ACTIVE"
  /\ active_calls = 0
  /\ module \in Modules
  /\ listed = TRUE
  /\ call = [c \in Callers |-> "idle"]
  /\ step = [a \in Admins |-> "idle"]
  /\ op = [a \in Admins |-> "reload"]
  /\ new = [a \in Admins |-> module]
  /\ expired = {}
  /\ forced = {}
  /\ abandoned = FALSE
  /\ buffer = [a \in Admins |-> <<>>]

-----------------------------------------------------------------------------
(* Callers: try_acquire, the body of handle_invoke / handle_event, Drop.    *)

CallerMoves(c, from, to) ==
  /\ call[c] = from
  /\ call' = [call EXCEPT ![c] = to]
  /\ UNCHANGED adminVars

(* registry.get: from here on the caller owns an Arc of the slot, listed or *)
(* not.                                                                     *)
Lookup(c) ==
  /\ listed
  /\ CallerMoves(c, "idle", "found")
  /\ UNCHANGED slotVars

(* The handler's is_active test and the first one of try_acquire: two loads *)
(* with nothing between them that anybody could see, hence one step.        *)
CheckState(c) ==
  /\ CallerMoves(c, "found", IF state = "ACTIVE" THEN "checked" ELSE "idle")
  /\ UNCHANGED slotVars

Increment(c) ==
  /\ CallerMoves(c, "checked", "counted")
  /\ active_calls' = active_calls + 1
  /\ UNCHANGED <<state, module, listed>>

(* Faulty variant: try_acquire without the load after the increment.        *)
RecheckOmitted(c) ==
  /\ CallerMoves(c, "counted", "held")
  /\ UNCHANGED slotVars

Recheck(c) ==
  /\ CallerMoves(c, "counted", IF state = "ACTIVE" THEN "held" ELSE "backout")
  /\ UNCHANGED slotVars

(* Faulty variant: the refused caller leaves its increment behind.          *)
BackOutKeepsCount(c) ==
  /\ CallerMoves(c, "backout", "idle")
  /\ UNCHANGED slotVars

BackOut(c) ==
  /\ CallerMoves(c, "backout", "idle")
  /\ active_calls' = active_calls - 1
  /\ UNCHANGED <<state, module, listed>>

(* The caller clones the module under the read lock and spawns the blocking *)
(* thread that runs it.                                                     *)
Spawn(c) ==
  /\ CallerMoves(c, "held", "running")
  /\ UNCHANGED slotVars

(* The WASM code returns, traps or runs out of fuel.  A caller that has     *)
(* already timed out no longer waits for it.                                *)
ThreadEnds(c) ==
  /\ \/ CallerMoves(c, "running", "finished")
     \/ CallerMoves(c, "timedout", "finished")
     \/ CallerMoves(c, "orphan", "idle")
  /\ UNCHANGED slotVars

(* Faulty variant: the handler awaits the thread without a timeout.         *)
TimeoutIgnored(c) == FALSE /\ UNCHANGED vars

(* tokio::time::timeout gives up on the join handle; a blocking thread      *)
(* cannot be aborted and runs on.                                           *)
Timeout(c) ==
  /\ c \in Timed
  /\ CallerMoves(c, "running", "timedout")
  /\ UNCHANGED slotVars

(* The handler returns and its CallGuard is dropped.                        *)
DropGuard(c) ==
  /\ \/ CallerMoves(c, "finished", "idle")
     \/ CallerMoves(c, "timedout", "orphan")
  /\ active_calls' = active_calls - 1
  /\ UNCHANGED <<state, module, listed>>

-----------------------------------------------------------------------------
(* Admins: registry.reload / drain_and_reload and registry.unload / unload. *)

AdminMoves(a, from, to) ==
  /\ step[a] = from
  /\ step' = [step EXCEPT ![a] = to]
  /\ UNCHANGED call

(* A drain begins, with 30 s to go, or the request is over.                 *)
NewDeadline(a) == expired' = expired \ {a} /\ forced' = forced \ {a}

(* A store to state: at once, or into the store buffer of a's core.         *)
Store(a, s) ==
  IF StoreBuffer
  THEN buffer' = [buffer EXCEPT ![a] = Append(@, s)] /\ UNCHANGED state
  ELSE state' = s /\ UNCHANGED buffer

(* The oldest store of a's buffer reaches the memory.                       *)
Flush(a) ==
  /\ buffer[a] # <<>>
  /\ state' = Head(buffer[a])
  /\ buffer' = [buffer EXCEPT ![a] = Tail(@)]
  /\ UNCHANGED <<active_calls, module, listed, call, step, op, new, expired,
                 forced, abandoned>>

(* Locks, timers and compare_exchange are read-modify-writes: they wait for *)
(* the stores before them.                                                  *)
Fenced(a) == buffer[a] = <<>>

Begin(a) ==
  /\ listed
  /\ Fenced(a)
  /\ AdminMoves(a, "idle", "found")
  /\ \/ /\ op' = [op EXCEPT ![a] = "reload"]
        /\ \E m \in Modules : new' = [new EXCEPT ![a] = m]
     \/ /\ op' = [op EXCEPT ![a] = "unload"]
        /\ UNCHANGED new
  /\ UNCHANGED <<slotVars, expired, forced, abandoned, buffer>>

StartDrain(a) ==
  /\ AdminMoves(a, "found", "poll")
  /\ Store(a, "DRAINING")
  /\ NewDeadline(a)
  /\ abandoned' = FALSE
  /\ UNCHANGED <<active_calls, module, listed, op, new>>

Polled(a) == IF op[a] = "reload" THEN "swap" ELSE "retire"

(* Faulty variant: the drain loop without its deadline.                     *)
PollForever(a) ==
  /\ AdminMoves(a, "poll", IF active_calls = 0 THEN Polled(a) ELSE "sleep")
  /\ UNCHANGED <<slotVars, op, new, expired, forced, abandoned,
                 buffer>>

(* One turn of the drain loop: leave it when no call is active, give up     *)
(* when the deadline has passed, sleep 50 ms otherwise.                     *)
Poll(a) ==
  /\ \/ /\ active_calls = 0
        /\ AdminMoves(a, "poll", Polled(a))
        /\ UNCHANGED forced
     \/ /\ active_calls > 0
        /\ a \in expired
        /\ AdminMoves(a, "poll", Polled(a))
        /\ forced' = forced \cup {a}
     \/ /\ active_calls > 0
        /\ a \notin expired
        /\ AdminMoves(a, "poll", "sleep")
        /\ UNCHANGED forced
  /\ UNCHANGED <<slotVars, op, new, expired, abandoned, buffer>>

Wake(a) ==
  /\ Fenced(a)
  /\ AdminMoves(a, "sleep", "poll")
  /\ UNCHANGED <<slotVars, op, new, expired, forced, abandoned,
                 buffer>>

DeadlinePasses(a) ==
  /\ step[a] \in {"poll", "sleep"}
  /\ a \notin expired
  /\ expired' = expired \cup {a}
  /\ UNCHANGED <<slotVars, call, step, op, new, forced, abandoned, buffer>>

Swap(a) ==
  /\ Fenced(a)
  /\ AdminMoves(a, "swap", "activate")
  /\ module' = new[a]
  /\ UNCHANGED <<state, active_calls, listed, op, new, expired, forced, abandoned,
                 buffer>>

Activate(a) ==
  /\ AdminMoves(a, "activate", "idle")
  /\ Store(a, "ACTIVE")
  /\ NewDeadline(a)
  /\ UNCHANGED <<active_calls, module, listed, op, new, abandoned>>

Retire(a) ==
  /\ AdminMoves(a, "retire", "remove")
  /\ Store(a, "UNLOADED")
  /\ UNCHANGED <<active_calls, module, listed, op, new, expired, forced,
                 abandoned>>

(* registry.unload takes the slot out of the map once slot.unload returns.  *)
Remove(a) ==
  /\ Fenced(a)
  /\ AdminMoves(a, "remove", "idle")
  /\ listed' = FALSE
  /\ NewDeadline(a)
  /\ UNCHANGED <<state, active_calls, module, op, new, abandoned, buffer>>

(* Faulty variant: the reload's future is dropped and no scopeguard runs.   *)
CancelUnguarded(a) ==
  /\ Cancellation
  /\ Fenced(a)
  /\ op[a] = "reload"
  /\ AdminMoves(a, "sleep", "idle")
  /\ UNCHANGED <<slotVars, op, new, expired, forced, abandoned,
                 buffer>>

(* The future of a request is dropped while it sleeps or waits for a lock.  *)
(* A reload has a scopeguard that resets the state if it is still DRAINING; *)
(* an unload has none, and leaves the slot draining or not yet removed.     *)
Cancel(a) ==
  /\ Cancellation
  /\ Fenced(a)
  /\ AdminMoves(a, step[a], "idle")
  /\ \/ /\ op[a] = "reload" /\ step[a] \in {"sleep", "swap"}
        /\ state' = IF state = "DRAINING" THEN "ACTIVE" ELSE state
        /\ UNCHANGED abandoned
     \/ /\ op[a] = "unload" /\ step[a] \in {"sleep", "remove"}
        /\ abandoned' = TRUE
        /\ UNCHANGED state
  /\ NewDeadline(a)
  /\ UNCHANGED <<active_calls, module, listed, op, new, buffer>>

-----------------------------------------------------------------------------
CallerNext(c) ==
  \/ Lookup(c) \/ CheckState(c) \/ Increment(c) \/ Recheck(c) \/ BackOut(c)
  \/ Spawn(c) \/ ThreadEnds(c) \/ Timeout(c) \/ DropGuard(c)

AdminNext(a) ==
  \/ Begin(a) \/ StartDrain(a) \/ Poll(a) \/ Wake(a) \/ DeadlinePasses(a)
  \/ Swap(a) \/ Activate(a) \/ Retire(a) \/ Remove(a) \/ Cancel(a) \/ Flush(a)

Next ==
  \/ \E c \in Callers : CallerNext(c)
  \/ \E a \in Admins : AdminNext(a)

Spec == Init /\ [][Next]_vars

(* The runtime polls every ready task, the clock advances and a core drains *)
(* its store buffer.  Nothing is assumed of ThreadEnds: plugin code may     *)
(* never return.  Nobody has to issue a request.                            *)
Fairness ==
  /\ \A c \in Callers :
       /\ WF_vars(CheckState(c)) /\ WF_vars(Increment(c)) /\ WF_vars(Recheck(c))
       /\ WF_vars(BackOut(c)) /\ WF_vars(Spawn(c)) /\ WF_vars(Timeout(c))
       /\ WF_vars(DropGuard(c))
  /\ \A a \in Admins :
       /\ WF_vars(StartDrain(a)) /\ WF_vars(Poll(a)) /\ WF_vars(Wake(a))
       /\ WF_vars(DeadlinePasses(a)) /\ WF_vars(Swap(a))
       /\ WF_vars(Activate(a)) /\ WF_vars(Retire(a)) /\ WF_vars(Remove(a))
       /\ WF_vars(Flush(a))

FairSpec == Spec /\ Fairness

-----------------------------------------------------------------------------
(* active_calls counts the callers between their increment and its undoing, *)
(* whatever the interleaving: it neither underflows nor leaks, so no drain  *)
(* is blocked by a call that is over (try_acquire, CallGuard::drop).        *)
CountMatchesCalls == active_calls = Cardinality({c \in Callers : Counted(c)})

(* A drain that did not give up swaps or retires the module only when no    *)
(* caller owns a guard, and none gets one until the slot is reopened        *)
(* ("waits up to 30s for in-flight calls before swapping").                 *)
DrainedMeansQuiet ==
  \A a \in Admins \ forced :
    step[a] \in {"swap", "activate", "retire"} => \A c \in Callers : ~Holds(c)

(* A slot that is in the map refuses calls only while somebody is at work   *)
(* on it, or because the future of an unload was dropped (unload has no     *)
(* scopeguard) and no reload or unload has begun since: nothing else that   *)
(* overlapping, delayed or dropped requests do leaves a plugin unavailable. *)
RefusalHasOwner ==
  listed /\ state # "ACTIVE" => abandoned \/ \E a \in Admins : AtWork(a)

(* Every reload and unload returns, even when plugin code never does.       *)
DrainReturns == \A a \in Admins : step[a] = "found" ~> step[a] = "idle"

(* Every plugin.invoke request is answered, even when plugin code never     *)
(* returns and the slot is being drained.                                   *)
InvokeAnswered ==
  \A c \in Timed : call[c] = "found" ~> call[c] \in {"idle", "orphan"}

(* The slot as DrainGate describes it: whoever closes the gate finds it     *)
(* empty, or has waited long enough, before it touches the module.          *)
GateOf ==
  IF listed /\ state # "ACTIVE" /\ \A a \in Admins : ~AtWork(a)
  THEN "left"
  ELSE [ACTIVE |-> "open", DRAINING |-> "closed", UNLOADED |-> "gone"][state]

Gate == INSTANCE DrainGate WITH
  gate <- GateOf,
  inside <- {c \in Callers : Holds(c)},
  overdue <- \E a \in expired : Draining(a)

ImplementsGate == Gate!Spec

-----------------------------------------------------------------------------
(* What holds when admins come from one connection, one after the other,    *)
(* and accesses are sequentially consistent: the inductive invariant behind *)
(* DrainedMeansQuiet and the refinement of DrainGate.                       *)
Serial == ~StoreBuffer /\ \A a, b \in Admins : a = b

StateMatchesStep ==
  \A a \in Admins :
    /\ buffer[a] = <<>>
    /\ step[a] # "idle" => listed
    /\ Draining(a) => state = "DRAINING"
    /\ step[a] = "remove" => state = "UNLOADED"
    /\ a \in forced /\ Draining(a) => a \in expired

SerialInv == StateMatchesStep /\ DrainedMeansQuiet
=============================================================================
