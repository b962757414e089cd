---------------------------- MODULE NanoRuntime ----------------------------
(***************************************************************************)
(* The event loop of nano-runtime (runtime.rs): one task that polls the    *)
(* transport, takes events off a bounded bus, hands each to the subscribed *)
(* plugins in registration order and executes the actions they return.     *)
(* That task is the bus's only consumer and, through the actions, also its *)
(* main producer.                                                          *)
(***************************************************************************)
EXTENDS Naturals, Sequences, FiniteSets, FiniteSetsExt

CONSTANTS
  Registered,     \* the plugins, in registration order: records as below
  TransportHangs, \* a request of the transport may never return
  Capacity,       \* of the bus: mpsc::channel(256)
  MaxMessages,    \* bound: messages that reach the transport
  MaxInjected     \* bound: events injected through event_sender

Plugins == DOMAIN Registered
Messages == 1..MaxMessages
Kinds == {"MessageReceived", "MessageSent", "PluginLoaded", "Custom", "Shutdown"}
ActionKinds == {"SendMessage", "EmitEvent"}

(* The hub plugin forwards every message and polls for the answer, and      *)
(* returns one reply whether it gets one, the task fails, the polls run out *)
(* or there is no hub.  Its requests have no timeout.                       *)
HubPlugin ==
  [subscriptions |-> {"MessageReceived"}, returns |-> {<<"SendMessage">>}, hangs |-> TRUE]

(* The first rule whose pattern the message contains gives the reply.       *)
AutoReplyPlugin ==
  [subscriptions |-> {"MessageReceived"}, returns |-> {<<>>, <<"SendMessage">>}, hangs |-> FALSE]

ASSUME RuntimeAssumption ==
  /\ MaxMessages \in Nat /\ MaxInjected \in Nat
  /\ Capacity \in Nat \ {0} /\ TransportHangs \in BOOLEAN
  /\ Registered \in Seq([subscriptions : SUBSET Kinds, returns : SUBSET Seq(ActionKinds),
                         hangs : BOOLEAN])

VARIABLES
  phase,          \* where main and Runtime::run are
  loaded,         \* plugins registered so far
  requested,      \* the shutdown signal has been given
  inbox,          \* messages the transport has and recv has not returned
  receiving,      \* whether recv is being awaited, and whether it will return
  batch,          \* messages of the last recv that are still to be dispatched
  bus,            \* the event channel
  event,          \* the event being dispatched, or the last one
  todo,           \* the subscribed plugins that have not finished with it
  handling,       \* handle_event of the first of them is being awaited
  actions,        \* actions it returned that are still to be executed
  pending,        \* events an action waits to put on the bus (at most one)
  arrived,        \* history: messages that reached the transport
  injected,       \* history: events injected from outside
  seen,           \* history: seen[p]: messages p's handler was called with
  sent,           \* history: the messages accepted transport sends answered
  receipts        \* history: MessageSent events put on the bus

lifeVars == <<phase, loaded, requested>>
inboxVars == <<inbox, receiving>>
dispatchVars == <<event, todo, handling, actions, pending>>
vars == <<lifeVars, inboxVars, batch, bus, dispatchVars,
          arrived, injected, seen, sent, receipts>>

Event(kind, msg) == [kind |-> kind, msg |-> msg]
Events == [kind : Kinds, msg : Messages \cup {0}]

TypeOK ==
  /\ phase \in {"loading", "running", "stopping", "stopped", "failed"}
  /\ loaded \in 0..Len(Registered)
  /\ requested \in BOOLEAN /\ receiving \in {"no", "yes", "forever"}
  /\ inbox \in Seq(Messages) /\ batch \in Seq(Messages)
  /\ bus \in Seq(Events) /\ Len(bus) <= Capacity
  /\ event \in Events
  /\ todo \in SUBSET Plugins
  /\ handling \in BOOLEAN /\ (handling => todo # {} /\ actions = <<>>)
  /\ actions \in Seq(ActionKinds)
  /\ pending \in Seq(Events) /\ Len(pending) <= 1
  /\ arrived \in 0..MaxMessages
  /\ injected \in 0..MaxInjected
  /\ seen \in [Plugins -> SUBSET Messages]
  /\ sent \in Seq(Messages \cup {0})
  /\ receipts \in Nat

Init ==
  /\ phase = "loading" /\ loaded = 0 /\ requested = FALSE
  /\ inbox = <<>> /\ receiving = "no" /\ batch = <<>> /\ bus = <<>>
  /\ event = Event("PluginLoaded", 0) /\ todo = {} /\ handling = FALSE
  /\ actions = <<>> /\ pending = <<>>
  /\ arrived = 0 /\ injected = 0 /\ sent = <<>> /\ receipts = 0
  /\ seen = [p \in Plugins |-> {}]

-----------------------------------------------------------------------------
(* The outside: the chain, holders of an event_sender, the user.            *)

Arrive ==
  /\ arrived < MaxMessages
  /\ arrived' = arrived + 1
  /\ inbox' = Append(inbox, arrived')
  /\ UNCHANGED <<lifeVars, receiving, batch, bus, dispatchVars, injected, seen, sent, receipts>>

Inject ==
  /\ phase = "running"
  /\ injected < MaxInjected /\ Len(bus) < Capacity
  /\ injected' = injected + 1
  /\ bus' = Append(bus, Event("Custom", 0))
  /\ UNCHANGED <<lifeVars, inboxVars, batch, dispatchVars, arrived, seen, sent, receipts>>

RequestShutdown ==
  /\ phase = "running" /\ ~requested
  /\ requested' = TRUE
  /\ UNCHANGED <<phase, loaded, inboxVars, batch, bus, dispatchVars, arrived,
                 injected, seen, sent, receipts>>

-----------------------------------------------------------------------------
(* add_plugin: init, register, and notify over the bus, which nobody reads  *)
(* yet.                                                                     *)
AddPlugin ==
  /\ phase = "loading" /\ loaded < Len(Registered)
  /\ Len(bus) < Capacity
  /\ loaded' = loaded + 1
  /\ bus' = Append(bus, Event("PluginLoaded", 0))
  /\ UNCHANGED <<phase, requested, inboxVars, batch, dispatchVars, arrived,
                 injected, seen, sent, receipts>>

(* init returns an error, and with it main.                                 *)
InitFails ==
  /\ phase = "loading" /\ loaded < Len(Registered)
  /\ phase' = "failed"
  /\ UNCHANGED <<loaded, requested, inboxVars, batch, bus, dispatchVars, arrived,
                 injected, seen, sent, receipts>>

Start ==
  /\ phase = "loading" /\ loaded = Len(Registered)
  /\ phase' = "running"
  /\ UNCHANGED <<loaded, requested, inboxVars, batch, bus, dispatchVars, arrived,
                 injected, seen, sent, receipts>>

-----------------------------------------------------------------------------
(* Runtime::run.                                                            *)

(* The loop is at its select!, or at the head of its loop over a batch.     *)
AtSelect == phase = "running" /\ receiving = "no" /\ todo = {} /\ batch = <<>>

Dispatch(e) ==
  /\ event' = e
  /\ todo' = {p \in 1..loaded : e.kind \in Registered[p].subscriptions}
  /\ UNCHANGED <<handling, actions, pending>>

Tick ==
  /\ AtSelect
  /\ receiving' \in {"yes"} \cup IF TransportHangs THEN {"forever"} ELSE {}
  /\ UNCHANGED <<lifeVars, inbox, batch, bus, dispatchVars, arrived, injected, seen, sent,
                 receipts>>

(* Faulty variant: one message of every recv is dispatched.                 *)
PollFirstOnly ==
  /\ receiving = "yes" /\ receiving' = "no"
  /\ \/ batch' = (IF inbox = <<>> THEN <<>> ELSE <<Head(inbox)>>) /\ inbox' = <<>>
     \/ UNCHANGED <<inbox, batch>>
  /\ UNCHANGED <<lifeVars, bus, dispatchVars, arrived, injected, seen, sent, receipts>>

(* recv returns what there is, or an error, which is logged.                *)
Poll ==
  /\ receiving = "yes" /\ receiving' = "no"
  /\ \/ batch' = inbox /\ inbox' = <<>>
     \/ UNCHANGED <<inbox, batch>>
  /\ UNCHANGED <<lifeVars, bus, dispatchVars, arrived, injected, seen, sent, receipts>>

NextMessage ==
  /\ phase = "running" /\ todo = {} /\ batch # <<>>
  /\ Dispatch(Event("MessageReceived", Head(batch)))
  /\ batch' = Tail(batch)
  /\ UNCHANGED <<lifeVars, inboxVars, bus, arrived, injected, seen, sent, receipts>>

NextEvent ==
  /\ AtSelect /\ bus # <<>>
  /\ Dispatch(Head(bus))
  /\ bus' = Tail(bus)
  /\ UNCHANGED <<lifeVars, inboxVars, batch, arrived, injected, seen, sent, receipts>>

SeeShutdown ==
  /\ AtSelect /\ requested
  /\ phase' = "stopping"
  /\ Dispatch(Event("Shutdown", 0))
  /\ UNCHANGED <<loaded, requested, inboxVars, batch, bus, arrived, injected, seen,
                 sent, receipts>>

(* Every plugin's shutdown is called; run and main return.                  *)
Stop ==
  /\ phase = "stopping" /\ todo = {}
  /\ phase' = "stopped"
  /\ UNCHANGED <<loaded, requested, inboxVars, batch, bus, dispatchVars, arrived,
                 injected, seen, sent, receipts>>

-----------------------------------------------------------------------------
(* dispatch_event and execute_action, for the first plugin of todo in the   *)
(* order of registration.                                                   *)
Current == Min(todo)

Handle ==
  /\ todo # {} /\ ~handling /\ actions = <<>> /\ pending = <<>>
  /\ handling' = TRUE
  /\ seen' = IF event.kind = "MessageReceived"
             THEN [seen EXCEPT ![Current] = @ \cup {event.msg}] ELSE seen
  /\ UNCHANGED <<lifeVars, inboxVars, batch, bus, event, todo, actions, pending,
                 arrived, injected, sent, receipts>>

(* The plugin is done when it has nothing left to execute.                  *)
Proceed == todo' = IF actions' = <<>> /\ pending' = <<>> THEN todo \ {Current} ELSE todo

(* Faulty variant: an error of one plugin ends the dispatch.                *)
ErrorEndsDispatch ==
  /\ handling
  /\ handling' = FALSE
  /\ \/ actions' \in Registered[Current].returns /\ UNCHANGED pending /\ Proceed
     \/ todo' = {} /\ UNCHANGED <<actions, pending>>
  /\ UNCHANGED <<lifeVars, inboxVars, batch, bus, event, arrived, injected, seen,
                 sent, receipts>>

(* The handler returns actions, or an error and so none.                    *)
HandlerReturns ==
  /\ handling
  /\ handling' = FALSE
  /\ actions' \in Registered[Current].returns \cup {<<>>}
  /\ UNCHANGED pending
  /\ Proceed
  /\ UNCHANGED <<lifeVars, inboxVars, batch, bus, event, arrived, injected, seen,
                 sent, receipts>>

(* Faulty variant: a failed send is reported as sent.                       *)
SendUnchecked ==
  /\ actions # <<>> /\ pending = <<>> /\ Head(actions) = "SendMessage"
  /\ actions' = Tail(actions)
  /\ \/ sent' = Append(sent, event.msg)
     \/ UNCHANGED sent
  /\ pending' = <<Event("MessageSent", event.msg)>>
  /\ Proceed
  /\ UNCHANGED <<lifeVars, inboxVars, batch, bus, event, handling, arrived,
                 injected, seen, receipts>>

(* transport.send; an error is logged and ends the action, not the list.    *)
Send ==
  /\ actions # <<>> /\ pending = <<>> /\ Head(actions) = "SendMessage"
  /\ actions' = Tail(actions)
  /\ \/ /\ sent' = Append(sent, event.msg)
        /\ pending' = <<Event("MessageSent", event.msg)>>
     \/ UNCHANGED <<sent, pending>>
  /\ Proceed
  /\ UNCHANGED <<lifeVars, inboxVars, batch, bus, event, handling, arrived,
                 injected, seen, receipts>>

Emit ==
  /\ actions # <<>> /\ pending = <<>> /\ Head(actions) = "EmitEvent"
  /\ actions' = Tail(actions)
  /\ pending' = <<Event("Custom", 0)>>
  /\ Proceed
  /\ UNCHANGED <<lifeVars, inboxVars, batch, bus, event, handling, arrived,
                 injected, seen, sent, receipts>>

AwaitedReceipts ==
  IF pending # <<>> /\ pending[1].kind = "MessageSent" THEN 1 ELSE 0

(* Faulty variant: a slot of the bus is never used.                         *)
PutOnBusOffByOne ==
  /\ pending # <<>> /\ Len(bus) + 1 < Capacity
  /\ bus' = bus \o pending
  /\ pending' = <<>>
  /\ receipts' = receipts + AwaitedReceipts
  /\ UNCHANGED actions
  /\ Proceed
  /\ UNCHANGED <<lifeVars, inboxVars, batch, event, handling, arrived, injected,
                 seen, sent>>

(* event_tx.send waits for room on the bus.                                 *)
PutOnBus ==
  /\ pending # <<>> /\ Len(bus) < Capacity
  /\ bus' = bus \o pending
  /\ pending' = <<>>
  /\ receipts' = receipts + AwaitedReceipts
  /\ UNCHANGED actions
  /\ Proceed
  /\ UNCHANGED <<lifeVars, inboxVars, batch, event, handling, arrived, injected,
                 seen, sent>>

(* The process has ended.                                                   *)
Ended == phase \in {"stopped", "failed"} /\ UNCHANGED vars

-----------------------------------------------------------------------------
Next ==
  \/ Arrive \/ Inject \/ RequestShutdown
  \/ AddPlugin \/ InitFails \/ Start
  \/ Tick \/ Poll \/ NextMessage \/ NextEvent \/ SeeShutdown \/ Stop
  \/ Handle \/ HandlerReturns \/ Send \/ Emit \/ PutOnBus
  \/ Ended

Spec == Init /\ [][Next]_vars

(* The loop's task runs whenever it can.  select! chooses at random between *)
(* the branches that are ready, so none of them is ready forever again and  *)
(* again and never chosen.  A transport that answers does not fail for ever. *)
Fairness ==
  /\ WF_vars(AddPlugin) /\ WF_vars(Start)
  /\ SF_vars(Tick) /\ SF_vars(NextEvent) /\ SF_vars(SeeShutdown)
  /\ WF_vars(NextMessage) /\ WF_vars(Stop) /\ WF_vars(Handle)
  /\ WF_vars(HandlerReturns /\ ~Registered[Current].hangs)
  /\ WF_vars(Emit) /\ WF_vars(PutOnBus)
  /\ SF_vars(Poll /\ inbox' = <<>>) /\ WF_vars(Poll)
  /\ ~TransportHangs => WF_vars(Send)

FairSpec == Spec /\ Fairness

-----------------------------------------------------------------------------
(* Every send the transport accepted has one MessageSent event, and every   *)
(* such event an accepted send, whichever sends fail and whoever else fills *)
(* the bus (execute_action).                                                *)
ReceiptsMatchSends == TypeOK /\ Len(sent) = receipts + AwaitedReceipts

(* A message that has arrived waits, or is being dispatched, or every        *)
(* subscribed plugin has been called with it.                               *)
EveryMessageDispatched ==
  \A p \in Plugins, m \in 1..arrived :
    \/ "MessageReceived" \notin Registered[p].subscriptions
    \/ m \in seen[p]
    \/ \E i \in DOMAIN inbox : inbox[i] = m
    \/ \E i \in DOMAIN batch : batch[i] = m
    \/ event = Event("MessageReceived", m) /\ p \in todo

RepliesInOrder ==
  \A i, j \in DOMAIN sent : i < j /\ sent[i] # 0 /\ sent[j] # 0 => sent[i] <= sent[j]

(* No plugin sends an answer to a MessageSent event: what it names is a     *)
(* message that was answered before, and its answer would come out of order. *)
ReceiptsUnanswered ==
  \A p \in Plugins :
    "MessageSent" \in Registered[p].subscriptions =>
      \A r \in Registered[p].returns : \A i \in DOMAIN r : r[i] # "SendMessage"

(* Once the loop has moved on from a message, every subscribed plugin has   *)
(* been called with it, whichever handlers and actions failed; and replies  *)
(* leave in the order of the messages they answer, as the tests of several  *)
(* messages in one poll expect, given ReceiptsUnanswered.                   *)
DispatchIsComplete == EveryMessageDispatched /\ RepliesInOrder

(* "Blocks until shutdown signal": the loop answers the signal.             *)
ShutdownCompletes == requested ~> phase = "stopped"

(* The loop waits for room on the bus that only itself could make.          *)
Stuck == pending # <<>> /\ Len(bus) = Capacity

(* A handler or a request of the transport that may never return.           *)
Hangs ==
  \/ handling /\ Registered[Current].hangs
  \/ receiving = "forever"
  \/ TransportHangs /\ actions # <<>> /\ Head(actions) = "SendMessage"

(* Nothing but a full bus or a handler or request that hangs keeps the loop  *)
(* from its shutdown: errors of plugins, failing sends and a signal in the  *)
(* middle of a dispatch do not.                                             *)
StopsUnlessStuck == requested ~> (phase = "stopped" \/ Stuck \/ []Hangs)

(* Every message that reaches the agent is handed to the plugins, unless    *)
(* the agent stops first or is kept as above.                               *)
MessagesHandled ==
  \A m \in Messages :
    arrived >= m ~> \/ phase \in {"failed", "stopping", "stopped"}
                    \/ Stuck \/ []Hangs
                    \/ \A p \in Plugins :
                         "MessageReceived" \in Registered[p].subscriptions => m \in seen[p]
=============================================================================
