--------------------------- MODULE NanoRuntimeProofs ---------------------------
(***************************************************************************)
(* Proofs about NanoRuntime, for any plugins, any capacity of the bus and  *)
(* any number of messages and injected events.                             *)
(***************************************************************************)
EXTENDS NanoRuntime, SequenceTheorems, NaturalsInduction, WellFoundedInduction, TLAPS

-----------------------------------------------------------------------------
(* Operators *)

LEMMA LeastExists ==
  ASSUME NEW S \in SUBSET Nat, S # {}
  PROVE  Min(S) \in S /\ \A y \in S : Min(S) <= y
<1>1. \E x \in S : \A y \in S : ~(<<y, x>> \in OpToRel(<, Nat))
  BY WFMin, NatLessThanWellFounded
<1>2. PICK x \in S : \A y \in S : ~(<<y, x>> \in OpToRel(<, Nat))
  BY <1>1
<1>3. \A y \in S : ~(y < x)
  BY <1>2 DEF OpToRel
<1>4. \E z \in S : \A y \in S : z <= y
  BY <1>3
<1>5. QED
  BY <1>4 DEF Min

LEMMA PluginsAreNumbered ==
  /\ Plugins = 1..Len(Registered) /\ Len(Registered) \in Nat
  /\ Plugins \subseteq Nat
BY RuntimeAssumption DEF Plugins, RuntimeAssumption

(* What a plugin is declared with, and what its handler returns.            *)
LEMMA RegisteredTypes ==
  ASSUME NEW p \in Plugins
  PROVE  /\ Registered[p].returns \subseteq Seq(ActionKinds)
         /\ Registered[p].subscriptions \subseteq Kinds
<1>1. Registered[p] \in [subscriptions : SUBSET Kinds, returns : SUBSET Seq(ActionKinds),
                         hangs : BOOLEAN]
  BY RuntimeAssumption, PluginsAreNumbered, ElementOfSeq DEF RuntimeAssumption
<1>2. QED
  BY <1>1

(* The elements of a sequence are its first one and those of its tail, in   *)
(* that order.                                                              *)
LEMMA TakeFirst ==
  ASSUME NEW S, NEW s \in Seq(S), s # <<>>
  PROVE  /\ Head(s) \in S /\ Tail(s) \in Seq(S) /\ Len(s) \in Nat \ {0}
         /\ Len(Tail(s)) = Len(s) - 1
         /\ Head(s) = s[1] /\ 1 \in DOMAIN s
         /\ \A i \in DOMAIN Tail(s) : i + 1 \in DOMAIN s /\ Tail(s)[i] = s[i + 1]
         /\ \A i \in DOMAIN s \ {1} : i - 1 \in DOMAIN Tail(s) /\ s[i] = Tail(s)[i - 1]
<1>1. Len(s) \in Nat \ {0}
  BY EmptySeq
<1>2. /\ Head(s) \in S /\ Tail(s) \in Seq(S) /\ Len(Tail(s)) = Len(s) - 1
      /\ \A i \in 1..Len(Tail(s)) : Tail(s)[i] = s[i + 1]
  BY HeadTailProperties
<1>3. DOMAIN s = 1..Len(s) /\ DOMAIN Tail(s) = 1..(Len(s) - 1)
  BY <1>2, LenProperties
<1>4. \A i \in DOMAIN s \ {1} : i - 1 \in DOMAIN Tail(s) /\ (i - 1) + 1 = i
  BY <1>1, <1>3
<1>5. \A i \in DOMAIN s \ {1} : s[i] = Tail(s)[i - 1]
  BY <1>1, <1>2, <1>3, <1>4
<1>6. \A i \in DOMAIN Tail(s) : i + 1 \in DOMAIN s /\ Tail(s)[i] = s[i + 1]
  BY <1>1, <1>2, <1>3
<1>7. Head(s) = s[1] /\ 1 \in DOMAIN s
  BY <1>1, <1>3
<1>8. QED
  BY <1>1, <1>2, <1>4, <1>5, <1>6, <1>7
-----------------------------------------------------------------------------
(* Where the loop is.  Between two events nothing is left of the dispatch;  *)
(* recv is awaited only then, and nothing is dispatched before every plugin *)
(* is registered.                                                           *)
LoopShape ==
  /\ phase \in {"running", "stopping", "stopped"} => loaded = Len(Registered)
  /\ phase \in {"loading", "failed"} => todo = {} /\ batch = <<>>
  /\ receiving # "no" => phase = "running" /\ todo = {} /\ batch = <<>>
  /\ todo = {} => actions = <<>> /\ pending = <<>>
  /\ handling => pending = <<>>

(* What is on its way: only messages that have arrived are received, and    *)
(* they do not pass through the bus; only a receipt names a message there.  *)
BusEvents ==
  {e \in Events : e.kind # "MessageReceived" /\ (e.kind # "MessageSent" => e.msg = 0)}

EventShape ==
  /\ inbox \in Seq(1..arrived) /\ batch \in Seq(1..arrived)
  /\ bus \in Seq(BusEvents) /\ pending \in Seq(BusEvents)
  /\ event.kind = "MessageReceived" => event.msg \in 1..arrived
  /\ event.kind \notin {"MessageReceived", "MessageSent"} => event.msg = 0

LoopInv == ReceiptsMatchSends /\ LoopShape

LEMMA LoopInvInit == Init => LoopInv
<1> SUFFICES ASSUME Init PROVE LoopInv
  OBVIOUS
<1>1. Capacity \in Nat \ {0} /\ Len(Registered) \in Nat /\ MaxMessages \in Nat /\ MaxInjected \in Nat
  BY RuntimeAssumption, PluginsAreNumbered DEF RuntimeAssumption
<1>2. Event("PluginLoaded", 0) \in Events
  BY DEF Events, Event, Kinds
<1>3. TypeOK
  <2> USE <1>1, <1>2 DEF Init
  <2>1. loaded \in 0..Len(Registered) /\ arrived \in 0..MaxMessages /\ injected \in 0..MaxInjected /\ receipts \in Nat
    OBVIOUS
  <2>2. inbox \in Seq(Messages) /\ batch \in Seq(Messages) /\ bus \in Seq(Events) /\ Len(bus) <= Capacity
    OBVIOUS
  <2>3. actions \in Seq(ActionKinds) /\ pending \in Seq(Events) /\ Len(pending) <= 1 /\ sent \in Seq(Messages \cup {0})
    OBVIOUS
  <2>4. seen \in [Plugins -> SUBSET Messages] /\ event \in Events /\ todo \in SUBSET Plugins
    OBVIOUS
  <2>5. QED
    BY <2>1, <2>2, <2>3, <2>4 DEF TypeOK
<1>4. QED
  BY <1>3 DEF Init, LoopInv, LoopShape, ReceiptsMatchSends, AwaitedReceipts

LEMMA CurrentIsTodo ==
  ASSUME TypeOK, todo # {}
  PROVE  Current \in todo /\ Current \in Plugins
BY PluginsAreNumbered, LeastExists DEF TypeOK, Current

(* What the actions outside the dispatch keep.                              *)
LEMMA LoopInvOutside ==
  ASSUME LoopInv,
         \/ Arrive \/ Inject \/ RequestShutdown \/ AddPlugin \/ InitFails \/ Start
         \/ Tick \/ Poll \/ Stop
  PROVE  LoopInv'
<1>1. /\ Capacity \in Nat \ {0} /\ Len(Registered) \in Nat
      /\ MaxMessages \in Nat /\ MaxInjected \in Nat
  BY RuntimeAssumption, PluginsAreNumbered DEF RuntimeAssumption
<1>2. TypeOK /\ LoopShape /\ Len(sent) = receipts + AwaitedReceipts
  BY DEF LoopInv, ReceiptsMatchSends
<1>3. UNCHANGED <<dispatchVars, seen, sent, receipts>>
  BY DEF Arrive, Inject, RequestShutdown, AddPlugin, InitFails, Start, Tick, Poll, Stop
<1>4. (Len(sent) = receipts + AwaitedReceipts)'
  BY <1>2, <1>3 DEF AwaitedReceipts, dispatchVars
<1>5. \A e \in Events : Len(bus) < Capacity =>
        Append(bus, e) \in Seq(Events) /\ Len(Append(bus, e)) <= Capacity
  BY <1>1, <1>2, AppendProperties DEF TypeOK
<1> USE <1>1, <1>2, <1>3 DEF dispatchVars, lifeVars, inboxVars, TypeOK, LoopShape
<1>6. CASE Arrive
  <2>1. arrived' \in 0..MaxMessages /\ arrived' \in Messages
    BY <1>6 DEF Arrive, Messages
  <2>2. Append(inbox, arrived') \in Seq(Messages)
    BY <2>1, AppendProperties
  <2>3. TypeOK'
    BY <1>6, <2>1, <2>2 DEF Arrive
  <2>4. LoopShape'
    BY <1>6 DEF Arrive
  <2>5. QED
    BY <1>4, <2>3, <2>4 DEF LoopInv, ReceiptsMatchSends
<1>7. CASE Inject \/ AddPlugin
  <2>1. Event("Custom", 0) \in Events /\ Event("PluginLoaded", 0) \in Events
    BY DEF Events, Event, Kinds
  <2>2. bus' \in Seq(Events) /\ Len(bus') <= Capacity
    BY <1>5, <1>7, <2>1 DEF Inject, AddPlugin
  <2>3. CASE Inject
    BY <1>4, <2>2, <2>3 DEF Inject, LoopInv, ReceiptsMatchSends
  <2>4. CASE AddPlugin
    BY <1>4, <2>2, <2>4 DEF AddPlugin, LoopInv, ReceiptsMatchSends
  <2>5. QED
    BY <1>7, <2>3, <2>4
<1>8. CASE RequestShutdown \/ InitFails \/ Start \/ Stop
  <2>1. TypeOK' /\ LoopShape'
    BY <1>8 DEF RequestShutdown, InitFails, Start, Stop
  <2>2. QED
    BY <1>4, <2>1 DEF LoopInv, ReceiptsMatchSends
<1>9. CASE Tick \/ Poll
  <2>1. /\ receiving' \in {"no", "yes", "forever"}
        /\ receiving' # "no" => phase = "running" /\ todo = {} /\ batch' = <<>>
        /\ phase \in {"loading", "failed"} => batch' = <<>>
        /\ batch' \in Seq(Messages) /\ inbox' \in Seq(Messages)
    <3>1. CASE Tick
      <4>1. receiving' \in {"yes", "forever"}
        BY <3>1 DEF Tick
      <4>2. QED
        BY <3>1, <4>1 DEF Tick, AtSelect
    <3>2. CASE Poll
      <4>1. receiving = "yes" /\ receiving' = "no"
        BY <3>2 DEF Poll
      <4>2. batch' \in {inbox, batch} /\ inbox' \in {<<>>, inbox}
        BY <3>2 DEF Poll
      <4>3. <<>> \in Seq(Messages) /\ phase \notin {"loading", "failed"}
        BY <4>1, EmptySeq
      <4>4. QED
        BY <4>1, <4>2, <4>3
    <3>3. QED
      BY <1>9, <3>1, <3>2
  <2>2. UNCHANGED <<lifeVars, bus, dispatchVars, arrived, injected, seen, sent, receipts>>
    BY <1>9 DEF Tick, Poll
  <2>3. QED
    BY <1>4, <2>1, <2>2 DEF LoopInv, ReceiptsMatchSends
<1>10. QED
  BY <1>6, <1>7, <1>8, <1>9

(* A dispatch begins only when the one before has left nothing behind.      *)
LEMMA LoopInvDispatch ==
  ASSUME LoopInv, NextMessage \/ NextEvent \/ SeeShutdown
  PROVE  LoopInv'
<1>1. TypeOK /\ LoopShape /\ Len(sent) = receipts + AwaitedReceipts
  BY DEF LoopInv, ReceiptsMatchSends
<1>2. PICK e : Dispatch(e) /\ e \in Events
  <2>1. CASE NextMessage
    <3>1. Head(batch) \in Messages
      BY <1>1, <2>1, TakeFirst DEF TypeOK, NextMessage
    <3>2. QED
      BY <2>1, <3>1 DEF NextMessage, Event, Events, Kinds
  <2>2. CASE NextEvent
    BY <1>1, <2>2, TakeFirst DEF TypeOK, NextEvent
  <2>3. CASE SeeShutdown
    BY <2>3 DEF SeeShutdown, Event, Events, Kinds
  <2>4. QED
    BY <2>1, <2>2, <2>3
<1>3. todo = {} /\ actions = <<>> /\ pending = <<>> /\ phase = "running" /\ receiving = "no"
  <2>1. todo = {} /\ phase = "running"
    BY DEF NextMessage, NextEvent, SeeShutdown, AtSelect
  <2>2. receiving = "no"
    BY <1>1 DEF NextMessage, NextEvent, SeeShutdown, AtSelect, LoopShape
  <2>3. QED
    BY <1>1, <2>1, <2>2 DEF LoopShape
<1>4. /\ event' \in Events /\ todo' \in SUBSET Plugins
      /\ UNCHANGED <<handling, actions, pending>>
  <2>1. loaded \in 0..Len(Registered)
    BY <1>1 DEF TypeOK
  <2>2. 1..loaded \subseteq Plugins
    BY <2>1, PluginsAreNumbered
  <2>3. QED
    BY <1>2, <2>2 DEF Dispatch
<1>5. ~handling
  BY <1>1, <1>3 DEF TypeOK
<1>6. /\ batch' \in Seq(Messages) /\ bus' \in Seq(Events) /\ Len(bus') <= Capacity
      /\ phase' \in {"running", "stopping"}
      /\ UNCHANGED <<loaded, requested, inboxVars, arrived, injected, seen, sent, receipts>>
  <2>1. CASE NextMessage
    BY <1>1, <1>3, <2>1, TakeFirst DEF TypeOK, NextMessage, lifeVars
  <2>2. CASE NextEvent
    <3>1. Capacity \in Nat /\ bus # <<>> /\ bus \in Seq(Events) /\ Len(bus) <= Capacity
      BY <1>1, <2>2, RuntimeAssumption DEF TypeOK, NextEvent, RuntimeAssumption
    <3>2. Tail(bus) \in Seq(Events) /\ Len(bus) \in Nat \ {0} /\ Len(Tail(bus)) = Len(bus) - 1
      BY <3>1, TakeFirst
    <3>3. QED
      BY <1>1, <1>3, <2>2, <3>1, <3>2 DEF TypeOK, NextEvent, lifeVars
  <2>3. CASE SeeShutdown
    BY <1>1, <2>3 DEF TypeOK, SeeShutdown
  <2>4. QED
    BY <2>1, <2>2, <2>3
<1>7. TypeOK'
  BY <1>1, <1>3, <1>4, <1>5, <1>6 DEF TypeOK, inboxVars
<1>8. LoopShape'
  BY <1>1, <1>3, <1>4, <1>5, <1>6 DEF LoopShape, inboxVars
<1>9. (Len(sent) = receipts + AwaitedReceipts)'
  BY <1>1, <1>4, <1>6 DEF AwaitedReceipts
<1>10. QED
  BY <1>7, <1>8, <1>9 DEF LoopInv, ReceiptsMatchSends

(* A send puts one answer on record and one event on its way to the bus, or *)
(* neither, and the event is counted when it arrives there.                 *)
LEMMA LoopInvHandle ==
  ASSUME LoopInv, EventShape, Handle \/ HandlerReturns \/ Send \/ Emit \/ PutOnBus
  PROVE  LoopInv'
<1>1. TypeOK /\ LoopShape /\ Len(sent) = receipts + AwaitedReceipts
  BY DEF LoopInv, ReceiptsMatchSends
<1>2. todo # {}
  BY <1>1 DEF Handle, HandlerReturns, Send, Emit, PutOnBus, TypeOK, LoopShape
<1>3. Current \in todo /\ Current \in Plugins
  BY <1>1, <1>2, CurrentIsTodo
<1>4. /\ Event("Custom", 0) \in Events
      /\ event.kind \in Kinds /\ event.msg \in Messages \cup {0}
      /\ Event("MessageSent", event.msg) \in Events
  BY <1>1 DEF TypeOK, Events, Event, Kinds
<1>5. UNCHANGED <<lifeVars, inboxVars, batch, event, arrived, injected>>
  BY DEF Handle, HandlerReturns, Send, Emit, PutOnBus
<1>6. phase \in {"running", "stopping", "stopped"} /\ receiving = "no"
  BY <1>1, <1>2 DEF LoopShape, TypeOK
<1>7. ASSUME todo' \in SUBSET Plugins, handling' \in BOOLEAN,
             handling' => todo' # {} /\ actions' = <<>> /\ pending' = <<>>,
             actions' \in Seq(ActionKinds), pending' \in Seq(Events), Len(pending') <= 1,
             bus' \in Seq(Events), Len(bus') <= Capacity,
             seen' \in [Plugins -> SUBSET Messages],
             sent' \in Seq(Messages \cup {0}), receipts' \in Nat,
             todo' = {} => actions' = <<>> /\ pending' = <<>>,
             (Len(sent) = receipts + AwaitedReceipts)'
      PROVE  LoopInv'
  <2>1. TypeOK'
    BY <1>1, <1>5, <1>7 DEF TypeOK, lifeVars, inboxVars
  <2>2. LoopShape'
    BY <1>1, <1>5, <1>6, <1>7 DEF LoopShape, lifeVars, inboxVars
  <2>3. QED
    BY <1>7, <2>1, <2>2 DEF LoopInv, ReceiptsMatchSends
<1>8. Proceed /\ actions' = <<>> /\ pending' = <<>> => todo' \in SUBSET Plugins
  BY <1>1 DEF Proceed, TypeOK
<1>9. Proceed => /\ todo' \in SUBSET Plugins
                 /\ todo' = {} => actions' = <<>> /\ pending' = <<>>
  BY <1>1, <1>2 DEF Proceed, TypeOK
<1>10. CASE Handle
  <2>1. seen' \in [Plugins -> SUBSET Messages]
    <3>1. CASE event.kind = "MessageReceived"
      <4>1. event.msg \in Messages
        BY <1>1, <3>1, RuntimeAssumption DEF EventShape, TypeOK, Messages, RuntimeAssumption
      <4>2. QED
        BY <1>1, <1>3, <1>10, <3>1, <4>1 DEF Handle, TypeOK
    <3>2. CASE event.kind # "MessageReceived"
      BY <1>1, <1>10, <3>2 DEF Handle, TypeOK
    <3>3. QED
      BY <3>1, <3>2
  <2>2. (Len(sent) = receipts + AwaitedReceipts)'
    BY <1>1, <1>10 DEF Handle, AwaitedReceipts
  <2>3. QED
    BY <1>1, <1>2, <1>7, <1>10, <2>1, <2>2 DEF Handle, TypeOK
<1>11. CASE HandlerReturns
  <2>1. actions' \in Seq(ActionKinds)
    BY <1>3, <1>11, RegisteredTypes, EmptySeq DEF HandlerReturns
  <2>2. (Len(sent) = receipts + AwaitedReceipts)'
    BY <1>1, <1>11 DEF HandlerReturns, AwaitedReceipts
  <2>3. QED
    BY <1>1, <1>7, <1>9, <1>11, <2>1, <2>2 DEF HandlerReturns, TypeOK
<1>12. CASE Send
  <2>1. actions' \in Seq(ActionKinds) /\ ~handling /\ pending = <<>>
    BY <1>1, <1>12, TakeFirst DEF Send, TypeOK
  <2>2. CASE UNCHANGED <<sent, pending>>
    <3>1. (Len(sent) = receipts + AwaitedReceipts)'
      BY <1>1, <1>12, <2>2 DEF Send, AwaitedReceipts
    <3>2. QED
      BY <1>1, <1>7, <1>9, <1>12, <2>1, <2>2, <3>1 DEF Send, TypeOK
  <2>3. CASE /\ sent' = Append(sent, event.msg)
             /\ pending' = <<Event("MessageSent", event.msg)>>
    <3>1. sent' \in Seq(Messages \cup {0}) /\ Len(sent') = Len(sent) + 1
      BY <1>1, <1>4, <2>3, AppendProperties DEF TypeOK
    <3>2. pending' \in Seq(Events) /\ Len(pending') = 1 /\ pending'[1].kind = "MessageSent"
      BY <1>4, <2>3 DEF Event
    <3>3. pending' # <<>>
      BY <2>3
    <3>4. (Len(sent) = receipts + AwaitedReceipts)'
      BY <1>1, <1>12, <2>1, <3>1, <3>2, <3>3 DEF Send, AwaitedReceipts, TypeOK
    <3>5. /\ todo' \in SUBSET Plugins /\ handling' \in BOOLEAN /\ ~handling'
          /\ todo' = {} => actions' = <<>> /\ pending' = <<>>
      BY <1>1, <1>9, <1>12, <2>1 DEF Send, TypeOK
    <3>6. /\ bus' \in Seq(Events) /\ Len(bus') <= Capacity
          /\ seen' \in [Plugins -> SUBSET Messages] /\ receipts' \in Nat
      BY <1>1, <1>12 DEF Send, TypeOK
    <3>7. QED
      BY <1>7, <2>1, <3>1, <3>2, <3>4, <3>5, <3>6
  <2>4. QED
    BY <1>12, <2>2, <2>3 DEF Send
<1>13. CASE Emit
  <2>1. actions' \in Seq(ActionKinds) /\ ~handling /\ pending = <<>>
    BY <1>1, <1>13, TakeFirst DEF Emit, TypeOK
  <2>2. pending' \in Seq(Events) /\ Len(pending') = 1 /\ pending'[1].kind = "Custom"
    BY <1>4, <1>13 DEF Emit, Event
  <2>3. (Len(sent) = receipts + AwaitedReceipts)'
    BY <1>1, <1>13, <2>1, <2>2 DEF Emit, AwaitedReceipts
  <2>4. QED
    BY <1>1, <1>7, <1>9, <1>13, <2>1, <2>2, <2>3 DEF Emit, TypeOK
<1>14. CASE PutOnBus
  <2>1. ~handling /\ pending # <<>> /\ Len(pending) = 1 /\ pending \in Seq(Events)
    <3>1. ~handling /\ pending # <<>> /\ Len(pending) <= 1 /\ pending \in Seq(Events)
      BY <1>1, <1>14 DEF PutOnBus, LoopShape, TypeOK
    <3>2. Len(pending) \in Nat \ {0}
      BY <3>1, TakeFirst
    <3>3. Len(pending) = 1
      <4>1. Len(pending) <= 1
        BY <3>1
      <4>2. QED
        BY <3>2, <4>1
    <3>4. QED
      BY <3>1, <3>3
  <2>2. bus' \in Seq(Events) /\ Len(bus') <= Capacity
    <3>1. /\ bus \in Seq(Events) /\ Len(bus) \in Nat /\ Len(bus) < Capacity /\ Capacity \in Nat
          /\ bus' = bus \o pending
      BY <1>1, <1>14, RuntimeAssumption DEF PutOnBus, TypeOK, RuntimeAssumption
    <3>2. bus' \in Seq(Events) /\ Len(bus') = Len(bus) + 1
      BY <2>1, <3>1, ConcatProperties
    <3>3. QED
      BY <3>1, <3>2
  <2>3. pending' = <<>> /\ AwaitedReceipts \in {0, 1} /\ AwaitedReceipts' = 0
    BY <1>14 DEF PutOnBus, AwaitedReceipts
  <2>4. receipts' \in Nat /\ (Len(sent) = receipts + AwaitedReceipts)'
    BY <1>1, <1>14, <2>3 DEF PutOnBus, TypeOK
  <2>5. QED
    BY <1>1, <1>7, <1>9, <1>14, <2>1, <2>2, <2>3, <2>4 DEF PutOnBus, TypeOK
<1>15. QED
  BY <1>10, <1>11, <1>12, <1>13, <1>14

LEMMA EventShapeInit == Init => EventShape
<1> SUFFICES ASSUME Init PROVE EventShape
  OBVIOUS
<1>1. event.kind = "PluginLoaded" /\ event.msg = 0
  BY DEF Init, Event
<1>2. QED
  BY <1>1, EmptySeq DEF Init, EventShape

LEMMA EventShapeInductive ==
  ASSUME LoopInv, EventShape, Next
  PROVE  EventShape'
<1>1. TypeOK
  BY DEF LoopInv, ReceiptsMatchSends
<1>2. /\ Event("Custom", 0) \in BusEvents /\ Event("PluginLoaded", 0) \in BusEvents
      /\ Event("MessageSent", event.msg) \in BusEvents
  BY <1>1 DEF BusEvents, Events, Event, Kinds, TypeOK
<1>3. CASE Arrive
  <2>1. arrived \in Nat /\ arrived' = arrived + 1
    BY <1>1, <1>3, RuntimeAssumption DEF Arrive, TypeOK, RuntimeAssumption
  <2>2. 1..arrived \subseteq 1..arrived' /\ arrived' \in 1..arrived'
    BY <2>1
  <2>3. inbox \in Seq(1..arrived') /\ batch \in Seq(1..arrived')
    BY <2>2, SeqMonotonic DEF EventShape
  <2>4. inbox' \in Seq(1..arrived')
    BY <1>3, <2>2, <2>3, AppendProperties DEF Arrive
  <2>5. QED
    BY <1>3, <2>2, <2>3, <2>4 DEF Arrive, EventShape, dispatchVars
<1>4. CASE Inject \/ AddPlugin
  <2>1. PICK e \in BusEvents : bus' = Append(bus, e)
    BY <1>2, <1>4 DEF Inject, AddPlugin
  <2>2. bus' \in Seq(BusEvents)
    BY <2>1, AppendProperties DEF EventShape
  <2>3. QED
    BY <1>4, <2>2 DEF Inject, AddPlugin, EventShape, inboxVars, dispatchVars
<1>5. CASE RequestShutdown \/ InitFails \/ Start \/ Tick \/ Stop \/ Handle \/ Ended
  BY <1>5 DEF RequestShutdown, InitFails, Start, Tick, Stop, Handle, Ended, vars, EventShape,
              inboxVars, dispatchVars
<1>6. CASE Poll
  <2>1. inbox' \in {<<>>, inbox} /\ batch' \in {inbox, batch}
    BY <1>6 DEF Poll
  <2>2. inbox' \in Seq(1..arrived) /\ batch' \in Seq(1..arrived)
    BY <2>1, EmptySeq DEF EventShape
  <2>3. QED
    BY <1>6, <2>2 DEF Poll, EventShape, dispatchVars
<1>7. CASE NextMessage
  <2>1. Head(batch) \in 1..arrived /\ Tail(batch) \in Seq(1..arrived)
    BY <1>7, TakeFirst DEF NextMessage, EventShape
  <2>2. event'.kind = "MessageReceived" /\ event'.msg = Head(batch)
    BY <1>7 DEF NextMessage, Dispatch, Event
  <2>3. QED
    BY <1>7, <2>1, <2>2 DEF NextMessage, Dispatch, EventShape, inboxVars
<1>8. CASE NextEvent
  <2>1. Head(bus) \in BusEvents /\ Tail(bus) \in Seq(BusEvents)
    BY <1>8, TakeFirst DEF NextEvent, EventShape
  <2>2. event' = Head(bus) /\ bus' = Tail(bus)
    BY <1>8 DEF NextEvent, Dispatch
  <2>3. QED
    BY <1>8, <2>1, <2>2 DEF NextEvent, Dispatch, EventShape, BusEvents, inboxVars
<1>9. CASE SeeShutdown
  <2>1. event'.kind = "Shutdown" /\ event'.msg = 0
    BY <1>9 DEF SeeShutdown, Dispatch, Event
  <2>2. QED
    BY <1>9, <2>1 DEF SeeShutdown, Dispatch, EventShape, inboxVars
<1>10. CASE HandlerReturns \/ Send \/ Emit
  <2>1. pending' = pending \/ \E e \in BusEvents : pending' = <<e>>
    BY <1>2, <1>10 DEF HandlerReturns, Send, Emit
  <2>2. pending' \in Seq(BusEvents)
    <3>1. ASSUME NEW e \in BusEvents PROVE <<e>> \in Seq(BusEvents)
      OBVIOUS
    <3>2. pending \in Seq(BusEvents)
      BY DEF EventShape
    <3>3. QED
      BY <2>1, <3>1, <3>2
  <2>3. QED
    BY <1>10, <2>2 DEF HandlerReturns, Send, Emit, EventShape, inboxVars
<1>11. CASE PutOnBus
  <2>1. bus' \in Seq(BusEvents) /\ pending' \in Seq(BusEvents)
    BY <1>11, ConcatProperties, EmptySeq DEF PutOnBus, EventShape
  <2>2. QED
    BY <1>11, <2>1 DEF PutOnBus, EventShape, inboxVars
<1>12. QED
  BY <1>3, <1>4, <1>5, <1>6, <1>7, <1>8, <1>9, <1>10, <1>11 DEF Next

LEMMA LoopInvInductive == LoopInv /\ EventShape /\ [Next]_vars => (LoopInv /\ EventShape)'
<1> SUFFICES ASSUME LoopInv, EventShape, [Next]_vars PROVE (LoopInv /\ EventShape)'
  OBVIOUS
<1>1. CASE UNCHANGED vars
  BY <1>1 DEF LoopInv, EventShape, ReceiptsMatchSends, AwaitedReceipts, LoopShape, TypeOK,
              vars, lifeVars, inboxVars, dispatchVars
<1>2. CASE Ended
  BY <1>1, <1>2 DEF Ended
<1>3. CASE Next /\ ~Ended
  BY <1>3, LoopInvOutside, LoopInvDispatch, LoopInvHandle, EventShapeInductive DEF Next
<1>4. QED
  BY <1>1, <1>2, <1>3

LEMMA LoopInvAlways == Spec => [](LoopInv /\ EventShape)
BY LoopInvInit, EventShapeInit, LoopInvInductive, PTL DEF Spec

(* The MessageSent events on the bus or on their way to it are exactly as     *)
(* many as the sends the transport accepted, whichever sends fail, whoever    *)
(* else fills the bus and however long it stays full.                         *)
THEOREM ReceiptsAlwaysMatchSends == Spec => []ReceiptsMatchSends
BY LoopInvAlways, PTL DEF LoopInv
-----------------------------------------------------------------------------
(* No plugin is passed over: the one that leaves todo has been called.      *)
CurrentHandled ==
  event.kind = "MessageReceived" /\ (handling \/ actions # <<>> \/ pending # <<>>)
    => event.msg \in seen[Current]

CompleteInv == CurrentHandled /\ EveryMessageDispatched

LEMMA CompleteInvInit == Init => CompleteInv
BY DEF Init, Event, CompleteInv, CurrentHandled, EveryMessageDispatched

LEMMA CompleteInvOutside ==
  ASSUME LoopInv, EventShape, CompleteInv,
         \/ Arrive \/ Inject \/ RequestShutdown \/ AddPlugin \/ InitFails \/ Start
         \/ Tick \/ Poll \/ Stop
  PROVE  CompleteInv'
<1>1. UNCHANGED <<dispatchVars, seen>>
  BY DEF Arrive, Inject, RequestShutdown, AddPlugin, InitFails, Start, Tick, Poll, Stop
<1>2. CurrentHandled'
  BY <1>1 DEF CompleteInv, CurrentHandled, Current, dispatchVars
<1>3. CASE Arrive
  <2>1. /\ inbox' = Append(inbox, arrived') /\ arrived' = arrived + 1 /\ arrived \in Nat
        /\ batch' = batch /\ inbox \in Seq(Messages) /\ arrived' \in Messages
    BY <1>3, RuntimeAssumption
       DEF Arrive, LoopInv, ReceiptsMatchSends, TypeOK, Messages, RuntimeAssumption
  <2>2. /\ \A i \in DOMAIN inbox : i \in DOMAIN inbox' /\ inbox'[i] = inbox[i]
        /\ Len(inbox') \in DOMAIN inbox' /\ inbox'[Len(inbox')] = arrived'
    BY <2>1, AppendProperties, LenProperties
  <2>3. \A m \in 1..arrived' : m \in 1..arrived \/ m = arrived'
    BY <2>1
  <2>4. EveryMessageDispatched'
    BY <1>1, <2>1, <2>2, <2>3 DEF CompleteInv, EveryMessageDispatched, dispatchVars
  <2>5. QED
    BY <1>2, <2>4 DEF CompleteInv
<1>4. CASE Poll
  <2>1. batch = <<>>
    BY <1>4 DEF Poll, LoopInv, LoopShape
  <2>2. (inbox' = inbox /\ batch' = batch) \/ (batch' = inbox /\ inbox' = <<>>)
    BY <1>4 DEF Poll
  <2>3. EveryMessageDispatched'
    BY <1>1, <1>4, <2>1, <2>2 DEF Poll, CompleteInv, EveryMessageDispatched, dispatchVars
  <2>4. QED
    BY <1>2, <2>3 DEF CompleteInv
<1>5. CASE Inject \/ RequestShutdown \/ AddPlugin \/ InitFails \/ Start \/ Tick \/ Stop
  <2>1. UNCHANGED <<inbox, batch, arrived>>
    BY <1>5 DEF Inject, RequestShutdown, AddPlugin, InitFails, Start, Tick, Stop, inboxVars
  <2>2. EveryMessageDispatched'
    BY <1>1, <2>1 DEF CompleteInv, EveryMessageDispatched, dispatchVars
  <2>3. QED
    BY <1>2, <2>2 DEF CompleteInv
<1>6. QED
  BY <1>3, <1>4, <1>5

LEMMA CompleteInvDispatch ==
  ASSUME LoopInv, EventShape, CompleteInv, NextMessage \/ NextEvent \/ SeeShutdown
  PROVE  CompleteInv'
<1>1. TypeOK /\ LoopShape
  BY DEF LoopInv, ReceiptsMatchSends
<1>2. todo = {} /\ phase = "running" /\ ~handling /\ actions = <<>> /\ pending = <<>>
  BY <1>1 DEF NextMessage, NextEvent, SeeShutdown, AtSelect, TypeOK, LoopShape
<1>3. UNCHANGED <<handling, actions, pending, seen, inbox, arrived>>
  BY DEF NextMessage, NextEvent, SeeShutdown, Dispatch, inboxVars
<1>4. CurrentHandled'
  BY <1>2, <1>3 DEF CurrentHandled
<1>5. CASE NextMessage
  <2>1. /\ batch \in Seq(Messages) /\ batch # <<>> /\ batch' = Tail(batch)
        /\ event' = Event("MessageReceived", Head(batch))
        /\ todo' = {p \in 1..loaded : event'.kind \in Registered[p].subscriptions}
    BY <1>1, <1>5 DEF NextMessage, Dispatch, TypeOK
  <2>2. \A i \in DOMAIN batch : batch[i] = Head(batch) \/ \E j \in DOMAIN batch' : batch'[j] = batch[i]
    BY <2>1, TakeFirst
  <2>3. \A p \in Plugins : "MessageReceived" \in Registered[p].subscriptions => p \in todo'
    <3>1. Plugins = 1..loaded /\ event'.kind = "MessageReceived"
      BY <1>1, <1>2, <2>1, PluginsAreNumbered DEF LoopShape, Event
    <3>2. QED
      BY <2>1, <3>1
  <2>4. EveryMessageDispatched'
    <3> SUFFICES ASSUME NEW p \in Plugins, NEW m \in 1..arrived,
                        "MessageReceived" \in Registered[p].subscriptions,
                        m \notin seen[p], ~\E i \in DOMAIN inbox : inbox[i] = m,
                        ~\E i \in DOMAIN batch' : batch'[i] = m
                 PROVE  event' = Event("MessageReceived", m) /\ p \in todo'
      BY <1>3 DEF EveryMessageDispatched
    <3>1. \E i \in DOMAIN batch : batch[i] = m
      BY <1>2 DEF CompleteInv, EveryMessageDispatched
    <3>2. m = Head(batch)
      BY <2>2, <3>1
    <3>3. QED
      BY <2>1, <2>3, <3>2
  <2>5. QED
    BY <1>4, <2>4 DEF CompleteInv
<1>6. CASE NextEvent \/ SeeShutdown
  <2>1. batch' = batch
    BY <1>6 DEF NextEvent, SeeShutdown
  <2>2. EveryMessageDispatched'
    BY <1>2, <1>3, <2>1 DEF CompleteInv, EveryMessageDispatched
  <2>3. QED
    BY <1>4, <2>2 DEF CompleteInv
<1>7. QED
  BY <1>5, <1>6

LEMMA CompleteInvHandle ==
  ASSUME LoopInv, EventShape, CompleteInv, Handle \/ HandlerReturns \/ Send \/ Emit \/ PutOnBus
  PROVE  CompleteInv'
<1>1. TypeOK /\ LoopShape
  BY DEF LoopInv, ReceiptsMatchSends
<1>2. todo # {}
  BY <1>1 DEF Handle, HandlerReturns, Send, Emit, PutOnBus, TypeOK, LoopShape
<1>3. Current \in todo /\ Current \in Plugins
  BY <1>1, <1>2, CurrentIsTodo
<1>4. UNCHANGED <<inbox, batch, event, arrived>>
  BY DEF Handle, HandlerReturns, Send, Emit, PutOnBus, inboxVars
<1>5. \A m : event = Event("MessageReceived", m) => event.kind = "MessageReceived" /\ event.msg = m
  BY DEF Event
<1>6. CASE Handle
  <2>1. UNCHANGED <<todo, Current>>
    BY <1>6 DEF Handle, Current
  <2>2. /\ \A p \in Plugins : seen[p] \subseteq seen'[p]
        /\ event.kind = "MessageReceived" => event.msg \in seen'[Current]
    BY <1>1, <1>3, <1>6 DEF Handle, TypeOK
  <2>3. CurrentHandled'
    BY <1>4, <2>1, <2>2 DEF CurrentHandled
  <2>4. EveryMessageDispatched'
    BY <1>4, <2>1, <2>2 DEF CompleteInv, EveryMessageDispatched
  <2>5. QED
    BY <2>3, <2>4 DEF CompleteInv
<1>7. CASE HandlerReturns \/ Send \/ Emit \/ PutOnBus
  <2>1. seen' = seen /\ Proceed /\ ~handling' /\ (handling \/ actions # <<>> \/ pending # <<>>)
    BY <1>1, <1>7 DEF HandlerReturns, Send, Emit, PutOnBus, TypeOK, LoopShape
  <2>2. event.kind = "MessageReceived" => event.msg \in seen[Current]
    BY <2>1 DEF CompleteInv, CurrentHandled
  <2>3. CASE actions' = <<>> /\ pending' = <<>>
    <3>1. todo' = todo \ {Current}
      BY <2>1, <2>3 DEF Proceed
    <3>2. CurrentHandled'
      BY <2>1, <2>3 DEF CurrentHandled
    <3>3. EveryMessageDispatched'
      <4> SUFFICES ASSUME NEW p \in Plugins, NEW m \in 1..arrived,
                          "MessageReceived" \in Registered[p].subscriptions,
                          m \notin seen[p], ~\E i \in DOMAIN inbox : inbox[i] = m,
                          ~\E i \in DOMAIN batch : batch[i] = m
                   PROVE  event = Event("MessageReceived", m) /\ p \in todo'
        BY <1>4, <2>1 DEF EveryMessageDispatched
      <4>1. event = Event("MessageReceived", m) /\ p \in todo
        BY DEF CompleteInv, EveryMessageDispatched
      <4>2. p # Current
        BY <1>5, <2>2, <4>1
      <4>3. QED
        BY <3>1, <4>1, <4>2
    <3>4. QED
      BY <3>2, <3>3 DEF CompleteInv
  <2>4. CASE ~(actions' = <<>> /\ pending' = <<>>)
    <3>1. UNCHANGED <<todo, Current>>
      BY <2>1, <2>4 DEF Proceed, Current
    <3>2. CurrentHandled'
      BY <1>4, <2>1, <2>2, <3>1 DEF CurrentHandled
    <3>3. EveryMessageDispatched'
      BY <1>4, <2>1, <3>1 DEF CompleteInv, EveryMessageDispatched
    <3>4. QED
      BY <3>2, <3>3 DEF CompleteInv
  <2>5. QED
    BY <2>3, <2>4
<1>8. QED
  BY <1>6, <1>7

LEMMA CompleteInvInductive == LoopInv /\ EventShape /\ CompleteInv /\ [Next]_vars => CompleteInv'
<1> SUFFICES ASSUME LoopInv, EventShape, CompleteInv, [Next]_vars PROVE CompleteInv'
  OBVIOUS
<1>1. CASE UNCHANGED vars
  BY <1>1 DEF CompleteInv, CurrentHandled, Current, EveryMessageDispatched, vars, lifeVars,
              inboxVars, dispatchVars
<1>2. CASE Ended
  BY <1>1, <1>2 DEF Ended
<1>3. CASE Next /\ ~Ended
  BY <1>3, CompleteInvOutside, CompleteInvDispatch, CompleteInvHandle DEF Next
<1>4. QED
  BY <1>1, <1>2, <1>3

LEMMA CompleteInvAlways == Spec => []CompleteInv
BY CompleteInvInit, CompleteInvInductive, LoopInvAlways, PTL DEF Spec
-----------------------------------------------------------------------------
(* The order of the replies.  Messages keep the order they arrived in; a    *)
(* reply goes to the message being dispatched, which is before all that     *)
(* wait and not before any that was answered.  A plugin that answered       *)
(* receipts would break this: a receipt names a message that is long over.  *)

Rising(s) == \A i, j \in DOMAIN s : i < j => s[i] < s[j]
Before(m, s) == \A i \in DOMAIN s : m < s[i]

Waiting ==
  /\ Rising(inbox) /\ Rising(batch)
  /\ \A i \in DOMAIN batch : Before(batch[i], inbox)
  /\ event.kind = "MessageReceived" => Before(event.msg, batch) /\ Before(event.msg, inbox)

(* The messages answered are those before the ones that wait.               *)
Answered ==
  \A k \in DOMAIN sent :
    sent[k] # 0 =>
      /\ sent[k] <= arrived /\ Before(sent[k], batch) /\ Before(sent[k], inbox)
      /\ event.kind = "MessageReceived" => sent[k] <= event.msg

(* Who is asked to handle the event, and what it may have returned.         *)
Asked ==
  /\ \A p \in todo : event.kind \in Registered[p].subscriptions
  /\ event.kind = "MessageSent" => \A i \in DOMAIN actions : actions[i] # "SendMessage"

OrderInv == Waiting /\ Answered /\ Asked /\ RepliesInOrder

LEMMA OrderInvInit == Init => OrderInv
BY DEF Init, Event, OrderInv, Waiting, Answered, Asked, RepliesInOrder, Rising, Before

LEMMA OrderInvOutside ==
  ASSUME LoopInv, EventShape, OrderInv,
         \/ Arrive \/ Inject \/ RequestShutdown \/ AddPlugin \/ InitFails \/ Start
         \/ Tick \/ Poll \/ Stop
  PROVE  OrderInv'
<1>1. UNCHANGED <<dispatchVars, sent>>
  BY DEF Arrive, Inject, RequestShutdown, AddPlugin, InitFails, Start, Tick, Poll, Stop
<1>2. (Asked /\ RepliesInOrder)'
  BY <1>1 DEF OrderInv, Asked, RepliesInOrder, dispatchVars
<1>3. CASE Arrive
  <2>1. /\ inbox' = Append(inbox, arrived') /\ arrived' = arrived + 1 /\ arrived \in Nat
        /\ batch' = batch /\ inbox \in Seq(1..arrived) /\ batch \in Seq(1..arrived)
        /\ inbox \in Seq(Messages) /\ arrived' \in Messages
    BY <1>3, RuntimeAssumption
       DEF Arrive, LoopInv, ReceiptsMatchSends, EventShape, TypeOK, Messages, RuntimeAssumption
  <2>2. /\ Len(inbox) \in Nat /\ DOMAIN inbox = 1..Len(inbox) /\ DOMAIN inbox' = 1..(Len(inbox) + 1)
        /\ \A i \in DOMAIN inbox : inbox'[i] = inbox[i]
        /\ inbox'[Len(inbox) + 1] = arrived'
    BY <2>1, AppendProperties, LenProperties
  <2>3. /\ \A i \in DOMAIN inbox : inbox[i] \in 1..arrived
        /\ \A i \in DOMAIN batch : batch[i] \in 1..arrived
    BY <2>1, LenProperties, ElementOfSeq
  <2>4. Rising(inbox')
    <3> SUFFICES ASSUME NEW i \in DOMAIN inbox', NEW j \in DOMAIN inbox', i < j
                 PROVE  inbox'[i] < inbox'[j]
      BY DEF Rising
    <3>1. i \in DOMAIN inbox /\ inbox'[i] = inbox[i] /\ inbox[i] \in 1..arrived
      BY <2>2, <2>3
    <3>2. CASE j \in DOMAIN inbox
      BY <2>2, <3>1, <3>2 DEF OrderInv, Waiting, Rising
    <3>3. CASE j = Len(inbox) + 1
      BY <2>1, <2>2, <3>1, <3>3
    <3>4. QED
      BY <2>2, <3>2, <3>3
  <2>5. \A m \in 0..arrived : Before(m, inbox) => Before(m, inbox')
    BY <2>1, <2>2 DEF Before
  <2>6. event.kind = "MessageReceived" => event.msg \in 0..arrived
    BY <2>1 DEF EventShape
  <2>7. \A i \in DOMAIN batch : batch[i] \in 0..arrived
    BY <2>1, <2>3
  <2>8. Waiting'
    BY <1>1, <2>1, <2>4, <2>5, <2>6, <2>7 DEF OrderInv, Waiting, dispatchVars
  <2>9. \A k \in DOMAIN sent : sent[k] # 0 => sent[k] \in 0..arrived /\ sent[k] <= arrived'
    <3>1. \A k \in DOMAIN sent : sent[k] \in Nat
      BY LenProperties, ElementOfSeq DEF LoopInv, ReceiptsMatchSends, TypeOK, Messages
    <3>2. QED
      BY <2>1, <3>1 DEF OrderInv, Answered
  <2>10. Answered'
    BY <1>1, <2>1, <2>5, <2>9 DEF OrderInv, Answered, dispatchVars
  <2>11. QED
    BY <1>2, <2>8, <2>10 DEF OrderInv
<1>4. CASE Poll
  <2>1. /\ batch = <<>> /\ arrived' = arrived
        /\ (inbox' = inbox /\ batch' = batch) \/ (batch' = inbox /\ inbox' = <<>>)
    BY <1>4 DEF Poll, LoopInv, LoopShape
  <2>2. \A m : Before(m, <<>>)
    BY DEF Before
  <2>3. Rising(<<>>)
    BY DEF Rising
  <2>4. Waiting'
    BY <1>1, <2>1, <2>2, <2>3 DEF OrderInv, Waiting, dispatchVars
  <2>5. Answered'
    BY <1>1, <2>1, <2>2 DEF OrderInv, Answered, dispatchVars
  <2>6. QED
    BY <1>2, <2>4, <2>5 DEF OrderInv
<1>5. CASE Inject \/ RequestShutdown \/ AddPlugin \/ InitFails \/ Start \/ Tick \/ Stop
  <2>1. UNCHANGED <<inbox, batch, arrived>>
    BY <1>5 DEF Inject, RequestShutdown, AddPlugin, InitFails, Start, Tick, Stop, inboxVars
  <2>2. (Waiting /\ Answered)'
    BY <1>1, <2>1 DEF OrderInv, Waiting, Answered, dispatchVars
  <2>3. QED
    BY <1>2, <2>2 DEF OrderInv
<1>6. QED
  BY <1>3, <1>4, <1>5

LEMMA OrderInvDispatch ==
  ASSUME LoopInv, EventShape, OrderInv, NextMessage \/ NextEvent \/ SeeShutdown
  PROVE  OrderInv'
<1>1. TypeOK /\ LoopShape
  BY DEF LoopInv, ReceiptsMatchSends
<1>2. todo = {} /\ actions = <<>>
  BY <1>1 DEF NextMessage, NextEvent, SeeShutdown, AtSelect, LoopShape
<1>3. UNCHANGED <<actions, sent, inbox, arrived>>
  BY DEF NextMessage, NextEvent, SeeShutdown, Dispatch, inboxVars
<1>4. Asked'
  <2>1. todo' = {p \in 1..loaded : event'.kind \in Registered[p].subscriptions}
    BY DEF NextMessage, NextEvent, SeeShutdown, Dispatch
  <2>2. QED
    BY <1>2, <1>3, <2>1 DEF Asked
<1>5. RepliesInOrder'
  BY <1>3 DEF OrderInv, RepliesInOrder
<1>6. CASE NextMessage
  <2>1. /\ batch \in Seq(1..arrived) /\ batch # <<>> /\ batch' = Tail(batch)
        /\ event'.kind = "MessageReceived" /\ event'.msg = Head(batch)
    BY <1>6 DEF NextMessage, Dispatch, EventShape, Event
  <2>2. /\ Head(batch) = batch[1] /\ 1 \in DOMAIN batch /\ DOMAIN batch \subseteq Nat
        /\ \A i \in DOMAIN batch' : i + 1 \in DOMAIN batch /\ batch'[i] = batch[i + 1]
        /\ DOMAIN batch' \subseteq Nat \ {0}
    BY <2>1, TakeFirst, LenProperties
  <2>3. Rising(batch') /\ Before(Head(batch), batch')
    <3>1. \A i, j \in DOMAIN batch' : i < j => i + 1 < j + 1
      BY <2>2
    <3>2. \A i \in DOMAIN batch' : 1 < i + 1
      BY <2>2
    <3>3. QED
      BY <2>2, <3>1, <3>2 DEF OrderInv, Waiting, Rising, Before
  <2>4. Waiting'
    BY <1>3, <2>1, <2>2, <2>3 DEF OrderInv, Waiting
  <2>5. Answered'
    <3> SUFFICES ASSUME NEW k \in DOMAIN sent, sent[k] # 0
                 PROVE  /\ sent[k] <= arrived /\ Before(sent[k], batch') /\ Before(sent[k], inbox)
                        /\ sent[k] <= event'.msg
      BY <1>3 DEF Answered
    <3>1. sent[k] <= arrived /\ Before(sent[k], batch) /\ Before(sent[k], inbox)
      BY DEF OrderInv, Answered
    <3>2. Before(sent[k], batch') /\ sent[k] < Head(batch)
      BY <2>2, <3>1 DEF Before
    <3>3. sent[k] \in Nat /\ Head(batch) \in Nat
      BY <1>1, <2>1, TakeFirst, LenProperties, ElementOfSeq DEF TypeOK, Messages
    <3>4. QED
      BY <2>1, <3>1, <3>2, <3>3
  <2>6. QED
    BY <1>4, <1>5, <2>4, <2>5 DEF OrderInv
<1>7. CASE NextEvent \/ SeeShutdown
  <2>1. batch' = batch /\ event'.kind # "MessageReceived"
    <3>1. CASE NextEvent
      <4>1. Head(bus) \in BusEvents
        BY <3>1, TakeFirst DEF NextEvent, EventShape
      <4>2. QED
        BY <3>1, <4>1 DEF NextEvent, Dispatch, BusEvents
    <3>2. CASE SeeShutdown
      BY <3>2 DEF SeeShutdown, Dispatch, Event
    <3>3. QED
      BY <1>7, <3>1, <3>2
  <2>2. Waiting' /\ Answered'
    BY <1>3, <2>1 DEF OrderInv, Waiting, Answered
  <2>3. QED
    BY <1>4, <1>5, <2>2 DEF OrderInv
<1>8. QED
  BY <1>6, <1>7

LEMMA OrderInvHandle ==
  ASSUME ReceiptsUnanswered, LoopInv, EventShape, OrderInv,
         Handle \/ HandlerReturns \/ Send \/ Emit \/ PutOnBus
  PROVE  OrderInv'
<1>1. TypeOK /\ LoopShape
  BY DEF LoopInv, ReceiptsMatchSends
<1>2. todo # {}
  BY <1>1 DEF Handle, HandlerReturns, Send, Emit, PutOnBus, TypeOK, LoopShape
<1>3. Current \in todo /\ Current \in Plugins
  BY <1>1, <1>2, CurrentIsTodo
<1>4. UNCHANGED <<inbox, batch, event, arrived>>
  BY DEF Handle, HandlerReturns, Send, Emit, PutOnBus, inboxVars
<1>5. Waiting'
  BY <1>4 DEF OrderInv, Waiting
<1>6. todo' \subseteq todo
  BY DEF Handle, HandlerReturns, Send, Emit, PutOnBus, Proceed
<1>7. CASE Handle \/ PutOnBus
  <2>1. UNCHANGED <<sent, actions>>
    BY <1>7 DEF Handle, PutOnBus
  <2>2. QED
    BY <1>4, <1>5, <1>6, <2>1 DEF OrderInv, Answered, Asked, RepliesInOrder
<1>8. CASE HandlerReturns
  <2>1. sent' = sent /\ actions' \in Registered[Current].returns \cup {<<>>}
    BY <1>8 DEF HandlerReturns
  <2>2. event.kind = "MessageSent" => \A i \in DOMAIN actions' : actions'[i] # "SendMessage"
    BY <1>3, <2>1 DEF ReceiptsUnanswered, OrderInv, Asked
  <2>3. QED
    BY <1>4, <1>5, <1>6, <2>1, <2>2 DEF OrderInv, Answered, Asked, RepliesInOrder
<1>9. CASE Send \/ Emit
  <2>1. /\ actions \in Seq(ActionKinds) /\ actions # <<>> /\ actions' = Tail(actions)
        /\ Send => Head(actions) = "SendMessage"
    BY <1>1, <1>9 DEF Send, Emit, TypeOK
  <2>2. /\ Head(actions) = actions[1] /\ 1 \in DOMAIN actions
        /\ \A i \in DOMAIN actions' : i + 1 \in DOMAIN actions /\ actions'[i] = actions[i + 1]
    BY <2>1, TakeFirst
  <2>3. Asked'
    BY <1>4, <1>6, <2>2 DEF OrderInv, Asked
  <2>4. CASE sent' = sent
    BY <1>4, <1>5, <2>3, <2>4 DEF OrderInv, Answered, RepliesInOrder
  <2>5. CASE Send /\ sent' = Append(sent, event.msg)
    <3>1. /\ sent \in Seq(Messages \cup {0}) /\ event.msg \in Messages \cup {0}
          /\ arrived \in Nat
      BY <1>1, RuntimeAssumption DEF TypeOK, Events, RuntimeAssumption
    <3>2. /\ Len(sent) \in Nat /\ DOMAIN sent = 1..Len(sent) /\ DOMAIN sent' = 1..(Len(sent) + 1)
          /\ \A k \in DOMAIN sent : sent'[k] = sent[k] /\ sent[k] \in Nat
          /\ sent'[Len(sent) + 1] = event.msg /\ event.msg \in Nat
      BY <2>5, <3>1, AppendProperties, LenProperties, ElementOfSeq DEF Messages
    <3>3. event.msg # 0 => event.kind = "MessageReceived"
      BY <2>1, <2>2, <2>5 DEF OrderInv, Asked, EventShape
    <3>4. event.msg # 0 => /\ event.msg <= arrived
                           /\ Before(event.msg, batch) /\ Before(event.msg, inbox)
                           /\ \A k \in DOMAIN sent : sent[k] # 0 => sent[k] <= event.msg
      BY <3>1, <3>3 DEF OrderInv, Waiting, Answered, EventShape
    <3>5. Answered'
      <4> SUFFICES ASSUME NEW k \in DOMAIN sent', sent'[k] # 0
                   PROVE  /\ sent'[k] <= arrived /\ Before(sent'[k], batch) /\ Before(sent'[k], inbox)
                          /\ event.kind = "MessageReceived" => sent'[k] <= event.msg
        BY <1>4 DEF Answered
      <4>1. CASE k \in DOMAIN sent
        BY <3>2, <4>1 DEF OrderInv, Answered
      <4>2. CASE k = Len(sent) + 1
        BY <3>2, <3>4, <4>2
      <4>3. QED
        BY <3>2, <4>1, <4>2
    <3>6. RepliesInOrder'
      <4> SUFFICES ASSUME NEW i \in DOMAIN sent', NEW j \in DOMAIN sent', i < j,
                          sent'[i] # 0, sent'[j] # 0
                   PROVE  sent'[i] <= sent'[j]
        BY DEF RepliesInOrder
      <4>1. i \in DOMAIN sent
        BY <3>2
      <4>2. CASE j \in DOMAIN sent
        BY <3>2, <4>1, <4>2 DEF OrderInv, RepliesInOrder
      <4>3. CASE j = Len(sent) + 1
        BY <3>2, <3>4, <4>1, <4>3
      <4>4. QED
        BY <3>2, <4>2, <4>3
    <3>7. QED
      BY <1>5, <2>3, <3>5, <3>6 DEF OrderInv
  <2>6. QED
    BY <1>9, <2>4, <2>5 DEF Send, Emit
<1>10. QED
  BY <1>7, <1>8, <1>9

LEMMA OrderInvInductive ==
  ASSUME ReceiptsUnanswered
  PROVE  LoopInv /\ EventShape /\ OrderInv /\ [Next]_vars => OrderInv'
<1> SUFFICES ASSUME LoopInv, EventShape, OrderInv, [Next]_vars PROVE OrderInv'
  OBVIOUS
<1>1. CASE UNCHANGED vars
  BY <1>1 DEF OrderInv, Waiting, Answered, Asked, RepliesInOrder, vars, lifeVars, inboxVars,
              dispatchVars
<1>2. CASE Ended
  BY <1>1, <1>2 DEF Ended
<1>3. CASE Next /\ ~Ended
  BY <1>3, OrderInvOutside, OrderInvDispatch, OrderInvHandle DEF Next
<1>4. QED
  BY <1>1, <1>2, <1>3

LEMMA OrderInvAlways ==
  ASSUME ReceiptsUnanswered
  PROVE  Spec => []OrderInv
BY OrderInvInit, OrderInvInductive, LoopInvAlways, PTL DEF Spec

(* Whatever plugins are registered, and whichever of their handlers, sends    *)
(* and polls fail, no subscribed plugin misses a message the loop has taken;  *)
(* and unless some plugin answers receipts, replies leave in the order of     *)
(* the messages they answer.                                                  *)
THEOREM DispatchAlwaysComplete ==
  ASSUME ReceiptsUnanswered
  PROVE  Spec => []DispatchIsComplete
BY CompleteInvAlways, OrderInvAlways, PTL DEF CompleteInv, OrderInv, DispatchIsComplete
=============================================================================
