-------------------------- MODULE PluginSlotProofs --------------------------
(***************************************************************************)
(* Proofs about PluginSlot, for every set of callers, admins and modules.  *)
(***************************************************************************)
EXTENDS PluginSlot, FiniteSetTheorems, SequenceTheorems, TLAPS

CountedCallers == {c \in Callers : Counted(c)}

CountedSteps == {"counted", "backout", "held", "running", "finished", "timedout"}

-----------------------------------------------------------------------------
(* How one caller's step moves it in or out of the counted callers.         *)

LEMMA CountedFinite ==
  IsFiniteSet(CountedCallers) /\ Cardinality(CountedCallers) \in Nat
<1>1. IsFiniteSet(CountedCallers)
  BY ConstantsAssumption, FS_Subset DEF CountedCallers, ConstantsAssumption
<1>2. QED
  BY <1>1, FS_CardinalityType

LEMMA CountUp ==
  ASSUME call \in [Callers -> CallStep], NEW c \in Callers,
         call[c] \notin CountedSteps, call' \in [Callers -> CallStep],
         call'[c] \in CountedSteps, \A d \in Callers \ {c} : call'[d] = call[d]
  PROVE  Cardinality(CountedCallers') = Cardinality(CountedCallers) + 1
<1>1. CountedCallers' = CountedCallers \cup {c} /\ c \notin CountedCallers
  BY DEF CountedCallers, Counted, CountedSteps
<1>2. QED
  BY <1>1, CountedFinite, FS_AddElement

LEMMA CountDown ==
  ASSUME call \in [Callers -> CallStep], NEW c \in Callers,
         call[c] \in CountedSteps, call' \in [Callers -> CallStep],
         call'[c] \notin CountedSteps, \A d \in Callers \ {c} : call'[d] = call[d]
  PROVE  /\ Cardinality(CountedCallers') = Cardinality(CountedCallers) - 1
         /\ Cardinality(CountedCallers) > 0
<1>1. CountedCallers' = CountedCallers \ {c} /\ c \in CountedCallers
  BY DEF CountedCallers, Counted, CountedSteps
<1>2. Cardinality(CountedCallers') = Cardinality(CountedCallers) - 1
  BY <1>1, CountedFinite, FS_RemoveElement
<1>3. CountedCallers # {}
  BY <1>1
<1>4. Cardinality(CountedCallers) # 0
  BY <1>3, CountedFinite, FS_EmptySet
<1>5. QED
  BY <1>2, <1>4, CountedFinite

LEMMA CountSame ==
  ASSUME call \in [Callers -> CallStep], call' \in [Callers -> CallStep],
         \A d \in Callers : call'[d] \in CountedSteps <=> call[d] \in CountedSteps
  PROVE  Cardinality(CountedCallers') = Cardinality(CountedCallers)
<1>1. CountedCallers' = CountedCallers
  BY DEF CountedCallers, Counted, CountedSteps
<1>2. QED
  BY <1>1
-----------------------------------------------------------------------------
(* The type invariant is inductive only together with the count: that       *)
(* active_calls stays a natural number is that no caller undoes an          *)
(* increment it has not made.                                               *)

CountInv == TypeOK /\ CountMatchesCalls

LEMMA CountInvInit == Init => CountInv
<1> SUFFICES ASSUME Init PROVE CountInv
  OBVIOUS
<1>1. TypeOK
  <2>1. /\ state \in SlotState /\ active_calls \in Nat /\ module \in Modules
        /\ call \in [Callers -> CallStep] /\ step \in [Admins -> AdminStep]
        /\ op \in [Admins -> {"reload", "unload"}] /\ new \in [Admins -> Modules]
        /\ expired \in SUBSET Admins /\ forced \in SUBSET Admins
        /\ buffer \in [Admins -> Seq(SlotState)]
    BY DEF Init, SlotState, CallStep, AdminStep
  <2>2. listed \in BOOLEAN /\ abandoned \in BOOLEAN
    BY Zenon DEF Init
  <2>3. QED
    BY <2>1, <2>2 DEF TypeOK
<1>2. {c \in Callers : Counted(c)} = {}
  BY DEF Init, Counted
<1>3. CountMatchesCalls
  BY <1>2, FS_EmptySet DEF CountMatchesCalls, Init
<1>4. QED
  BY <1>1, <1>3 DEF CountInv

LEMMA CountInvCaller ==
  ASSUME CountInv, NEW c \in Callers, CallerNext(c)
  PROVE  CountInv'
<1> USE DEF CountInv, TypeOK, CallerMoves, slotVars, adminVars
<1>1. call \in [Callers -> CallStep] /\ active_calls = Cardinality(CountedCallers)
  BY DEF CountMatchesCalls, CountedCallers
<1>2. ASSUME call' \in [Callers -> CallStep], active_calls' = Cardinality(CountedCallers')
      PROVE  CountMatchesCalls'
  BY <1>2 DEF CountMatchesCalls, CountedCallers, Counted
<1>3. CASE Lookup(c) \/ CheckState(c) \/ Recheck(c) \/ Spawn(c) \/ ThreadEnds(c)
           \/ Timeout(c)
  <2>1. /\ call' \in [Callers -> CallStep]
        /\ \A d \in Callers : call'[d] \in CountedSteps <=> call[d] \in CountedSteps
    BY <1>3 DEF CallStep, CountedSteps, Lookup, CheckState, Recheck, Spawn,
                ThreadEnds, Timeout
  <2>2. Cardinality(CountedCallers') = Cardinality(CountedCallers)
    BY <1>1, <2>1, CountSame
  <2>3. UNCHANGED <<slotVars, adminVars>>
    BY <1>3 DEF Lookup, CheckState, Recheck, Spawn, ThreadEnds, Timeout
  <2>4. QED
    BY <1>1, <1>2, <2>1, <2>2, <2>3
<1>4. CASE Increment(c)
  <2>1. /\ call[c] \notin CountedSteps
        /\ call' \in [Callers -> CallStep]
        /\ call'[c] \in CountedSteps
        /\ \A d \in Callers \ {c} : call'[d] = call[d]
    BY <1>4 DEF CallStep, CountedSteps, Increment
  <2>2. Cardinality(CountedCallers') = Cardinality(CountedCallers) + 1
    BY <1>1, <2>1, CountUp
  <2>3. UNCHANGED <<state, module, listed, adminVars>> /\ active_calls' = active_calls + 1
    BY <1>4 DEF Increment
  <2>4. QED
    BY <1>1, <1>2, <2>1, <2>2, <2>3
<1>5. CASE BackOut(c) \/ DropGuard(c)
  <2>1. /\ call[c] \in CountedSteps
        /\ call' \in [Callers -> CallStep]
        /\ call'[c] \notin CountedSteps
        /\ \A d \in Callers \ {c} : call'[d] = call[d]
    BY <1>5 DEF CallStep, CountedSteps, BackOut, DropGuard
  <2>2. /\ Cardinality(CountedCallers') = Cardinality(CountedCallers) - 1
        /\ Cardinality(CountedCallers) > 0
    BY <1>1, <2>1, CountDown
  <2>3. UNCHANGED <<state, module, listed, adminVars>> /\ active_calls' = active_calls - 1
    BY <1>5 DEF BackOut, DropGuard
  <2>4. active_calls' \in Nat
    BY <1>1, <2>2, <2>3
  <2>5. QED
    BY <1>1, <1>2, <2>1, <2>2, <2>3, <2>4
<1>6. QED
  BY <1>3, <1>4, <1>5 DEF CallerNext

LEMMA CountInvAdmin ==
  ASSUME CountInv, NEW a \in Admins, AdminNext(a)
  PROVE  CountInv'
<1> USE DEF CountInv, TypeOK, AdminMoves, slotVars, AdminStep, SlotState
<1>1. UNCHANGED <<active_calls, call>>
  BY DEF AdminNext, Begin, StartDrain, Poll, Wake, DeadlinePasses, Swap, Activate,
         Retire, Remove, Cancel, Flush, NewDeadline
<1>2. CountMatchesCalls'
  BY <1>1 DEF CountMatchesCalls, Counted
<1>3. CASE Begin(a) \/ Wake(a) \/ DeadlinePasses(a) \/ Swap(a) \/ Remove(a) \/ Cancel(a)
  <2>1. CASE Begin(a)
    <3>1. /\ step' \in [Admins -> AdminStep]
          /\ UNCHANGED <<slotVars, expired, forced, abandoned, buffer>>
      BY <2>1 DEF Begin
    <3>2. op' \in [Admins -> {"reload", "unload"}]
      BY <2>1 DEF Begin
    <3>3. new' \in [Admins -> Modules]
      BY <2>1 DEF Begin
    <3>4. QED
      BY <1>1, <1>2, <3>1, <3>2, <3>3
  <2>2. CASE Wake(a) \/ DeadlinePasses(a)
    BY <1>1, <1>2, <2>2 DEF Wake, DeadlinePasses
  <2>3. CASE Swap(a)
    <3>1. module' \in Modules
      BY <2>3 DEF Swap
    <3>2. QED
      BY <1>1, <1>2, <2>3, <3>1 DEF Swap
  <2>4. CASE Remove(a)
    BY <1>1, <1>2, <2>4 DEF Remove, NewDeadline
  <2>5. CASE Cancel(a)
    BY <1>1, <1>2, <2>5 DEF Cancel, NewDeadline
  <2>6. QED
    BY <1>3, <2>1, <2>2, <2>3, <2>4, <2>5
<1>4. CASE Poll(a)
  <2>1. Polled(a) \in AdminStep
    BY DEF Polled
  <2>2. step' \in [Admins -> AdminStep] /\ forced' \in SUBSET Admins
    BY <1>4, <2>1 DEF Poll
  <2>3. UNCHANGED <<slotVars, op, new, expired, abandoned, buffer>>
    BY <1>4 DEF Poll
  <2>4. QED
    BY <1>1, <1>2, <2>2, <2>3
<1>5. CASE StartDrain(a) \/ Activate(a) \/ Retire(a)
  <2>1. PICK s \in SlotState : Store(a, s)
    BY <1>5 DEF StartDrain, Activate, Retire
  <2>2. CASE StoreBuffer
    <3>1. buffer[a] \in Seq(SlotState)
      OBVIOUS
    <3>2. Append(buffer[a], s) \in Seq(SlotState)
      BY <3>1
    <3>3. buffer' \in [Admins -> Seq(SlotState)] /\ state' = state
      BY <2>1, <2>2, <3>2 DEF Store
    <3>4. QED
      BY <1>1, <1>2, <1>5, <3>3 DEF StartDrain, Activate, Retire, NewDeadline
  <2>3. CASE ~StoreBuffer
    <3>1. state' \in SlotState /\ buffer' = buffer
      BY <2>1, <2>3 DEF Store
    <3>2. QED
      BY <1>1, <1>2, <1>5, <3>1 DEF StartDrain, Activate, Retire, NewDeadline
  <2>4. QED
    BY <2>2, <2>3
<1>6. CASE Flush(a)
  <2>1. buffer[a] \in Seq(SlotState) /\ buffer[a] # <<>>
    BY <1>6 DEF Flush
  <2>2. Head(buffer[a]) \in SlotState /\ Tail(buffer[a]) \in Seq(SlotState)
    BY <2>1
  <2>3. QED
    BY <1>1, <1>2, <1>6, <2>2 DEF Flush
<1>7. QED
  BY <1>3, <1>4, <1>5, <1>6 DEF AdminNext

LEMMA CountInvInductive == CountInv /\ [Next]_vars => CountInv'
<1> SUFFICES ASSUME CountInv, [Next]_vars PROVE CountInv'
  OBVIOUS
<1>1. CASE UNCHANGED vars
  BY <1>1 DEF CountInv, TypeOK, CountMatchesCalls, Counted, vars, slotVars, adminVars
<1>2. ASSUME NEW c \in Callers, CallerNext(c) PROVE CountInv'
  BY <1>2, CountInvCaller
<1>3. ASSUME NEW a \in Admins, AdminNext(a) PROVE CountInv'
  BY <1>3, CountInvAdmin
<1>4. QED
  BY <1>1, <1>2, <1>3 DEF Next

LEMMA CountInvAlways == Spec => []CountInv
BY CountInvInit, CountInvInductive, PTL DEF Spec

(* Every variable keeps its type, active_calls in particular: the AtomicUsize *)
(* never wraps below zero.                                                    *)
THEOREM TypeCorrect == Spec => []TypeOK
BY CountInvAlways, PTL DEF CountInv

(* active_calls is the number of callers between their increment and its      *)
(* undoing, for any number of callers and admins, delayed stores or not.      *)
THEOREM CountCorrect == Spec => []CountMatchesCalls
BY CountInvAlways, PTL DEF CountInv
-----------------------------------------------------------------------------
(* Who is at work on a slot that refuses calls, with any number of admins,   *)
(* delayed stores and dropped requests.  What a core may hold back depends   *)
(* on the step its admin is at, because every lock and timer waits for the   *)
(* stores before it.                                                         *)

HeldBack(s) ==
  CASE StoreBuffer /\ s = "idle" -> {<<>>, <<"ACTIVE">>}
    [] StoreBuffer /\ s \in {"poll", "sleep", "swap", "retire"} -> {<<>>, <<"DRAINING">>}
    [] StoreBuffer /\ s = "remove" -> {<<>>, <<"UNLOADED">>, <<"DRAINING", "UNLOADED">>}
    [] OTHER -> {<<>>}

(* Who will store something else than DRAINING, and who will take an         *)
(* UNLOADED slot out of the map or has a store yet to come.                  *)
Drains(a) == Draining(a) \/ buffer[a] # <<>>
Retires(a) == step[a] = "remove" \/ buffer[a] # <<>>

OwnerInv ==
  /\ step \in [Admins -> AdminStep]
  /\ DOMAIN buffer = Admins /\ buffer = [a \in Admins |-> buffer[a]]
  /\ \A a \in Admins : buffer[a] \in HeldBack(step[a])
  /\ state = "DRAINING" => abandoned \/ \E a \in Admins : Drains(a)
  /\ state = "UNLOADED" /\ listed => abandoned \/ \E a \in Admins : Retires(a)

LEMMA Buffers ==
  /\ \A s : Append(<<>>, s) = <<s>> /\ Head(<<s>>) = s /\ Tail(<<s>>) = <<>> /\ <<s>> # <<>>
  /\ Append(<<"DRAINING">>, "UNLOADED") = <<"DRAINING", "UNLOADED">>
  /\ Head(<<"DRAINING", "UNLOADED">>) = "DRAINING"
  /\ Tail(<<"DRAINING", "UNLOADED">>) = <<"UNLOADED">>
  /\ <<"DRAINING", "UNLOADED">> # <<>>
<1>1. ASSUME NEW s
      PROVE  Append(<<>>, s) = <<s>> /\ Head(<<s>>) = s /\ Tail(<<s>>) = <<>> /\ <<s>> # <<>>
  <2>1. Append(<<>>, s) = <<s>>
    OBVIOUS
  <2>2. Head(<<s>>) = s
    OBVIOUS
  <2>3. Tail(<<s>>) = <<>>
    OBVIOUS
  <2>4. <<s>> # <<>>
    OBVIOUS
  <2>5. QED
    BY <2>1, <2>2, <2>3, <2>4
<1>2. Append(<<"DRAINING">>, "UNLOADED") = <<"DRAINING", "UNLOADED">>
  <2>1. ASSUME NEW s, NEW t PROVE Append(<<s>>, t) = <<s, t>>
    <3>1. <<s>> \in Seq({s, t}) /\ <<s, t>> \in Seq({s, t}) /\ Len(<<s>>) = 1 /\ Len(<<s, t>>) = 2
      OBVIOUS
    <3>2. /\ Append(<<s>>, t) \in Seq({s, t}) /\ Len(Append(<<s>>, t)) = 2
          /\ Append(<<s>>, t)[1] = s /\ Append(<<s>>, t)[2] = t
      BY <3>1, AppendProperties
    <3>3. <<s, t>>[1] = s /\ <<s, t>>[2] = t
      OBVIOUS
    <3>4. \A i \in 1 .. 2 : Append(<<s>>, t)[i] = <<s, t>>[i]
      BY <3>2, <3>3
    <3>5. QED
      BY <3>1, <3>2, <3>4, SeqEqual
  <2>2. QED
    BY <2>1, Zenon
<1>3. Head(<<"DRAINING", "UNLOADED">>) = "DRAINING"
  OBVIOUS
<1>4. Tail(<<"DRAINING", "UNLOADED">>) = <<"UNLOADED">>
  OBVIOUS
<1>5. <<"DRAINING", "UNLOADED">> # <<>>
  OBVIOUS
<1>6. QED
  BY <1>1, <1>2, <1>3, <1>4, <1>5

(* The step of one admin that leaves the others alone.                       *)
LEMMA OwnerMoves ==
  ASSUME OwnerInv, NEW a \in Admins, NEW s \in AdminStep, NEW b \in HeldBack(s),
         step' = [step EXCEPT ![a] = s], buffer' = [buffer EXCEPT ![a] = b],
         \/ state' # "DRAINING" \/ abandoned'
         \/ s \in {"poll", "sleep", "swap", "activate", "retire"} \/ b # <<>>
         \/ state' = state /\ (abandoned => abandoned') /\ ~Drains(a),
         \/ state' # "UNLOADED" \/ ~listed' \/ abandoned'
         \/ s = "remove" \/ b # <<>>
         \/ state' = state /\ listed /\ (abandoned => abandoned') /\ ~Retires(a)
  PROVE  OwnerInv'
<1>1. /\ step' \in [Admins -> AdminStep] /\ step'[a] = s
      /\ DOMAIN buffer' = Admins /\ buffer' = [c \in Admins |-> buffer'[c]] /\ buffer'[a] = b
      /\ \A c \in Admins \ {a} : step'[c] = step[c] /\ buffer'[c] = buffer[c]
  BY DEF OwnerInv
<1>2. \A c \in Admins : buffer'[c] \in HeldBack(step'[c])
  BY <1>1 DEF OwnerInv
<1>3. state' = "DRAINING" => abandoned' \/ \E c \in Admins : Drains(c)'
  <2>1. CASE s \in {"poll", "sleep", "swap", "activate", "retire"} \/ b # <<>>
    BY <1>1, <2>1 DEF Drains, Draining
  <2>2. CASE state' = state /\ (abandoned => abandoned') /\ ~Drains(a)
    <3>1. ASSUME state' = "DRAINING", ~abandoned' PROVE \E c \in Admins \ {a} : Drains(c)
      BY <2>2, <3>1 DEF OwnerInv
    <3>2. QED
      BY <1>1, <3>1 DEF Drains, Draining
  <2>3. QED
    BY <2>1, <2>2
<1>4. state' = "UNLOADED" /\ listed' => abandoned' \/ \E c \in Admins : Retires(c)'
  <2>1. CASE s = "remove" \/ b # <<>>
    BY <1>1, <2>1 DEF Retires
  <2>2. CASE state' = state /\ listed /\ (abandoned => abandoned') /\ ~Retires(a)
    <3>1. ASSUME state' = "UNLOADED", ~abandoned' PROVE \E c \in Admins \ {a} : Retires(c)
      BY <2>2, <3>1 DEF OwnerInv
    <3>2. QED
      BY <1>1, <3>1 DEF Retires
  <2>3. QED
    BY <2>1, <2>2
<1>5. QED
  BY <1>1, <1>2, <1>3, <1>4 DEF OwnerInv, HeldBack

LEMMA OwnerInvAdmin ==
  ASSUME OwnerInv, NEW a \in Admins, AdminNext(a)
  PROVE  OwnerInv'
<1>1. /\ step \in [Admins -> AdminStep] /\ step[a] \in AdminStep
      /\ DOMAIN buffer = Admins /\ buffer[a] \in HeldBack(step[a])
      /\ step = [step EXCEPT ![a] = step[a]] /\ buffer = [buffer EXCEPT ![a] = buffer[a]]
  BY DEF OwnerInv
<1>2. CASE StartDrain(a) \/ Activate(a) \/ Retire(a)
  <2>1. PICK s \in {"poll", "idle", "remove"}, w \in SlotState :
          /\ Store(a, w) /\ step' = [step EXCEPT ![a] = s]
          /\ \/ s = "poll" /\ w = "DRAINING" /\ step[a] = "found"
             \/ s = "idle" /\ w = "ACTIVE" /\ step[a] = "activate"
             \/ s = "remove" /\ w = "UNLOADED" /\ step[a] = "retire"
    BY <1>2 DEF StartDrain, Activate, Retire, AdminMoves, SlotState
  <2>2. s \in AdminStep
    BY DEF AdminStep
  <2>3. CASE StoreBuffer
    <3> DEFINE b == Append(buffer[a], w)
    <3>1. buffer' = [buffer EXCEPT ![a] = b]
      BY <2>1, <2>3 DEF Store
    <3>2. b \in HeldBack(s) /\ b # <<>>
      <4>1. buffer[a] = <<>> \/ (s = "remove" /\ w = "UNLOADED" /\ buffer[a] = <<"DRAINING">>)
        BY <1>1, <2>1 DEF HeldBack
      <4>2. CASE buffer[a] = <<>>
        <5>1. b = <<w>> /\ b # <<>>
          BY <4>2, Buffers
        <5>2. QED
          BY <2>1, <2>3, <5>1 DEF HeldBack
      <4>3. CASE s = "remove" /\ w = "UNLOADED" /\ buffer[a] = <<"DRAINING">>
        <5>1. b = <<"DRAINING", "UNLOADED">> /\ b # <<>>
          BY <4>3, Buffers
        <5>2. QED
          BY <2>3, <4>3, <5>1 DEF HeldBack
      <4>4. QED
        BY <4>1, <4>2, <4>3
    <3> HIDE DEF b
    <3>3. QED
      BY <2>1, <2>2, <3>1, <3>2, OwnerMoves
  <2>4. CASE ~StoreBuffer
    <3>1. state' = w /\ UNCHANGED buffer
      BY <2>1, <2>4 DEF Store
    <3>2. buffer[a] = <<>> /\ <<>> \in HeldBack(s)
      BY <1>1, <2>4 DEF HeldBack
    <3>3. buffer' = [buffer EXCEPT ![a] = <<>>]
      BY <1>1, <3>1, <3>2
    <3>4. /\ state' # "DRAINING" \/ s \in {"poll", "sleep", "swap", "activate", "retire"}
          /\ state' # "UNLOADED" \/ s = "remove"
      BY <2>1, <3>1
    <3>5. QED
      BY <2>1, <2>2, <3>2, <3>3, <3>4, OwnerMoves
  <2>5. QED
    BY <2>3, <2>4
<1>3. CASE Begin(a) \/ Remove(a) \/ Cancel(a)
  <2>1. /\ Fenced(a) /\ UNCHANGED buffer
        /\ \E s \in {"idle", "found"} : step' = [step EXCEPT ![a] = s]
        /\ \/ abandoned'
           \/ state' # "DRAINING" /\ abandoned' = abandoned
           \/ state' = state /\ abandoned' = abandoned /\ step[a] \in {"idle", "remove"}
        /\ \/ ~listed' \/ abandoned'
           \/ state' # "UNLOADED"
           \/ state' = state /\ listed' = listed /\ abandoned' = abandoned /\ step[a] # "remove"
    <3>1. CASE Begin(a)
      BY <3>1 DEF Begin, AdminMoves, slotVars
    <3>2. CASE Remove(a)
      BY <3>2 DEF Remove, AdminMoves
    <3>3. CASE Cancel(a) /\ abandoned'
      BY <3>3 DEF Cancel, AdminMoves
    <3>4. CASE Cancel(a) /\ ~abandoned'
      <4>1. /\ Fenced(a) /\ UNCHANGED <<buffer, listed, abandoned>>
            /\ step' = [step EXCEPT ![a] = "idle"] /\ step[a] \in {"sleep", "swap"}
            /\ state' = IF state = "DRAINING" THEN "ACTIVE" ELSE state
        BY <3>4 DEF Cancel, AdminMoves
      <4>2. QED
        BY <4>1
    <3>5. QED
      BY <1>3, <3>1, <3>2, <3>3, <3>4
  <2>2. buffer' = [buffer EXCEPT ![a] = <<>>] /\ buffer[a] = <<>>
    BY <1>1, <2>1 DEF Fenced
  <2>3. PICK s \in {"idle", "found"} : step' = [step EXCEPT ![a] = s]
    BY <2>1
  <2>4. s \in AdminStep /\ <<>> \in HeldBack(s)
    BY DEF AdminStep, HeldBack
  <2>5. /\ \/ state' # "DRAINING" \/ abandoned'
           \/ state' = state /\ (abandoned => abandoned') /\ ~Drains(a)
        /\ \/ state' # "UNLOADED" \/ ~listed' \/ abandoned'
           \/ state' = state /\ listed /\ (abandoned => abandoned') /\ ~Retires(a)
    BY <2>1, <2>2 DEF Drains, Draining, Retires
  <2>6. QED
    BY <2>2, <2>3, <2>4, <2>5, OwnerMoves
<1>4. CASE Poll(a) \/ Wake(a) \/ Swap(a)
  <2>1. /\ UNCHANGED <<state, listed, abandoned, buffer>>
        /\ step[a] \in {"poll", "sleep", "swap"}
        /\ \E s \in {"poll", "sleep", "swap", "retire", "activate"} :
             /\ step' = [step EXCEPT ![a] = s]
             /\ (s # "activate" /\ step[a] \in {"poll", "sleep"}) \/ buffer[a] = <<>>
    BY <1>4 DEF Poll, Polled, Wake, Swap, AdminMoves, Fenced, slotVars
  <2>2. PICK s \in {"poll", "sleep", "swap", "retire", "activate"} :
          /\ step' = [step EXCEPT ![a] = s]
          /\ (s # "activate" /\ step[a] \in {"poll", "sleep"}) \/ buffer[a] = <<>>
    BY <2>1
  <2>3. s \in AdminStep /\ buffer[a] \in HeldBack(s)
    BY <1>1, <2>2 DEF AdminStep, HeldBack
  <2>4. buffer' = [buffer EXCEPT ![a] = buffer[a]]
    BY <1>1, <2>1
  <2>5. buffer[a] # <<>> \/ ~Retires(a)
    BY <2>1 DEF Retires
  <2>6. listed \/ ~listed'
    BY <2>1
  <2>7. abandoned => abandoned'
    BY <2>1
  <2>8. QED
    BY <2>1, <2>2, <2>3, <2>4, <2>5, <2>6, <2>7, OwnerMoves
<1>5. CASE DeadlinePasses(a)
  <2>1. UNCHANGED <<state, listed, abandoned, step, buffer>>
    BY <1>5 DEF DeadlinePasses, slotVars
  <2>2. QED
    BY <2>1 DEF OwnerInv, Drains, Retires, Draining, HeldBack
<1>6. CASE Flush(a)
  <2>1. /\ buffer[a] # <<>> /\ state' = Head(buffer[a]) /\ UNCHANGED step
        /\ buffer' = [buffer EXCEPT ![a] = Tail(buffer[a])]
    BY <1>1, <1>6 DEF Flush
  <2>2. /\ Tail(buffer[a]) \in HeldBack(step[a])
        /\ state' = "DRAINING" =>
             step[a] \in {"poll", "sleep", "swap", "retire"} \/ Tail(buffer[a]) # <<>>
        /\ state' = "UNLOADED" => step[a] = "remove"
    <3>1. \/ buffer[a] = <<"ACTIVE">>
          \/ buffer[a] = <<"UNLOADED">> /\ step[a] = "remove"
          \/ buffer[a] = <<"DRAINING">> /\ step[a] \in {"poll", "sleep", "swap", "retire"}
          \/ buffer[a] = <<"DRAINING", "UNLOADED">> /\ step[a] = "remove" /\ StoreBuffer
      BY <1>1, <2>1 DEF HeldBack
    <3>2. CASE buffer[a] = <<"DRAINING", "UNLOADED">> /\ step[a] = "remove" /\ StoreBuffer
      <4>1. Tail(buffer[a]) = <<"UNLOADED">> /\ Tail(buffer[a]) # <<>>
        BY <3>2, Buffers
      <4>2. QED
        BY <2>1, <3>2, <4>1, Buffers DEF HeldBack
    <3>3. CASE buffer[a] # <<"DRAINING", "UNLOADED">>
      <4>1. Tail(buffer[a]) = <<>> /\ <<>> \in HeldBack(step[a])
        BY <3>1, <3>3, Buffers DEF HeldBack
      <4>2. /\ state' = "DRAINING" => step[a] \in {"poll", "sleep", "swap", "retire"}
            /\ state' = "UNLOADED" => step[a] = "remove"
        BY <2>1, <3>1, <3>3, Buffers
      <4>3. QED
        BY <4>1, <4>2
    <3>4. QED
      BY <3>1, <3>2, <3>3
  <2>3. step' = [step EXCEPT ![a] = step[a]]
    BY <1>1, <2>1
  <2>4. QED
    BY <1>1, <2>1, <2>2, <2>3, OwnerMoves
<1>7. QED
  BY <1>2, <1>3, <1>4, <1>5, <1>6 DEF AdminNext

LEMMA OwnerInvInductive == OwnerInv /\ [Next]_vars => OwnerInv'
<1> SUFFICES ASSUME OwnerInv, [Next]_vars PROVE OwnerInv'
  OBVIOUS
<1>1. ASSUME UNCHANGED <<state, listed, abandoned, step, buffer>> PROVE OwnerInv'
  BY <1>1 DEF OwnerInv, Drains, Retires, Draining, HeldBack
<1>2. ASSUME NEW c \in Callers, CallerNext(c)
      PROVE  UNCHANGED <<state, listed, abandoned, step, buffer>>
  BY <1>2 DEF CallerNext, Lookup, CheckState, Increment, Recheck, BackOut, Spawn, ThreadEnds,
              Timeout, DropGuard, CallerMoves, adminVars, slotVars
<1>3. CASE UNCHANGED vars
  BY <1>1, <1>3 DEF vars, slotVars, adminVars
<1>4. QED
  BY <1>1, <1>2, <1>3, OwnerInvAdmin DEF Next

(* A listed slot is never left refusing calls by overlapping, delayed or     *)
(* dropped reloads and unloads, however many there are, but for an unload    *)
(* that was dropped: who closed it has yet to store something else, at once  *)
(* or from its core's buffer, or to take it out of the map.                  *)
THEOREM RefusalIsOwned == Spec => []RefusalHasOwner
<1>1. Init => OwnerInv
  BY DEF Init, OwnerInv, HeldBack, AdminStep
<1>2. TypeOK /\ OwnerInv => RefusalHasOwner
  BY DEF TypeOK, SlotState, OwnerInv, RefusalHasOwner, AtWork, Drains, Retires
<1>3. QED
  BY <1>1, <1>2, OwnerInvInductive, TypeCorrect, PTL DEF Spec
-----------------------------------------------------------------------------
(* A drain that reads zero calls finds the slot quiet, because every guard  *)
(* is counted; it stays quiet, because the state was stored before the      *)
(* count was read and a caller reads it again after it has counted itself.  *)

LEMMA ZeroMeansQuiet ==
  ASSUME CountInv, active_calls = 0
  PROVE  \A c \in Callers : ~Holds(c)
<1>1. {c \in Callers : Counted(c)} = {}
  BY CountedFinite, FS_EmptySet DEF CountInv, CountMatchesCalls, CountedCallers
<1>2. QED
  BY <1>1 DEF Counted, Holds

LEMMA SerialInvInit ==
  ASSUME Serial
  PROVE  Init => SerialInv
BY DEF Init, SerialInv, StateMatchesStep, DrainedMeansQuiet, Draining

(* While an admin drains, callers can only leave.                           *)
LEMMA SerialInvCaller ==
  ASSUME CountInv, SerialInv, NEW c \in Callers, CallerNext(c)
  PROVE  SerialInv'
<1>1. call \in [Callers -> CallStep]
  BY DEF CountInv, TypeOK
<1>2. UNCHANGED <<state, listed, module, adminVars>>
  BY DEF CallerNext, CallerMoves, Lookup, CheckState, Increment, Recheck, BackOut,
         Spawn, ThreadEnds, Timeout, DropGuard, slotVars
<1>3. StateMatchesStep'
  BY <1>2 DEF SerialInv, StateMatchesStep, Draining, adminVars
<1>4. \A d \in Callers : Holds(d)' => Holds(d) \/ state = "ACTIVE"
  <2> USE <1>1 DEF CallerMoves, Holds
  <2>1. CASE Recheck(c)
    BY <2>1 DEF Recheck
  <2>2. CASE Lookup(c) \/ CheckState(c) \/ Increment(c) \/ BackOut(c)
    BY <2>2 DEF Lookup, CheckState, Increment, BackOut
  <2>3. CASE Spawn(c) \/ ThreadEnds(c) \/ Timeout(c) \/ DropGuard(c)
    BY <2>3 DEF Spawn, ThreadEnds, Timeout, DropGuard
  <2>4. QED
    BY <2>1, <2>2, <2>3 DEF CallerNext
<1>5. DrainedMeansQuiet'
  <2> SUFFICES ASSUME NEW a \in (Admins \ forced)',
                      (step[a] \in {"swap", "activate", "retire"})',
                      NEW d \in Callers, Holds(d)'
               PROVE  FALSE
    BY DEF DrainedMeansQuiet
  <2>1. /\ a \in Admins \ forced
        /\ step[a] \in {"swap", "activate", "retire"}
    BY <1>2 DEF adminVars
  <2>2. state = "DRAINING"
    BY <2>1 DEF SerialInv, StateMatchesStep, Draining
  <2>3. ~Holds(d)
    BY <2>1 DEF SerialInv, DrainedMeansQuiet
  <2>4. QED
    BY <1>4, <2>2, <2>3
<1>6. QED
  BY <1>3, <1>5 DEF SerialInv

LEMMA SerialInvAdmin ==
  ASSUME Serial, CountInv, SerialInv, NEW a \in Admins, AdminNext(a)
  PROVE  SerialInv'
<1>1. Admins = {a}
  BY DEF Serial
<1>2. /\ step \in [Admins -> AdminStep]
      /\ op \in [Admins -> {"reload", "unload"}]
      /\ forced \in SUBSET Admins
      /\ expired \in SUBSET Admins
      /\ active_calls \in Nat
      /\ buffer \in [Admins -> Seq(SlotState)]
  BY DEF CountInv, TypeOK
<1>3. ~Flush(a)
  BY DEF SerialInv, StateMatchesStep, Flush
<1> USE <1>1, <1>2 DEF SerialInv, StateMatchesStep, DrainedMeansQuiet, Draining,
                       AdminMoves, slotVars, Holds, AdminStep
<1>4. CASE Begin(a)
  BY <1>4 DEF Begin
<1>5. CASE StartDrain(a)
  <2>1. state' = "DRAINING" /\ UNCHANGED buffer
    BY <1>5 DEF StartDrain, Store, Serial, NewDeadline
  <2>2. QED
    BY <1>5, <2>1 DEF StartDrain, NewDeadline
<1>6. CASE Poll(a)
  <2>1. Polled(a) \in {"swap", "retire"}
    BY DEF Polled
  <2>2. /\ UNCHANGED <<state, listed, call, buffer, expired>>
        /\ step[a] = "poll"
        /\ step'[a] \in {"swap", "retire", "sleep"}
        /\ a \in forced' => a \in forced \/ a \in expired
    BY <1>6, <2>1 DEF Poll
  <2>3. StateMatchesStep'
    BY <2>2
  <2>4. DrainedMeansQuiet'
    <3>1. CASE active_calls = 0
      <4>1. \A c \in Callers : ~Holds(c)
        BY <3>1, ZeroMeansQuiet
      <4>2. QED
        BY <2>2, <4>1
    <3>2. CASE active_calls > 0
      <4>1. step'[a] = "sleep" \/ a \in forced'
        BY <1>6, <3>2 DEF Poll
      <4>2. QED
        BY <4>1
    <3>3. QED
      BY <3>1, <3>2
  <2>5. QED
    BY <2>3, <2>4
<1>7. CASE Wake(a) \/ DeadlinePasses(a)
  BY <1>7 DEF Wake, DeadlinePasses
<1>8. CASE Swap(a)
  BY <1>8 DEF Swap
<1>9. CASE Activate(a)
  <2>1. state' = "ACTIVE" /\ UNCHANGED buffer
    BY <1>9 DEF Activate, Store, Serial, NewDeadline
  <2>2. QED
    BY <1>9, <2>1 DEF Activate, NewDeadline
<1>10. CASE Retire(a)
  <2>1. state' = "UNLOADED" /\ UNCHANGED buffer
    BY <1>10 DEF Retire, Store, Serial
  <2>2. QED
    BY <1>10, <2>1 DEF Retire
<1>11. CASE Remove(a)
  BY <1>11 DEF Remove, NewDeadline
<1>12. CASE Cancel(a)
  BY <1>12 DEF Cancel, NewDeadline
<1>13. QED
  BY <1>3, <1>4, <1>5, <1>6, <1>7, <1>8, <1>9, <1>10, <1>11, <1>12 DEF AdminNext

LEMMA SerialInvInductive ==
  ASSUME Serial
  PROVE  CountInv /\ SerialInv /\ [Next]_vars => SerialInv'
<1> SUFFICES ASSUME CountInv, SerialInv, [Next]_vars PROVE SerialInv'
  OBVIOUS
<1>1. CASE UNCHANGED vars
  BY <1>1 DEF SerialInv, StateMatchesStep, DrainedMeansQuiet, Draining, Holds, vars,
              slotVars, adminVars
<1>2. QED
  BY <1>1, SerialInvCaller, SerialInvAdmin DEF Next

LEMMA SerialInvAlways ==
  ASSUME Serial
  PROVE  Spec => []SerialInv
BY SerialInvInit, SerialInvInductive, CountInvAlways, PTL DEF Spec

(* With one admin connection and sequentially consistent accesses, a drain    *)
(* that did not time out swaps or retires the module only when no caller owns *)
(* a guard, for any number of callers, cancelled reloads included.            *)
THEOREM DrainIsSafe ==
  ASSUME Serial
  PROVE  Spec => []DrainedMeansQuiet
BY SerialInvAlways, PTL DEF SerialInv
-----------------------------------------------------------------------------
(* Refinement: a recheck that succeeds is Enter, a dropped guard is Leave,  *)
(* the stores to state are Close, Reopen and Retire, and the rest of the    *)
(* protocol -- counting, polling, sleeping -- is invisible at the gate.     *)

Inside == {c \in Callers : Holds(c)}
Overdue == \E a \in expired : Draining(a)

LEMMA GateInit == Init => Gate!Init
BY DEF Init, Gate!Init, GateOf, Holds

LEMMA GateCallerStep ==
  ASSUME CountInv, SerialInv, NEW c \in Callers, CallerNext(c)
  PROVE  [Gate!Next]_(Gate!gateVars)
<1>1. call \in [Callers -> CallStep] /\ state \in SlotState
  BY DEF CountInv, TypeOK
<1>2. UNCHANGED <<state, listed, module, adminVars>>
  BY DEF CallerNext, CallerMoves, Lookup, CheckState, Increment, Recheck, BackOut,
         Spawn, ThreadEnds, Timeout, DropGuard, slotVars
<1>3. GateOf' = GateOf /\ Overdue' = Overdue /\ module' = module
  BY <1>2 DEF GateOf, AtWork, Overdue, Draining, adminVars
<1>4. CASE Inside' = Inside
  BY <1>3, <1>4 DEF Gate!gateVars, Inside, Overdue
<1>5. CASE Recheck(c) /\ state = "ACTIVE"
  <2>1. c \notin Inside /\ Inside' = Inside \cup {c}
    BY <1>1, <1>5 DEF Recheck, CallerMoves, Inside, Holds
  <2>2. GateOf = "open"
    BY <1>5 DEF GateOf
  <2>3. Gate!Enter(c)
    BY <1>3, <2>1, <2>2 DEF Gate!Enter, Inside, Overdue
  <2>4. QED
    BY <2>3 DEF Gate!Next
<1>6. CASE DropGuard(c)
  <2>1. c \in Inside /\ Inside' = Inside \ {c}
    BY <1>1, <1>6 DEF DropGuard, CallerMoves, Inside, Holds
  <2>2. Gate!Leave(c)
    BY <1>3, <2>1 DEF Gate!Leave, Inside, Overdue
  <2>3. QED
    BY <2>2 DEF Gate!Next
<1>7. CASE Lookup(c) \/ CheckState(c) \/ Increment(c) \/ BackOut(c) \/ Spawn(c)
           \/ ThreadEnds(c) \/ Timeout(c) \/ (Recheck(c) /\ state # "ACTIVE")
  <2>1. \A d \in Callers : Holds(d)' <=> Holds(d)
    <3> USE <1>1 DEF CallerMoves, Holds
    <3>1. CASE Lookup(c) \/ CheckState(c) \/ Increment(c) \/ BackOut(c)
      BY <3>1 DEF Lookup, CheckState, Increment, BackOut
    <3>2. CASE Spawn(c) \/ ThreadEnds(c) \/ Timeout(c)
      BY <3>2 DEF Spawn, ThreadEnds, Timeout
    <3>3. CASE Recheck(c) /\ state # "ACTIVE"
      BY <3>3 DEF Recheck
    <3>4. QED
      BY <1>7, <3>1, <3>2, <3>3
  <2>2. QED
    BY <1>4, <2>1 DEF Inside
<1>8. QED
  BY <1>5, <1>6, <1>7 DEF CallerNext

LEMMA GateAdminStep ==
  ASSUME Serial, CountInv, SerialInv, NEW a \in Admins, AdminNext(a)
  PROVE  [Gate!Next]_(Gate!gateVars)
<1>1. Admins = {a}
  BY DEF Serial
<1>2. /\ step \in [Admins -> AdminStep]
      /\ op \in [Admins -> {"reload", "unload"}]
      /\ new \in [Admins -> Modules]
      /\ expired \in SUBSET Admins
      /\ active_calls \in Nat
      /\ module \in Modules
      /\ state \in SlotState
  BY DEF CountInv, TypeOK
<1>3. /\ buffer[a] = <<>>
      /\ step[a] # "idle" => listed
      /\ Draining(a) => state = "DRAINING"
      /\ step[a] = "remove" => state = "UNLOADED"
      /\ a \in forced /\ Draining(a) => a \in expired
      /\ a \notin forced /\ step[a] \in {"swap", "retire"} => Inside = {}
  BY DEF SerialInv, StateMatchesStep, DrainedMeansQuiet, Inside
<1>4. Inside' = Inside
  BY DEF AdminNext, AdminMoves, Begin, StartDrain, Poll, Wake, DeadlinePasses, Swap,
         Activate, Retire, Remove, Cancel, Flush, Inside, Holds, NewDeadline
<1>5. Overdue <=> a \in expired /\ Draining(a)
  BY <1>1, <1>2 DEF Overdue
<1>6. expired' \in SUBSET Admins => (Overdue' <=> a \in expired' /\ Draining(a)')
  BY <1>1 DEF Overdue
<1> DEFINE Busy == Draining(a) \/ step[a] = "remove"
<1>7. /\ state = "ACTIVE" => GateOf = "open"
      /\ state = "DRAINING" /\ Busy => GateOf = "closed"
      /\ state = "UNLOADED" /\ Busy => GateOf = "gone"
      /\ state = "UNLOADED" /\ ~listed => GateOf = "gone"
      /\ state # "ACTIVE" /\ listed /\ ~Busy => GateOf = "left"
  BY <1>1, <1>3 DEF GateOf, AtWork
<1>8. buffer'[a] = <<>> =>
      /\ state' = "ACTIVE" => GateOf' = "open"
      /\ state' = "DRAINING" /\ Busy' => GateOf' = "closed"
      /\ state' = "UNLOADED" /\ Busy' => GateOf' = "gone"
      /\ state' = "UNLOADED" /\ ~listed' => GateOf' = "gone"
      /\ state' # "ACTIVE" /\ listed' /\ ~Busy' => GateOf' = "left"
  BY <1>1 DEF GateOf, AtWork
<1> DEFINE Quiet == Inside = {} \/ Overdue
<1>9. step[a] \in {"swap", "retire"} => Quiet
  BY <1>3, <1>5 DEF Draining
<1> USE <1>1, <1>2 DEF AdminMoves, slotVars, AdminStep
<1>10. CASE Begin(a) \/ Poll(a) \/ Wake(a) \/ Remove(a)
  <2>1. UNCHANGED <<state, module, buffer>>
    BY <1>10 DEF Begin, Poll, Wake, Remove
  <2>2. /\ Draining(a)' <=> Draining(a)
        /\ Remove(a) => ~Draining(a)
    BY <1>10 DEF Begin, Poll, Polled, Wake, Remove, Draining
  <2>3. GateOf' = GateOf
    <3>1. CASE Remove(a)
      <4>1. step[a] = "remove" /\ ~listed'
        BY <3>1 DEF Remove
      <4>2. QED
        BY <1>3, <1>7, <1>8, <2>1, <4>1
    <3>2. CASE Begin(a) \/ Poll(a) \/ Wake(a)
      <4>1. UNCHANGED listed /\ (step'[a] = "remove" <=> step[a] = "remove")
        BY <3>2 DEF Begin, Poll, Polled, Wake
      <4>2. AtWork(a)' <=> AtWork(a)
        BY <2>1, <2>2, <4>1 DEF AtWork
      <4>3. QED
        BY <2>1, <4>1, <4>2 DEF GateOf
    <3>3. QED
      BY <1>10, <3>1, <3>2
  <2>4. Overdue' = Overdue
    <3>1. CASE Remove(a)
      <4>1. expired' \in SUBSET Admins
        BY <3>1 DEF Remove, NewDeadline
      <4>2. Overdue = FALSE /\ Overdue' = FALSE
        BY <1>5, <1>6, <2>2, <3>1, <4>1 DEF Overdue
      <4>3. QED
        BY <4>2
    <3>2. CASE Begin(a) \/ Poll(a) \/ Wake(a)
      <4>1. UNCHANGED expired
        BY <3>2 DEF Begin, Poll, Wake
      <4>2. QED
        BY <1>5, <1>6, <2>2, <4>1 DEF Overdue
    <3>3. QED
      BY <1>10, <3>1, <3>2
  <2>5. QED
    BY <1>4, <2>1, <2>3, <2>4 DEF Gate!gateVars, Inside, Overdue
<1>11. CASE StartDrain(a)
  <2>1. /\ step[a] = "found" /\ step'[a] = "poll" /\ state' = "DRAINING"
        /\ UNCHANGED <<module, buffer>> /\ expired' \in SUBSET Admins /\ a \notin expired'
    BY <1>11 DEF StartDrain, Store, Serial, NewDeadline
  <2>2. Overdue' = FALSE
    BY <1>6, <2>1 DEF Overdue
  <2>3. GateOf \in {"open", "left"}
    BY <1>3, <1>7, <2>1 DEF Draining
  <2>4. GateOf' = "closed"
    BY <1>3, <1>8, <2>1 DEF Draining
  <2>5. Gate!Close
    BY <1>4, <2>1, <2>2, <2>3, <2>4 DEF Gate!Close, Inside, Overdue
  <2>6. QED
    BY <2>5 DEF Gate!Next
<1>12. CASE DeadlinePasses(a)
  <2>1. /\ Draining(a) /\ Draining(a)' /\ a \in expired'
        /\ UNCHANGED <<state, module, buffer>>
    BY <1>12 DEF DeadlinePasses, Draining
  <2>2. Overdue' = TRUE
    BY <2>1 DEF Overdue
  <2>3. GateOf = "closed" /\ GateOf' = "closed"
    BY <1>3, <1>7, <1>8, <2>1
  <2>4. Gate!DeadlinePasses
    BY <1>4, <2>1, <2>2, <2>3 DEF Gate!DeadlinePasses, Inside, Overdue
  <2>5. QED
    BY <2>4 DEF Gate!Next
<1>13. CASE Swap(a)
  <2>1. /\ step[a] = "swap" /\ Draining(a) /\ Draining(a)'
        /\ UNCHANGED <<state, expired, buffer>> /\ module' \in Modules
    BY <1>13 DEF Swap, Draining
  <2>2. Overdue' = Overdue
    BY <2>1, <1>1, <1>2 DEF Overdue
  <2>3. GateOf = "closed" /\ GateOf' = "closed"
    BY <1>3, <1>7, <1>8, <2>1
  <2>4. Gate!Swap
    BY <1>4, <1>9, <2>1, <2>2, <2>3 DEF Gate!Swap, Gate!Quiescent, Inside, Overdue
  <2>5. QED
    BY <2>4 DEF Gate!Next
<1>14. CASE Activate(a) \/ (Cancel(a) /\ op[a] = "reload")
  <2>1. /\ Draining(a) /\ state' = "ACTIVE" /\ ~Draining(a)'
        /\ UNCHANGED <<module, buffer>> /\ expired' \in SUBSET Admins
    BY <1>3, <1>14 DEF Activate, Cancel, Store, Serial, Draining, NewDeadline
  <2>2. Overdue' = FALSE
    BY <1>6, <2>1 DEF Overdue
  <2>3. GateOf = "closed" /\ GateOf' = "open"
    BY <1>3, <1>7, <1>8, <2>1
  <2>4. Gate!Reopen
    BY <1>4, <2>1, <2>2, <2>3 DEF Gate!Reopen, Inside, Overdue
  <2>5. QED
    BY <2>4 DEF Gate!Next
<1>15. CASE Retire(a)
  <2>1. /\ step[a] = "retire" /\ Draining(a) /\ state' = "UNLOADED" /\ step'[a] = "remove"
        /\ ~Draining(a)' /\ UNCHANGED <<module, expired, buffer>>
    BY <1>3, <1>15 DEF Retire, Store, Serial, Draining
  <2>2. Overdue' = FALSE
    BY <1>6, <2>1 DEF Overdue
  <2>3. GateOf = "closed" /\ GateOf' = "gone"
    BY <1>3, <1>7, <1>8, <2>1
  <2>4. Gate!Retire
    BY <1>4, <1>9, <2>1, <2>2, <2>3 DEF Gate!Retire, Gate!Quiescent, Inside, Overdue
  <2>5. QED
    BY <2>4 DEF Gate!Next
<1>16. CASE Cancel(a) /\ op[a] = "unload"
  <2>1. /\ step[a] \in {"sleep", "remove"} /\ step'[a] = "idle"
        /\ UNCHANGED <<state, listed, module, buffer>> /\ expired' \in SUBSET Admins
    BY <1>16 DEF Cancel, NewDeadline
  <2>2. Overdue' = FALSE
    BY <1>6, <2>1 DEF Overdue, Draining
  <2>3. GateOf \in {"closed", "gone"}
    BY <1>3, <1>7, <2>1 DEF Draining
  <2>4. GateOf' = "left"
    BY <1>3, <1>8, <2>1 DEF Draining
  <2>5. Gate!Abandon
    BY <1>4, <2>1, <2>2, <2>3, <2>4 DEF Gate!Abandon, Inside, Overdue
  <2>6. QED
    BY <2>5 DEF Gate!Next
<1>17. ~Flush(a)
  BY <1>3 DEF Flush
<1>18. QED
  BY <1>10, <1>11, <1>12, <1>13, <1>14, <1>15, <1>16, <1>17 DEF AdminNext, Cancel

(* The slot implements the gate: every step of callers and admins, at the     *)
(* granularity of single atomic accesses, is a step of DrainGate or invisible *)
(* there.  (That a drain ends is left to the model checker.)                  *)
THEOREM ImplementsGateSafety ==
  ASSUME Serial
  PROVE  Spec => Gate!Init /\ [][Gate!Next]_(Gate!gateVars)
<1>1. CountInv /\ SerialInv /\ [Next]_vars => [Gate!Next]_(Gate!gateVars)
  <2> SUFFICES ASSUME CountInv, SerialInv, [Next]_vars
               PROVE  [Gate!Next]_(Gate!gateVars)
    OBVIOUS
  <2>1. CASE UNCHANGED vars
    BY <2>1 DEF vars, slotVars, adminVars, Gate!gateVars, GateOf, AtWork, Holds, Draining
  <2>2. QED
    BY <2>1, GateCallerStep, GateAdminStep DEF Next
<1>2. QED
  BY <1>1, GateInit, CountInvAlways, SerialInvAlways, PTL DEF Spec
=============================================================================
