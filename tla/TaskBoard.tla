----------------------------- MODULE TaskBoard -----------------------------
(***************************************************************************)
(* What the A2A endpoint promises of its tasks: a board of the last        *)
(* Capacity tasks accepted, each of which goes from pending through        *)
(* running to one outcome and keeps it for as long as it is on the board.  *)
(***************************************************************************)
EXTENDS Naturals, Sequences

CONSTANTS Tasks, Capacity

VARIABLES
  order,          \* the tasks on the board, oldest first
  state           \* state[t]: the state of t, "absent" off the board

vars == <<order, state>>

Init ==
  /\ order = <<>>
  /\ state = [t \in Tasks |-> "absent"]

(* A new task displaces the oldest one when the board is full.              *)
Accept(t) ==
  /\ \A i \in DOMAIN order : order[i] # t
  /\ state[t] = "absent"
  /\ IF Len(order) < Capacity
     THEN /\ order' = Append(order, t)
          /\ state' = [state EXCEPT ![t] = "pending"]
     ELSE /\ order' = Append(Tail(order), t)
          /\ state' = [state EXCEPT ![t] = "pending", ![Head(order)] = "absent"]

Moves(t, from, to) ==
  /\ state[t] \in from
  /\ \E s \in to : state' = [state EXCEPT ![t] = s]
  /\ UNCHANGED order

Start(t) == Moves(t, {"pending"}, {"running"})
Finish(t) == Moves(t, {"running"}, {"completed", "failed"})
Cancel(t) == Moves(t, {"pending", "running"}, {"cancelled"})

Next == \E t \in Tasks : Accept(t) \/ Start(t) \/ Finish(t) \/ Cancel(t)

Spec == Init /\ [][Next]_vars
=============================================================================
