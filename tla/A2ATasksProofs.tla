---------------------------- MODULE A2ATasksProofs ----------------------------
(***************************************************************************)
(* Proofs about A2ATasks, for every set of tasks, every capacity of the    *)
(* store and every number of attempts.                                     *)
(***************************************************************************)
EXTENDS A2ATasks, SequenceTheorems, TLAPS

(* What process_task may assume of the store, at each of its steps: the     *)
(* task is not there before the insert, and afterwards only its worker      *)
(* moves it on, while others may cancel or evict it.                        *)
WorkerMatchesTask ==
  \A t \in Tasks :
    /\ worker[t] \in {"none", "named"} => tasks[t] = "absent"
    /\ worker[t] = "spawned" => tasks[t] \in {"pending", "cancelled", "absent"}
    /\ worker[t] \in {"submit", "poll", "file"} => tasks[t] \in {"running", "cancelled", "absent"}

(* A worker that polls has an attempt left.                                 *)
AttemptLeft ==
  \A t \in Tasks :
    /\ worker[t] \in {"none", "named", "spawned", "submit"} => attempts[t] = 0
    /\ worker[t] = "poll" => attempts[t] < MaxAttempts

Inv == StoreConsistent /\ WorkerMatchesTask /\ AttemptLeft /\ OpenTaskHasWorker

LEMMA InvInit == TasksInit => Inv
<1> SUFFICES ASSUME TasksInit PROVE Inv
  OBVIOUS
<1>1. order \in Seq(Tasks) /\ Len(order) = 0 /\ DOMAIN order = {}
  BY DEF TasksInit
<1>2. TasksTypeOK
  BY <1>1, TasksAssumption DEF TasksInit, TasksTypeOK, TaskState, Working, TasksAssumption
<1>3. StoreConsistent
  BY <1>1, <1>2, TasksAssumption
     DEF TasksInit, StoreConsistent, IsInjective, ToSet, TasksAssumption
<1>4. WorkerMatchesTask /\ AttemptLeft /\ OpenTaskHasWorker
  BY TasksAssumption
     DEF TasksInit, WorkerMatchesTask, AttemptLeft, OpenTaskHasWorker, Open, TasksAssumption
<1>5. QED
  BY <1>3, <1>4 DEF Inv
-----------------------------------------------------------------------------
(* A sequence without its first e elements, e at most one, and t after it.  *)
Shifted(s, e, t) == Append(SubSeq(s, e + 1, Len(s)), t)

LEMMA DropAndAppend ==
  ASSUME NEW s \in Seq(Tasks), NEW e \in {0, 1}, e <= Len(s), NEW t \in Tasks
  PROVE  /\ Shifted(s, e, t) \in Seq(Tasks)
         /\ Len(Shifted(s, e, t)) = Len(s) - e + 1
         /\ \A i \in 1..(Len(s) - e) : Shifted(s, e, t)[i] = s[i + e]
         /\ Shifted(s, e, t)[Len(s) - e + 1] = t
         /\ e = 0 => Shifted(s, e, t) = Append(s, t)
         /\ e = 1 => Shifted(s, e, t) = Append(Tail(s), t)
<1> DEFINE kept == SubSeq(s, e + 1, Len(s))
           r == Append(kept, t)
<1>1. Len(s) \in Nat
  BY LenProperties
<1>2. e = 0 => kept = s
  BY SubSeqFull
<1>3. e = 1 => s # <<>> /\ kept = Tail(s)
  <2>1. e = 1 => s # <<>>
    BY <1>1, EmptySeq
  <2>2. QED
    BY <2>1, TailIsSubSeq
<1>4. kept \in Seq(Tasks) /\ Len(kept) = Len(s) - e
  BY <1>1, <1>2, <1>3, HeadTailProperties
<1>5. \A i \in 1..(Len(s) - e) : kept[i] = s[i + e]
  <2>1. CASE e = 0
    BY <1>1, <1>2, <2>1
  <2>2. CASE e = 1
    BY <1>1, <1>3, <1>4, <2>2, HeadTailProperties
  <2>3. QED
    BY <2>1, <2>2
<1> HIDE DEF kept
<1>6. /\ r \in Seq(Tasks)
      /\ Len(r) = Len(kept) + 1
      /\ \A i \in 1..Len(kept) : r[i] = kept[i]
      /\ r[Len(kept) + 1] = t
  BY <1>4, AppendProperties
<1>7. (e = 0 => r = Append(s, t)) /\ (e = 1 => r = Append(Tail(s), t))
  BY <1>2, <1>3
<1> HIDE DEF r
<1>8. /\ r \in Seq(Tasks)
      /\ Len(r) = Len(s) - e + 1
      /\ \A i \in 1..(Len(s) - e) : r[i] = s[i + e]
      /\ r[Len(s) - e + 1] = t
  BY <1>4, <1>5, <1>6
<1>9. QED
  BY <1>7, <1>8 DEF r, kept, Shifted

(* What TaskStore::insert does to the order: it drops at most one task, the *)
(* oldest, and only when the store is full.                                 *)
LEMMA InsertedOrder ==
  ASSUME StoreConsistent, NEW t \in Tasks,
         order' = Append(SubSeq(order, Excess + 1, Len(order)), t)
  PROVE  /\ Excess = IF Len(order) < Capacity THEN 0 ELSE 1
         /\ Len(order) \in Nat /\ Excess <= Len(order)
         /\ order' \in Seq(Tasks)
         /\ Len(order') = Len(order) - Excess + 1
         /\ \A i \in 1..(Len(order) - Excess) : order'[i] = order[i + Excess]
         /\ order'[Len(order')] = t
         /\ Excess = 0 => order' = Append(order, t)
         /\ Excess = 1 => order' = Append(Tail(order), t)
<1>1. order \in Seq(Tasks) /\ Len(order) \in Nat /\ Len(order) <= Capacity
  BY DEF StoreConsistent, TasksTypeOK
<1>2. Capacity \in Nat \ {0}
  BY TasksAssumption DEF TasksAssumption
<1>3. Excess = IF Len(order) < Capacity THEN 0 ELSE 1
  BY <1>1, <1>2 DEF Excess
<1>4. Excess \in {0, 1} /\ Excess <= Len(order)
  BY <1>1, <1>2, <1>3
<1>5. /\ order' \in Seq(Tasks)
      /\ Len(order') = Len(order) - Excess + 1
      /\ \A i \in 1..(Len(order) - Excess) : order'[i] = order[i + Excess]
      /\ order'[Len(order) - Excess + 1] = t
      /\ Excess = 0 => order' = Append(order, t)
      /\ Excess = 1 => order' = Append(Tail(order), t)
  <2>1. order' = Shifted(order, Excess, t)
    BY DEF Shifted
  <2>2. /\ Shifted(order, Excess, t) \in Seq(Tasks)
        /\ Len(Shifted(order, Excess, t)) = Len(order) - Excess + 1
        /\ \A i \in 1..(Len(order) - Excess) : Shifted(order, Excess, t)[i] = order[i + Excess]
        /\ Shifted(order, Excess, t)[Len(order) - Excess + 1] = t
        /\ Excess = 0 => Shifted(order, Excess, t) = Append(order, t)
        /\ Excess = 1 => Shifted(order, Excess, t) = Append(Tail(order), t)
    BY <1>1, <1>4, DropAndAppend
  <2>3. QED
    BY <2>1, <2>2
<1>6. QED
  BY <1>1, <1>3, <1>4, <1>5

(* The two halves of the store still agree after an insert.                 *)
LEMMA InvInsert ==
  ASSUME Inv, NEW t \in Tasks, Insert(t)
  PROVE  Inv'
<1>1. StoreConsistent /\ TasksTypeOK /\ tasks[t] = "absent" /\ worker[t] = "named"
  BY DEF Inv, StoreConsistent, WorkerMatchesTask, Insert, WorkerMoves
<1>2. /\ Excess \in {0, 1} /\ Excess <= Len(order) /\ Len(order) \in Nat
      /\ Len(order) - Excess + 1 <= Capacity
      /\ Len(order') = Len(order) - Excess + 1
  <2>1. Capacity \in Nat \ {0} /\ Len(order) <= Capacity
    BY <1>1, TasksAssumption DEF TasksAssumption, StoreConsistent
  <2>2. /\ Excess = IF Len(order) < Capacity THEN 0 ELSE 1
        /\ Len(order) \in Nat /\ Excess <= Len(order)
        /\ Len(order') = Len(order) - Excess + 1
    BY <1>1, InsertedOrder DEF Insert
  <2>3. QED
    BY <2>1, <2>2
<1>3. /\ order' \in Seq(Tasks)
      /\ \A i \in 1..(Len(order) - Excess) : order'[i] = order[i + Excess]
      /\ order'[Len(order')] = t
  BY <1>1, InsertedOrder DEF Insert
<1>4. /\ DOMAIN order = 1..Len(order) /\ DOMAIN order' = 1..Len(order')
      /\ \A i \in 1..Len(order) : order[i] \in Tasks
  BY <1>1, <1>2, <1>3, LenProperties, ElementOfSeq DEF TasksTypeOK
<1>5. /\ \A i, j \in 1..Len(order) : order[i] = order[j] => i = j
      /\ \A x \in Tasks : tasks[x] # "absent" <=> \E i \in 1..Len(order) : order[i] = x
  BY <1>1, <1>4 DEF StoreConsistent, IsInjective, ToSet
<1>6. /\ worker' = [worker EXCEPT ![t] = "spawned"]
      /\ tasks' = [x \in Tasks |->
                     IF x = t THEN "pending"
                     ELSE IF \E i \in 1..Excess : order[i] = x THEN "absent"
                     ELSE tasks[x]]
      /\ UNCHANGED <<hub, attempts, result>>
  BY DEF Insert, WorkerMoves
<1>7. TasksTypeOK'
  BY <1>1, <1>2, <1>3, <1>6 DEF TasksTypeOK, TaskState, Working
<1>8. IsInjective(order)'
  <2> SUFFICES ASSUME NEW i \in 1..Len(order'), NEW j \in 1..Len(order'), order'[i] = order'[j]
               PROVE  i = j
    BY <1>4 DEF IsInjective
  <2>1. \A k \in 1..(Len(order) - Excess) :
          order'[k] = order[k + Excess] /\ k + Excess \in 1..Len(order) /\ order'[k] # t
    <3> SUFFICES ASSUME NEW k \in 1..(Len(order) - Excess)
                 PROVE  order'[k] = order[k + Excess] /\ k + Excess \in 1..Len(order) /\ order'[k] # t
      OBVIOUS
    <3>1. k + Excess \in 1..Len(order)
      BY <1>2
    <3>2. order'[k] = order[k + Excess]
      BY <1>3
    <3>3. tasks[t] = "absent" /\ t \in Tasks
      BY <1>1 DEF Insert
    <3>4. order[k + Excess] # t
      BY <1>5, <3>1, <3>3
    <3>5. QED
      BY <3>1, <3>2, <3>4
  <2>2. CASE i = Len(order') \/ j = Len(order')
    <3>1. order'[i] = t /\ order'[j] = t
      BY <1>3, <2>2
    <3>2. i \notin 1..(Len(order) - Excess) /\ j \notin 1..(Len(order) - Excess)
      BY <2>1, <3>1
    <3>3. QED
      BY <1>2, <3>2
  <2>3. CASE i # Len(order') /\ j # Len(order')
    <3>1. i \in 1..(Len(order) - Excess) /\ j \in 1..(Len(order) - Excess)
      BY <1>2, <2>3
    <3>2. order[i + Excess] = order[j + Excess]
      BY <2>1, <3>1
    <3>3. i + Excess = j + Excess
      BY <1>5, <2>1, <3>1, <3>2
    <3>4. QED
      BY <1>2, <1>3, <3>1, <3>3
  <2>4. QED
    BY <2>2, <2>3
<1>9. ToSet(order)' = {x \in Tasks : tasks'[x] # "absent"}
  <2>1. ASSUME NEW x \in Tasks
        PROVE  tasks'[x] # "absent" <=> \E i \in 1..Len(order') : order'[i] = x
    <3>1. CASE x = t
      <4>1. tasks'[x] = "pending"
        BY <1>6, <3>1
      <4>2. Len(order') \in 1..Len(order')
        BY <1>2
      <4>3. QED
        BY <1>3, <3>1, <4>1, <4>2
    <3>2. CASE x # t
      <4>1. tasks'[x] # "absent" <=> \E i \in 1..Len(order) : order[i] = x /\ i \notin 1..Excess
        BY <1>2, <1>3, <1>5, <1>6, <3>2
      <4>2. ASSUME NEW i \in 1..Len(order), order[i] = x, i \notin 1..Excess
            PROVE  \E k \in 1..Len(order') : order'[k] = x
        <5>1. i - Excess \in 1..(Len(order) - Excess) /\ (i - Excess) + Excess = i
          BY <1>2, <4>2
        <5>2. order'[i - Excess] = x
          BY <1>2, <1>3, <4>2, <5>1
        <5>3. QED
          BY <1>2, <1>3, <5>1, <5>2
      <4>3. ASSUME NEW k \in 1..Len(order'), order'[k] = x
            PROVE  \E i \in 1..Len(order) : order[i] = x /\ i \notin 1..Excess
        <5>1. k # Len(order')
          BY <1>3, <3>2, <4>3
        <5>2. k \in 1..(Len(order) - Excess)
          BY <1>2, <5>1
        <5>3. k + Excess \in 1..Len(order) /\ k + Excess \notin 1..Excess
          BY <1>2, <5>2
        <5>4. order[k + Excess] = x
          BY <1>2, <1>3, <4>3, <5>2
        <5>5. QED
          BY <5>3, <5>4
      <4>4. QED
        BY <4>1, <4>2, <4>3
    <3>3. QED
      BY <3>1, <3>2
  <2>2. \A i \in 1..Len(order') : order'[i] \in Tasks
    BY <1>2, <1>3, ElementOfSeq
  <2>3. QED
    BY <1>4, <2>1, <2>2 DEF ToSet
<1>10. StoreConsistent'
  BY <1>2, <1>3, <1>7, <1>8, <1>9 DEF StoreConsistent
<1>11. (WorkerMatchesTask /\ AttemptLeft /\ OpenTaskHasWorker)'
  BY <1>1, <1>6
     DEF Inv, WorkerMatchesTask, AttemptLeft, OpenTaskHasWorker, TasksTypeOK, Open, Working
<1>12. QED
  BY <1>10, <1>11 DEF Inv
-----------------------------------------------------------------------------
(* A step of one task that leaves the order alone: what t becomes has to    *)
(* keep what the invariant says of t, and t stays in the store, or out.     *)
LEMMA InvMove ==
  ASSUME Inv, NEW t \in Tasks, UNCHANGED <<hub, order>>,
         NEW w \in Working \cup {"none", "named", "panicked", "done"}, NEW s \in TaskState,
         NEW a \in 0..MaxAttempts, NEW r \in {"none", "ok", "err"},
         worker' = [worker EXCEPT ![t] = w], tasks' = [tasks EXCEPT ![t] = s],
         attempts' = [attempts EXCEPT ![t] = a], result' = [result EXCEPT ![t] = r],
         w = "file" <=> r # "none",
         s = "absent" <=> tasks[t] = "absent",
         w \in {"none", "named"} => s = "absent",
         w = "spawned" => s \in {"pending", "cancelled", "absent"},
         w \in {"submit", "poll", "file"} => s \in {"running", "cancelled", "absent"},
         w \in {"none", "named", "spawned", "submit"} => a = 0,
         w = "poll" => a < MaxAttempts,
         s \in Open => w \in Working \/ (w = "panicked" /\ t \in Wide)
  PROVE  Inv'
<1>1. TasksTypeOK /\ StoreConsistent /\ WorkerMatchesTask /\ AttemptLeft /\ OpenTaskHasWorker
  BY DEF Inv, StoreConsistent
<1>2. TasksTypeOK'
  BY <1>1 DEF TasksTypeOK
<1>3. \A x \in Tasks : tasks'[x] = "absent" <=> tasks[x] = "absent"
  BY <1>1 DEF TasksTypeOK
<1>4. StoreConsistent'
  BY <1>1, <1>2, <1>3 DEF StoreConsistent
<1>5. WorkerMatchesTask'
  BY <1>1 DEF WorkerMatchesTask, TasksTypeOK
<1>6. AttemptLeft'
  BY <1>1 DEF AttemptLeft, TasksTypeOK
<1>7. OpenTaskHasWorker'
  BY <1>1 DEF OpenTaskHasWorker, TasksTypeOK
<1>8. QED
  BY <1>4, <1>5, <1>6, <1>7 DEF Inv

LEMMA InvOther ==
  ASSUME Inv, NEW t \in Tasks,
         Name(t) \/ Cancel(t) \/ MarkRunning(t) \/ Echo(t) \/ Submit(t) \/ PollHub(t) \/ File(t)
  PROVE  Inv'
<1>1. /\ MaxAttempts \in Nat \ {0}
      /\ worker \in [Tasks -> Working \cup {"none", "named", "panicked", "done"}]
      /\ tasks \in [Tasks -> TaskState]
      /\ attempts \in [Tasks -> 0..MaxAttempts]
      /\ result \in [Tasks -> {"none", "ok", "err"}]
  BY TasksAssumption DEF TasksAssumption, Inv, StoreConsistent, TasksTypeOK
<1>2. /\ worker[t] \in {"none", "named"} => tasks[t] = "absent"
      /\ worker[t] = "spawned" => tasks[t] \in {"pending", "cancelled", "absent"}
      /\ worker[t] \in {"submit", "poll", "file"} => tasks[t] \in {"running", "cancelled", "absent"}
      /\ worker[t] \in {"none", "named", "spawned", "submit"} => attempts[t] = 0
      /\ worker[t] = "poll" => attempts[t] < MaxAttempts
      /\ tasks[t] \in Open => worker[t] \in Working \/ (worker[t] = "panicked" /\ t \in Wide)
      /\ worker[t] = "file" <=> result[t] # "none"
  BY DEF Inv, StoreConsistent, TasksTypeOK, WorkerMatchesTask, AttemptLeft, OpenTaskHasWorker
<1>3. UNCHANGED <<hub, order>>
  BY DEF Name, Cancel, MarkRunning, Echo, Submit, PollHub, File, storeVars
<1> DEFINE Becomes(w, s, a, r) ==
             /\ worker' = [worker EXCEPT ![t] = w] /\ tasks' = [tasks EXCEPT ![t] = s]
             /\ attempts' = [attempts EXCEPT ![t] = a] /\ result' = [result EXCEPT ![t] = r]
<1>4. /\ worker = [worker EXCEPT ![t] = worker[t]] /\ tasks = [tasks EXCEPT ![t] = tasks[t]]
      /\ attempts = [attempts EXCEPT ![t] = attempts[t]] /\ result = [result EXCEPT ![t] = result[t]]
  BY <1>1
<1> USE <1>1, <1>2, <1>3 DEF Working, TaskState, Open
<1>5. CASE Name(t)
  <2>1. worker[t] = "none" /\ Becomes("named", tasks[t], attempts[t], result[t])
    BY <1>4, <1>5 DEF Name, WorkerMoves, storeVars
  <2>2. QED
    BY <2>1, InvMove
<1>6. CASE Cancel(t)
  <2>1. tasks[t] \in Open /\ Becomes(worker[t], "cancelled", attempts[t], result[t])
    BY <1>4, <1>6 DEF Cancel
  <2>2. QED
    BY <2>1, InvMove
<1>7. CASE MarkRunning(t)
  <2>1. /\ worker[t] = "spawned"
        /\ \/ tasks[t] = "cancelled" /\ Becomes("done", tasks[t], attempts[t], result[t])
           \/ tasks[t] = "absent" /\ Becomes("submit", tasks[t], attempts[t], result[t])
           \/ tasks[t] \in Open /\ Becomes("submit", "running", attempts[t], result[t])
    BY <1>4, <1>7 DEF MarkRunning, WorkerMoves
  <2>2. QED
    BY <2>1, InvMove
<1>8. CASE Echo(t)
  <2>1. /\ worker[t] = "submit"
        /\ \/ t \in Wide /\ Becomes("panicked", tasks[t], attempts[t], result[t])
           \/ Becomes("file", tasks[t], attempts[t], "ok")
    BY <1>4, <1>8 DEF Echo, WorkerMoves, HasResult, storeVars
  <2>2. QED
    BY <2>1, InvMove
<1>9. CASE Submit(t)
  <2>1. /\ worker[t] = "submit"
        /\ \/ Becomes("poll", tasks[t], attempts[t], result[t])
           \/ Becomes("file", tasks[t], attempts[t], "err")
    BY <1>4, <1>9 DEF Submit, WorkerMoves, HasResult, storeVars
  <2>2. QED
    BY <2>1, InvMove
<1>10. CASE PollHub(t)
  <2>1. /\ worker[t] = "poll" /\ attempts[t] + 1 \in 0..MaxAttempts
        /\ attempts'[t] = attempts[t] + 1
    BY <1>10 DEF PollHub
  <2>2. \/ attempts'[t] < MaxAttempts /\ Becomes(worker[t], tasks[t], attempts[t] + 1, result[t])
        \/ \E r \in {"ok", "err"} : Becomes("file", tasks[t], attempts[t] + 1, r)
    BY <1>4, <1>10 DEF PollHub, HasResult, storeVars
  <2>3. QED
    BY <2>1, <2>2, InvMove
<1>11. CASE File(t)
  <2>1. /\ worker[t] = "file" /\ Outcome(result[t]) \in {"completed", "failed"}
        /\ \/ tasks[t] \notin Open /\ Becomes("done", tasks[t], attempts[t], "none")
           \/ tasks[t] # "absent" /\ Becomes("done", Outcome(result[t]), attempts[t], "none")
    BY <1>4, <1>11 DEF File, WorkerDone, WorkerMoves, Outcome
  <2>2. QED
    BY <2>1, InvMove
<1>12. QED
  BY <1>5, <1>6, <1>7, <1>8, <1>9, <1>10, <1>11

LEMMA InvInductive == Inv /\ [TasksNext]_taskVars => Inv'
<1> SUFFICES ASSUME Inv, [TasksNext]_taskVars PROVE Inv'
  OBVIOUS
<1>1. CASE UNCHANGED taskVars
  BY <1>1 DEF Inv, StoreConsistent, TasksTypeOK, WorkerMatchesTask, AttemptLeft,
              OpenTaskHasWorker, taskVars, storeVars
<1>2. QED
  BY <1>1, InvInsert, InvOther DEF TasksNext, TaskNext

LEMMA InvAlways == TasksSpec => []Inv
BY InvInit, InvInductive, PTL DEF TasksSpec

(* The order and the map of TaskStore agree at every moment, and the store    *)
(* never holds more than its capacity, whatever that is and however handlers  *)
(* and workers interleave.                                                    *)
THEOREM StoreAlwaysConsistent == TasksSpec => []StoreConsistent
BY InvAlways, PTL DEF Inv

(* A pending or running task always has a worker that will file its result,   *)
(* unless that worker has panicked.                                           *)
THEOREM OpenTasksAreWorkedOn == TasksSpec => []OpenTaskHasWorker
BY InvAlways, PTL DEF Inv
-----------------------------------------------------------------------------
(* Refinement: an insert is Accept, a worker that marks its task is Start,  *)
(* one that files a result is Finish, and the rest is invisible to a reader *)
(* of the board.                                                            *)

LEMMA BoardInit == TasksInit => Board!Init
BY DEF TasksInit, Board!Init

LEMMA BoardStep ==
  ASSUME Inv, NEW t \in Tasks, TaskNext(t)
  PROVE  [Board!Next]_(Board!vars)
<1>1. TasksTypeOK /\ StoreConsistent /\ WorkerMatchesTask
  BY DEF Inv, StoreConsistent
<1>2. CASE Insert(t)
  <2>1. tasks[t] = "absent"
    BY <1>1, <1>2 DEF Insert, WorkerMoves, WorkerMatchesTask
  <2>2. /\ order \in Seq(Tasks) /\ DOMAIN order = 1..Len(order)
        /\ \A i \in 1..Len(order) : order[i] \in Tasks
        /\ \A i \in 1..Len(order) : tasks[order[i]] # "absent"
    BY <1>1, LenProperties, ElementOfSeq DEF TasksTypeOK, StoreConsistent, ToSet
  <2>3. /\ Excess = IF Len(order) < Capacity THEN 0 ELSE 1
        /\ Len(order) \in Nat /\ Excess <= Len(order)
        /\ Excess = 0 => order' = Append(order, t)
        /\ Excess = 1 => order' = Append(Tail(order), t)
    BY <1>1, <1>2, InsertedOrder DEF Insert
  <2>4. \A i \in DOMAIN order : order[i] # t
    BY <2>1, <2>2
  <2>5. tasks \in [Tasks -> TaskState]
    BY <1>1 DEF TasksTypeOK
  <2>6. tasks' = [x \in Tasks |->
                   IF x = t THEN "pending"
                   ELSE IF \E i \in 1..Excess : order[i] = x THEN "absent"
                   ELSE tasks[x]]
    BY <1>2 DEF Insert
  <2>7. CASE Len(order) < Capacity
    <3>1. 1..Excess = {}
      BY <2>3, <2>7
    <3>2. tasks' = [tasks EXCEPT ![t] = "pending"]
      BY <2>5, <2>6, <3>1
    <3>3. Board!Accept(t)
      BY <2>1, <2>3, <2>4, <2>7, <3>2 DEF Board!Accept
    <3>4. QED
      BY <3>3 DEF Board!Next
  <2>8. CASE ~(Len(order) < Capacity)
    <3>1. order # <<>> /\ Head(order) = order[1] /\ 1 \in 1..Len(order) /\ Excess = 1
      BY <2>2, <2>3, <2>8, EmptySeq
    <3>2. Head(order) \in Tasks /\ Head(order) # t
      BY <2>2, <2>4, <3>1
    <3>3. \A x \in Tasks : (\E i \in 1..Excess : order[i] = x) <=> x = Head(order)
      BY <3>1
    <3>4. tasks' = [tasks EXCEPT ![t] = "pending", ![Head(order)] = "absent"]
      BY <2>5, <2>6, <3>2, <3>3
    <3>5. Board!Accept(t)
      BY <2>1, <2>3, <2>4, <2>8, <3>1, <3>4 DEF Board!Accept
    <3>6. QED
      BY <3>5 DEF Board!Next
  <2>9. QED
    BY <2>7, <2>8
<1>3. CASE Cancel(t)
  <2>1. Board!Cancel(t)
    BY <1>3 DEF Cancel, Open, Board!Cancel, Board!Moves
  <2>2. QED
    BY <2>1 DEF Board!Next
<1>4. CASE MarkRunning(t)
  <2>1. CASE UNCHANGED tasks
    BY <1>4, <2>1 DEF MarkRunning, Board!vars
  <2>2. CASE tasks[t] \in Open /\ tasks' = [tasks EXCEPT ![t] = "running"]
    <3>1. tasks[t] = "pending"
      BY <1>1, <1>4, <2>2 DEF MarkRunning, WorkerMoves, WorkerMatchesTask, Open
    <3>2. Board!Start(t)
      BY <1>4, <2>2, <3>1 DEF MarkRunning, Board!Start, Board!Moves
    <3>3. QED
      BY <3>2 DEF Board!Next
  <2>3. QED
    BY <1>4, <2>1, <2>2 DEF MarkRunning
<1>5. CASE File(t)
  <2>1. CASE tasks[t] \in {"absent", "cancelled"}
    BY <1>5, <2>1 DEF File, Board!vars
  <2>2. CASE tasks[t] \notin {"absent", "cancelled"}
    <3>1. tasks[t] = "running"
      BY <1>1, <1>5, <2>2 DEF File, WorkerDone, WorkerMoves, WorkerMatchesTask
    <3>2. Outcome(result[t]) \in {"completed", "failed"}
      BY DEF Outcome
    <3>3. Board!Finish(t)
      BY <1>5, <2>2, <3>1, <3>2 DEF File, Board!Finish, Board!Moves
    <3>4. QED
      BY <3>3 DEF Board!Next
  <2>3. QED
    BY <2>1, <2>2
<1>6. CASE Name(t) \/ Echo(t) \/ Submit(t) \/ PollHub(t)
  BY <1>6 DEF Name, Echo, Submit, PollHub, storeVars, Board!vars
<1>7. QED
  BY <1>2, <1>3, <1>4, <1>5, <1>6 DEF TaskNext

(* The endpoint implements the board: a task is accepted once, displaces only *)
(* the oldest, and keeps its one outcome for as long as it can be asked for,  *)
(* whatever order handlers and workers take the lock in.                      *)
THEOREM EndpointImplementsBoard == TasksSpec => ImplementsBoard
<1>1. Inv /\ [TasksNext]_taskVars => [Board!Next]_(Board!vars)
  <2> SUFFICES ASSUME Inv, [TasksNext]_taskVars PROVE [Board!Next]_(Board!vars)
    OBVIOUS
  <2>1. CASE UNCHANGED taskVars
    BY <2>1 DEF taskVars, storeVars, Board!vars
  <2>2. QED
    BY <2>1, BoardStep DEF TasksNext
<1>2. QED
  BY <1>1, BoardInit, InvAlways, PTL DEF TasksSpec, ImplementsBoard, Board!Spec
=============================================================================
