------------------------------ MODULE A2ATasks ------------------------------
(***************************************************************************)
(* The task endpoint of the A2A server (a2a.rs): HTTP handlers that create *)
(* and cancel tasks in a bounded store behind a lock, and one spawned      *)
(* worker per task that forwards it to the hub, or answers it locally, and *)
(* files the result.  Handlers and workers hold the lock only inside the   *)
(* actions below, never across an await.                                   *)
(***************************************************************************)
EXTENDS Naturals, Sequences, FiniteSets, SequencesExt

CONSTANTS
  Tasks,          \* tasks, one for each POST /a2a/tasks with a valid body
  Capacity,       \* of the store: TaskStore::new(1000)
  MaxAttempts,    \* polls of the hub before the worker gives up (100)
  Wide,           \* tasks whose message has a character across its byte 200
  MayHang         \* tasks for which the hub may never answer a request

ASSUME TasksAssumption ==
  /\ Capacity \in Nat \ {0} /\ MaxAttempts \in Nat \ {0}
  /\ Wide \subseteq Tasks /\ MayHang \subseteq Tasks

VARIABLES
  hub,            \* A2aServerConfig.hub_url is given; otherwise tasks are echoed
  order,          \* TaskStore.order
  tasks,          \* TaskStore.tasks: the state of each task, "absent" if none
  worker,         \* worker[t]: how far process_task has come
  attempts,       \* attempts[t]: polls of the hub it has made
  result          \* result[t]: what it has got

storeVars == <<order, tasks>>
taskVars == <<hub, storeVars, worker, attempts, result>>

TaskState == {"absent", "pending", "running", "completed", "failed", "cancelled"}
Open == {"pending", "running"}
Working == {"spawned", "submit", "poll", "file"}

TasksTypeOK ==
  /\ hub \in BOOLEAN
  /\ order \in Seq(Tasks)
  /\ tasks \in [Tasks -> TaskState]
  /\ worker \in [Tasks -> Working \cup {"none", "named", "panicked", "done"}]
  /\ attempts \in [Tasks -> 0..MaxAttempts]
  /\ result \in [Tasks -> {"none", "ok", "err"}]
  /\ \A t \in Tasks : worker[t] = "file" <=> result[t] # "none"

TasksInit ==
  /\ hub \in BOOLEAN
  /\ order = <<>>
  /\ tasks = [t \in Tasks |-> "absent"]
  /\ worker = [t \in Tasks |-> "none"]
  /\ attempts = [t \in Tasks |-> 0]
  /\ result = [t \in Tasks |-> "none"]

-----------------------------------------------------------------------------
WorkerMoves(t, from, to) ==
  /\ worker[t] = from
  /\ worker' = [worker EXCEPT ![t] = to]

(* handle_create_task up to the lock: the task has an id and a time.        *)
Name(t) ==
  /\ WorkerMoves(t, "none", "named")
  /\ UNCHANGED <<hub, storeVars, attempts, result>>

(* How many tasks insert evicts from the front to make room for one.        *)
Excess == IF Len(order) < Capacity THEN 0 ELSE Len(order) - Capacity + 1

(* Faulty variant: the order keeps the id of an evicted task.               *)
InsertKeepsOrder(t) ==
  /\ WorkerMoves(t, "named", "spawned")
  /\ order' = Append(order, t)
  /\ tasks' = [x \in Tasks |->
                 IF x = t THEN "pending"
                 ELSE IF \E i \in 1..Excess : order[i] = x THEN "absent"
                 ELSE tasks[x]]
  /\ UNCHANGED <<hub, attempts, result>>

(* TaskStore::insert under the lock, and the spawn of the worker.           *)
Insert(t) ==
  /\ WorkerMoves(t, "named", "spawned")
  /\ order' = Append(SubSeq(order, Excess + 1, Len(order)), t)
  /\ tasks' = [x \in Tasks |->
                 IF x = t THEN "pending"
                 ELSE IF \E i \in 1..Excess : order[i] = x THEN "absent"
                 ELSE tasks[x]]
  /\ UNCHANGED <<hub, attempts, result>>

(* DELETE /a2a/tasks/<id>; otherwise the answer is 404 or 409.              *)
Cancel(t) ==
  /\ tasks[t] \in Open
  /\ tasks' = [tasks EXCEPT ![t] = "cancelled"]
  /\ UNCHANGED <<hub, order, worker, attempts, result>>

-----------------------------------------------------------------------------
(* process_task *)

(* A worker whose task has been evicted goes on without it.                 *)
MarkRunning(t) ==
  /\ \/ tasks[t] = "cancelled" /\ WorkerMoves(t, "spawned", "done") /\ UNCHANGED tasks
     \/ tasks[t] = "absent" /\ WorkerMoves(t, "spawned", "submit") /\ UNCHANGED tasks
     \/ /\ tasks[t] \in Open
        /\ WorkerMoves(t, "spawned", "submit")
        /\ tasks' = [tasks EXCEPT ![t] = "running"]
  /\ UNCHANGED <<hub, order, attempts, result>>

HasResult(t, r) ==
  /\ worker' = [worker EXCEPT ![t] = "file"]
  /\ result' = [result EXCEPT ![t] = r]

(* Without a hub the message is echoed; cutting it to 200 bytes panics when *)
(* byte 200 is inside a character, and the worker is gone.                  *)
Echo(t) ==
  /\ ~hub /\ worker[t] = "submit"
  /\ IF t \in Wide
     THEN WorkerMoves(t, "submit", "panicked") /\ UNCHANGED result
     ELSE HasResult(t, "ok")
  /\ UNCHANGED <<hub, storeVars, attempts>>

(* POST to the hub: a task id to poll, or an error of any kind.             *)
Submit(t) ==
  /\ hub /\ worker[t] = "submit"
  /\ \/ WorkerMoves(t, "submit", "poll") /\ UNCHANGED result
     \/ HasResult(t, "err")
  /\ UNCHANGED <<hub, storeVars, attempts>>

(* Faulty variant: the worker returns when its attempts run out.            *)
PollHubGivesUpSilently(t) ==
  /\ worker[t] = "poll"
  /\ attempts' = [attempts EXCEPT ![t] = @ + 1]
  /\ \/ \E r \in {"ok", "err"} : HasResult(t, r)
     \/ attempts'[t] < MaxAttempts /\ UNCHANGED <<worker, result>>
     \/ attempts'[t] = MaxAttempts /\ WorkerMoves(t, "poll", "done") /\ UNCHANGED result
  /\ UNCHANGED <<hub, storeVars>>

(* One GET of the hub's task: it has ended one way or another, the request  *)
(* fails, or there is nothing to tell yet and the attempts may run out.     *)
PollHub(t) ==
  /\ worker[t] = "poll"
  /\ attempts' = [attempts EXCEPT ![t] = @ + 1]
  /\ \/ \E r \in {"ok", "err"} : HasResult(t, r)
     \/ attempts'[t] < MaxAttempts /\ UNCHANGED <<worker, result>>
     \/ attempts'[t] = MaxAttempts /\ HasResult(t, "err")
  /\ UNCHANGED <<hub, storeVars>>

Outcome(r) == IF r = "ok" THEN "completed" ELSE "failed"

WorkerDone(t) ==
  /\ WorkerMoves(t, "file", "done")
  /\ result' = [result EXCEPT ![t] = "none"]

(* Faulty variant: the result of a task cancelled meanwhile is filed.       *)
FileUnchecked(t) ==
  /\ WorkerDone(t)
  /\ tasks' = IF tasks[t] = "absent" THEN tasks
              ELSE [tasks EXCEPT ![t] = Outcome(result[t])]
  /\ UNCHANGED <<hub, order, attempts>>

(* Faulty variant: an error is only logged.                                 *)
FileResponsesOnly(t) ==
  /\ WorkerDone(t)
  /\ tasks' = IF tasks[t] \in {"absent", "cancelled"} \/ result[t] = "err" THEN tasks
              ELSE [tasks EXCEPT ![t] = Outcome(result[t])]
  /\ UNCHANGED <<hub, order, attempts>>

File(t) ==
  /\ WorkerDone(t)
  /\ tasks' = IF tasks[t] \in {"absent", "cancelled"} THEN tasks
              ELSE [tasks EXCEPT ![t] = Outcome(result[t])]
  /\ UNCHANGED <<hub, order, attempts>>

-----------------------------------------------------------------------------
TaskNext(t) ==
  \/ Name(t) \/ Insert(t) \/ Cancel(t)
  \/ MarkRunning(t) \/ Echo(t) \/ Submit(t) \/ PollHub(t) \/ File(t)

TasksNext == \E t \in Tasks : TaskNext(t)

TasksSpec == TasksInit /\ [][TasksNext]_taskVars

(* A spawned worker is run; the hub answers requests except for MayHang.    *)
TasksFairness ==
  \A t \in Tasks :
    /\ WF_taskVars(MarkRunning(t)) /\ WF_taskVars(Echo(t)) /\ WF_taskVars(File(t))
    /\ t \notin MayHang => WF_taskVars(Submit(t)) /\ WF_taskVars(PollHub(t))

-----------------------------------------------------------------------------
(* The two halves of TaskStore agree and respect its capacity: an id is in  *)
(* the order exactly once when its task is in the map, and not otherwise.   *)
StoreConsistent ==
  /\ TasksTypeOK
  /\ Len(order) <= Capacity
  /\ IsInjective(order)
  /\ ToSet(order) = {t \in Tasks : tasks[t] # "absent"}

(* A task that is pending or running has a worker that will still file its  *)
(* result ("pending -> running -> completed/failed/cancelled"), but for a   *)
(* worker that a message cut inside a character has killed.                 *)
OpenTaskHasWorker ==
  \A t \in Tasks :
    tasks[t] \in Open => worker[t] \in Working \/ (worker[t] = "panicked" /\ t \in Wide)

(* Every task ends or is evicted, within the attempts the worker has, unless *)
(* the worker has died or waits for a hub that never answers.               *)
TasksEnd ==
  \A t \in Tasks :
    tasks[t] \in Open ~> tasks[t] \notin Open \/ worker[t] = "panicked"
                          \/ (hub /\ t \in MayHang)

(* The endpoint as TaskBoard describes it: no outcome is ever overwritten,  *)
(* whenever the cancellation arrives.                                       *)
Board == INSTANCE TaskBoard WITH state <- tasks

ImplementsBoard == Board!Spec
=============================================================================
