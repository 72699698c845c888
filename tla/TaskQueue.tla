----------------------------- MODULE TaskQueue -----------------------------
(***************************************************************************)
(* The task queue of the single-process pipeline, src/src/queue: a deque   *)
(* ordered by priority when that is enabled, an index from task id to task,*)
(* one slot for the task being processed, and a bounded history of ended   *)
(* tasks. Every method holds the lock, so a call is one step of the        *)
(* composed system (module CallbackServer); the operators below are the    *)
(* methods. A task id is used for one enqueue only (ids hash the time), so *)
(* that a task stands for its QueuedTask object. Of the counters behind    *)
(* stats only total_added is kept, to number the arrivals.                 *)
(***************************************************************************)
EXTENDS Naturals, Sequences, Deques

CONSTANTS
    Task,            \* task ids
    None,            \* None, as a value of _current_task
    MaxSize,         \* QueueConfig.max_size
    MaxHistory,      \* the length complete_task cuts _completed_tasks to
    EnablePriority,  \* QueueConfig.enable_priority
    Priority(_)      \* QueuedTask.priority

ASSUME TaskQueueAssumption ==
    /\ None \notin Task
    /\ MaxSize \in Nat /\ MaxHistory \in Nat
    /\ EnablePriority \in BOOLEAN
    /\ \A t \in Task : Priority(t) \in 0..3

VARIABLES
    queue,      \* _queue
    current,    \* _current_task
    status,     \* the status of each task; "new" before it is enqueued
    index,      \* _task_index: the tasks a method can find
    completed,  \* _completed_tasks
    added,      \* _stats["total_added"]
    arrival,    \* history: the number of a task among the enqueued ones, 0 before
    requeued    \* metadata["requeue_count"]

queueVars == <<queue, current, status, index, completed, added, arrival, requeued>>

-----------------------------------------------------------------------------

Status == {"new", "queued", "processing", "completed", "failed", "cancelled", "timeout"}

QueueInit ==
    /\ queue = <<>>
    /\ current = None
    /\ status = [t \in Task |-> "new"]
    /\ index = {}
    /\ completed = <<>>
    /\ added = 0 /\ arrival = [t \in Task |-> 0]
    /\ requeued = [t \in Task |-> 0]

QueueTypeOK ==
    /\ queue \in Seq(Task)
    /\ current \in Task \cup {None}
    /\ status \in [Task -> Status]
    /\ index \subseteq Task
    /\ completed \in Seq(Task)
    /\ added \in Nat /\ arrival \in [Task -> Nat]
    /\ requeued \in [Task -> Nat]

InQueue(t) == \E i \in DOMAIN queue : queue[i] = t

(* What the order of the queue goes by: the priority, if that is enabled.   *)
Rank(t) == IF EnablePriority THEN Priority(t) ELSE 0

(* t before the first one that is in the set of positions, else at the end. *)
PlacedBefore(t, positions) ==
    IF positions # {} THEN SX!InsertAt(queue, SX!Min(positions), t) ELSE Append(queue, t)

(* A plausible bug: >= instead of >. *)
PlacedBeforeEqual(t) == PlacedBefore(t, {i \in DOMAIN queue : Rank(t) >= Rank(queue[i])})

(* The place of a new task: before the first one of lower rank.             *)
Placed(t) == PlacedBefore(t, {i \in DOMAIN queue : Rank(t) > Rank(queue[i])})

Release(t) == current' = IF current = t THEN None ELSE current

-----------------------------------------------------------------------------
(* A plausible bug. *)

CompleteKeepsSlot(t, success) ==    \* _current_task is not reset
    IF t \in index
    THEN /\ status' = [status EXCEPT ![t] = IF success THEN "completed" ELSE "failed"]
         /\ completed' = Append(completed, t)
         /\ UNCHANGED <<queue, current, index, added, arrival, requeued>>
    ELSE UNCHANGED queueVars

-----------------------------------------------------------------------------

Enqueue(t) ==
    /\ status[t] = "new"
    /\ Len(queue) < MaxSize
    /\ queue' = Placed(t)
    /\ index' = index \cup {t}
    /\ status' = [status EXCEPT ![t] = "queued"]
    /\ added' = added + 1
    /\ arrival' = [arrival EXCEPT ![t] = added + 1]
    /\ UNCHANGED <<current, completed, requeued>>

(* A call of dequeue that returns task t.                                   *)
Dequeue(t) ==
    /\ queue # <<>> /\ current = None
    /\ t = Head(queue)
    /\ queue' = Tail(queue)
    /\ current' = t
    /\ status' = [status EXCEPT ![t] = "processing"]
    /\ UNCHANGED <<index, completed, added, arrival, requeued>>

(* Only this method cuts the history, by one.                               *)
CompleteTask(t, success) ==
    IF t \in index
    THEN /\ status' = [status EXCEPT ![t] = IF success THEN "completed" ELSE "failed"]
         /\ completed' = LET ended == Append(completed, t)
                         IN  IF Len(ended) > MaxHistory THEN Tail(ended) ELSE ended
         /\ Release(t)
         /\ UNCHANGED <<queue, index, added, arrival, requeued>>
    ELSE UNCHANGED queueVars

CancelTask(t) ==
    IF t \in index /\ status[t] # "processing"
    THEN /\ queue' = SX!RemoveFirst(queue, t)
         /\ status' = [status EXCEPT ![t] = "cancelled"]
         /\ completed' = Append(completed, t)
         /\ UNCHANGED <<current, index, added, arrival, requeued>>
    ELSE UNCHANGED queueVars

TimeoutTask(t) ==
    IF t \in index
    THEN /\ status' = [status EXCEPT ![t] = "timeout"]
         /\ completed' = Append(completed, t)
         /\ Release(t)
         /\ UNCHANGED <<queue, index, added, arrival, requeued>>
    ELSE UNCHANGED queueVars

RequeueTask(t) ==
    IF t \in index /\ Len(queue) < MaxSize
    THEN /\ Release(t)
         /\ status' = [status EXCEPT ![t] = "queued"]
         /\ requeued' = [requeued EXCEPT ![t] = @ + 1]
         /\ queue' = Append(queue, t)
         /\ UNCHANGED <<index, completed, added, arrival>>
    ELSE UNCHANGED queueVars

(* The index forgets every task of the history, whatever became of it since. *)
ClearCompleted ==
    /\ index' = index \ SX!ToSet(completed)
    /\ completed' = <<>>
    /\ UNCHANGED <<queue, current, status, added, arrival, requeued>>

=============================================================================
