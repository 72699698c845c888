---------------------------- MODULE QueueManager ----------------------------
(***************************************************************************)
(* The gateway's task queue, src/src/gateway/core/queue_manager.py: a      *)
(* deque of items, an index from task id to the item registered last for   *)
(* it, and one slot for the task being processed.                          *)
(*                                                                         *)
(* Every method body runs under self._lock, so each is one action here;    *)
(* the callers are free to call any method with any task id in any order.  *)
(* What a method does when it refuses (returns None or False, or raises    *)
(* QueueFullError) is a disjunct of the composed operation of the same     *)
(* name used by module Gateway (Try...); in this module a refused call is  *)
(* a stuttering step.                                                      *)
(***************************************************************************)
EXTENDS Naturals, Sequences, Deques

CONSTANTS
    TaskId,   \* the ids callers use
    MaxSize,  \* QueueConfig.max_size
    NoTask    \* None, as a value of _current_task_id

ASSUME QueueAssumption ==
    /\ MaxSize \in Nat
    /\ NoTask \notin TaskId

VARIABLES
    queue,         \* _queue: items, head first
    current,       \* _current_task_id
    index,         \* _task_index: the stamp of the item registered for a task, 0 if none
    requeueCount,  \* metadata["requeue_count"] of the registered item
    stats,         \* _stats
    placed         \* history: how often an item has been appended to _queue

vars == <<queue, current, index, requeueCount, stats, placed>>

-----------------------------------------------------------------------------

(* A QueuedItem is a task id with a creation time: two items of one task    *)
(* compare unequal, and stamp numbers the items in the order of creation.   *)
Item == [task : TaskId, stamp : Nat]

Counter == {"enqueued", "dequeued", "completed", "failed", "cancelled", "timeout"}

Count(c) == stats' = [stats EXCEPT ![c] = @ + 1]

Registered(t) == index[t] # 0

RegisteredItem(t) == [task |-> t, stamp |-> index[t]]

(* self._task_index.pop(t): the item is no longer reachable by its task id. *)
Unregister(t) ==
    /\ index' = [index EXCEPT ![t] = 0]
    /\ requeueCount' = [requeueCount EXCEPT ![t] = 0]

(* if self._current_task_id == task_id: self._current_task_id = None *)
Release(t) == current' = IF current = t THEN NoTask ELSE current

-----------------------------------------------------------------------------

Init ==
    /\ queue = <<>>
    /\ current = NoTask
    /\ index = [t \in TaskId |-> 0]
    /\ requeueCount = [t \in TaskId |-> 0]
    /\ stats = [c \in Counter |-> 0]
    /\ placed = 0

-----------------------------------------------------------------------------
(* Plausible bugs, each of which one of the properties below must catch.    *)

CompleteKeepsSlot(success) ==       \* _current_task_id is not reset
    /\ current # NoTask
    /\ Count(IF success THEN "completed" ELSE "failed")
    /\ Unregister(current)
    /\ UNCHANGED <<queue, current, placed>>

CancelRemovesEveryCopy(t) ==        \* filters the deque instead of remove(item)
    /\ Registered(t)
    /\ Unregister(t)
    /\ Release(t)
    /\ queue' = SX!Remove(queue, RegisteredItem(t))
    /\ Count("cancelled")
    /\ UNCHANGED placed

CancelLeavesEntry(t) ==             \* forgets _queue.remove(item)
    /\ Registered(t)
    /\ Unregister(t)
    /\ Release(t)
    /\ Count("cancelled")
    /\ UNCHANGED <<queue, placed>>

RequeueUnbounded(t) ==              \* no check of max_size
    /\ Registered(t)
    /\ requeueCount' = [requeueCount EXCEPT ![t] = @ + 1]
    /\ Release(t)
    /\ queue' = Append(queue, RegisteredItem(t))
    /\ placed' = placed + 1
    /\ UNCHANGED <<index, stats>>

RequeueUncounted(t) ==              \* requeue_count is not incremented
    /\ Registered(t)
    /\ Len(queue) < MaxSize
    /\ Release(t)
    /\ queue' = Append(queue, RegisteredItem(t))
    /\ placed' = placed + 1
    /\ UNCHANGED <<index, requeueCount, stats>>

-----------------------------------------------------------------------------

(* enqueue: refuses only a full queue; a task that is queued, registered or *)
(* being processed already is accepted again, under a new item.             *)
Enqueue(t) ==
    LET stamp == stats["enqueued"] + 1 IN
    /\ Len(queue) < MaxSize
    /\ queue' = Append(queue, [task |-> t, stamp |-> stamp])
    /\ index' = [index EXCEPT ![t] = stamp]
    /\ requeueCount' = [requeueCount EXCEPT ![t] = 0]
    /\ Count("enqueued")
    /\ placed' = placed + 1
    /\ UNCHANGED current

(* dequeue: the head becomes current, registered or not. *)
Dequeue ==
    /\ queue # <<>>
    /\ current = NoTask
    /\ queue' = Tail(queue)
    /\ current' = Head(queue).task
    /\ Count("dequeued")
    /\ UNCHANGED <<index, requeueCount, placed>>

(* complete_current: whichever task is current is completed and unregistered. *)
CompleteCurrent(success) ==
    /\ current # NoTask
    /\ current' = NoTask
    /\ Count(IF success THEN "completed" ELSE "failed")
    /\ Unregister(current)
    /\ UNCHANGED <<queue, placed>>

(* cancel_task: the first occurrence of the registered item leaves the queue. *)
CancelTask(t) ==
    /\ Registered(t)
    /\ Unregister(t)
    /\ Release(t)
    /\ queue' = SX!RemoveFirst(queue, RegisteredItem(t))
    /\ Count("cancelled")
    /\ UNCHANGED placed

(* requeue_task: the registered item goes to the tail; an occurrence of it  *)
(* that is still queued stays where it is.                                  *)
RequeueTask(t) ==
    /\ Registered(t)
    /\ Len(queue) < MaxSize
    /\ requeueCount' = [requeueCount EXCEPT ![t] = @ + 1]
    /\ Release(t)
    /\ queue' = Append(queue, RegisteredItem(t))
    /\ placed' = placed + 1
    /\ UNCHANGED <<index, stats>>

(* timeout_task: the task is unregistered; what is queued of it stays queued. *)
TimeoutTask(t) ==
    /\ Registered(t)
    /\ Release(t)
    /\ Unregister(t)
    /\ Count("timeout")
    /\ UNCHANGED <<queue, placed>>

Next ==
    \/ Dequeue
    \/ \E success \in BOOLEAN : CompleteCurrent(success)
    \/ \E t \in TaskId :
         \/ Enqueue(t)
         \/ CancelTask(t)
         \/ RequeueTask(t)
         \/ TimeoutTask(t)

Spec == Init /\ [][Next]_vars

-----------------------------------------------------------------------------
(* The operations as a caller sees them: done, or refused without effect.   *)

TryEnqueue(t, accepted) ==
    \/ accepted /\ Enqueue(t)
    \/ ~accepted /\ Len(queue) >= MaxSize /\ UNCHANGED vars

TryDequeue ==
    \/ Dequeue
    \/ (queue = <<>> \/ current # NoTask) /\ UNCHANGED vars

TryCompleteCurrent(success) ==
    \/ CompleteCurrent(success)
    \/ current = NoTask /\ UNCHANGED vars

TryRequeueTask(t) ==
    \/ RequeueTask(t)
    \/ (~Registered(t) \/ Len(queue) >= MaxSize) /\ UNCHANGED vars

TryTimeoutTask(t) ==
    \/ TimeoutTask(t)
    \/ ~Registered(t) /\ UNCHANGED vars

-----------------------------------------------------------------------------

TypeOK ==
    /\ queue \in Seq(Item)
    /\ current \in TaskId \cup {NoTask}
    /\ index \in [TaskId -> Nat]
    /\ requeueCount \in [TaskId -> Nat]
    /\ stats \in [Counter -> Nat]
    /\ placed \in Nat

(* The deque never outgrows max_size, though two methods append to it and   *)
(* each makes its own check.                                                *)
CapacityHolds == Len(queue) <= MaxSize

(* No entry is lost or invented: whatever was ever appended is still        *)
(* queued, was handed out by dequeue, or was removed by a cancellation, and *)
(* a cancellation removes at most one entry.                                *)
EntriesConserved ==
    /\ Len(queue) + stats["dequeued"] <= placed
    /\ placed <= Len(queue) + stats["dequeued"] + stats["cancelled"]

(* Both: whatever is refused or removed, the deque stays within its bound   *)
(* and accounts for each of its entries (queue_manager.py:55-157).          *)
EntriesAccounted == CapacityHolds /\ EntriesConserved

Busy == IF current = NoTask THEN 0 ELSE 1

(* The slot is accounted for: a task is completed or failed only after it   *)
(* was dequeued, each at most once per dequeue, and a dequeue without such  *)
(* an end was given up by a cancellation, a timeout or a requeue.           *)
SlotAccounted ==
    LET ended == stats["completed"] + stats["failed"] + Busy IN
    /\ ended <= stats["dequeued"]
    /\ stats["dequeued"] + stats["enqueued"]
          <= ended + stats["cancelled"] + stats["timeout"] + placed

(* Stamps are handed out in order, and the registered item of a task is the *)
(* newest of its items in the queue: cancelling by id reaches the newest.   *)
NewestRegistered ==
    /\ \A t \in TaskId : index[t] <= stats["enqueued"]
    /\ \A i \in DOMAIN queue :
         /\ queue[i].stamp \in 1..stats["enqueued"]
         /\ Registered(queue[i].task) => queue[i].stamp <= index[queue[i].task]

(* First come, first served, for a registered item that was never requeued: *)
(* everything ahead of it was registered before it. In particular such an   *)
(* item is queued at most once.                                             *)
FifoUnlessRequeued ==
    \A i, j \in DOMAIN queue :
        LET t == queue[j].task IN
        (i < j /\ index[t] = queue[j].stamp /\ requeueCount[t] = 0)
            => queue[i].stamp < queue[j].stamp

(* No call replaces the task being processed by another one: the slot is    *)
(* emptied first, in a call of its own.                                     *)
NoPreemption == [][current # NoTask => current' \in {current, NoTask}]_vars

(* A task cancelled before it was ever requeued leaves nothing of that      *)
(* registration in the queue.                                               *)
CancelIsFinal ==
    [][\A t \in TaskId :
          (/\ stats'["cancelled"] > stats["cancelled"]
           /\ Registered(t) /\ ~Registered(t)'
           /\ requeueCount[t] = 0)
              => \A i \in DOMAIN queue' : queue'[i] # RegisteredItem(t)]_vars

=============================================================================
