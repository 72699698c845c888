------------------------- MODULE QueueManagerProofs -------------------------
(***************************************************************************)
(* Proofs about the gateway's queue, for every set of task ids and every   *)
(* max_size. The argument: the typing of the state is inductive on its     *)
(* own; capacity, conservation of entries and the account of the slot are  *)
(* each inductive given the typing; the order of service needs that the    *)
(* registered item of a task is its newest one (Ordered).                  *)
(***************************************************************************)
EXTENDS QueueManager, SequenceFacts, TLAPS, SequenceTheorems

-----------------------------------------------------------------------------

(* Every queue operation preserves the shape of the state. *)
LEMMA TypeStep == TypeOK /\ [Next]_vars => TypeOK'
<1> SUFFICES ASSUME TypeOK, [Next]_vars PROVE TypeOK'
  OBVIOUS
<1> USE DEF TypeOK
<1>1. CASE Dequeue
  <2>1. Head(queue) \in Item /\ Tail(queue) \in Seq(Item)
    BY <1>1, HeadTailProperties DEF Dequeue
  <2>2. Head(queue).task \in TaskId
    BY <2>1 DEF Item
  <2>3. stats' \in [Counter -> Nat]
    BY <1>1 DEF Dequeue, Count, Counter
  <2>4. QED
    BY <1>1, <2>1, <2>2, <2>3 DEF Dequeue
<1>2. ASSUME NEW success \in BOOLEAN, CompleteCurrent(success) PROVE TypeOK'
  BY <1>2 DEF CompleteCurrent, Unregister, Counter, Count
<1>3. ASSUME NEW t \in TaskId, Enqueue(t) PROVE TypeOK'
  <2>1. stats["enqueued"] \in Nat
    BY DEF Counter
  <2>2. [task |-> t, stamp |-> stats["enqueued"] + 1] \in Item
    BY <2>1 DEF Item
  <2>3. QED
    BY <1>3, <2>1, <2>2 DEF Enqueue, Counter, Count
<1>4. ASSUME NEW t \in TaskId, CancelTask(t) PROVE TypeOK'
  <2>1. queue' \in Seq(Item)
    BY <1>4, RemoveFirstProperties DEF CancelTask
  <2>2. QED
    BY <1>4, <2>1 DEF CancelTask, Unregister, Release, Counter, Count
<1>5. ASSUME NEW t \in TaskId, RequeueTask(t) PROVE TypeOK'
  <2>1. RegisteredItem(t) \in Item
    BY DEF RegisteredItem, Item
  <2>2. QED
    BY <1>5, <2>1 DEF RequeueTask, Release
<1>6. ASSUME NEW t \in TaskId, TimeoutTask(t) PROVE TypeOK'
  BY <1>6 DEF TimeoutTask, Unregister, Release, Counter, Count
<1>7. CASE UNCHANGED vars
  BY <1>7 DEF vars
<1>8. QED
  BY <1>1, <1>2, <1>3, <1>4, <1>5, <1>6, <1>7 DEF Next

(* The deque holds items, the index and the slot hold task ids, in every    *)
(* reachable state.                                                         *)
THEOREM TypeCorrect == Spec => []TypeOK
<1>1. Init => TypeOK
  BY QueueAssumption DEF Init, TypeOK, Item, Counter
<1>2. QED
  BY <1>1, TypeStep, PTL DEF Spec

-----------------------------------------------------------------------------

(* What every step but Enqueue and RequeueTask does to the deque and to the *)
(* index: entries leave, the order of the others stays, and a registration  *)
(* is kept as it was or dropped.                                            *)
OnlyRemoves ==
    /\ \A i \in DOMAIN queue' : \E a \in DOMAIN queue : queue'[i] = queue[a]
    /\ \A i, j \in DOMAIN queue' : i < j =>
          \E a, b \in DOMAIN queue :
              a < b /\ queue'[i] = queue[a] /\ queue'[j] = queue[b]
    /\ \A t \in TaskId :
          \/ index'[t] = 0
          \/ index'[t] = index[t] /\ requeueCount'[t] = requeueCount[t]
    /\ stats'["enqueued"] = stats["enqueued"]

(* popleft shifts every remaining entry by one. *)
LEMMA DequeueRemoves == TypeOK /\ Dequeue => OnlyRemoves
<1> SUFFICES ASSUME TypeOK, Dequeue PROVE OnlyRemoves
  OBVIOUS
<1>1. /\ queue' \in Seq(Item)
      /\ Len(queue') = Len(queue) - 1
      /\ \A i \in 1..Len(queue') : queue'[i] = queue[i + 1]
  BY HeadTailProperties DEF Dequeue, TypeOK
<1>2. /\ \A i \in DOMAIN queue' : i + 1 \in DOMAIN queue /\ queue'[i] = queue[i + 1]
      /\ \A i, j \in DOMAIN queue' : i < j => i + 1 < j + 1
  BY <1>1 DEF TypeOK
<1>3. QED
  BY <1>2 DEF OnlyRemoves, Dequeue, Count, TypeOK, Counter

(* cancel_task takes out at most one entry. *)
LEMMA CancelRemoves ==
    ASSUME TypeOK, NEW t \in TaskId, CancelTask(t)
    PROVE  /\ OnlyRemoves
           /\ queue' \in Seq(Item)
           /\ Len(queue') \in {Len(queue), Len(queue) - 1}
<1> DEFINE e == RegisteredItem(t)
<1>1. queue' = SX!RemoveFirst(queue, e)
  BY DEF CancelTask
<1>2. /\ stats'["enqueued"] = stats["enqueued"]
      /\ \A u \in TaskId : \/ index'[u] = 0
                           \/ /\ index'[u] = index[u]
                              /\ requeueCount'[u] = requeueCount[u]
  BY DEF CancelTask, Count, Unregister, TypeOK, Counter
<1>3. CASE queue' = queue
  BY <1>2, <1>3 DEF OnlyRemoves, TypeOK
<1>4. CASE queue' # queue
  <2>1. /\ queue' \in Seq(Item)
        /\ Len(queue') = Len(queue) - 1
    BY <1>1, <1>4, RemoveFirstProperties DEF TypeOK
  <2>2. PICK k \in 1..Len(queue) :
            \A i \in 1..Len(queue') :
                queue'[i] = IF i < k THEN queue[i] ELSE queue[i + 1]
    BY <1>1, <1>4, RemoveFirstProperties DEF TypeOK
  <2> DEFINE old(i) == IF i < k THEN i ELSE i + 1
  <2>3. /\ \A i \in DOMAIN queue' : old(i) \in DOMAIN queue /\ queue'[i] = queue[old(i)]
        /\ \A i, j \in DOMAIN queue' : i < j => old(i) < old(j)
    <3>1. Len(queue) \in Nat /\ DOMAIN queue = 1..Len(queue)
      BY DEF TypeOK
    <3>2. DOMAIN queue' = 1..Len(queue) - 1
      BY <2>1, <3>1
    <3>3. ASSUME NEW i \in 1..Len(queue) - 1
          PROVE  old(i) \in 1..Len(queue) /\ queue'[i] = queue[old(i)]
      BY <2>1, <2>2, <3>1
    <3>4. QED
      BY <3>1, <3>2, <3>3
  <2> HIDE DEF old
  <2>4. QED
    BY <2>1, <2>3, <1>2 DEF OnlyRemoves
<1>5. QED
  BY <1>3, <1>4

(* complete_current and timeout_task do not touch the deque. *)
LEMMA OthersRemove ==
    ASSUME TypeOK,
           \/ \E success \in BOOLEAN : CompleteCurrent(success)
           \/ \E t \in TaskId : TimeoutTask(t)
           \/ UNCHANGED vars
    PROVE  OnlyRemoves
<1>1. queue' = queue
  BY DEF CompleteCurrent, TimeoutTask, vars
<1>2. /\ stats'["enqueued"] = stats["enqueued"]
      /\ \A u \in TaskId : \/ index'[u] = 0
                           \/ /\ index'[u] = index[u]
                              /\ requeueCount'[u] = requeueCount[u]
  BY DEF CompleteCurrent, TimeoutTask, vars, Count, Unregister, TypeOK, Counter
<1>3. QED
  BY <1>1, <1>2 DEF OnlyRemoves, TypeOK

(* append puts the new entry last and leaves the others where they are. *)
LEMMA AppendLast ==
    ASSUME NEW q \in Seq(Item), NEW e \in Item
    PROVE  /\ Len(Append(q, e)) = Len(q) + 1
           /\ DOMAIN Append(q, e) = 1..Len(q) + 1
           /\ DOMAIN q = 1..Len(q)
           /\ \A i \in DOMAIN q : Append(q, e)[i] = q[i]
           /\ Append(q, e)[Len(q) + 1] = e
  BY AppendProperties

-----------------------------------------------------------------------------

(* enqueue and requeue_task both check max_size before they append. *)
LEMMA CapacityStep == TypeOK /\ CapacityHolds /\ [Next]_vars => CapacityHolds'
<1> SUFFICES ASSUME TypeOK, CapacityHolds, [Next]_vars PROVE CapacityHolds'
  OBVIOUS
<1> USE QueueAssumption DEF CapacityHolds, TypeOK
<1>1. CASE Dequeue
  BY <1>1, HeadTailProperties DEF Dequeue
<1>2. ASSUME NEW t \in TaskId, Enqueue(t) PROVE CapacityHolds'
  BY <1>2, AppendProperties DEF Enqueue
<1>3. ASSUME NEW t \in TaskId, RequeueTask(t) PROVE CapacityHolds'
  BY <1>3, AppendProperties DEF RequeueTask
<1>4. ASSUME NEW t \in TaskId, CancelTask(t) PROVE CapacityHolds'
  BY <1>4, CancelRemoves
<1>5. CASE queue' = queue
  BY <1>5
<1>6. QED
  BY <1>1, <1>2, <1>3, <1>4, <1>5 DEF Next, CompleteCurrent, TimeoutTask, vars

(* Every append and every removal of an entry is counted. *)
LEMMA EntriesStep == TypeOK /\ EntriesConserved /\ [Next]_vars => EntriesConserved'
<1> SUFFICES ASSUME TypeOK, EntriesConserved, [Next]_vars PROVE EntriesConserved'
  OBVIOUS
<1> USE DEF EntriesConserved
<1>0. /\ Len(queue) \in Nat /\ placed \in Nat
      /\ stats \in [Counter -> Nat]
      /\ stats["dequeued"] \in Nat /\ stats["cancelled"] \in Nat
      /\ \A c \in Counter : stats[c] \in Nat
  BY DEF TypeOK, Counter
<1>1. CASE Dequeue
  <2>1. Len(queue') = Len(queue) - 1
    BY <1>1, HeadTailProperties DEF Dequeue, TypeOK
  <2>2. QED
    BY <1>0, <1>1, <2>1 DEF Dequeue, Count, Counter
<1>2. ASSUME NEW success \in BOOLEAN, CompleteCurrent(success) PROVE EntriesConserved'
  BY <1>0, <1>2 DEF CompleteCurrent, Count, Counter
<1>3. ASSUME NEW t \in TaskId, Enqueue(t) PROVE EntriesConserved'
  <2>1. Len(queue') = Len(queue) + 1
    BY <1>3 DEF Enqueue, TypeOK
  <2>2. QED
    BY <1>0, <1>3, <2>1 DEF Enqueue, Count, Counter
<1>4. ASSUME NEW t \in TaskId, CancelTask(t) PROVE EntriesConserved'
  <2>1. Len(queue') \in {Len(queue), Len(queue) - 1}
    BY <1>4, CancelRemoves
  <2>2. QED
    BY <1>0, <1>4, <2>1, SMTT(60) DEF CancelTask, Count, Counter
<1>5. ASSUME NEW t \in TaskId, RequeueTask(t) PROVE EntriesConserved'
  <2>1. Len(queue') = Len(queue) + 1
    BY <1>5 DEF RequeueTask, TypeOK
  <2>2. QED
    BY <1>0, <1>5, <2>1 DEF RequeueTask
<1>6. ASSUME NEW t \in TaskId, TimeoutTask(t) PROVE EntriesConserved'
  BY <1>0, <1>6 DEF TimeoutTask, Count, Counter
<1>7. CASE UNCHANGED vars
  BY <1>7 DEF vars
<1>8. QED
  BY <1>1, <1>2, <1>3, <1>4, <1>5, <1>6, <1>7 DEF Next

(* The slot is filled by dequeue only, and every way it is emptied counts. *)
LEMMA SlotStep == TypeOK /\ SlotAccounted /\ [Next]_vars => SlotAccounted'
<1> SUFFICES ASSUME TypeOK, SlotAccounted, [Next]_vars PROVE SlotAccounted'
  OBVIOUS
<1> USE DEF SlotAccounted
<1>0. /\ placed \in Nat
      /\ stats \in [Counter -> Nat]
      /\ \A c \in Counter : stats[c] \in Nat
      /\ Busy \in {0, 1} /\ Busy' \in {0, 1}
      /\ current # NoTask => Busy = 1
      /\ current' = NoTask => Busy' = 0
      /\ current' = current => Busy' = Busy
  BY DEF TypeOK, Counter, Busy
<1>1. CASE Dequeue
  <2>1. Busy = 0 /\ Busy' = 1
    <3>1. Head(queue) \in Item
      BY <1>1, HeadTailProperties DEF Dequeue, TypeOK
    <3>2. QED
      BY <1>1, <3>1, QueueAssumption DEF Dequeue, Busy, Item
  <2>2. QED
    BY <1>0, <1>1, <2>1, SMTT(60) DEF Dequeue, Count, Counter
<1>2. ASSUME NEW success \in BOOLEAN, CompleteCurrent(success) PROVE SlotAccounted'
  <2>1. Busy = 1 /\ Busy' = 0
    BY <1>0, <1>2 DEF CompleteCurrent
  <2>2. CASE success
    BY <1>0, <1>2, <2>1, <2>2 DEF CompleteCurrent, Count, Counter
  <2>3. CASE ~success
    BY <1>0, <1>2, <2>1, <2>3 DEF CompleteCurrent, Count, Counter
  <2>4. QED
    BY <2>2, <2>3
<1>3. ASSUME NEW t \in TaskId, Enqueue(t) PROVE SlotAccounted'
  BY <1>0, <1>3, SMTT(60) DEF Enqueue, Count, Counter
<1>4. ASSUME NEW t \in TaskId, CancelTask(t) PROVE SlotAccounted'
  <2>1. Busy' <= Busy
    BY <1>0, <1>4 DEF CancelTask, Release
  <2>2. QED
    BY <1>0, <1>4, <2>1 DEF CancelTask, Count, Counter
<1>5. ASSUME NEW t \in TaskId, RequeueTask(t) PROVE SlotAccounted'
  <2>1. Busy' <= Busy
    BY <1>0, <1>5 DEF RequeueTask, Release
  <2>2. QED
    BY <1>0, <1>5, <2>1, SMTT(60) DEF RequeueTask, Counter
<1>6. ASSUME NEW t \in TaskId, TimeoutTask(t) PROVE SlotAccounted'
  <2>1. Busy' <= Busy
    BY <1>0, <1>6 DEF TimeoutTask, Release
  <2>2. QED
    BY <1>0, <1>6, <2>1 DEF TimeoutTask, Count, Counter
<1>7. CASE UNCHANGED vars
  BY <1>7, <1>0 DEF vars
<1>8. QED
  BY <1>1, <1>2, <1>3, <1>4, <1>5, <1>6, <1>7 DEF Next

-----------------------------------------------------------------------------

(* FifoUnlessRequeued alone is not inductive: that an item appended by      *)
(* Enqueue is newer than everything queued is what NewestRegistered says.   *)
Ordered == NewestRegistered /\ FifoUnlessRequeued

(* What TypeOK says of single entries and counters. *)
LEMMA TypeFacts ==
    TypeOK => /\ stats["enqueued"] \in Nat
              /\ \A a \in DOMAIN queue : queue[a].task \in TaskId /\ queue[a].stamp \in Nat
              /\ \A u \in TaskId : index[u] \in Nat /\ requeueCount[u] \in Nat
              /\ DOMAIN queue = 1..Len(queue) /\ Len(queue) \in Nat
<1> SUFFICES ASSUME TypeOK, NEW a \in DOMAIN queue
             PROVE  queue[a].task \in TaskId /\ queue[a].stamp \in Nat
  BY DEF TypeOK, Counter
<1>1. queue[a] \in Item
  BY DEF TypeOK
<1>2. QED
  BY <1>1 DEF Item

(* Removing entries or registrations cannot break the order of service. *)
LEMMA RemovalsKeepOrder == TypeOK /\ Ordered /\ OnlyRemoves => Ordered'
<1> SUFFICES ASSUME TypeOK, Ordered, OnlyRemoves PROVE Ordered'
  OBVIOUS
<1> USE DEF Ordered, NewestRegistered, FifoUnlessRequeued, OnlyRemoves, Registered
<1>0. /\ stats["enqueued"] \in Nat
      /\ \A a \in DOMAIN queue : queue[a].task \in TaskId /\ queue[a].stamp \in Nat
      /\ \A t \in TaskId : index[t] \in Nat
  BY TypeFacts
<1>1. \A t \in TaskId : index'[t] <= stats'["enqueued"]
  BY <1>0
<1>2. ASSUME NEW i \in DOMAIN queue'
      PROVE  /\ queue'[i].stamp \in 1..stats'["enqueued"]
             /\ index'[queue'[i].task] # 0 => queue'[i].stamp <= index'[queue'[i].task]
  <2>1. PICK a \in DOMAIN queue : queue'[i] = queue[a]
    OBVIOUS
  <2>2. QED
    BY <1>0, <2>1
<1>3. ASSUME NEW i \in DOMAIN queue', NEW j \in DOMAIN queue', i < j,
             index'[queue'[j].task] = queue'[j].stamp,
             requeueCount'[queue'[j].task] = 0
      PROVE  queue'[i].stamp < queue'[j].stamp
  <2>1. PICK a \in DOMAIN queue, b \in DOMAIN queue :
            a < b /\ queue'[i] = queue[a] /\ queue'[j] = queue[b]
    BY <1>3
  <2>2. queue[b].stamp >= 1
    BY <1>0
  <2>3. QED
    BY <1>0, <1>3, <2>1, <2>2
<1>4. QED
  BY <1>1, <1>2, <1>3

(* enqueue appends the newest item of all and registers it. *)
LEMMA EnqueueKeepsOrder ==
    ASSUME TypeOK, Ordered, NEW t \in TaskId, Enqueue(t)
    PROVE  Ordered'
<1> USE DEF Ordered, NewestRegistered, FifoUnlessRequeued, Registered
<1> DEFINE n == stats["enqueued"] + 1
           e == [task |-> t, stamp |-> n]
<1>0. /\ n \in Nat /\ n = stats["enqueued"] + 1 /\ stats["enqueued"] \in Nat
      /\ \A a \in DOMAIN queue : queue[a].task \in TaskId /\ queue[a].stamp \in Nat
      /\ \A u \in TaskId : index[u] \in Nat
      /\ DOMAIN queue = 1..Len(queue) /\ Len(queue) \in Nat
  BY TypeFacts
<1>1. /\ DOMAIN queue' = 1..Len(queue) + 1
      /\ \A i \in DOMAIN queue : queue'[i] = queue[i]
      /\ queue'[Len(queue) + 1] = e
  <2>1. queue \in Seq(Item) /\ e \in Item
    BY <1>0 DEF TypeOK, Item
  <2>2. queue' = Append(queue, e)
    BY DEF Enqueue
  <2>3. QED
    BY <2>1, <2>2, AppendLast
<1>2. /\ stats'["enqueued"] = n
      /\ \A u \in TaskId : index'[u] = IF u = t THEN n ELSE index[u]
      /\ \A u \in TaskId : u # t => requeueCount'[u] = requeueCount[u]
  BY DEF Enqueue, Count, TypeOK, Counter
<1>3. e.task = t /\ e.stamp = n
  OBVIOUS
<1> HIDE DEF n, e
<1>4. \A u \in TaskId : index'[u] <= n
  BY <1>0, <1>2
<1>5. ASSUME NEW i \in DOMAIN queue'
      PROVE  /\ queue'[i].stamp \in 1..n
             /\ index'[queue'[i].task] # 0 => queue'[i].stamp <= index'[queue'[i].task]
  <2>1. CASE i = Len(queue) + 1
    BY <2>1, <1>0, <1>1, <1>2, <1>3
  <2>2. CASE i \in DOMAIN queue
    BY <2>2, <1>0, <1>1, <1>2
  <2>3. QED
    BY <2>1, <2>2, <1>0, <1>1
<1>6. ASSUME NEW i \in DOMAIN queue', NEW j \in DOMAIN queue', i < j,
             index'[queue'[j].task] = queue'[j].stamp,
             requeueCount'[queue'[j].task] = 0
      PROVE  queue'[i].stamp < queue'[j].stamp
  <2>0. i \in DOMAIN queue /\ queue'[i].stamp <= stats["enqueued"]
    BY <1>0, <1>1, <1>6
  <2>1. CASE j = Len(queue) + 1
    BY <2>0, <2>1, <1>0, <1>1, <1>3
  <2>2. CASE j \in DOMAIN queue
    <3>1. queue[j].stamp < n
      BY <2>2, <1>0
    <3>2. queue[j].task # t
      BY <3>1, <2>2, <1>6, <1>0, <1>1, <1>2
    <3>3. QED
      BY <3>2, <2>0, <2>2, <1>6, <1>0, <1>1, <1>2, SMTT(60)
  <2>3. QED
    BY <2>1, <2>2, <1>0, <1>1
<1>7. QED
  BY <1>2, <1>4, <1>5, <1>6

(* requeue_task appends an older item, but one that counts as requeued. *)
LEMMA RequeueKeepsOrder ==
    ASSUME TypeOK, Ordered, NEW t \in TaskId, RequeueTask(t)
    PROVE  Ordered'
<1> USE DEF Ordered, NewestRegistered, FifoUnlessRequeued, Registered
<1> DEFINE e == RegisteredItem(t)
<1>0. /\ stats["enqueued"] \in Nat
      /\ \A a \in DOMAIN queue : queue[a].task \in TaskId /\ queue[a].stamp \in Nat
      /\ \A u \in TaskId : index[u] \in Nat /\ requeueCount[u] \in Nat
      /\ DOMAIN queue = 1..Len(queue) /\ Len(queue) \in Nat
  BY TypeFacts
<1>1. /\ DOMAIN queue' = 1..Len(queue) + 1
      /\ \A i \in DOMAIN queue : queue'[i] = queue[i]
      /\ queue'[Len(queue) + 1] = e
  <2>1. queue \in Seq(Item) /\ e \in Item
    BY <1>0 DEF TypeOK, Item, RegisteredItem
  <2>2. queue' = Append(queue, e)
    BY DEF RequeueTask
  <2>3. QED
    BY <2>1, <2>2, AppendLast
<1>2. /\ stats' = stats /\ index' = index
      /\ \A u \in TaskId : u # t => requeueCount'[u] = requeueCount[u]
      /\ requeueCount'[t] # 0
      /\ index[t] # 0
  BY <1>0 DEF RequeueTask, TypeOK
<1>3. e.task = t /\ e.stamp = index[t]
  BY DEF RegisteredItem
<1> HIDE DEF e
<1>4. ASSUME NEW i \in DOMAIN queue'
      PROVE  /\ queue'[i].stamp \in 1..stats["enqueued"]
             /\ index[queue'[i].task] # 0 => queue'[i].stamp <= index[queue'[i].task]
  <2>1. CASE i = Len(queue) + 1
    BY <2>1, <1>0, <1>1, <1>2, <1>3
  <2>2. CASE i \in DOMAIN queue
    BY <2>2, <1>0, <1>1, <1>2
  <2>3. QED
    BY <2>1, <2>2, <1>0, <1>1
<1>5. ASSUME NEW i \in DOMAIN queue', NEW j \in DOMAIN queue', i < j,
             index[queue'[j].task] = queue'[j].stamp,
             requeueCount'[queue'[j].task] = 0
      PROVE  queue'[i].stamp < queue'[j].stamp
  <2>1. queue'[j].task # t
    BY <1>5, <1>2
  <2>2. i \in DOMAIN queue /\ j \in DOMAIN queue
    BY <2>1, <1>5, <1>0, <1>1, <1>3
  <2>3. QED
    BY <2>1, <2>2, <1>5, <1>0, <1>1, <1>2
<1>6. QED
  BY <1>2, <1>4, <1>5

(* Every queue operation preserves the order of service. *)
LEMMA OrderStep == TypeOK /\ Ordered /\ [Next]_vars => Ordered'
<1> SUFFICES ASSUME TypeOK, Ordered, [Next]_vars PROVE Ordered'
  OBVIOUS
<1>1. CASE Dequeue
  BY <1>1, DequeueRemoves, RemovalsKeepOrder
<1>2. ASSUME NEW t \in TaskId, CancelTask(t) PROVE Ordered'
  BY <1>2, CancelRemoves, RemovalsKeepOrder
<1>3. CASE \/ \E success \in BOOLEAN : CompleteCurrent(success)
           \/ \E t \in TaskId : TimeoutTask(t)
           \/ UNCHANGED vars
  BY <1>3, OthersRemove, RemovalsKeepOrder
<1>4. QED
  BY <1>1, <1>2, <1>3, EnqueueKeepsOrder, RequeueKeepsOrder DEF Next

-----------------------------------------------------------------------------

(* The inductive invariant. *)
IInv ==
    /\ TypeOK
    /\ CapacityHolds
    /\ EntriesConserved
    /\ SlotAccounted
    /\ Ordered

(* The inductive invariant holds of an empty queue. *)
LEMMA InitOK == Init => IInv
<1>1. Init => TypeOK
  BY QueueAssumption DEF Init, TypeOK, Item, Counter
<1>2. Init => CapacityHolds /\ EntriesConserved /\ SlotAccounted /\ Ordered
  BY QueueAssumption DEF Init, CapacityHolds, EntriesConserved, SlotAccounted,
      Busy, Ordered, NewestRegistered, FifoUnlessRequeued, Counter
<1>3. QED
  BY <1>1, <1>2 DEF IInv

(* Every method keeps it, called or refused. *)
LEMMA StepOK == IInv /\ [Next]_vars => IInv'
  BY TypeStep, CapacityStep, EntriesStep, SlotStep, OrderStep DEF IInv

(* The inductive invariant holds of every reachable state of the queue. *)
THEOREM Invariance == Spec => []IInv
  BY InitOK, StepOK, PTL DEF Spec

(* The deque never holds more than max_size entries, and entries are        *)
(* neither lost nor invented.                                               *)
THEOREM AccountingCorrect == Spec => []EntriesAccounted
<1>1. IInv => EntriesAccounted
  BY DEF IInv, EntriesAccounted
<1>2. QED
  BY <1>1, Invariance, PTL

(* Every end of a task has its dequeue, and every dequeue without one was   *)
(* given up by a cancellation, a timeout or a requeue.                      *)
THEOREM SlotCorrect == Spec => []SlotAccounted
<1>1. IInv => SlotAccounted
  BY DEF IInv
<1>2. QED
  BY <1>1, Invariance, PTL

(* The registered item of a task is its newest, and whatever was not        *)
(* requeued is served in the order of registration.                         *)
THEOREM FifoCorrect == Spec => [](NewestRegistered /\ FifoUnlessRequeued)
<1>1. IInv => NewestRegistered /\ FifoUnlessRequeued
  BY DEF IInv, Ordered
<1>2. QED
  BY <1>1, Invariance, PTL

(* No call replaces the task being processed by another one.                *)
THEOREM NoPreemptionCorrect == Spec => NoPreemption
<1>1. [Next]_vars => [current # NoTask => current' \in {current, NoTask}]_vars
  BY DEF Next, Dequeue, CompleteCurrent, Enqueue, CancelTask, RequeueTask,
      TimeoutTask, Release, vars
<1>2. QED
  BY <1>1, PTL DEF Spec, NoPreemption

(* A task cancelled before it was ever requeued leaves nothing of that      *)
(* registration in the deque: by FifoUnlessRequeued its item is queued at   *)
(* most once, and RemoveFirst takes out that occurrence.                    *)
THEOREM CancelIsFinalCorrect == Spec => CancelIsFinal
<1> DEFINE Cancelled(t) == /\ stats'["cancelled"] > stats["cancelled"]
                           /\ Registered(t) /\ ~Registered(t)'
                           /\ requeueCount[t] = 0
           Gone(t) == \A i \in DOMAIN queue' : queue'[i] # RegisteredItem(t)
<1>1. ASSUME IInv, Next, NEW t \in TaskId, Cancelled(t)
      PROVE  Gone(t)
  <2>0. /\ TypeOK
        /\ FifoUnlessRequeued
        /\ \A c \in Counter : stats[c] \in Nat
        /\ DOMAIN queue = 1..Len(queue) /\ Len(queue) \in Nat
    BY <1>1 DEF IInv, Ordered, TypeOK
  <2>1. CancelTask(t)
    <3>0. ASSUME \/ Dequeue
                 \/ \E success \in BOOLEAN : CompleteCurrent(success)
                 \/ \E u \in TaskId : Enqueue(u) \/ RequeueTask(u) \/ TimeoutTask(u)
          PROVE  stats'["cancelled"] = stats["cancelled"]
      BY <3>0, <2>0 DEF Dequeue, CompleteCurrent, Enqueue, RequeueTask,
          TimeoutTask, Count, Counter, TypeOK
    <3>1. PICK u \in TaskId : CancelTask(u)
      BY <1>1, <2>0, <3>0 DEF Next, Counter
    <3>2. index' = [index EXCEPT ![u] = 0]
      BY <3>1 DEF CancelTask, Unregister
    <3>3. u = t
      BY <1>1, <2>0, <3>2 DEF Registered, TypeOK
    <3>4. QED
      BY <3>1, <3>3
  <2> DEFINE e == RegisteredItem(t)
  <2>2. queue' = SX!RemoveFirst(queue, e)
    BY <2>1 DEF CancelTask
  <2>3. e.task = t /\ e.stamp = index[t] /\ index[t] \in Nat
    BY <2>0 DEF RegisteredItem, TypeOK
  <2> HIDE DEF e
  <2>4. \A i, j \in DOMAIN queue : queue[i] = e /\ queue[j] = e => i = j
    <3>1. ASSUME NEW i \in DOMAIN queue, NEW j \in DOMAIN queue, i < j,
                 queue[i] = e, queue[j] = e
          PROVE  FALSE
      BY <1>1, <2>0, <2>3, <3>1 DEF FifoUnlessRequeued
    <3>2. QED
      BY <2>0, <3>1
  <2>5. CASE /\ queue' = queue
             /\ \A i \in 1..Len(queue) : queue[i] # e
    BY <2>0, <2>5 DEF e
  <2>6. CASE /\ queue' \in Seq(Item)
             /\ Len(queue') = Len(queue) - 1
             /\ \E k \in 1..Len(queue) :
                  /\ queue[k] = e
                  /\ \A i \in 1..Len(queue') :
                        queue'[i] = IF i < k THEN queue[i] ELSE queue[i + 1]
    <3>1. PICK k \in 1..Len(queue) :
            /\ queue[k] = e
            /\ \A i \in 1..Len(queue') :
                  queue'[i] = IF i < k THEN queue[i] ELSE queue[i + 1]
      BY <2>6
    <3>2. ASSUME NEW i \in DOMAIN queue' PROVE queue'[i] # e
      <4>1. i \in 1..Len(queue') /\ i \in DOMAIN queue /\ i + 1 \in DOMAIN queue
        BY <2>0, <2>6
      <4>2. CASE i < k
        BY <4>1, <4>2, <2>0, <2>4, <3>1
      <4>3. CASE ~(i < k)
        BY <4>1, <4>3, <2>0, <2>4, <3>1
      <4>4. QED
        BY <4>2, <4>3
    <3>3. QED
      BY <3>2 DEF e
  <2>7. queue \in Seq(Item)
    BY <2>0 DEF TypeOK
  <2>8. QED
    BY <2>2, <2>5, <2>6, <2>7, RemoveFirstProperties
<1>2. IInv /\ [Next]_vars => [\A t \in TaskId : Cancelled(t) => Gone(t)]_vars
  BY <1>1
<1>3. QED
  BY <1>2, Invariance, PTL DEF Spec, CancelIsFinal
=============================================================================
