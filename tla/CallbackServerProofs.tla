----------------------- MODULE CallbackServerProofs -----------------------
(***************************************************************************)
(* Proofs about the single-process pipeline, for every set of tasks, every *)
(* priority and every bound. The argument: the queue is ordered because    *)
(* only a task without an arrival number is inserted in its middle; waits  *)
(* and their entries start and end together; the slot is freed because     *)
(* complete_task finds a task in the index unless clear_completed dropped  *)
(* it, which happens only to a task that has ended before (and a task that *)
(* has ended is queued or current only if it was requeued). That decisions *)
(* are delivered as DecisionDelivery promises follows from the waits.      *)
(***************************************************************************)
EXTENDS CallbackServer, SequenceFacts, TLAPS, SequenceTheorems

(* Insertion keeps what is before the new task, each of at least its rank,  *)
(* and shifts the rest, the first of which has a lower rank.                *)
LEMMA PlacedProperties ==
    ASSUME queue \in Seq(Task), NEW t \in Task
    PROVE  /\ Placed(t) \in Seq(Task)
           /\ Len(Placed(t)) = Len(queue) + 1
           /\ \E k \in 1..Len(queue) + 1 :
                /\ \A i \in 1..Len(queue) + 1 :
                      Placed(t)[i] = IF i < k THEN queue[i] ELSE IF i = k THEN t ELSE queue[i - 1]
                /\ \A i \in 1..k - 1 : ~(Rank(t) > Rank(queue[i]))
                /\ k <= Len(queue) => Rank(t) > Rank(queue[k])
<1> DEFINE lower == {i \in DOMAIN queue : Rank(t) > Rank(queue[i])}
<1>1. DOMAIN queue = 1..Len(queue) /\ Len(queue) \in Nat
  OBVIOUS
<1>2. Placed(t) = IF lower # {} THEN SX!InsertAt(queue, SX!Min(lower), t) ELSE Append(queue, t)
  BY DEF Placed, PlacedBefore
<1>3. CASE lower # {}
  <2> DEFINE k == SX!Min(lower)
  <2>0. lower \subseteq Nat
    BY <1>1
  <2> HIDE DEF lower
  <2>1. k \in lower /\ \A i \in lower : k <= i
    BY <2>0, <1>3, SmallestOf
  <2>2. k \in 1..Len(queue) /\ Rank(t) > Rank(queue[k])
    BY <2>1, <1>1 DEF lower
  <2> HIDE DEF k
  <2> DEFINE r == SX!InsertAt(queue, k, t)
  <2>3. /\ r \in Seq(Task)
        /\ Len(r) = Len(queue) + 1
        /\ \A i \in 1..Len(r) :
              r[i] = IF i < k THEN queue[i] ELSE IF i = k THEN t ELSE queue[i - 1]
    BY <2>2, InsertOne
  <2> HIDE DEF r
  <2>4. \A i \in 1..k - 1 : ~(Rank(t) > Rank(queue[i]))
    BY <2>1, <2>2, <1>1 DEF lower
  <2>5. Placed(t) = r
    BY <1>2, <1>3 DEF r, k
  <2>6. k \in 1..Len(queue) + 1
    BY <2>2, <1>1
  <2>7. QED
    BY <2>2, <2>3, <2>4, <2>5, <2>6
<1>4. CASE lower = {}
  <2> DEFINE k == Len(queue) + 1
  <2>1. \A i \in 1..k : Append(queue, t)[i] = IF i < k THEN queue[i] ELSE t
    BY <1>1
  <2>2. \A i \in 1..k - 1 : ~(Rank(t) > Rank(queue[i]))
    BY <1>1, <1>4
  <2>3. QED
    BY <2>1, <2>2, <1>1, <1>2, <1>4
<1>5. QED
  BY <1>3, <1>4

-----------------------------------------------------------------------------

(* The queue's methods keep the types. *)
LEMMA ClearTypes == QueueTypeOK /\ (ClearCompleted \/ UNCHANGED queueVars) => QueueTypeOK'
<1>1. <<>> \in Seq(Task)
  OBVIOUS
<1>2. QED
  BY <1>1 DEF ClearCompleted, queueVars, QueueTypeOK

LEMMA MethodTypes ==
    ASSUME QueueTypeOK, NEW t \in Task
    PROVE  /\ Enqueue(t) => QueueTypeOK'
           /\ Dequeue(t) => QueueTypeOK'
           /\ \A success \in BOOLEAN : CompleteTask(t, success) => QueueTypeOK'
           /\ CancelTask(t) => QueueTypeOK'
           /\ TimeoutTask(t) => QueueTypeOK'
           /\ RequeueTask(t) => QueueTypeOK'
<1>1. UNCHANGED queueVars => QueueTypeOK'
  BY ClearTypes
<1>2. queue \in Seq(Task) /\ completed \in Seq(Task)
  BY DEF QueueTypeOK
<1> DEFINE ended == Append(completed, t)
<1>3. ended \in Seq(Task) /\ ended # <<>> /\ Append(queue, t) \in Seq(Task)
  BY <1>2, AppendProperties
<1>4. Tail(ended) \in Seq(Task)
  <2> HIDE DEF ended
  <2> QED
    BY <1>3, HeadTailProperties
<1>5. Enqueue(t) => QueueTypeOK'
  <2>1. Placed(t) \in Seq(Task)
    BY <1>2, PlacedProperties
  <2>2. QED
    BY <2>1 DEF Enqueue, QueueTypeOK, Status
<1>6. Dequeue(t) => QueueTypeOK'
  <2>1. queue # <<>> => Tail(queue) \in Seq(Task)
    BY <1>2, HeadTailProperties
  <2>2. QED
    BY <2>1 DEF Dequeue, QueueTypeOK, Status
<1>7. ASSUME NEW success \in BOOLEAN, CompleteTask(t, success) PROVE QueueTypeOK'
  BY <1>1, <1>3, <1>4, <1>7 DEF CompleteTask, Release, QueueTypeOK, Status
<1>8. CancelTask(t) => QueueTypeOK'
  <2>1. SX!RemoveFirst(queue, t) \in Seq(Task)
    BY <1>2, RemoveFirstProperties
  <2>2. QED
    BY <2>1, <1>1, <1>3 DEF CancelTask, QueueTypeOK, Status
<1>9. TimeoutTask(t) => QueueTypeOK'
  BY <1>1, <1>3 DEF TimeoutTask, Release, QueueTypeOK, Status
<1>10. RequeueTask(t) => QueueTypeOK'
  <2>1. SUFFICES ASSUME RequeueTask(t), t \in index, Len(queue) < MaxSize
                 PROVE  QueueTypeOK'
    BY <1>1 DEF RequeueTask
  <2>2. requeued' = [requeued EXCEPT ![t] = requeued[t] + 1] /\ requeued' \in [Task -> Nat]
    BY <2>1 DEF RequeueTask, QueueTypeOK
  <2>3. queue' \in Seq(Task) /\ status' \in [Task -> Status] /\ current' \in Task \cup {None}
    BY <2>1, <1>3 DEF RequeueTask, Release, QueueTypeOK, Status
  <2>4. QED
    BY <2>1, <2>2, <2>3 DEF RequeueTask, QueueTypeOK
<1>11. QED
  BY <1>5, <1>6, <1>7, <1>8, <1>9, <1>10

(* The processing loop works on a task, except between two tasks. *)
Working == IF phase = "idle" THEN working = None ELSE working \in Task

(* Every step of the pipeline preserves the types. *)
LEMMA TypeStep == TypeOK /\ Working /\ [Next]_vars => TypeOK' /\ Working'
<1> SUFFICES ASSUME TypeOK, Working, [Next]_vars PROVE TypeOK' /\ Working'
  OBVIOUS
<1> USE DEF TypeOK, Working
<1>1. QueueTypeOK /\ (ClearCompleted \/ UNCHANGED queueVars => QueueTypeOK')
  BY ClearTypes
<1>2. ASSUME NEW t \in Task, AddTask(t) PROVE TypeOK' /\ Working'
  BY <1>1, <1>2, MethodTypes DEF AddTask, loopVars, serverVars
<1>3. CASE StartTask
  <2>1. PICK t \in Task : Dequeue(t) /\ working' = t
    BY <1>3 DEF StartTask
  <2>2. QueueTypeOK'
    BY <1>1, <2>1, MethodTypes
  <2>3. phase' \in Phase /\ phase' # "idle" /\ pending' \subseteq Task
        /\ future' \in Decision \cup {"none", "open", "cancelled"}
    BY <1>3, <2>1 DEF StartTask, Phase
  <2>4. QED
    BY <1>3, <2>1, <2>2, <2>3 DEF StartTask
<1>4. CASE TimerFires
  BY <1>1, <1>4 DEF TimerFires, loopVars
<1>5. CASE TimeOut
  <2>1. QueueTypeOK'
    BY <1>1, <1>5, MethodTypes DEF TimeOut
  <2>2. QED
    BY <2>1, <1>5 DEF TimeOut, Phase, Decision
<1>6. CASE Resume
  <2>1. working \in Task
    BY <1>6 DEF Resume
  <2>2. executions' \in [Task -> Nat]
    BY <2>1, <1>6 DEF Resume
  <2>3. QED
    BY <1>1, <2>1, <2>2, <1>6 DEF Resume, Phase
<1>7. CASE ExecutionEnds
  BY <1>1, <1>7 DEF ExecutionEnds, serverVars, Phase
<1>8. CASE Finish
  <2>1. QueueTypeOK'
    BY <1>1, <1>8, MethodTypes DEF Finish
  <2>2. QED
    BY <2>1, <1>8 DEF Finish, Phase
<1>9. ASSUME NEW t \in Task, NEW action \in Decision, Decide(t, action)
      PROVE  TypeOK' /\ Working'
  <2>1. QueueTypeOK'
    BY <1>1, <1>9, MethodTypes DEF Decide, ChangeQueue
  <2>2. clicks' \in [Task -> [Decision -> Nat]] /\ decided' \in [Task -> [Decision -> Nat]]
    BY <1>9 DEF Decide
  <2>3. sent' \in 0..MaxClicks
    BY <1>9, CallbackServerAssumption DEF Decide
  <2>4. QED
    BY <2>1, <2>2, <2>3, <1>9 DEF Decide, loopVars
<1>10. ASSUME NEW t \in Task, NEW action \in Decision, Deliver(t, action)
       PROVE  TypeOK' /\ Working'
  <2>1. clicks' \in [Task -> [Decision -> Nat]]
    BY <1>10 DEF Deliver
  <2>2. QED
    BY <1>1, <2>1, <1>10 DEF Deliver, loopVars
<1>11. CASE Clear
  BY <1>1, <1>11 DEF Clear, loopVars, serverVars
<1>12. CASE UNCHANGED vars
  BY <1>1, <1>12 DEF vars, loopVars, serverVars
<1>13. QED
  BY <1>2, <1>3, <1>4, <1>5, <1>6, <1>7, <1>8, <1>9, <1>10, <1>11, <1>12 DEF Next, Progress

(* Types, for any tasks, bounds and priorities. *)
THEOREM TypeCorrect == Spec => []TypeOK
<1>1. Init => TypeOK /\ Working
  <2>1. <<>> \in Seq(Task)
    OBVIOUS
  <2>2. QED
    BY <2>1, CallbackServerAssumption
       DEF Init, QueueInit, NoDecisions, TypeOK, QueueTypeOK, Working, Status, Phase
<1>2. TypeOK /\ Working /\ [Next]_vars => (TypeOK /\ Working)'
  BY TypeStep
<1>3. QED
  BY <1>1, <1>2, PTL DEF Spec

-----------------------------------------------------------------------------

(* A wait that is answered has no entry left. *)
WaitEnds == phase = "waiting" =>
    \/ future \in {"open", "cancelled"}
    \/ future \in Decision /\ pending = {}

Waits == PendingIsWaiting /\ WaitEnds

(* The entry of _pending_decisions goes when the wait ends, by whom ever. *)
LEMMA WaitStep == TypeOK /\ Waits /\ [Next]_vars => Waits'
<1> SUFFICES ASSUME TypeOK, Waits, [Next]_vars PROVE Waits'
  OBVIOUS
<1> USE DEF Waits, PendingIsWaiting, WaitEnds
<1>1. CASE UNCHANGED <<phase, working, pending, future>>
  BY <1>1
<1>2. CASE StartTask
  <2>1. phase = "idle" /\ pending = {}
    BY <1>2 DEF StartTask
  <2>2. QED
    BY <1>2, <2>1 DEF StartTask
<1>3. CASE TimerFires
  BY <1>3 DEF TimerFires, loopVars
<1>4. CASE TimeOut
  BY <1>4 DEF TimeOut
<1>5. CASE Resume
  BY <1>5 DEF Resume, Decision
<1>6. CASE ExecutionEnds
  BY <1>6 DEF ExecutionEnds, serverVars
<1>7. CASE Finish
  BY <1>7 DEF Finish
<1>8. ASSUME NEW t \in Task, NEW action \in Decision, Deliver(t, action) PROVE Waits'
  <2>1. CASE t \in pending /\ future = "open"
    BY <1>8, <2>1 DEF Deliver, loopVars
  <2>2. CASE ~(t \in pending /\ future = "open")
    BY <1>8, <2>2 DEF Deliver, loopVars
  <2>3. QED
    BY <2>1, <2>2
<1>9. QED
  BY <1>1, <1>2, <1>3, <1>4, <1>5, <1>6, <1>7, <1>8
     DEF Next, Progress, AddTask, Decide, Clear, vars, loopVars, serverVars

(* A registered future belongs to the task being worked on, in its wait. *)
THEOREM WaitsAreExact == Spec => []PendingIsWaiting
<1>1. Init => Waits
  BY DEF Init, Waits, PendingIsWaiting, WaitEnds
<1>2. Waits => PendingIsWaiting
  BY DEF Waits
<1>3. QED
  BY <1>1, <1>2, WaitStep, TypeCorrect, PTL DEF Spec

-----------------------------------------------------------------------------

(* The approval that the waiter has and has not yet acted upon. *)
Held(t) == IF phase = "waiting" /\ future = "approve" /\ working = t THEN 1 ELSE 0

(* An approval is on its way, held by the waiter, used, or lost. *)
Approvals == \A t \in Task :
    executions[t] + clicks[t]["approve"] + Held(t) <= decided[t]["approve"]

LEMMA ApprovalStep ==
    TypeOK /\ Working /\ Waits /\ Approvals /\ [Next]_vars => Approvals'
<1> SUFFICES ASSUME TypeOK, Working, Waits, Approvals, [Next]_vars, NEW u \in Task
             PROVE  executions'[u] + clicks'[u]["approve"] + Held(u)' <= decided'[u]["approve"]
  BY DEF Approvals
<1>1. /\ executions[u] \in Nat /\ clicks[u]["approve"] \in Nat /\ decided[u]["approve"] \in Nat
      /\ executions[u] + clicks[u]["approve"] + Held(u) <= decided[u]["approve"]
      /\ Held(u) \in {0, 1} /\ Held(u)' \in {0, 1}
  BY DEF TypeOK, Approvals, Decision, Held
<1>2. CASE UNCHANGED <<executions, clicks, decided>> /\ Held(u)' <= Held(u)
  BY <1>1, <1>2
<1>3. CASE UNCHANGED <<executions, clicks, decided>> /\ future' # "approve"
  BY <1>2, <1>3, <1>1 DEF Held
<1>4. CASE UNCHANGED <<executions, clicks, decided>> /\ phase' # "waiting"
  BY <1>2, <1>4, <1>1 DEF Held
<1>5. CASE UNCHANGED <<executions, clicks, decided, phase, working, future>>
  BY <1>2, <1>5, <1>1 DEF Held
<1>6. CASE Resume
  <2>1. clicks' = clicks /\ decided' = decided /\ Held(u)' = 0
    BY <1>6 DEF Resume, Held
  <2>2. executions'[u] <= executions[u] + Held(u) /\ executions'[u] \in Nat
    BY <1>1, <1>6 DEF Resume, Held, TypeOK
  <2>3. QED
    BY <1>1, <2>1, <2>2
<1>7. ASSUME NEW t \in Task, NEW action \in Decision, Decide(t, action)
      PROVE  executions'[u] + clicks'[u]["approve"] + Held(u)' <= decided'[u]["approve"]
  <2>1. executions' = executions /\ Held(u)' = Held(u)
    BY <1>7 DEF Decide, Held, loopVars
  <2>2. CASE u = t /\ action = "approve"
    <3>1. /\ clicks'[u]["approve"] = clicks[u]["approve"] + 1
          /\ decided'[u]["approve"] = decided[u]["approve"] + 1
      BY <1>7, <2>2 DEF Decide, TypeOK
    <3>2. QED
      BY <1>1, <2>1, <3>1
  <2>3. CASE ~(u = t /\ action = "approve")
    <3>1. /\ clicks'[u]["approve"] = clicks[u]["approve"]
          /\ decided'[u]["approve"] = decided[u]["approve"]
      BY <1>7, <2>3 DEF Decide, TypeOK, Decision
    <3>2. QED
      BY <1>1, <2>1, <3>1
  <2>4. QED
    BY <2>2, <2>3
<1>8. ASSUME NEW t \in Task, NEW action \in Decision, Deliver(t, action)
      PROVE  executions'[u] + clicks'[u]["approve"] + Held(u)' <= decided'[u]["approve"]
  <2>1. executions' = executions /\ decided' = decided
    BY <1>8 DEF Deliver
  <2>2. CASE u = t /\ action = "approve"
    <3>1. clicks'[u]["approve"] = clicks[u]["approve"] - 1
      BY <1>8, <2>2 DEF Deliver, TypeOK
    <3>2. QED
      BY <1>1, <2>1, <3>1
  <2>3. CASE ~(u = t /\ action = "approve")
    <3>1. clicks'[u]["approve"] = clicks[u]["approve"]
      BY <1>8, <2>3 DEF Deliver, TypeOK, Decision
    <3>2. Held(u)' <= Held(u)
      BY <1>8, <2>3 DEF Deliver, Held, Waits, PendingIsWaiting, loopVars
    <3>3. QED
      BY <1>1, <2>1, <3>1, <3>2
  <2>4. QED
    BY <2>2, <2>3
<1>9. CASE StartTask
  <2>1. phase' # "waiting" \/ future' # "approve"
    BY <1>9 DEF StartTask
  <2>2. QED
    BY <1>3, <1>4, <1>9, <2>1 DEF StartTask
<1>10. CASE TimerFires \/ TimeOut \/ Finish
  BY <1>3, <1>10 DEF TimerFires, TimeOut, Finish
<1>11. CASE ExecutionEnds
  BY <1>4, <1>11 DEF ExecutionEnds, serverVars
<1>12. QED
  BY <1>5, <1>6, <1>7, <1>8, <1>9, <1>10, <1>11
     DEF Next, Progress, AddTask, Clear, vars, loopVars, serverVars

(* Every execution uses up an approval of its task. *)
THEOREM ApprovalsAreUsedOnce == Spec => []OneExecutionPerApproval
<1>1. Init => Working /\ Waits /\ Approvals
  BY DEF Init, NoDecisions, Decision, Working, Waits, PendingIsWaiting, WaitEnds,
         Approvals, Held
<1>2. TypeOK /\ Approvals => OneExecutionPerApproval
  <2> SUFFICES ASSUME TypeOK, Approvals, NEW t \in Task
               PROVE  executions[t] <= decided[t]["approve"]
    BY DEF OneExecutionPerApproval
  <2>1. executions[t] \in Nat /\ clicks[t]["approve"] \in Nat
        /\ decided[t]["approve"] \in Nat /\ Held(t) \in {0, 1}
    BY DEF TypeOK, Decision, Held
  <2>2. executions[t] + clicks[t]["approve"] + Held(t) <= decided[t]["approve"]
    BY DEF Approvals
  <2>3. QED
    BY <2>1, <2>2
<1>3. QED
  BY <1>1, <1>2, TypeStep, WaitStep, ApprovalStep, TypeCorrect, PTL DEF Spec

-----------------------------------------------------------------------------

InHistory(t) == \E i \in DOMAIN completed : completed[i] = t

(* Nothing knows a task before it is enqueued. *)
Unseen == \A t \in Task : status[t] = "new" =>
    /\ ~InQueue(t) /\ t \notin index /\ ~InHistory(t)
    /\ current # t /\ working # t
    /\ requeued[t] = 0

(* Arrival numbers are given in order. *)
Numbered == \A t \in Task : arrival[t] <= added

(* The three ways in which a step changes the queue, but for no change. *)

Removes ==
    /\ Len(queue') = Len(queue) - 1
    /\ \E k \in 1..Len(queue) :
          \A i \in 1..Len(queue') : queue'[i] = IF i < k THEN queue[i] ELSE queue[i + 1]
    /\ UNCHANGED <<requeued, added, arrival>>

Requeues(t) ==
    /\ t \in index
    /\ Len(queue) < MaxSize
    /\ queue' = Append(queue, t)
    /\ requeued' = [requeued EXCEPT ![t] = requeued[t] + 1]
    /\ UNCHANGED <<added, arrival>>

LEMMA QueueSteps ==
    ASSUME TypeOK, [Next]_vars
    PROVE  \/ UNCHANGED <<queue, requeued, added, arrival>>
           \/ Removes
           \/ \E t \in Task : Enqueue(t)
           \/ \E t \in Task : Requeues(t)
<1>1. queue \in Seq(Task)
  BY SMTT(60) DEF TypeOK, QueueTypeOK
<1>2. CASE StartTask
  <2>1. PICK t \in Task : Dequeue(t)
    BY <1>2 DEF StartTask
  <2>2. queue # <<>> /\ queue' = Tail(queue)
    BY <2>1 DEF Dequeue
  <2>3. /\ Len(queue') = Len(queue) - 1
        /\ \A i \in 1..Len(queue') : queue'[i] = queue[i + 1]
    BY <1>1, <2>2, HeadTailProperties
  <2>4. 1 \in 1..Len(queue) /\ \A i \in 1..Len(queue') : ~(i < 1)
    BY <1>1, <2>2
  <2>5. QED
    BY <2>1, <2>3, <2>4 DEF Removes, Dequeue
<1>3. ASSUME NEW t \in Task, NEW action \in Decision, Decide(t, action)
      PROVE  UNCHANGED <<queue, requeued, added, arrival>> \/ Removes \/ Requeues(t)
  <2>1. CASE CancelTask(t)
    <3>1. UNCHANGED queueVars \/ queue' = SX!RemoveFirst(queue, t)
      BY <2>1 DEF CancelTask
    <3>2. queue' = SX!RemoveFirst(queue, t) => queue' = queue \/
            /\ Len(queue') = Len(queue) - 1
            /\ \E k \in 1..Len(queue) :
                 \A i \in 1..Len(queue') : queue'[i] = IF i < k THEN queue[i] ELSE queue[i + 1]
      BY <1>1, RemoveFirstProperties
    <3>3. UNCHANGED <<requeued, added, arrival>>
      BY <2>1 DEF CancelTask, queueVars
    <3>4. QED
      BY <3>1, <3>2, <3>3 DEF Removes, queueVars
  <2>2. CASE RequeueTask(t)
    BY <2>2 DEF RequeueTask, Requeues, queueVars
  <2>3. QED
    BY <1>3, <2>1, <2>2 DEF Decide, ChangeQueue, queueVars
<1>4. CASE UNCHANGED <<queue, requeued, added, arrival>>
  BY <1>4
<1>5. ASSUME NEW t \in Task, AddTask(t) PROVE Enqueue(t)
  BY <1>5 DEF AddTask
<1>6. CASE TimeOut
  BY <1>6 DEF TimeOut, TimeoutTask, queueVars
<1>7. CASE Finish
  BY <1>7 DEF Finish, CompleteTask, queueVars
<1>8. CASE TimerFires \/ Resume \/ ExecutionEnds \/ Clear
  BY <1>8 DEF TimerFires, Resume, ExecutionEnds, Clear, ClearCompleted, queueVars
<1>9. ASSUME NEW t \in Task, NEW action \in Decision, Deliver(t, action)
      PROVE  UNCHANGED <<queue, requeued, added, arrival>>
  BY <1>9 DEF Deliver, queueVars
<1>10. QED
  BY <1>2, <1>3, <1>4, <1>5, <1>6, <1>7, <1>8, <1>9 DEF Next, Progress, vars, queueVars

LEMMA SequenceTypes ==
    ASSUME TypeOK
    PROVE  /\ queue \in Seq(Task) /\ Len(queue) \in Nat /\ DOMAIN queue = 1..Len(queue)
           /\ completed \in Seq(Task) /\ Len(completed) \in Nat
           /\ DOMAIN completed = 1..Len(completed)
<1>1. queue \in Seq(Task) /\ completed \in Seq(Task)
  BY DEF TypeOK, QueueTypeOK
<1>2. QED
  BY <1>1

LEMMA SequenceTypesNext ==
    ASSUME TypeOK'
    PROVE  /\ queue' \in Seq(Task) /\ Len(queue') \in Nat /\ DOMAIN queue' = 1..Len(queue')
           /\ completed' \in Seq(Task) /\ Len(completed') \in Nat
           /\ DOMAIN completed' = 1..Len(completed')
<1>1. queue' \in Seq(Task) /\ completed' \in Seq(Task)
  BY DEF TypeOK, QueueTypeOK
<1>2. QED
  BY <1>1

(* What the steps do to the tasks the queue holds. *)
LEMMA QueueMembers ==
    ASSUME TypeOK, TypeOK', NEW u \in Task, InQueue(u)'
    PROVE  /\ Removes => InQueue(u)
           /\ \A t \in Task : Requeues(t) \/ Enqueue(t) => InQueue(u) \/ u = t
<1>1. /\ queue \in Seq(Task) /\ Len(queue) \in Nat /\ DOMAIN queue = 1..Len(queue)
      /\ queue' \in Seq(Task) /\ Len(queue') \in Nat /\ DOMAIN queue' = 1..Len(queue')
  BY SequenceTypes, SequenceTypesNext
<1>2. PICK i \in 1..Len(queue') : queue'[i] = u
  BY <1>1 DEF InQueue
<1>3. ASSUME Removes PROVE InQueue(u)
  <2>1. PICK k \in 1..Len(queue) :
          \A j \in 1..Len(queue') : queue'[j] = IF j < k THEN queue[j] ELSE queue[j + 1]
    BY <1>3 DEF Removes
  <2>2. i \in 1..Len(queue) /\ i + 1 \in 1..Len(queue)
    BY <1>1, <1>2, <1>3 DEF Removes
  <2>3. QED
    BY <1>1, <1>2, <2>1, <2>2 DEF InQueue
<1>4. ASSUME NEW t \in Task, Requeues(t) PROVE InQueue(u) \/ u = t
  <2>1. Len(queue') = Len(queue) + 1 /\ queue'[Len(queue) + 1] = t
        /\ \A j \in 1..Len(queue) : queue'[j] = queue[j]
    BY <1>1, <1>4, AppendProperties DEF Requeues
  <2>2. i \in 1..Len(queue) \/ i = Len(queue) + 1
    BY <1>1, <1>2, <2>1
  <2>3. QED
    BY <1>1, <1>2, <2>1, <2>2 DEF InQueue
<1>5. ASSUME NEW t \in Task, Enqueue(t) PROVE InQueue(u) \/ u = t
  <2>1. queue' = Placed(t)
    BY <1>5 DEF Enqueue
  <2>2. PICK k \in 1..Len(queue) + 1 :
          \A j \in 1..Len(queue) + 1 :
             Placed(t)[j] = IF j < k THEN queue[j] ELSE IF j = k THEN t ELSE queue[j - 1]
    BY <1>1, PlacedProperties
  <2>3. Len(queue') = Len(queue) + 1
    BY <1>1, <2>1, PlacedProperties
  <2>4. i \in 1..Len(queue) + 1 /\ (i < k => i \in 1..Len(queue))
        /\ (k < i => i - 1 \in 1..Len(queue))
    BY <1>1, <1>2, <2>3
  <2>5. i < k \/ i = k \/ k < i
    BY <2>4, <1>1
  <2>6. QED
    BY <1>1, <1>2, <2>1, <2>2, <2>4, <2>5 DEF InQueue
<1>6. QED
  BY <1>3, <1>4, <1>5

(* A step calls at most one method of the queue. *)
MethodCall ==
    \/ UNCHANGED queueVars
    \/ ClearCompleted
    \/ \E t \in Task :
          \/ Enqueue(t) \/ Dequeue(t)
          \/ \E success \in BOOLEAN : CompleteTask(t, success)
          \/ CancelTask(t) \/ TimeoutTask(t) \/ RequeueTask(t)

LEMMA StepsAreCalls == Working /\ [Next]_vars => MethodCall
<1> SUFFICES ASSUME Working, [Next]_vars PROVE MethodCall
  OBVIOUS
<1>1. CASE StartTask
  BY <1>1 DEF StartTask, MethodCall
<1>2. CASE TimeOut
  BY <1>2 DEF TimeOut, MethodCall, Working
<1>3. CASE Finish
  BY <1>3 DEF Finish, MethodCall, Working
<1>4. CASE UNCHANGED queueVars \/ ClearCompleted
  BY <1>4 DEF MethodCall
<1>5. ASSUME NEW t \in Task, NEW action \in Decision, Decide(t, action) PROVE MethodCall
  BY <1>5 DEF Decide, ChangeQueue, MethodCall
<1>6. ASSUME NEW t \in Task, AddTask(t) PROVE MethodCall
  BY <1>6 DEF AddTask, MethodCall
<1>7. QED
  BY <1>1, <1>2, <1>3, <1>4, <1>5, <1>6
     DEF Next, Progress, TimerFires, Resume, ExecutionEnds, Deliver, Clear, vars

(* No method makes a task new, and all but enqueue find it in the index or  *)
(* in the queue.                                                            *)
LEMMA UnseenCall ==
    ASSUME TypeOK, Unseen, MethodCall, NEW u \in Task, status'[u] = "new"
    PROVE  /\ status[u] = "new"
           /\ u \notin index' /\ ~InHistory(u)'
           /\ current' # u /\ requeued'[u] = 0
<1>1. /\ completed \in Seq(Task) /\ status \in [Task -> Status] /\ None \notin Task
      /\ requeued \in [Task -> Nat]
  BY TaskQueueAssumption DEF TypeOK, QueueTypeOK
<1>2. status[u] = "new" => /\ ~InQueue(u) /\ u \notin index /\ ~InHistory(u)
                           /\ current # u /\ requeued[u] = 0
  BY DEF Unseen
<1>3. CASE UNCHANGED queueVars
  BY <1>2, <1>3 DEF queueVars, InHistory
<1>4. CASE ClearCompleted
  BY <1>2, <1>4 DEF ClearCompleted, InHistory
<1>5. ASSUME NEW t \in Task, completed' = Append(completed, t), u # t, InHistory(u)'
      PROVE  InHistory(u)
  BY <1>1, <1>5 DEF InHistory
<1>6. ASSUME NEW t \in Task, completed' = Tail(Append(completed, t)), u # t, InHistory(u)'
      PROVE  InHistory(u)
  BY <1>1, <1>6 DEF InHistory
<1>7. ASSUME NEW t \in Task, Enqueue(t)
      PROVE  /\ status[u] = "new"
             /\ u \notin index' /\ ~InHistory(u)'
             /\ current' # u /\ requeued'[u] = 0
  BY <1>1, <1>2, <1>7 DEF Enqueue, InHistory
<1>8. ASSUME NEW t \in Task, Dequeue(t)
      PROVE  /\ status[u] = "new"
             /\ u \notin index' /\ ~InHistory(u)'
             /\ current' # u /\ requeued'[u] = 0
  BY <1>1, <1>2, <1>8 DEF Dequeue, InHistory
<1>9. ASSUME NEW t \in Task, RequeueTask(t), t \in index
      PROVE  /\ status[u] = "new"
             /\ u \notin index' /\ ~InHistory(u)'
             /\ current' # u /\ requeued'[u] = 0
  BY <1>1, <1>2, <1>3, <1>9 DEF RequeueTask, Release, InHistory
<1>10. ASSUME NEW t \in Task, t \in index,
              CancelTask(t) \/ TimeoutTask(t) \/ \E success \in BOOLEAN : CompleteTask(t, success)
       PROVE  /\ status[u] = "new"
              /\ u \notin index' /\ ~InHistory(u)'
              /\ current' # u /\ requeued'[u] = 0
  <2>1. CASE UNCHANGED queueVars
    BY <2>1, <1>3
  <2>2. CASE ~UNCHANGED queueVars
    <3>1. \E s \in Status \ {"new"} : status' = [status EXCEPT ![t] = s]
      BY <1>10, <2>2 DEF CancelTask, TimeoutTask, CompleteTask, Status
    <3>2. status[u] = "new" /\ u # t
      BY <1>1, <3>1
    <3>3. /\ index' = index /\ requeued' = requeued
          /\ current' \in {None, current}
          /\ completed' = Append(completed, t) \/ completed' = Tail(Append(completed, t))
      BY <1>10, <2>2 DEF CancelTask, TimeoutTask, CompleteTask, Release
    <3>4. QED
      BY <1>1, <1>2, <1>5, <1>6, <3>2, <3>3
  <2>3. QED
    BY <2>1, <2>2
<1>11. QED
  BY <1>3, <1>4, <1>7, <1>8, <1>9, <1>10
     DEF MethodCall, CancelTask, TimeoutTask, CompleteTask, RequeueTask

LEMMA UnseenStep ==
    TypeOK /\ TypeOK' /\ Working /\ Unseen /\ [Next]_vars => Unseen'
<1> SUFFICES ASSUME TypeOK, TypeOK', Working, Unseen, [Next]_vars,
                    NEW u \in Task, status'[u] = "new"
             PROVE  /\ ~InQueue(u)' /\ u \notin index' /\ ~InHistory(u)'
                    /\ current' # u /\ working' # u
                    /\ requeued'[u] = 0
  BY DEF Unseen
<1>1. MethodCall
  BY StepsAreCalls
<1>2. /\ status[u] = "new" /\ u \notin index' /\ ~InHistory(u)'
      /\ current' # u /\ requeued'[u] = 0
  BY <1>1, UnseenCall
<1>3. ~InQueue(u) /\ u \notin index /\ working # u
  BY <1>2 DEF Unseen
<1>4. ~InQueue(u)'
  <2>1. CASE UNCHANGED <<queue, requeued, added, arrival>>
    BY <1>3, <2>1 DEF InQueue
  <2>2. CASE Removes
    BY <1>3, <2>2, QueueMembers
  <2>3. ASSUME NEW t \in Task, Enqueue(t) PROVE ~InQueue(u)'
    <3>1. u # t
      BY <2>3 DEF Enqueue, TypeOK, QueueTypeOK
    <3>2. QED
      BY <1>3, <2>3, <3>1, QueueMembers
  <2>4. ASSUME NEW t \in Task, Requeues(t) PROVE ~InQueue(u)'
    <3>1. u # t
      BY <1>3, <2>4 DEF Requeues
    <3>2. QED
      BY <1>3, <2>4, <3>1, QueueMembers
  <2>5. QED
    BY <2>1, <2>2, <2>3, <2>4, QueueSteps
<1>5. working' # u
  <2>1. CASE StartTask
    BY <1>2, <2>1 DEF StartTask, Dequeue
  <2>2. CASE Finish
    BY <2>2, TaskQueueAssumption DEF Finish
  <2>3. CASE UNCHANGED working
    BY <1>3, <2>3
  <2>4. QED
    BY <2>1, <2>2, <2>3
       DEF Next, Progress, AddTask, TimerFires, TimeOut, Resume, ExecutionEnds, Decide,
           Deliver, Clear, vars, loopVars
<1>6. QED
  BY <1>2, <1>4, <1>5

-----------------------------------------------------------------------------

(* t may stand before u, a task that was never requeued. *)
MayPrecede(count, number, t, u) ==
    \/ Rank(t) > Rank(u)
    \/ Rank(t) = Rank(u) /\ (count[t] > 0 \/ number[t] < number[u])

Ordered ==
    \A i, j \in 1..Len(queue) :
        i < j /\ requeued[queue[j]] = 0 => MayPrecede(requeued, arrival, queue[i], queue[j])

LEMMA OrderedIsServed ==
    TypeOK => (ServedInOrder <=> Len(queue) <= MaxSize /\ Ordered)
BY SequenceTypes DEF ServedInOrder, Ordered, MayPrecede

LEMMA RankType == \A t \in Task : Rank(t) \in Nat
BY TaskQueueAssumption DEF Rank

(* Taking a task out leaves the others in their order. *)
LEMMA RemovalKeepsOrder ==
    ASSUME TypeOK, TypeOK', Ordered, Removes
    PROVE  Ordered'
<1> SUFFICES ASSUME NEW i \in 1..Len(queue'), NEW j \in 1..Len(queue'),
                    i < j, requeued'[queue'[j]] = 0
             PROVE  MayPrecede(requeued', arrival', queue'[i], queue'[j])
  BY DEF Ordered
<1>1. Len(queue) \in Nat /\ Len(queue') = Len(queue) - 1
  BY SequenceTypes DEF Removes
<1>2. PICK k \in 1..Len(queue) :
        \A l \in 1..Len(queue') : queue'[l] = IF l < k THEN queue[l] ELSE queue[l + 1]
  BY DEF Removes
<1>3. UNCHANGED <<requeued, arrival>>
  BY DEF Removes
<1>4. PICK a \in 1..Len(queue), b \in 1..Len(queue) :
        a < b /\ queue'[i] = queue[a] /\ queue'[j] = queue[b]
  <2> DEFINE at(l) == IF l < k THEN l ELSE l + 1
  <2>1. at(i) \in 1..Len(queue) /\ at(j) \in 1..Len(queue) /\ at(i) < at(j)
    BY <1>1
  <2>2. queue'[i] = queue[at(i)] /\ queue'[j] = queue[at(j)]
    BY <1>2
  <2>3. QED
    BY <2>1, <2>2
<1>5. MayPrecede(requeued, arrival, queue[a], queue[b])
  BY <1>3, <1>4 DEF Ordered
<1>6. QED
  BY <1>3, <1>4, <1>5 DEF MayPrecede

(* A requeued task may stand anywhere, and loses its claim to its place. *)
LEMMA RequeueKeepsOrder ==
    ASSUME TypeOK, TypeOK', Ordered, NEW t \in Task, Requeues(t)
    PROVE  Ordered'
<1> SUFFICES ASSUME NEW i \in 1..Len(queue'), NEW j \in 1..Len(queue'),
                    i < j, requeued'[queue'[j]] = 0
             PROVE  MayPrecede(requeued', arrival', queue'[i], queue'[j])
  BY DEF Ordered
<1>1. /\ queue \in Seq(Task) /\ Len(queue) \in Nat
      /\ Len(queue') = Len(queue) + 1 /\ queue'[Len(queue) + 1] = t
      /\ \A l \in 1..Len(queue) : queue'[l] = queue[l]
  BY SequenceTypes, AppendProperties DEF Requeues
<1>2. /\ requeued \in [Task -> Nat] /\ requeued' = [requeued EXCEPT ![t] = requeued[t] + 1]
      /\ arrival' = arrival
  BY DEF Requeues, TypeOK, QueueTypeOK
<1>3. requeued'[t] # 0 /\ \A u \in Task : requeued'[u] >= requeued[u]
  BY <1>2
<1>4. j \in 1..Len(queue) /\ i \in 1..Len(queue)
  BY <1>1, <1>3
<1>5. queue'[i] = queue[i] /\ queue'[j] = queue[j] /\ queue[i] \in Task /\ queue[j] \in Task
  BY <1>1, <1>4
<1>6. requeued[queue[j]] = 0
  BY <1>2, <1>3, <1>5
<1>7. MayPrecede(requeued, arrival, queue[i], queue[j])
  BY <1>4, <1>6 DEF Ordered
<1>8. QED
  BY <1>2, <1>3, <1>5, <1>7 DEF MayPrecede

(* A new task has the highest number, follows all of its rank, and precedes *)
(* only tasks that come after one of lower rank.                            *)
LEMMA EnqueueKeepsOrder ==
    ASSUME TypeOK, TypeOK', Unseen, Numbered, Ordered, NEW t \in Task, Enqueue(t)
    PROVE  Ordered'
<1> SUFFICES ASSUME NEW i \in 1..Len(queue'), NEW j \in 1..Len(queue'),
                    i < j, requeued'[queue'[j]] = 0
             PROVE  MayPrecede(requeued', arrival', queue'[i], queue'[j])
  BY DEF Ordered
<1>1. queue \in Seq(Task) /\ Len(queue) \in Nat /\ queue' = Placed(t)
  BY SequenceTypes DEF Enqueue
<1>2. PICK k \in 1..Len(queue) + 1 :
        /\ \A l \in 1..Len(queue) + 1 :
              Placed(t)[l] = IF l < k THEN queue[l] ELSE IF l = k THEN t ELSE queue[l - 1]
        /\ \A l \in 1..k - 1 : ~(Rank(t) > Rank(queue[l]))
        /\ k <= Len(queue) => Rank(t) > Rank(queue[k])
  BY <1>1, PlacedProperties
<1>3. Len(queue') = Len(queue) + 1
  BY <1>1, PlacedProperties
<1>4. /\ requeued' = requeued /\ arrival' = [arrival EXCEPT ![t] = added + 1]
      /\ arrival \in [Task -> Nat] /\ added \in Nat /\ arrival'[t] = added + 1
  BY DEF Enqueue, TypeOK, QueueTypeOK
<1>5. ASSUME NEW l \in 1..Len(queue)
      PROVE  /\ queue[l] \in Task /\ queue[l] # t
             /\ arrival'[queue[l]] = arrival[queue[l]] /\ arrival[queue[l]] < added + 1
  <2>1. queue[l] \in Task
    BY <1>1
  <2>2. ~InQueue(t)
    BY DEF Unseen, Enqueue
  <2>3. queue[l] # t
    BY <1>1, <2>2 DEF InQueue
  <2>4. arrival[queue[l]] <= added
    BY <2>1 DEF Numbered
  <2>5. QED
    BY <2>1, <2>3, <2>4, <1>4
<1>6. ASSUME NEW a \in 1..Len(queue), NEW b \in 1..Len(queue), a < b, requeued[queue[b]] = 0
      PROVE  MayPrecede(requeued', arrival', queue[a], queue[b])
  <2>1. MayPrecede(requeued, arrival, queue[a], queue[b])
    BY <1>6 DEF Ordered
  <2>2. QED
    BY <2>1, <1>4, <1>5 DEF MayPrecede
<1>7. \/ j < k
      \/ i < k /\ j = k
      \/ i < k /\ k < j
      \/ i = k /\ k < j
      \/ k < i /\ k < j
  BY <1>3, <1>1
<1>8. CASE j < k
  <2>1. queue'[i] = queue[i] /\ queue'[j] = queue[j] /\ i \in 1..Len(queue) /\ j \in 1..Len(queue)
    BY <1>1, <1>2, <1>3, <1>8
  <2>2. QED
    BY <2>1, <1>4, <1>6
<1>9. CASE i < k /\ j = k
  <2>1. queue'[i] = queue[i] /\ queue'[j] = t /\ i \in 1..Len(queue) /\ i \in 1..k - 1
    BY <1>1, <1>2, <1>3, <1>9
  <2>2. ~(Rank(t) > Rank(queue[i])) /\ arrival'[queue[i]] < arrival'[t] /\ queue[i] \in Task
    BY <2>1, <1>2, <1>4, <1>5
  <2>3. Rank(t) \in Nat /\ Rank(queue[i]) \in Nat
    BY <2>2, RankType
  <2>4. QED
    BY <2>1, <2>2, <2>3 DEF MayPrecede
<1>10. CASE i < k /\ k < j
  <2>1. /\ queue'[i] = queue[i] /\ queue'[j] = queue[j - 1]
        /\ i \in 1..Len(queue) /\ j - 1 \in 1..Len(queue) /\ i < j - 1
    BY <1>1, <1>2, <1>3, <1>10
  <2>2. QED
    BY <2>1, <1>4, <1>6
<1>11. CASE k < i /\ k < j
  <2>1. /\ queue'[i] = queue[i - 1] /\ queue'[j] = queue[j - 1]
        /\ i - 1 \in 1..Len(queue) /\ j - 1 \in 1..Len(queue) /\ i - 1 < j - 1
    BY <1>1, <1>2, <1>3, <1>11
  <2>2. QED
    BY <2>1, <1>4, <1>6
<1>12. CASE i = k /\ k < j
  <2>1. /\ queue'[i] = t /\ queue'[j] = queue[j - 1] /\ j - 1 \in 1..Len(queue)
        /\ k \in 1..Len(queue) /\ k <= j - 1
    BY <1>1, <1>2, <1>3, <1>12
  <2>2. Rank(t) > Rank(queue[k]) /\ queue[k] \in Task /\ queue[j - 1] \in Task
    BY <2>1, <1>2, <1>5
  <2>3. Rank(queue[k]) >= Rank(queue[j - 1])
    <3>1. CASE k = j - 1
      BY <3>1, <2>2, RankType
    <3>2. CASE k < j - 1
      <4>1. MayPrecede(requeued, arrival, queue[k], queue[j - 1])
        BY <2>1, <3>2, <1>4 DEF Ordered
      <4>2. QED
        BY <4>1, <2>2, RankType DEF MayPrecede
    <3>3. QED
      BY <2>1, <3>1, <3>2, <1>1
  <2>4. Rank(t) > Rank(queue[j - 1])
    BY <2>2, <2>3, RankType
  <2>5. QED
    BY <2>1, <2>4 DEF MayPrecede
<1>13. QED
  BY <1>7, <1>8, <1>9, <1>10, <1>11, <1>12

Order == Numbered /\ ServedInOrder

LEMMA OrderStep ==
    TypeOK /\ TypeOK' /\ Unseen /\ Order /\ [Next]_vars => Order'
<1> SUFFICES ASSUME TypeOK, TypeOK', Unseen, Order, [Next]_vars PROVE Order'
  OBVIOUS
<1>1. Len(queue) \in Nat /\ Len(queue) <= MaxSize /\ Ordered /\ Numbered /\ MaxSize \in Nat
  BY OrderedIsServed, SequenceTypes, TaskQueueAssumption DEF Order
<1>2. CASE UNCHANGED <<queue, requeued, added, arrival>>
  BY <1>2 DEF Order, Numbered, ServedInOrder, Rank
<1>3. (Len(queue') <= MaxSize /\ Ordered' /\ Numbered') => Order'
  <2>1. TypeOK' => (ServedInOrder' <=> Len(queue') <= MaxSize /\ Ordered')
    BY SequenceTypesNext DEF ServedInOrder, Ordered, MayPrecede, Rank
  <2>2. QED
    BY <2>1 DEF Order
<1>4. CASE Removes
  <2>1. Len(queue') <= MaxSize /\ Numbered'
    BY <1>1, <1>4 DEF Removes, Numbered
  <2>2. QED
    BY <1>1, <1>3, <1>4, <2>1, RemovalKeepsOrder
<1>5. ASSUME NEW t \in Task, Requeues(t) PROVE Order'
  <2>1. Len(queue') = Len(queue) + 1
    BY <1>5, SequenceTypes, AppendProperties DEF Requeues
  <2>2. Len(queue') <= MaxSize /\ Numbered'
    BY <1>1, <1>5, <2>1 DEF Requeues, Numbered
  <2>3. QED
    BY <1>1, <1>3, <1>5, <2>2, RequeueKeepsOrder
<1>6. ASSUME NEW t \in Task, Enqueue(t) PROVE Order'
  <2>1. Len(queue') = Len(queue) + 1
    BY <1>6, SequenceTypes, PlacedProperties DEF Enqueue
  <2>2. Len(queue') <= MaxSize
    BY <1>1, <1>6, <2>1 DEF Enqueue
  <2>3. Numbered'
    <3>1. /\ arrival \in [Task -> Nat] /\ added \in Nat
          /\ arrival' = [arrival EXCEPT ![t] = added + 1] /\ added' = added + 1
      BY <1>6 DEF Enqueue, TypeOK, QueueTypeOK
    <3>2. ASSUME NEW u \in Task PROVE arrival'[u] <= added'
      BY <1>1, <3>1 DEF Numbered
    <3>3. QED
      BY <3>2 DEF Numbered
  <2>4. QED
    BY <1>1, <1>3, <1>6, <2>2, <2>3, EnqueueKeepsOrder
<1>7. QED
  BY <1>2, <1>4, <1>5, <1>6, QueueSteps

LEMMA InitialQueue == Init => Working /\ Unseen /\ Order
BY TaskQueueAssumption
   DEF Init, QueueInit, Working, Unseen, Order, Numbered, ServedInOrder, InQueue, InHistory

(* Order of service and the bound of the queue. *)
THEOREM OrderIsKept == Spec => []ServedInOrder
<1>1. Order => ServedInOrder
  BY DEF Order
<1>2. QED
  BY <1>1, InitialQueue, TypeStep, UnseenStep, OrderStep, TypeCorrect, PTL DEF Spec

-----------------------------------------------------------------------------

(* The task in the slot is the one being processed; between two tasks the   *)
(* slot may hold only one that complete_task does not find.                 *)
SlotMatches ==
    /\ current # None => status[current] = "processing"
    /\ phase # "idle" => current \in {None, working}

(* A task that was taken off the queue comes back by requeue_task only. *)
TakenOnce == \A t \in Task : InQueue(t) /\ requeued[t] = 0 => current # t /\ working # t

(* A task that may still need its index entry and has lost it, or may lose  *)
(* it to clear_completed, was requeued.                                     *)
KnownUnlessRequeued == \A t \in Task :
    (InQueue(t) \/ current = t) /\ (t \notin index \/ InHistory(t)) => requeued[t] > 0

Slot == SlotMatches /\ TakenOnce /\ KnownUnlessRequeued /\ SlotFreedUnlessCleared

(* A task that was never requeued is in the queue once, so that taking it   *)
(* out leaves no copy.                                                      *)
LEMMA OnlyCopy ==
    ASSUME TypeOK, TypeOK', Ordered,
           NEW t \in Task, requeued[t] = 0, NEW k \in 1..Len(queue), queue[k] = t,
           Len(queue') = Len(queue) - 1,
           \A i \in 1..Len(queue') : queue'[i] = IF i < k THEN queue[i] ELSE queue[i + 1]
    PROVE  ~InQueue(t)'
<1>1. Len(queue) \in Nat /\ DOMAIN queue' = 1..Len(queue')
  BY SequenceTypes, SequenceTypesNext
<1>2. ~MayPrecede(requeued, arrival, t, t)
  <2>1. Rank(t) \in Nat /\ requeued[t] = 0 /\ arrival[t] \in Nat
    BY RankType DEF TypeOK, QueueTypeOK
  <2>2. QED
    BY <2>1 DEF MayPrecede
<1>3. ASSUME NEW j \in 1..Len(queue), j # k PROVE queue[j] # t
  <2>1. CASE j < k
    BY <2>1, <1>2 DEF Ordered
  <2>2. CASE k < j
    BY <2>2, <1>2 DEF Ordered
  <2>3. QED
    BY <2>1, <2>2, <1>1, <1>3
<1>4. ASSUME NEW i \in 1..Len(queue') PROVE queue'[i] # t
  <2>1. CASE i < k
    BY <2>1, <1>1, <1>3
  <2>2. CASE ~(i < k)
    <3>1. i + 1 \in 1..Len(queue) /\ i + 1 # k
      BY <2>2, <1>1
    <3>2. QED
      BY <3>1, <2>2, <1>3
  <2>3. QED
    BY <2>1, <2>2
<1>5. QED
  BY <1>1, <1>4 DEF InQueue

(* The history grows by the task that a method found in the index. *)
LEMMA HistoryGrows ==
    ASSUME TypeOK, TypeOK', NEW u \in Task, NEW t \in Task, InHistory(u)', u # t,
           completed' \in {Append(completed, t), Tail(Append(completed, t))}
    PROVE  InHistory(u)
<1>1. completed \in Seq(Task) /\ Len(completed) \in Nat /\ DOMAIN completed = 1..Len(completed)
  BY SequenceTypes
<1>2. CASE completed' = Append(completed, t)
  BY <1>1, <1>2 DEF InHistory
<1>3. CASE completed' = Tail(Append(completed, t))
  BY <1>1, <1>3 DEF InHistory
<1>4. QED
  BY <1>2, <1>3

(* Each step of the pipeline keeps the account of the slot. *)
LEMMA SlotAdd ==
    ASSUME TypeOK, TypeOK', Working, Unseen, Slot, NEW t \in Task, AddTask(t)
    PROVE  Slot'
<1>1. /\ Enqueue(t) /\ UNCHANGED <<current, completed, requeued, phase, working>>
      /\ index' = index \cup {t} /\ status' = [status EXCEPT ![t] = "queued"]
  BY DEF AddTask, Enqueue, loopVars
<1>2. current # t /\ working # t /\ ~InHistory(t)
  BY <1>1 DEF Enqueue, Unseen
<1>3. SlotMatches'
  BY <1>1, <1>2 DEF Slot, SlotMatches, TypeOK, QueueTypeOK
<1>4. ASSUME NEW u \in Task, InQueue(u)' PROVE InQueue(u) \/ u = t
  BY <1>1, <1>4, QueueMembers
<1>5. TakenOnce'
  BY <1>1, <1>2, <1>4 DEF Slot, TakenOnce
<1>6. KnownUnlessRequeued'
  BY <1>1, <1>2, <1>4 DEF Slot, KnownUnlessRequeued, InHistory
<1>7. SlotFreedUnlessCleared'
  BY <1>1, <1>2 DEF Slot, SlotFreedUnlessCleared
<1>8. QED
  BY <1>3, <1>5, <1>6, <1>7 DEF Slot

LEMMA SlotStart ==
    ASSUME TypeOK, TypeOK', Working, Ordered, Slot, StartTask
    PROVE  Slot'
<1>1. PICK t \in Task : Dequeue(t) /\ working' = t
  BY DEF StartTask
<1>2. /\ queue # <<>> /\ t = Head(queue) /\ queue' = Tail(queue)
      /\ current' = t /\ status' = [status EXCEPT ![t] = "processing"]
      /\ UNCHANGED <<index, completed, requeued>>
  BY <1>1 DEF Dequeue
<1>3. /\ Len(queue) \in Nat /\ 1 \in 1..Len(queue) /\ queue[1] = t
      /\ Len(queue') = Len(queue) - 1
      /\ \A i \in 1..Len(queue') : queue'[i] = queue[i + 1]
  BY <1>2, SequenceTypes, HeadTailProperties
<1>4. InQueue(t)
  BY <1>3, SequenceTypes DEF InQueue
<1>5. phase' # "idle"
  BY DEF StartTask
<1>6. \A i \in 1..Len(queue') : queue'[i] = IF i < 1 THEN queue[i] ELSE queue[i + 1]
  BY <1>3, SequenceTypesNext
<1>7. requeued[t] = 0 => ~InQueue(t)'
  BY <1>3, <1>6, OnlyCopy
<1>8. ASSUME NEW u \in Task, InQueue(u)' PROVE InQueue(u)
  <2>1. PICK i \in 1..Len(queue') : queue'[i] = u
    BY <1>8, SequenceTypesNext DEF InQueue
  <2>2. i + 1 \in 1..Len(queue)
    BY <1>3, <2>1
  <2>3. QED
    BY <1>3, <2>1, <2>2, SequenceTypes DEF InQueue
<1>9. SlotMatches'
  BY <1>1, <1>2 DEF SlotMatches, TypeOK, QueueTypeOK
<1>10. TakenOnce'
  BY <1>1, <1>2, <1>7 DEF TakenOnce
<1>11. KnownUnlessRequeued'
  BY <1>2, <1>4, <1>8 DEF Slot, KnownUnlessRequeued, InHistory
<1>12. QED
  BY <1>5, <1>9, <1>10, <1>11 DEF Slot, SlotFreedUnlessCleared

(* A task that ends: it was in the slot, or was requeued before. *)
LEMMA SlotEnd ==
    ASSUME TypeOK, TypeOK', Working, Slot, phase # "idle", phase' # "waiting",
           TimeoutTask(working) \/ \E success \in BOOLEAN : CompleteTask(working, success),
           working' = IF phase' = "idle" THEN None ELSE working
    PROVE  Slot'
<1>1. working \in Task /\ None \notin Task /\ working' \in {None, working}
      /\ current \in {None, working}
  BY TaskQueueAssumption DEF Working, Slot, SlotMatches
<1>2. CASE working \notin index
  <2>1. UNCHANGED queueVars
    BY <1>2 DEF TimeoutTask, CompleteTask
  <2>2. SlotFreedUnlessCleared'
    BY <1>1, <1>2, <2>1 DEF Slot, KnownUnlessRequeued, SlotFreedUnlessCleared, queueVars
  <2>3. SlotMatches'
    BY <1>1, <2>1 DEF Slot, SlotMatches, queueVars
  <2>4. TakenOnce'
    BY <1>1, <2>1 DEF Slot, TakenOnce, InQueue, queueVars
  <2>5. KnownUnlessRequeued'
    BY <2>1 DEF Slot, KnownUnlessRequeued, InQueue, InHistory, queueVars
  <2>6. QED
    BY <2>2, <2>3, <2>4, <2>5 DEF Slot
<1>3. CASE working \in index
  <2>1. /\ UNCHANGED <<queue, index, requeued>>
        /\ completed' \in {Append(completed, working), Tail(Append(completed, working))}
        /\ current' = None
    BY <1>1, <1>3 DEF TimeoutTask, CompleteTask, Release
  <2>2. TakenOnce'
    BY <1>1, <2>1 DEF Slot, TakenOnce, InQueue
  <2>3. ASSUME NEW u \in Task, InQueue(u), u \notin index \/ InHistory(u)'
        PROVE  requeued[u] > 0
    <3>1. CASE u = working
      BY <3>1, <2>3 DEF Slot, TakenOnce, TypeOK, QueueTypeOK
    <3>2. CASE u # working
      BY <3>2, <2>1, <2>3, <1>1, HistoryGrows DEF Slot, KnownUnlessRequeued
    <3>3. QED
      BY <3>1, <3>2
  <2>4. KnownUnlessRequeued'
    BY <1>1, <2>1, <2>3 DEF KnownUnlessRequeued, InQueue
  <2>5. QED
    BY <2>1, <2>2, <2>4 DEF Slot, SlotMatches, SlotFreedUnlessCleared
<1>4. QED
  BY <1>2, <1>3

LEMMA SlotReject ==
    ASSUME TypeOK, TypeOK', Working, Ordered, Slot, NEW t \in Task, CancelTask(t),
           UNCHANGED <<phase, working>>
    PROVE  Slot'
<1>1. CASE UNCHANGED queueVars
  BY <1>1 DEF Slot, SlotMatches, TakenOnce, KnownUnlessRequeued, SlotFreedUnlessCleared,
              InQueue, InHistory, queueVars
<1>2. CASE t \in index /\ status[t] # "processing"
  <2>1. /\ queue' = SX!RemoveFirst(queue, t) /\ status' = [status EXCEPT ![t] = "cancelled"]
        /\ completed' = Append(completed, t)
        /\ UNCHANGED <<current, index, requeued>>
    BY <1>2 DEF CancelTask
  <2>2. /\ queue \in Seq(Task) /\ Len(queue) \in Nat /\ DOMAIN queue = 1..Len(queue)
        /\ DOMAIN queue' = 1..Len(queue') /\ Len(queue') \in Nat
    BY SequenceTypes, SequenceTypesNext
  <2>3. current # t /\ SlotMatches'
    BY <1>2, <2>1, TaskQueueAssumption DEF Slot, SlotMatches, TypeOK, QueueTypeOK
  <2>4. \/ queue' = queue /\ ~InQueue(t)
        \/ /\ Len(queue') = Len(queue) - 1
           /\ \E k \in 1..Len(queue) :
                /\ queue[k] = t
                /\ \A i \in 1..Len(queue') :
                      queue'[i] = IF i < k THEN queue[i] ELSE queue[i + 1]
    <3> DEFINE r == SX!RemoveFirst(queue, t)
    <3>1. \/ r = queue /\ \A i \in 1..Len(queue) : queue[i] # t
          \/ /\ r \in Seq(Task)
             /\ Len(r) = Len(queue) - 1
             /\ \E k \in 1..Len(queue) :
                  /\ queue[k] = t
                  /\ \A i \in 1..Len(r) :
                        r[i] = IF i < k THEN queue[i] ELSE queue[i + 1]
      BY <2>2, RemoveFirstProperties, ZenonT(60)
    <3>2. queue' = r
      BY <2>1
    <3> HIDE DEF r
    <3>3. CASE r = queue /\ \A i \in 1..Len(queue) : queue[i] # t
      BY <2>2, <3>2, <3>3 DEF InQueue
    <3>4. QED
      BY <3>1, <3>2, <3>3, SMTT(60)
  <2>5. ASSUME NEW u \in Task, InQueue(u)' PROVE InQueue(u)
    <3>1. CASE queue' = queue
      BY <2>5, <3>1 DEF InQueue
    <3>2. CASE queue' # queue
      <4>1. PICK k \in 1..Len(queue) : \A i \in 1..Len(queue') :
                queue'[i] = IF i < k THEN queue[i] ELSE queue[i + 1]
        BY <2>4, <3>2
      <4>2. PICK i \in 1..Len(queue') : queue'[i] = u
        BY <2>2, <2>5 DEF InQueue
      <4>3. Len(queue') = Len(queue) - 1
        BY <2>4, <3>2
      <4>4. i \in 1..Len(queue) /\ i + 1 \in 1..Len(queue)
        BY <2>2, <4>2, <4>3
      <4>5. QED
        BY <2>2, <4>1, <4>2, <4>4 DEF InQueue
    <3>3. QED
      BY <3>1, <3>2
  <2>6. requeued[t] = 0 => ~InQueue(t)'
    <3>1. CASE queue' = queue /\ ~InQueue(t)
      BY <3>1 DEF InQueue
    <3>2. CASE ~(queue' = queue /\ ~InQueue(t))
      BY <2>4, <3>2, OnlyCopy
    <3>3. QED
      BY <3>1, <3>2
  <2>7. TakenOnce'
    BY <2>1, <2>5 DEF Slot, TakenOnce
  <2>8. ASSUME NEW u \in Task, InQueue(u)' \/ current = u, u \notin index \/ InHistory(u)'
        PROVE  requeued[u] > 0
    <3>1. CASE u = t
      BY <3>1, <2>3, <2>6, <2>8 DEF TypeOK, QueueTypeOK
    <3>2. CASE u # t
      BY <3>2, <2>1, <2>5, <2>8, HistoryGrows DEF Slot, KnownUnlessRequeued
    <3>3. QED
      BY <3>1, <3>2
  <2>9. KnownUnlessRequeued'
    BY <2>1, <2>8 DEF KnownUnlessRequeued
  <2>10. SlotFreedUnlessCleared'
    BY <2>1 DEF Slot, SlotFreedUnlessCleared
  <2>11. QED
    BY <2>3, <2>7, <2>9, <2>10 DEF Slot
<1>3. QED
  BY <1>1, <1>2 DEF CancelTask

LEMMA SlotLater ==
    ASSUME TypeOK, TypeOK', Working, Slot, NEW t \in Task, RequeueTask(t),
           UNCHANGED <<phase, working>>
    PROVE  Slot'
<1>1. CASE UNCHANGED queueVars
  BY <1>1 DEF Slot, SlotMatches, TakenOnce, KnownUnlessRequeued, SlotFreedUnlessCleared,
              InQueue, InHistory, queueVars
<1>2. CASE t \in index /\ Len(queue) < MaxSize
  <2>1. /\ Requeues(t) /\ status' = [status EXCEPT ![t] = "queued"]
        /\ current' = IF current = t THEN None ELSE current
        /\ UNCHANGED <<index, completed>>
    BY <1>2 DEF RequeueTask, Requeues, Release
  <2>2. requeued'[t] > 0 /\ \A u \in Task : u # t => requeued'[u] = requeued[u]
    BY <2>1 DEF Requeues, TypeOK, QueueTypeOK
  <2>3. ASSUME NEW u \in Task, u # t, InQueue(u)' PROVE InQueue(u)
    BY <2>1, <2>3, QueueMembers
  <2>4. SlotMatches'
    BY <2>1, TaskQueueAssumption DEF Slot, SlotMatches, TypeOK, QueueTypeOK
  <2>5. ASSUME NEW u \in Task, InQueue(u)', requeued'[u] = 0
        PROVE  current' # u /\ working' # u
    BY <2>1, <2>2, <2>3, <2>5, TaskQueueAssumption DEF Slot, TakenOnce
  <2>6. ASSUME NEW u \in Task, InQueue(u)' \/ current' = u, u \notin index' \/ InHistory(u)'
        PROVE  requeued'[u] > 0
    BY <2>1, <2>2, <2>3, <2>6, TaskQueueAssumption DEF Slot, KnownUnlessRequeued, InHistory
  <2>7. SlotFreedUnlessCleared'
    BY <2>1, <2>2 DEF Slot, SlotFreedUnlessCleared, TypeOK, QueueTypeOK
  <2>8. QED
    BY <2>4, <2>5, <2>6, <2>7 DEF Slot, TakenOnce, KnownUnlessRequeued
<1>3. QED
  BY <1>1, <1>2 DEF RequeueTask

LEMMA SlotClear ==
    ASSUME TypeOK, Working, Slot, Clear
    PROVE  Slot'
<1>1. /\ UNCHANGED <<queue, current, status, requeued, phase, working>>
      /\ index' = index \ SX!ToSet(completed) /\ completed' = <<>>
  BY DEF Clear, ClearCompleted, loopVars
<1>2. ASSUME NEW u \in Task PROVE u \notin index' => u \notin index \/ InHistory(u)
  BY <1>1 DEF SX!ToSet, InHistory
<1>3. \A u \in Task : ~InHistory(u)'
  BY <1>1 DEF InHistory
<1>4. KnownUnlessRequeued'
  BY <1>1, <1>2, <1>3 DEF Slot, KnownUnlessRequeued, InQueue
<1>5. SlotMatches' /\ TakenOnce' /\ SlotFreedUnlessCleared'
  BY <1>1 DEF Slot, SlotMatches, TakenOnce, SlotFreedUnlessCleared, InQueue
<1>6. QED
  BY <1>4, <1>5 DEF Slot

LEMMA SlotStep ==
    TypeOK /\ TypeOK' /\ Working /\ Unseen /\ Order /\ Slot /\ [Next]_vars => Slot'
<1> SUFFICES ASSUME TypeOK, TypeOK', Working, Unseen, Order, Slot, [Next]_vars PROVE Slot'
  OBVIOUS
<1>1. Ordered
  BY OrderedIsServed DEF Order
<1>2. ASSUME NEW t \in Task, AddTask(t) PROVE Slot'
  BY <1>2, SlotAdd
<1>3. CASE StartTask
  BY <1>1, <1>3, SlotStart
<1>4. CASE TimeOut
  BY <1>4, SlotEnd DEF TimeOut
<1>5. CASE Finish
  <2>1. (phase = "returned") \in BOOLEAN /\ CompleteTask(working, phase = "returned")
    BY <1>5 DEF Finish
  <2>2. phase # "idle" /\ phase' = "idle" /\ working' = None
    BY <1>5 DEF Finish
  <2>3. QED
    BY <2>1, <2>2, SlotEnd
<1>6. ASSUME NEW t \in Task, NEW action \in Decision, Decide(t, action) PROVE Slot'
  <2>1. UNCHANGED <<phase, working>>
    BY <1>6 DEF Decide, loopVars
  <2>2. CASE UNCHANGED queueVars
    BY <2>1, <2>2 DEF Slot, SlotMatches, TakenOnce, KnownUnlessRequeued,
                      SlotFreedUnlessCleared, InQueue, InHistory, queueVars
  <2>3. QED
    BY <1>1, <1>6, <2>1, <2>2, SlotReject, SlotLater DEF Decide, ChangeQueue
<1>7. CASE Clear
  BY <1>7, SlotClear
<1>8. CASE UNCHANGED queueVars /\ UNCHANGED working /\ (phase' = "idle" <=> phase = "idle")
  BY <1>8 DEF Slot, SlotMatches, TakenOnce, KnownUnlessRequeued, SlotFreedUnlessCleared,
              InQueue, InHistory, queueVars
<1>9. CASE TimerFires \/ Resume \/ ExecutionEnds
  BY <1>8, <1>9 DEF TimerFires, Resume, ExecutionEnds, loopVars
<1>10. ASSUME NEW t \in Task, NEW action \in Decision, Deliver(t, action) PROVE Slot'
  BY <1>8, <1>10 DEF Deliver, loopVars
<1>11. QED
  BY <1>2, <1>3, <1>4, <1>5, <1>6, <1>7, <1>8, <1>9, <1>10 DEF Next, Progress, vars, loopVars

(* Between two tasks the slot is free, but for a requeued task that         *)
(* clear_completed has made unknown.                                        *)
THEOREM SlotIsFreed == Spec => []SlotFreedUnlessCleared
<1>1. Init => Slot
  BY TaskQueueAssumption
     DEF Init, QueueInit, Slot, SlotMatches, TakenOnce, KnownUnlessRequeued,
         SlotFreedUnlessCleared, InQueue, InHistory
<1>2. Slot => SlotFreedUnlessCleared
  BY DEF Slot
<1>3. QED
  BY <1>1, <1>2, InitialQueue, TypeStep, UnseenStep, OrderStep, SlotStep, TypeCorrect, PTL
     DEF Spec
-----------------------------------------------------------------------------
(* The promise about decisions. *)

(* Initially nobody asks and no decision is on its way. *)
LEMMA DeliveryInit == Init => Delivery!Init
  BY DEF Init, NoDecisions, Delivery!Init

(* What changes neither the loop, the future nor the handlers. *)
LEMMA DeliveryStutters ==
    ASSUME UNCHANGED <<phase, working, future, clicks>> PROVE UNCHANGED Delivery!vars
  BY DEF Delivery!vars

(* Every step of the pipeline is one of the promise, or changes nothing it  *)
(* speaks of. An arrival is for the task asked about because a registered   *)
(* future is that of the waiter, and the wait has no answer yet because its *)
(* future is open.                                                          *)
LEMMA DeliveryStep ==
    ASSUME TypeOK, Working, Waits, [Next]_vars
    PROVE  [Delivery!Next]_Delivery!vars
<1>0. None \notin Task
  BY TaskQueueAssumption
<1>a. "none" \notin Decision /\ "open" \notin Decision /\ "cancelled" \notin Decision
      /\ "approve" \in Decision
  BY DEF Decision
<1>1. CASE UNCHANGED <<phase, working, future, clicks>>
  BY <1>1, DeliveryStutters
<1>2. CASE StartTask
  <2>1. PICK t \in Task : working' = t
    BY <1>2 DEF StartTask
  <2>2. /\ phase = "idle" /\ clicks' = clicks
        /\ \/ phase' \in {"raised", "returned"}
           \/ phase' = "waiting" /\ future' = "open"
    BY <1>2 DEF StartTask
  <2>3. CASE phase' \in {"raised", "returned"}
    BY <2>2, <2>3 DEF Delivery!vars
  <2>4. CASE phase' = "waiting" /\ future' = "open"
    <3>1. Delivery!Ask(t)
      BY <1>a, <2>1, <2>2, <2>4 DEF Delivery!Ask
    <3>2. QED
      BY <3>1 DEF Delivery!Next
  <2>5. QED
    BY <2>2, <2>3, <2>4
<1>3. CASE TimerFires
  <2>1. /\ phase = "waiting" /\ future = "open" /\ future' = "cancelled"
        /\ UNCHANGED <<phase, working, clicks>>
    BY <1>3 DEF TimerFires, loopVars
  <2>2. QED
    BY <1>a, <2>1 DEF Delivery!vars
<1>4. CASE TimeOut
  <2>1. /\ phase = "waiting" /\ future = "cancelled" /\ phase' = "returned"
        /\ working \in Task /\ UNCHANGED <<working, clicks>>
    BY <1>4 DEF TimeOut, Working
  <2>2. Delivery!GiveUp
    BY <1>0, <1>a, <2>1 DEF Delivery!GiveUp, Delivery!StopAsking
  <2>3. QED
    BY <2>2 DEF Delivery!Next
<1>5. CASE Resume
  <2>1. /\ phase = "waiting" /\ future \in Decision /\ working \in Task
        /\ UNCHANGED <<working, clicks>>
        /\ phase' = IF future = "approve" THEN "executing" ELSE "returned"
    BY <1>5 DEF Resume, Working
  <2>2. CASE future = "approve"
    <3>1. Delivery!Execute
      BY <1>0, <2>1, <2>2 DEF Delivery!Execute, Delivery!StopAsking
    <3>2. QED
      BY <3>1 DEF Delivery!Next
  <2>3. CASE future # "approve"
    <3>1. Delivery!GiveUp
      BY <1>0, <2>1, <2>3 DEF Delivery!GiveUp, Delivery!StopAsking
    <3>2. QED
      BY <3>1 DEF Delivery!Next
  <2>4. QED
    BY <2>2, <2>3
<1>6. CASE ExecutionEnds
  <2>1. /\ phase = "executing" /\ phase' \in {"returned", "raised"} /\ working \in Task
        /\ UNCHANGED <<working, clicks>>
    BY <1>6 DEF ExecutionEnds, serverVars, Working
  <2>2. Delivery!ExecutionEnds
    BY <1>0, <2>1 DEF Delivery!ExecutionEnds
  <2>3. QED
    BY <2>2 DEF Delivery!Next
<1>7. CASE Finish
  <2>1. phase \in {"returned", "raised"} /\ phase' = "idle" /\ clicks' = clicks
    BY <1>7 DEF Finish
  <2>2. QED
    BY <2>1 DEF Delivery!vars
<1>8. ASSUME NEW t \in Task, NEW action \in Decision, Decide(t, action)
      PROVE  [Delivery!Next]_Delivery!vars
  <2>1. /\ clicks' = [clicks EXCEPT ![t][action] = clicks[t][action] + 1]
        /\ UNCHANGED <<phase, working, future>>
    BY <1>8 DEF Decide, loopVars
  <2>2. Delivery!Decide(t, action)
    BY <2>1 DEF Delivery!Decide
  <2>3. QED
    BY <2>2 DEF Delivery!Next
<1>9. ASSUME NEW t \in Task, NEW action \in Decision, Deliver(t, action)
      PROVE  [Delivery!Next]_Delivery!vars
  <2>1. /\ clicks[t][action] > 0
        /\ clicks' = [clicks EXCEPT ![t][action] = clicks[t][action] - 1]
        /\ UNCHANGED <<phase, working>>
        /\ future' = IF t \in pending /\ future = "open" THEN action ELSE future
    BY <1>9 DEF Deliver, loopVars
  <2>2. CASE t \in pending /\ future = "open"
    <3>1. phase = "waiting" /\ working = t
      BY <2>2 DEF Waits, PendingIsWaiting
    <3>2. Delivery!Arrive(t, action)
      BY <1>a, <2>1, <2>2, <3>1 DEF Delivery!Arrive
    <3>3. QED
      BY <3>2 DEF Delivery!Next
  <2>3. CASE ~(t \in pending /\ future = "open")
    <3>1. Delivery!Arrive(t, action)
      BY <2>1, <2>3 DEF Delivery!Arrive
    <3>2. QED
      BY <3>1 DEF Delivery!Next
  <2>4. QED
    BY <2>2, <2>3
<1>10. QED
  BY <1>1, <1>2, <1>3, <1>4, <1>5, <1>6, <1>7, <1>8, <1>9
     DEF Next, Progress, AddTask, Clear, vars, loopVars, serverVars

(* The pipeline with its queue, timers and the server's thread implements   *)
(* the promise of DecisionDelivery.                                         *)
THEOREM PipelineImplementsDelivery == Spec => ImplementsDelivery
<1>1. Init => Working /\ Waits
  BY DEF Init, Working, Waits, PendingIsWaiting, WaitEnds
<1>2. TypeOK /\ Working /\ Waits /\ [Next]_vars => [Delivery!Next]_Delivery!vars
  BY DeliveryStep
<1>3. QED
  BY <1>1, <1>2, DeliveryInit, TypeStep, WaitStep, TypeCorrect, PTL
     DEF Spec, ImplementsDelivery, Delivery!Spec
=============================================================================
