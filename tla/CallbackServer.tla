--------------------------- MODULE CallbackServer ---------------------------
(***************************************************************************)
(* The single-process pipeline: TaskQueue.process_async takes tasks off    *)
(* the queue one at a time, the processor asks for a decision and waits in *)
(* CallbackServer.wait_for_decision, and decisions reach the server        *)
(* (src/src/callback_server) by HTTP.                                      *)
(*                                                                         *)
(* The server runs on a thread of its own (start_callback_server of the    *)
(* orchestrator), so a decision changes the queue in one step and reaches  *)
(* the waiter in another. The processor may return or raise, as it likes:  *)
(* what process_async makes of that is modelled, not what an execution     *)
(* does. No decision callback is registered.                               *)
(***************************************************************************)
EXTENDS TaskQueue

CONSTANTS
    MaxClicks,  \* bound: decisions sent to the server
    MaxClears   \* bound: calls of clear_completed

ASSUME CallbackServerAssumption == MaxClicks \in Nat /\ MaxClears \in Nat

VARIABLES
    phase,      \* where process_async and the processor stand
    working,    \* the task they work on
    pending,    \* _pending_decisions, as the set of its keys
    future,     \* the future of wait_for_decision, then what that returned
    clicks,     \* how many handlers of a decision have changed the queue and go on
    sent,       \* history: the number of decisions sent
    decided,    \* history: how often each task was decided how
    executions, \* history: executions of each task
    clears      \* history: calls of clear_completed

loopVars == <<phase, working>>
serverVars == <<pending, future, clicks, sent, decided>>
vars == <<queueVars, loopVars, serverVars, executions, clears>>

Phase == {"idle", "waiting", "executing", "returned", "raised"}

Decision == {"approve", "reject", "later", "timeout"}

NoDecisions == [t \in Task |-> [d \in Decision |-> 0]]

Init ==
    /\ QueueInit
    /\ phase = "idle" /\ working = None
    /\ pending = {} /\ future = "none" /\ clicks = NoDecisions /\ sent = 0
    /\ decided = NoDecisions
    /\ executions = [t \in Task |-> 0]
    /\ clears = 0

-----------------------------------------------------------------------------
(* Plausible bugs. *)

ResumeUnlessRejected ==          \* executes after anything but a rejection
    /\ phase = "waiting" /\ future \in Decision
    /\ phase' = IF future = "reject" THEN "returned" ELSE "executing"
    /\ executions' = [executions EXCEPT ![working] = IF future = "reject" THEN @ ELSE @ + 1]
    /\ UNCHANGED <<queueVars, working, pending, future, clicks, sent, decided, clears>>

TimeOutKeepsPending ==           \* the entry of _pending_decisions stays
    /\ phase = "waiting" /\ future = "cancelled"
    /\ future' = "timeout"
    /\ phase' = "returned"
    /\ TimeoutTask(working)
    /\ UNCHANGED <<working, pending, clicks, sent, decided, executions, clears>>

-----------------------------------------------------------------------------
(* The messages' side. *)

AddTask(t) ==
    /\ Enqueue(t)
    /\ UNCHANGED <<loopVars, serverVars, executions, clears>>

-----------------------------------------------------------------------------
(* process_async and the processor. *)

(* dequeue returns a task; the processor raises before it asks, or          *)
(* registers a future for the decision and waits; wait_for_decision returns *)
(* at once if somebody waits for that task already.                         *)
StartTask ==
    /\ phase = "idle"
    /\ \E t \in Task : Dequeue(t) /\ working' = t
    /\ \/ phase' = "raised" /\ UNCHANGED <<pending, future>>
       \/ /\ phase' = IF working' \in pending THEN "returned" ELSE "waiting"
          /\ future' = IF working' \in pending THEN "none" ELSE "open"
          /\ pending' = pending \cup {working'}
    /\ UNCHANGED <<clicks, sent, decided, executions, clears>>

(* asyncio.wait_for's timer cancels a future without a result; the waiter   *)
(* learns of it when it runs again.                                         *)
TimerFires ==
    /\ phase = "waiting" /\ future = "open"
    /\ future' = "cancelled"
    /\ UNCHANGED <<queueVars, loopVars, pending, clicks, sent, decided, executions, clears>>

TimeOut ==
    /\ phase = "waiting" /\ future = "cancelled"
    /\ future' = "timeout"
    /\ phase' = "returned"
    /\ pending' = pending \ {working}
    /\ TimeoutTask(working)
    /\ UNCHANGED <<working, clicks, sent, decided, executions, clears>>

(* The waiter has its decision: an approval is executed, any other ends the *)
(* processor's work with a normal return.                                   *)
Resume ==
    /\ phase = "waiting" /\ future \in Decision
    /\ phase' = IF future = "approve" THEN "executing" ELSE "returned"
    /\ executions' = [executions EXCEPT ![working] = IF future = "approve" THEN @ + 1 ELSE @]
    /\ UNCHANGED <<queueVars, working, pending, future, clicks, sent, decided, clears>>

ExecutionEnds ==
    /\ phase = "executing"
    /\ phase' \in {"returned", "raised"}
    /\ UNCHANGED <<queueVars, working, serverVars, executions, clears>>

(* A processor that returned has succeeded, one that raised has failed.     *)
Finish ==
    /\ phase \in {"returned", "raised"}
    /\ CompleteTask(working, phase = "returned")
    /\ phase' = "idle" /\ working' = None /\ future' = "none"
    /\ UNCHANGED <<pending, clicks, sent, decided, executions, clears>>

-----------------------------------------------------------------------------
(* The callback server. *)

(* _handle_decision up to the waiter: what the action does to the queue.    *)
ChangeQueue(t, action) ==
    \/ action = "reject" /\ CancelTask(t)
    \/ action = "later" /\ RequeueTask(t)
    \/ action \in {"approve", "timeout"} /\ UNCHANGED queueVars

(* A decision about any task that was ever shown arrives, at any time.      *)
Decide(t, action) ==
    /\ sent < MaxClicks /\ status[t] # "new"
    /\ ChangeQueue(t, action)
    /\ sent' = sent + 1
    /\ clicks' = [clicks EXCEPT ![t][action] = @ + 1]
    /\ decided' = [decided EXCEPT ![t][action] = @ + 1]
    /\ UNCHANGED <<loopVars, pending, future, executions, clears>>

(* Plausible bug. *)
DeliverToTheWaiting(t, action) ==        \* the future is not looked up by the task's id
    /\ clicks[t][action] > 0
    /\ clicks' = [clicks EXCEPT ![t][action] = @ - 1]
    /\ pending' = {}
    /\ future' = IF pending # {} /\ future = "open" THEN action ELSE future
    /\ UNCHANGED <<queueVars, loopVars, sent, decided, executions, clears>>

(* The rest of _handle_decision: the future registered for the task, if any, *)
(* is removed and gets the action; set_result raises if it was cancelled.   *)
Deliver(t, action) ==
    /\ clicks[t][action] > 0
    /\ clicks' = [clicks EXCEPT ![t][action] = @ - 1]
    /\ pending' = pending \ {t}
    /\ future' = IF t \in pending /\ future = "open" THEN action ELSE future
    /\ UNCHANGED <<queueVars, loopVars, sent, decided, executions, clears>>

Clear ==
    /\ clears < MaxClears
    /\ clears' = clears + 1
    /\ ClearCompleted
    /\ UNCHANGED <<loopVars, serverVars, executions>>

-----------------------------------------------------------------------------

Progress == StartTask \/ TimerFires \/ TimeOut \/ Resume \/ ExecutionEnds \/ Finish

Next ==
    \/ \E t \in Task : AddTask(t)
    \/ Progress
    \/ \E t \in Task, action \in Decision : Decide(t, action) \/ Deliver(t, action)
    \/ Clear

Spec == Init /\ [][Next]_vars

(* The loop runs, a wait has a timer, and an execution has a time limit.    *)
FairSpec == Spec /\ WF_vars(Progress)

-----------------------------------------------------------------------------

TypeOK ==
    /\ QueueTypeOK
    /\ phase \in Phase /\ working \in Task \cup {None}
    /\ pending \subseteq Task
    /\ future \in Decision \cup {"none", "open", "cancelled"}
    /\ clicks \in [Task -> [Decision -> Nat]] /\ sent \in 0..MaxClicks
    /\ decided \in [Task -> [Decision -> Nat]] /\ executions \in [Task -> Nat]
    /\ clears \in Nat

(* A decision can only reach the task that waits for one: the server has a  *)
(* registered future only for the task being worked on, in its own wait,    *)
(* whichever decisions, timers and late handlers ran before.                *)
PendingIsWaiting == pending # {} => phase = "waiting" /\ pending = {working}

(* The queue stays within max_size under enqueue and requeue, and no new    *)
(* task overtakes another one of at least its rank, requeued or not.        *)
ServedInOrder ==
    /\ Len(queue) <= MaxSize
    /\ \A i, j \in DOMAIN queue :
          (i < j /\ requeued[queue[j]] = 0) =>
              \/ Rank(queue[i]) > Rank(queue[j])
              \/ /\ Rank(queue[i]) = Rank(queue[j])
                 /\ \/ requeued[queue[i]] > 0
                    \/ arrival[queue[i]] < arrival[queue[j]]

(* Between two tasks the slot is free, so that dequeue can go on; it is not *)
(* only when clear_completed has made a task unknown that was queued again. *)
SlotFreedUnlessCleared ==
    (phase = "idle" /\ current # None) => current \notin index /\ requeued[current] > 0

(* An approval is used up: however often a task is deferred, timed out and  *)
(* asked about again, it is executed at most as often as it was approved.   *)
OneExecutionPerApproval == \A t \in Task : executions[t] <= decided[t]["approve"]

(* A queued task is taken off the queue in the end, unless the slot is      *)
(* blocked as SlotFreedUnlessCleared describes.                             *)
QueuedIsServed == \A t \in Task : InQueue(t) ~> (working = t \/ ~InQueue(t) \/ clears > 0)

(* Decisions are delivered as DecisionDelivery promises: to the waiter of   *)
(* their own task or to nobody, once at most, and an execution starts from  *)
(* a wait that got an approval (callback_server/__init__.py:126-131,        *)
(* 213-227).                                                                *)
Delivery == INSTANCE DecisionDelivery WITH
    asking    <- IF phase = "waiting" THEN working ELSE None,
    answer    <- IF phase = "waiting" /\ future \in Decision THEN future ELSE "none",
    onTheWay  <- clicks,
    executing <- IF phase = "executing" THEN working ELSE None

ImplementsDelivery == Delivery!Spec
=============================================================================
