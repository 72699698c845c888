------------------------------ MODULE Gateway ------------------------------
(***************************************************************************)
(* The gateway process and its four workers: MessageRouter and the routes  *)
(* over the task store (TaskManager) and the queue (QueueManager), the     *)
(* dispatcher, and the analysis, decision, execution and recording         *)
(* workers, src/src/gateway and src/src/workers.                           *)
(*                                                                         *)
(* Every call between two of them is an HTTP request (or, in standalone    *)
(* mode, an awaited call followed by one). No handler changes state after  *)
(* it has awaited such a call, so a handler is one step that consumes the  *)
(* request and sends the next one. Requests are served in any order; one   *)
(* that fails is logged and never repeated.                                *)
(*                                                                         *)
(* The user clicks on the cards that were shown, as often and in whatever  *)
(* order; with PatientUser, only on a card whose last decision, if any,    *)
(* was "later" and has been processed.                                     *)
(***************************************************************************)
EXTENDS TaskManager

CONSTANTS
    MaxSize, NoTask,   \* see QueueManager
    PatientUser,       \* how the user behaves
    OperatorActions,   \* actions posted to /api/v1/decisions by hand
    MaxClicks,         \* bound: decisions made by user and operator
    MaxLosses,         \* bound: failed requests
    MaxRestarts        \* bound: gateway restarts

ASSUME GatewayAssumption ==
    /\ MaxSize \in Nat /\ NoTask \notin TaskId
    /\ PatientUser \in BOOLEAN
    /\ OperatorActions \subseteq {"approve", "reject", "later", "timeout"}
    /\ MaxClicks \in Nat /\ MaxLosses \in Nat /\ MaxRestarts \in Nat

VARIABLES
    queue, current, index, requeueCount, stats, placed,  \* see QueueManager
    network,    \* requests sent and not served yet
    pending,    \* decision worker: _pending
    cards,      \* Feishu: the tasks whose approval card was delivered
    rows,       \* Feishu: the records of the task table
    clicks,     \* history: the decisions made, in order
    runs,       \* history: executions carried out
    losses,     \* history: requests that failed
    restarts    \* history: gateway restarts

QM == INSTANCE QueueManager

queueVars == <<queue, current, index, requeueCount, stats, placed>>
feishuVars == <<cards, rows>>
historyVars == <<clicks, runs, losses, restarts>>
vars == <<storeVars, queueVars, network, pending, feishuVars, historyVars>>

(* A request: what is asked, about which task, caused by which decision     *)
(* (an index into clicks, 0 before there is one), with which argument.      *)
Request(kind, t, cause, arg) ==
    [kind |-> kind, task |-> t, cause |-> cause, arg |-> arg]

Kind == {"analyze", "analysis_done", "decision_request", "decision_callback",
         "decisions", "execute", "execution_done", "record", "recording_done"}

Message == [kind : Kind, task : TaskId, cause : 0..Len(clicks),
            arg : {"none", "task", "not_task", "success", "failure"} \cup Action]

(* What was executed or recorded, and by which decision. *)
Report == [task : TaskId, cause : 1..Len(clicks), outcome : {"success", "failure"}]

Serve(m, sent) == network' = (network \ {m}) \cup sent

Init ==
    /\ StoreInit
    /\ QM!Init
    /\ network = {}
    /\ pending = [t \in TaskId |-> "none"]
    /\ cards = {}
    /\ rows = {}
    /\ clicks = <<>>
    /\ runs = {}
    /\ losses = 0
    /\ restarts = 0

-----------------------------------------------------------------------------
(* Plausible bugs, each of which one of the properties below must catch.    *)

AnalyzeReportsTasksOnly(m) ==  \* no callback for what is not a task
    /\ m.kind = "analyze"
    /\ \/ Serve(m, {Request("analysis_done", m.task, 0, "task")})
       \/ Serve(m, {})
    /\ UNCHANGED <<storeVars, queueVars, pending, feishuVars, historyVars>>

ApproveHead(m) ==              \* executes what dequeue returned
    /\ QM!TryDequeue
    /\ UpdateTask(m.task, "executing", [detail[m.task] EXCEPT !.decision = "approve"])
    /\ Serve(m, {Request("execute", IF queue # <<>> THEN queue[1].task ELSE m.task,
                         m.cause, "none")})

LaterCancels(m) ==             \* takes the task out and does not put it back
    /\ QM!CancelTask(m.task) \/ (~QM!Registered(m.task) /\ UNCHANGED queueVars)
    /\ UpdateTask(m.task, "later", [detail[m.task] EXCEPT !.decision = "later"])
    /\ Serve(m, {})

LaterRecords(m) ==             \* falls through to the recording of a refusal
    /\ QM!TryRequeueTask(m.task)
    /\ UpdateTask(m.task, "later", [detail[m.task] EXCEPT !.decision = "later"])
    /\ Serve(m, {Request("record", m.task, m.cause, "failure")})

ExecutionDoneKeepsSlot(m) ==   \* no complete_current
    /\ UNCHANGED queueVars
    /\ UpdateTask(m.task, "recording", [detail[m.task] EXCEPT !.execution = m.arg])
    /\ Serve(m, {Request("record", m.task, m.cause, m.arg)})

ExecutionDoneFreesOnSuccess(m) ==
    /\ IF m.arg = "success" THEN QM!TryCompleteCurrent(TRUE) ELSE UNCHANGED queueVars
    /\ UpdateTask(m.task, "recording", [detail[m.task] EXCEPT !.execution = m.arg])
    /\ Serve(m, {Request("record", m.task, m.cause, m.arg)})

ExecutionDoneEndsTask(m) ==    \* the outcome is counted here and after recording
    /\ QM!TryCompleteCurrent(m.arg = "success")
    /\ UpdateTask(m.task, IF m.arg = "success" THEN "completed" ELSE "failed",
                  [detail[m.task] EXCEPT !.execution = m.arg])
    /\ Serve(m, {Request("record", m.task, m.cause, m.arg)})

NotFoundFreesSlot(m) ==        \* complete_current before the lookup of the task
    /\ ~Known(m.task)
    /\ Serve(m, {})
    /\ IF m.kind = "execution_done" THEN QM!TryCompleteCurrent(TRUE) ELSE UNCHANGED queueVars
    /\ UNCHANGED storeVars

RecordReportsRowsOnly(m) ==    \* returns before the callback when Feishu fails
    /\ m.kind = "record"
    /\ \/ /\ rows' = rows \cup {[task |-> m.task, cause |-> m.cause, outcome |-> m.arg]}
          /\ Serve(m, {Request("recording_done", m.task, m.cause, m.arg)})
       \/ Serve(m, {}) /\ UNCHANGED rows
    /\ UNCHANGED <<storeVars, queueVars, pending, cards, historyVars>>

RecordingDoneAlwaysCompletes(m) ==  \* the default of get("success", True)
    /\ UpdateTask(m.task, "completed", [detail[m.task] EXCEPT !.recording = m.arg])
    /\ Serve(m, {})
    /\ UNCHANGED queueVars

-----------------------------------------------------------------------------
(* Gateway: intake and analysis *)

(* route_new_message: RECEIVED becomes FILTERING before the first await.    *)
RouteNewMessage(t) == network' = network \cup {Request("analyze", t, 0, "none")}

(* POST /listener/msg with a message the dedup cache let through. *)
ReceiveMessage(t) ==
    /\ CreateTask(t, "filtering")
    /\ RouteNewMessage(t)
    /\ UNCHANGED <<queueVars, pending, feishuVars, historyVars>>

(* What the filter and the analyzer make of a message; "duplicate" is       *)
(* reported as not_task.                                                    *)
Verdict == {"task", "not_task"}

(* POST /worker/analyze *)
Analyze(m) ==
    /\ m.kind = "analyze"
    /\ \E verdict \in Verdict : Serve(m, {Request("analysis_done", m.task, 0, verdict)})
    /\ UNCHANGED <<storeVars, queueVars, pending, feishuVars, historyVars>>

(* The routes answer 404 for a task the store does not hold. *)
NotFound(m) ==
    /\ ~Known(m.task)
    /\ Serve(m, {})
    /\ UNCHANGED <<storeVars, queueVars>>

(* route_analysis_done. When the queue is full, enqueue raises after        *)
(* set_analysis_result: the task keeps its status and nobody is told.       *)
AnalysisDone(m) ==
    LET t == m.task
        analysed == [detail[t] EXCEPT !.analysed = TRUE]
    IN
    \/ /\ m.arg = "not_task"
       /\ UpdateTask(t, "cancelled", detail[t])
       /\ Serve(m, {})
       /\ UNCHANGED queueVars
    \/ /\ m.arg = "task"
       /\ QM!TryEnqueue(t, TRUE)
       /\ UpdateTask(t, "awaiting_confirmation", analysed)
       /\ Serve(m, {Request("decision_request", t, 0, "none")})
    \/ /\ m.arg = "task"
       /\ QM!TryEnqueue(t, FALSE)
       /\ SetDetail(t, analysed)
       /\ Serve(m, {})

(* POST /analysis/done *)
RouteAnalysisDone(m) ==
    /\ m.kind = "analysis_done"
    /\ NotFound(m) \/ (Known(m.task) /\ AnalysisDone(m))
    /\ UNCHANGED <<pending, feishuVars, historyVars>>

-----------------------------------------------------------------------------
(* Decision worker and user *)

(* POST /worker/decision/request: the result of send_approval_card is       *)
(* ignored.                                                                 *)
DecisionRequest(m) ==
    /\ m.kind = "decision_request"
    /\ cards' \in {cards, cards \cup {m.task}}
    /\ pending' = [pending EXCEPT ![m.task] = "open"]
    /\ Serve(m, {})
    /\ UNCHANGED <<storeVars, queueVars, rows, historyVars>>

(* _check_timeout wakes up: an entry that is not confirmed is dropped. *)
TimerExpires(t) ==
    /\ pending[t] = "open"
    /\ pending' = [pending EXCEPT ![t] = "none"]
    /\ UNCHANGED <<storeVars, queueVars, network, feishuVars, historyVars>>

Deciding(t) == \E m \in network :
    m.task = t /\ m.kind \in {"decision_callback", "decisions"}

(* A button of t's card is pressed; POST /feishu/callback passes it on to   *)
(* the decision worker without looking at the task.                         *)
Click(t, action) ==
    /\ t \in cards
    /\ Len(clicks) < MaxClicks
    /\ PatientUser =>
          /\ ~Deciding(t)
          /\ \A i \in DOMAIN clicks : clicks[i].task = t => clicks[i].action = "later"
    /\ clicks' = Append(clicks, [task |-> t, action |-> action])
    /\ network' = network \cup
          {Request("decision_callback", t, Len(clicks) + 1, action)}
    /\ UNCHANGED <<storeVars, queueVars, pending, feishuVars, runs, losses, restarts>>

(* handle_decision_callback *)
Confirm(t) == pending' = [pending EXCEPT ![t] = IF @ = "open" THEN "confirmed" ELSE @]

(* POST /worker/decision/callback: the gateway is told whether or not there *)
(* is an entry to confirm.                                                  *)
DecisionCallback(m) ==
    /\ m.kind = "decision_callback"
    /\ Confirm(m.task)
    /\ Serve(m, {Request("decisions", m.task, m.cause, m.arg)})
    /\ UNCHANGED <<storeVars, queueVars, feishuVars, historyVars>>

(* Somebody posts a decision to /api/v1/decisions by hand. *)
OperatorPost(t, action) ==
    /\ status[t] # "absent"
    /\ Len(clicks) < MaxClicks
    /\ clicks' = Append(clicks, [task |-> t, action |-> action])
    /\ network' = network \cup {Request("decisions", t, Len(clicks) + 1, action)}
    /\ UNCHANGED <<storeVars, queueVars, pending, feishuVars, runs, losses, restarts>>

-----------------------------------------------------------------------------
(* Gateway: decisions. The four branches of route_decision.                 *)

(* The queue hands out whichever entry is first, or nothing: the answer of  *)
(* dequeue is ignored and it is m.task that is executed.                    *)
Approve(m) ==
    /\ QM!TryDequeue
    /\ UpdateTask(m.task, "executing", [detail[m.task] EXCEPT !.decision = "approve"])
    /\ Serve(m, {Request("execute", m.task, m.cause, "none")})

(* complete_current ends whichever task holds the slot. *)
Reject(m) ==
    /\ QM!TryCompleteCurrent(FALSE)
    /\ UpdateTask(m.task, "rejected", [detail[m.task] EXCEPT !.decision = "reject"])
    /\ Serve(m, {Request("record", m.task, m.cause, "failure")})

Later(m) ==
    /\ QM!TryRequeueTask(m.task)
    /\ UpdateTask(m.task, "later", [detail[m.task] EXCEPT !.decision = "later"])
    /\ Serve(m, {})

Timeout(m) ==
    /\ QM!TryTimeoutTask(m.task)
    /\ UpdateTask(m.task, "timeout", [detail[m.task] EXCEPT !.decision = "timeout"])
    /\ Serve(m, {Request("record", m.task, m.cause, "failure")})

(* POST /decisions *)
RouteDecision(m) ==
    /\ m.kind = "decisions"
    /\ \/ NotFound(m)
       \/ Known(m.task) /\ m.arg = "approve" /\ Approve(m)
       \/ Known(m.task) /\ m.arg = "reject" /\ Reject(m)
       \/ Known(m.task) /\ m.arg = "later" /\ Later(m)
       \/ Known(m.task) /\ m.arg = "timeout" /\ Timeout(m)
    /\ UNCHANGED <<pending, feishuVars, historyVars>>

-----------------------------------------------------------------------------
(* Execution and recording *)

(* POST /worker/execution/request: the executor returns, raises or times    *)
(* out; each ends in POST /execution/done.                                  *)
Execute(m) ==
    /\ m.kind = "execute"
    /\ \E outcome \in {"success", "failure"} :
          /\ runs' = runs \cup {[task |-> m.task, cause |-> m.cause, outcome |-> outcome]}
          /\ Serve(m, {Request("execution_done", m.task, m.cause, outcome)})
    /\ UNCHANGED <<storeVars, queueVars, pending, feishuVars, clicks, losses, restarts>>

(* route_execution_done: complete_current ends whichever task holds the slot. *)
ExecutionDone(m) ==
    /\ QM!TryCompleteCurrent(m.arg = "success")
    /\ UpdateTask(m.task, "recording", [detail[m.task] EXCEPT !.execution = m.arg])
    /\ Serve(m, {Request("record", m.task, m.cause, m.arg)})

(* POST /execution/done *)
RouteExecutionDone(m) ==
    /\ m.kind = "execution_done"
    /\ NotFound(m) \/ (Known(m.task) /\ ExecutionDone(m))
    /\ UNCHANGED <<pending, feishuVars, historyVars>>

(* POST /worker/recording/request: the outcome reported back is the one     *)
(* that was to be recorded, whether or not Feishu took the row.             *)
Record(m) ==
    /\ m.kind = "record"
    /\ rows' \in {rows, rows \cup {[task |-> m.task, cause |-> m.cause, outcome |-> m.arg]}}
    /\ Serve(m, {Request("recording_done", m.task, m.cause, m.arg)})
    /\ UNCHANGED <<storeVars, queueVars, pending, cards, historyVars>>

(* route_recording_done *)
RecordingDone(m) ==
    /\ UpdateTask(m.task, IF m.arg = "success" THEN "completed" ELSE "failed",
                  [detail[m.task] EXCEPT !.recording = m.arg])
    /\ Serve(m, {})
    /\ UNCHANGED queueVars

(* POST /recording/done *)
RouteRecordingDone(m) ==
    /\ m.kind = "recording_done"
    /\ NotFound(m) \/ (Known(m.task) /\ RecordingDone(m))
    /\ UNCHANGED <<pending, feishuVars, historyVars>>

-----------------------------------------------------------------------------
(* Faults *)

(* A request fails: it is logged at the sender and not repeated. *)
Lose(m) ==
    /\ losses < MaxLosses
    /\ losses' = losses + 1
    /\ Serve(m, {})
    /\ UNCHANGED <<storeVars, queueVars, pending, feishuVars, clicks, runs, restarts>>

(* The gateway process restarts: tasks and queue are gone, the workers and  *)
(* the requests on their way are not.                                       *)
Restart ==
    /\ restarts < MaxRestarts
    /\ restarts' = restarts + 1
    /\ ForgetAll
    /\ queue' = <<>>
    /\ current' = NoTask
    /\ index' = [t \in TaskId |-> 0]
    /\ requeueCount' = [t \in TaskId |-> 0]
    /\ stats' = [c \in DOMAIN stats |-> 0]
    /\ placed' = 0
    /\ UNCHANGED <<network, pending, feishuVars, clicks, runs, losses>>

-----------------------------------------------------------------------------

Deliver ==
    \E m \in network :
        \/ Analyze(m)
        \/ RouteAnalysisDone(m)
        \/ DecisionRequest(m)
        \/ DecisionCallback(m)
        \/ RouteDecision(m)
        \/ Execute(m)
        \/ RouteExecutionDone(m)
        \/ Record(m)
        \/ RouteRecordingDone(m)

Next ==
    \/ Deliver
    \/ \E t \in TaskId :
         \/ ReceiveMessage(t)
         \/ TimerExpires(t)
         \/ \E action \in {"approve", "reject", "later"} : Click(t, action)
         \/ \E action \in OperatorActions : OperatorPost(t, action)
    \/ \E m \in network : Lose(m)
    \/ Restart

Spec == Init /\ [][Next]_vars

(* Requests are served and timers go off; nobody has to click or to write.  *)
FairSpec ==
    /\ Spec
    /\ WF_vars(Deliver)
    /\ \A t \in TaskId : WF_vars(TimerExpires(t))
-----------------------------------------------------------------------------

TypeOK ==
    /\ StoreTypeOK
    /\ QM!TypeOK
    /\ network \subseteq Message
    /\ pending \in [TaskId -> {"none", "open", "confirmed"}]
    /\ cards \subseteq TaskId
    /\ clicks \in Seq([task : TaskId, action : Action])
    /\ rows \subseteq Report /\ runs \subseteq Report
    /\ losses \in Nat /\ restarts \in Nat

(* Nothing is executed that was not approved, under that very task id, and  *)
(* found to be a task by the analysis: the approval passes three processes  *)
(* and a queue that hands out other ids before the executor sees it.        *)
ApprovedBeforeExecuted ==
    \A r \in runs :
        /\ clicks[r.cause] = [task |-> r.task, action |-> "approve"]
        /\ Known(r.task) => detail[r.task].analysed

(* A task that ends as completed was executed successfully, and one that    *)
(* ends as failed was executed unsuccessfully, rejected or timed out.       *)
EndsForAReason ==
    \A t \in TaskId :
        /\ status[t] = "completed" =>
              \E r \in runs : r.task = t /\ r.outcome = "success"
        /\ status[t] = "failed" =>
              \/ \E r \in runs : r.task = t /\ r.outcome = "failure"
              \/ \E i \in DOMAIN clicks :
                    clicks[i].task = t /\ clicks[i].action \in {"reject", "timeout"}

(* While the slot is taken, some execution is on its way or going on that   *)
(* will release it, unless a request failed or its task was forgotten: the  *)
(* slot may hold the wrong task, but it is not held for nothing.            *)
BusyMeansExecuting ==
    (current # NoTask /\ losses = 0 /\ \A t \in TaskId : status[t] # "forgotten")
        => \E m \in network : m.kind \in {"execute", "execution_done"}

(* route_decision ignores that requeue_task may refuse. A deferred task is  *)
(* in no queue only if some task was decided otherwise: a full queue alone, *)
(* repeated deferrals and the restarts of the gateway never drop it; an     *)
(* approval, which takes the head and later unregisters whatever holds the  *)
(* slot, a rejection or a timeout may, also when they are about another.    *)
DeferredLostForAReason ==
    \A t \in TaskId :
        (status[t] = "later" /\ \A i \in DOMAIN queue : queue[i].task # t)
            => \E i \in DOMAIN clicks : clicks[i].action # "later"

(* Only ended tasks are pushed out of the store. *)
ForgetsOnlyEnded ==
    [][\A t \in TaskId :
          (Known(t) /\ ~Known(t)' /\ restarts' = restarts)
              => status[t] \in Terminal]_vars

(* An answer about a task the gateway has forgotten (it restarted, or       *)
(* cleaned up) changes neither the store nor the queue.                     *)
LateAnswersIgnored ==
    [][\A m \in network :
          (m \notin network' /\ ~Known(m.task))
              => UNCHANGED <<storeVars, queueVars>>]_vars

-----------------------------------------------------------------------------
(* Under a patient user and without faults. *)

Lifecycle == INSTANCE TaskLifecycle WITH outcome <- [t \in TaskId |-> detail[t].execution]

(* The gateway implements the life of a task that TaskLifecycle describes:  *)
(* the documents' diagram and the one move outside it.                      *)
ImplementsLifecycle == Lifecycle!Spec

(* A rejected task does not become failed: by docs/ARCHITECTURE_V2.md:766   *)
(* it is completed once the rejection has been recorded, and the diagram of *)
(* README.md ends at rejected. router.py:171-174 marks it failed.           *)
RejectionIsNoFailure ==
    \A t \in TaskId : detail[t].decision = "reject" => status[t] # "failed"

(* A task leaves at most one row in the Feishu table. *)
OneRowPerTask == \A r, s \in rows : r.task = s.task => r = s

(* Each ended task is counted once, as completed or as failed. *)
CountedOnce ==
    LET ended == tmStats.completed + tmStats.failed IN
    /\ Cardinality({t \in TaskId : status[t] \in {"completed", "failed"}}) <= ended
    /\ ended <= Cardinality({t \in TaskId :
                                status[t] \in {"completed", "failed", "forgotten"}})

(* Every task that is executed or rejected ends. *)
DecidedEnds ==
    \A t \in TaskId :
        status[t] \in {"executing", "recording", "rejected"}
            ~> status[t] \in {"completed", "failed", "forgotten"}

(* The slot does not stay taken. *)
SlotFreed == current # NoTask ~> current = NoTask

(* Every message is classified; a task that stays without a card was        *)
(* analysed and met a full queue.                                           *)
MessageClassified ==
    \A t \in TaskId :
        status[t] = "filtering" ~> status[t] # "filtering" \/ detail[t].analysed

-----------------------------------------------------------------------------
(* What the documentation says and the code does not do. *)

(* docs/ARCHITECTURE.md: a serial queue, one task is processed at a time.   *)
SerialExecution ==
    Cardinality({t \in TaskId : status[t] = "executing"}) <= 1
=============================================================================
