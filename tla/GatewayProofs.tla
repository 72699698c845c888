--------------------------- MODULE GatewayProofs ---------------------------
(***************************************************************************)
(* Proofs about the gateway and its workers: for any set of tasks, sizes   *)
(* of store and queue, and any number of decisions, lost requests and      *)
(* restarts. They go from what every request says of its task and of the   *)
(* decision behind it (BaseInv) to what follows for executions, ends, slot *)
(* and queue; and, for a user who decides once and a process that is not   *)
(* restarted, to one request per task (WayInv) and the life of a task.     *)
(***************************************************************************)
EXTENDS Gateway, TLAPS, FiniteSetTheorems

-----------------------------------------------------------------------------
(* What is true of the tasks that requests, cards and executions mention.   *)

DecisionKinds == {"decision_callback", "decisions"}

ExecutionKinds == {"execute", "execution_done"}

RecordingKinds == {"record", "recording_done"}

(* Only tasks that exist or existed are mentioned. *)
MentionInv ==
    /\ \A m \in network : status[m.task] # "absent"
    /\ \A t \in cards : status[t] # "absent"
    /\ \A r \in runs : status[r.task] # "absent"

(* What the answers carry: those after a decision name it, and those after  *)
(* an execution or a refusal have its outcome.                              *)
Shaped(m) ==
    /\ m.kind \in DecisionKinds \cup ExecutionKinds \cup RecordingKinds => m.cause # 0
    /\ m.kind \in DecisionKinds => m.arg \in Action
    /\ m.kind \in {"execution_done"} \cup RecordingKinds => m.arg \in {"success", "failure"}

ShapeInv == \A m \in network : Shaped(m)

(* A request to decide or to execute carries the decision that caused it.   *)
CauseInv ==
    /\ \A m \in network :
          /\ m.kind \in DecisionKinds =>
                /\ m.cause \in DOMAIN clicks
                /\ clicks[m.cause] = [task |-> m.task, action |-> m.arg]
          /\ m.kind \in ExecutionKinds =>
                /\ m.cause \in DOMAIN clicks
                /\ clicks[m.cause] = [task |-> m.task, action |-> "approve"]
    /\ \A r \in runs : clicks[r.cause] = [task |-> r.task, action |-> "approve"]

Analysed(t) == Known(t) => detail[t].analysed

(* A request that may lead to an execution, or carries one. *)
OfApproved(m) ==
    \/ m.kind \in {"decision_request", "decision_callback"} \cup ExecutionKinds
    \/ m.kind = "decisions" /\ m.arg = "approve"

(* What may be approved or was approved has been analysed. *)
AnalysedInv ==
    /\ \A m \in network : OfApproved(m) => Analysed(m.task)
    /\ \A t \in cards : Analysed(t)
    /\ \A r \in runs : Analysed(r.task)

(* There is a reason to record outcome for t. *)
Explained(t, outcome) ==
    \/ \E r \in runs : r.task = t /\ r.outcome = outcome
    \/ /\ outcome = "failure"
       /\ \E i \in DOMAIN clicks :
             clicks[i].task = t /\ clicks[i].action \in {"reject", "timeout"}

(* The outcome an answer carries is that of an execution, or of a refusal. *)
ReasonInv ==
    /\ \A m \in network :
          /\ m.kind = "execution_done" =>
                \E r \in runs : r.task = m.task /\ r.outcome = m.arg
          /\ m.kind \in RecordingKinds => m.arg \in {"success", "failure"} /\ Explained(m.task, m.arg)
    /\ \A t \in TaskId :
          /\ status[t] = "completed" => Explained(t, "success")
          /\ status[t] = "failed" => Explained(t, "failure")

AllLater == \A i \in DOMAIN clicks : clicks[i].action = "later"

Announced(t) ==
    \/ t \in cards
    \/ \E m \in network : m.task = t /\ m.kind \in {"decision_request"} \cup DecisionKinds

Queued(t) == \E i \in DOMAIN queue : queue[i].task = t

(* As long as everybody says "later", nothing leaves the queue. *)
DeferInv ==
    AllLater => \A t \in TaskId :
        /\ Known(t) /\ Announced(t) => Queued(t)
        /\ status[t] = "later" => Queued(t)

-----------------------------------------------------------------------------
(* One task's way, when the user decides once and nothing is restarted.     *)

(* The step of a task's life that a request belongs to. *)
Awaited(m) ==
    LET s == status[m.task] IN
    /\ m.kind \in {"analyze", "analysis_done"} => s = "filtering"
    /\ m.kind = "decision_request" => s = "awaiting_confirmation"
    /\ m.kind \in DecisionKinds => s \in {"awaiting_confirmation", "later"}
    /\ m.kind \in ExecutionKinds => s = "executing"
    /\ m.kind \in RecordingKinds =>
          \/ s = "recording" /\ detail[m.task].execution = m.arg
          \/ s \in {"rejected", "forgotten"} /\ m.arg = "failure"

(* At most one request is about a task, and it is the one its status asks   *)
(* for; a card that may still be clicked belongs to a task that waits.      *)
WayInv ==
    /\ \A m, n \in network : m.task = n.task => m = n
    /\ \A m \in network : Awaited(m)
    /\ \A t \in cards :
          (\A i \in DOMAIN clicks : clicks[i].task = t => clicks[i].action = "later")
              => /\ status[t] \in {"awaiting_confirmation", "later"}
                 /\ \A m \in network : m.task = t => m.kind \in DecisionKinds
    /\ \A t \in TaskId :
          /\ status[t] # "timeout"
          /\ status[t] \in {"absent", "filtering", "awaiting_confirmation", "later",
                            "executing", "rejected"} => detail[t].execution = "none"
    /\ \A i \in DOMAIN clicks : clicks[i].action # "timeout"

(* A task that has a row is not recorded again. *)
RowInv ==
    /\ OneRowPerTask
    /\ \A r \in rows :
          /\ status[r.task] \in {"recording", "rejected", "completed", "failed", "forgotten"}
          /\ \A m \in network : m.task = r.task => m.kind = "recording_done"

-----------------------------------------------------------------------------
(* Types. *)

(* The initial state has the types. *)
LEMMA InitTypeOK == Init => TypeOK
<1> SUFFICES ASSUME Init PROVE TypeOK
  OBVIOUS
<1>1. StoreTypeOK
  BY DEF Init, StoreInit, StoreTypeOK, Detail, NoDetail, Outcome
<1>2. QM!TypeOK
  BY DEF Init, QM!Init, QM!TypeOK
<1>3. QED
  BY <1>1, <1>2 DEF Init, TypeOK

(* Every operation of the queue the routes call keeps the queue's types. *)
LEMMA QueueTypes ==
    ASSUME QM!TypeOK,
           \/ UNCHANGED queueVars
           \/ \E t \in TaskId, b \in BOOLEAN :
                 QM!TryEnqueue(t, b) \/ QM!TryRequeueTask(t) \/ QM!TryTimeoutTask(t)
           \/ QM!TryDequeue
           \/ \E b \in BOOLEAN : QM!TryCompleteCurrent(b)
    PROVE  QM!TypeOK'
<1>0. /\ queue \in Seq(QM!Item) /\ current \in TaskId \cup {NoTask}
      /\ index \in [TaskId -> Nat] /\ requeueCount \in [TaskId -> Nat]
      /\ stats \in [QM!Counter -> Nat] /\ placed \in Nat
  BY DEF QM!TypeOK
<1>1. CASE UNCHANGED queueVars
  BY <1>1 DEF queueVars, QM!TypeOK
<1>1a. CASE UNCHANGED QM!vars
  BY <1>1a DEF QM!vars, QM!TypeOK
<1>2. ASSUME NEW t \in TaskId, QM!Enqueue(t) PROVE QM!TypeOK'
  <2>1. stats["enqueued"] + 1 \in Nat
    BY <1>0 DEF QM!Counter
  <2>2. [task |-> t, stamp |-> stats["enqueued"] + 1] \in QM!Item
    BY <2>1 DEF QM!Item
  <2>3. queue' \in Seq(QM!Item)
    BY <1>0, <1>2, <2>2 DEF QM!Enqueue
  <2>4. stats' \in [QM!Counter -> Nat]
    BY <1>0, <1>2 DEF QM!Enqueue, QM!Count, QM!Counter
  <2>5. QED
    BY <1>0, <1>2, <2>1, <2>3, <2>4 DEF QM!Enqueue, QM!TypeOK
<1>3. ASSUME NEW t \in TaskId, QM!RequeueTask(t) PROVE QM!TypeOK'
  <2>1. QM!RegisteredItem(t) \in QM!Item
    BY <1>0 DEF QM!RegisteredItem, QM!Item
  <2>2. queue' \in Seq(QM!Item)
    BY <1>0, <1>3, <2>1 DEF QM!RequeueTask
  <2>3. QED
    BY <1>0, <1>3, <2>2 DEF QM!RequeueTask, QM!Release, QM!TypeOK
<1>4. ASSUME NEW t \in TaskId, QM!TimeoutTask(t) PROVE QM!TypeOK'
  <2>1. stats' \in [QM!Counter -> Nat]
    BY <1>0, <1>4 DEF QM!TimeoutTask, QM!Count, QM!Counter
  <2>2. QED
    BY <1>0, <1>4, <2>1 DEF QM!TimeoutTask, QM!Release, QM!Unregister, QM!TypeOK
<1>5. ASSUME QM!Dequeue PROVE QM!TypeOK'
  <2>1. stats' \in [QM!Counter -> Nat]
    BY <1>0, <1>5 DEF QM!Dequeue, QM!Count, QM!Counter
  <2>2. queue' \in Seq(QM!Item) /\ Head(queue) \in QM!Item
    BY <1>0, <1>5 DEF QM!Dequeue
  <2>3. current' \in TaskId \cup {NoTask}
    BY <1>5, <2>2 DEF QM!Dequeue, QM!Item
  <2>4. QED
    BY <1>0, <1>5, <2>1, <2>2, <2>3 DEF QM!Dequeue, QM!TypeOK
<1>6. ASSUME NEW b \in BOOLEAN, QM!CompleteCurrent(b) PROVE QM!TypeOK'
  <2>1. stats' \in [QM!Counter -> Nat]
    BY <1>0, <1>6 DEF QM!CompleteCurrent, QM!Count, QM!Counter
  <2>2. current \in TaskId
    BY <1>0, <1>6 DEF QM!CompleteCurrent
  <2>3. index' \in [TaskId -> Nat] /\ requeueCount' \in [TaskId -> Nat]
    BY <1>0, <1>6, <2>2 DEF QM!CompleteCurrent, QM!Unregister
  <2>4. QED
    BY <1>0, <1>6, <2>1, <2>3 DEF QM!CompleteCurrent, QM!TypeOK
<1>7. QED
  BY <1>1, <1>1a, <1>2, <1>3, <1>4, <1>5, <1>6
  DEF QM!TryEnqueue, QM!TryRequeueTask, QM!TryTimeoutTask, QM!TryDequeue, QM!TryCompleteCurrent

(* Attaching a result to a task keeps the store's types. *)
LEMMA UpdateTypes ==
    ASSUME StoreTypeOK, NEW t \in TaskId, NEW s \in TaskStatus, NEW d \in Detail,
           UpdateTask(t, s, d)
    PROVE  StoreTypeOK'
<1>1. tmStats' \in [{"created", "completed", "failed", "cancelled"} -> Nat]
  BY DEF StoreTypeOK, UpdateTask
<1>2. QED
  BY <1>1 DEF StoreTypeOK, UpdateTask

(* So does a new task. *)
LEMMA CreateTypes ==
    ASSUME StoreTypeOK, NEW t \in TaskId, CreateTask(t, "filtering")
    PROVE  StoreTypeOK'
<1>1. /\ tmStats' \in [{"created", "completed", "failed", "cancelled"} -> Nat]
      /\ tmStats.created + 1 \in Nat
  BY DEF StoreTypeOK, CreateTask
<1>2. NoDetail \in Detail
  BY DEF NoDetail, Detail, Outcome
<1>3. status' \in [TaskId -> TaskStatus \cup {"absent", "forgotten"}]
  BY DEF StoreTypeOK, CreateTask, TaskStatus
<1>4. born' \in [TaskId -> Nat]
  BY <1>1 DEF StoreTypeOK, CreateTask
<1>5. detail' \in [TaskId -> Detail]
  BY <1>2 DEF StoreTypeOK, CreateTask
<1>6. QED
  BY <1>1, <1>3, <1>4, <1>5 DEF StoreTypeOK

(* The store as a restart leaves it. *)
LEMMA ForgetTypes == StoreTypeOK /\ ForgetAll => StoreTypeOK'
<1>1. NoDetail \in Detail
  BY DEF NoDetail, Detail, Outcome
<1>2. QED
  BY <1>1 DEF StoreTypeOK, ForgetAll

(* Details with one field replaced. *)
LEMMA DetailTypes ==
    ASSUME StoreTypeOK, NEW t \in TaskId
    PROVE  /\ detail[t] \in Detail
           /\ [detail[t] EXCEPT !.analysed = TRUE] \in Detail
           /\ \A a \in Action : [detail[t] EXCEPT !.decision = a] \in Detail
           /\ \A o \in Outcome : /\ [detail[t] EXCEPT !.execution = o] \in Detail
                                 /\ [detail[t] EXCEPT !.recording = o] \in Detail
<1>1. detail[t] \in Detail
  BY DEF StoreTypeOK
<1>2. QED
  BY <1>1 DEF Detail

(* A decision is added behind the others. *)
LEMMA AppendClick ==
    ASSUME TypeOK, NEW t \in TaskId, NEW a \in Action,
           clicks' = Append(clicks, [task |-> t, action |-> a])
    PROVE  /\ clicks' \in Seq([task : TaskId, action : Action])
           /\ Len(clicks) \in Nat /\ Len(clicks') = Len(clicks) + 1
           /\ DOMAIN clicks = 1..Len(clicks) /\ DOMAIN clicks' = 1..Len(clicks)+1
           /\ \A i \in DOMAIN clicks : i \in DOMAIN clicks' /\ clicks'[i] = clicks[i]
           /\ clicks'[Len(clicks) + 1] = [task |-> t, action |-> a]
           /\ 1..Len(clicks) \subseteq 1..Len(clicks') /\ 0..Len(clicks) \subseteq 0..Len(clicks')
           /\ Message \subseteq Message' /\ Report \subseteq Report'
<1>1. [task |-> t, action |-> a] \in [task : TaskId, action : Action]
  OBVIOUS
<1>2. clicks \in Seq([task : TaskId, action : Action])
  BY DEF TypeOK
<1>3. /\ clicks' \in Seq([task : TaskId, action : Action])
      /\ Len(clicks) \in Nat /\ Len(clicks') = Len(clicks) + 1
      /\ DOMAIN clicks = 1..Len(clicks) /\ DOMAIN clicks' = 1..Len(clicks)+1
      /\ clicks'[Len(clicks) + 1] = [task |-> t, action |-> a]
      /\ \A i \in DOMAIN clicks : clicks'[i] = clicks[i]
  BY <1>1, <1>2
<1>4. 1..Len(clicks) \subseteq 1..Len(clicks') /\ 0..Len(clicks) \subseteq 0..Len(clicks')
  BY <1>3
<1>5. Message \subseteq Message' /\ Report \subseteq Report'
  BY <1>4 DEF Message, Report
<1>6. QED
  BY <1>3, <1>4, <1>5

(* What a well-typed request says, and what it may be followed by. *)
LEMMA RequestTypes ==
    ASSUME TypeOK, NEW m \in network
    PROVE  /\ m.kind \in Kind /\ m.task \in TaskId /\ m.cause \in 0..Len(clicks)
           /\ m.arg \in {"none", "task", "not_task", "success", "failure"} \cup Action
           /\ \A k \in Kind, a \in {"none", "task", "not_task", "success", "failure"} \cup Action :
                 Request(k, m.task, m.cause, a) \in Message /\ Request(k, m.task, 0, a) \in Message
<1>1. m \in Message /\ Len(clicks) \in Nat
  BY DEF TypeOK
<1>2. 0 \in 0..Len(clicks)
  BY <1>1
<1>3. QED
  BY <1>1, <1>2 DEF Message, Request

(* Requests about a new decision are well-typed after it was made. *)
LEMMA ClickTypes ==
    ASSUME TypeOK, NEW t \in TaskId, NEW a \in Action, NEW k \in Kind,
           clicks' = Append(clicks, [task |-> t, action |-> a])
    PROVE  Request(k, t, Len(clicks) + 1, a) \in Message'
<1>1. Len(clicks) + 1 \in 0..Len(clicks')
  BY AppendClick
<1>2. QED
  BY <1>1 DEF Message, Request

(* Serving a request, with types. *)
LEMMA ServeTypes ==
    ASSUME TypeOK, NEW m \in network, NEW sent, Serve(m, sent), sent \subseteq Message,
           UNCHANGED clicks
    PROVE  network' \subseteq Message' /\ Report' = Report
<1>1. Message' = Message /\ Report' = Report
  BY DEF Message, Report
<1>2. QED
  BY <1>1 DEF Serve, TypeOK

(* A handler of the gateway: store and queue change, the rest does not. *)
LEMMA RouteTypes ==
    ASSUME TypeOK, NEW m \in network, NEW sent, Serve(m, sent), sent \subseteq Message,
           StoreTypeOK', QM!TypeOK', UNCHANGED <<pending, feishuVars, historyVars>>
    PROVE  TypeOK'
<1>1. UNCHANGED <<pending, cards, rows, clicks, runs, losses, restarts>>
  BY DEF feishuVars, historyVars
<1>2. network' \subseteq Message' /\ Report' = Report
  BY <1>1, ServeTypes
<1>3. QED
  BY <1>1, <1>2 DEF TypeOK

(* What leaves the store alone keeps its types. *)
LEMMA SameStore == StoreTypeOK /\ UNCHANGED storeVars => StoreTypeOK'
  BY DEF StoreTypeOK, storeVars

(* The result of an analysis leaves store, queue and requests well typed. *)
LEMMA AnalysisDoneTypes ==
    ASSUME TypeOK, NEW m \in network, RouteAnalysisDone(m)
    PROVE  TypeOK'
<1> DEFINE t == m.task
           analysed == [detail[t] EXCEPT !.analysed = TRUE]
<1>0. /\ StoreTypeOK /\ QM!TypeOK /\ t \in TaskId /\ detail[t] \in Detail /\ analysed \in Detail
      /\ "cancelled" \in TaskStatus /\ "awaiting_confirmation" \in TaskStatus
      /\ UNCHANGED <<pending, feishuVars, historyVars>>
  BY RequestTypes, DetailTypes DEF TypeOK, TaskStatus, Terminal, RouteAnalysisDone
<1>1. Request("decision_request", t, 0, "none") \in Message
  BY RequestTypes DEF Kind
<1> HIDE DEF analysed
<1>2. CASE NotFound(m)
  <2>1. Serve(m, {}) /\ StoreTypeOK' /\ QM!TypeOK'
    BY <1>0, <1>2, SameStore, QueueTypes DEF NotFound
  <2>2. QED
    BY <1>0, <2>1, RouteTypes
<1>3. CASE UpdateTask(t, "cancelled", detail[t]) /\ Serve(m, {}) /\ UNCHANGED queueVars
  BY <1>0, <1>3, UpdateTypes, QueueTypes, RouteTypes
<1>4. CASE /\ QM!TryEnqueue(t, TRUE) /\ UpdateTask(t, "awaiting_confirmation", analysed)
           /\ Serve(m, {Request("decision_request", t, 0, "none")})
  <2>1. StoreTypeOK' /\ QM!TypeOK'
    BY <1>0, <1>4, UpdateTypes, QueueTypes
  <2>2. QED
    BY <1>0, <1>1, <1>4, <2>1, RouteTypes
<1>5. CASE QM!TryEnqueue(t, FALSE) /\ SetDetail(t, analysed) /\ Serve(m, {})
  <2>1. StoreTypeOK' /\ QM!TypeOK'
    BY <1>0, <1>5, QueueTypes DEF SetDetail, StoreTypeOK
  <2>2. QED
    BY <1>0, <1>5, <2>1, RouteTypes
<1>6. QED
  BY <1>2, <1>3, <1>4, <1>5 DEF RouteAnalysisDone, AnalysisDone, analysed

(* So does a decision, whichever it is. *)
LEMMA DecisionTypes ==
    ASSUME TypeOK, NEW m \in network, RouteDecision(m)
    PROVE  TypeOK'
<1>0. /\ StoreTypeOK /\ QM!TypeOK /\ m.task \in TaskId
      /\ {"executing", "rejected", "later", "timeout"} \subseteq TaskStatus
      /\ \A a \in Action : [detail[m.task] EXCEPT !.decision = a] \in Detail
      /\ {"approve", "reject", "later", "timeout"} = Action
      /\ UNCHANGED <<pending, feishuVars, historyVars>>
  BY RequestTypes, DetailTypes DEF TypeOK, TaskStatus, Terminal, RouteDecision, Action
<1>1. /\ Request("execute", m.task, m.cause, "none") \in Message
      /\ Request("record", m.task, m.cause, "failure") \in Message
  BY RequestTypes DEF Kind
<1>2. CASE NotFound(m)
  <2>1. Serve(m, {}) /\ StoreTypeOK' /\ QM!TypeOK'
    BY <1>0, <1>2, SameStore, QueueTypes DEF NotFound
  <2>2. QED
    BY <1>0, <2>1, RouteTypes
<1>3. CASE Approve(m)
  <2>1. StoreTypeOK' /\ QM!TypeOK'
    BY <1>0, <1>3, UpdateTypes, QueueTypes DEF Approve
  <2>2. QED
    BY <1>0, <1>1, <1>3, <2>1, RouteTypes DEF Approve
<1>4. CASE Reject(m)
  <2>1. StoreTypeOK' /\ QM!TypeOK'
    BY <1>0, <1>4, UpdateTypes, QueueTypes DEF Reject
  <2>2. QED
    BY <1>0, <1>1, <1>4, <2>1, RouteTypes DEF Reject
<1>5. CASE Later(m)
  <2>1. StoreTypeOK' /\ QM!TypeOK'
    BY <1>0, <1>5, UpdateTypes, QueueTypes DEF Later
  <2>2. QED
    BY <1>0, <1>1, <1>5, <2>1, RouteTypes DEF Later
<1>6. CASE Timeout(m)
  <2>1. StoreTypeOK' /\ QM!TypeOK'
    BY <1>0, <1>6, UpdateTypes, QueueTypes DEF Timeout
  <2>2. QED
    BY <1>0, <1>1, <1>6, <2>1, RouteTypes DEF Timeout
<1>7. QED
  BY <1>2, <1>3, <1>4, <1>5, <1>6 DEF RouteDecision

(* Serving one request keeps the shape of the others, so that only the      *)
(* requests it sends are to be looked at.                                   *)
LEMMA ShapedStep ==
    ASSUME TypeOK, ShapeInv, NEW m \in network, NEW sent, Serve(m, sent), \A n \in sent : Shaped(n)
    PROVE  ShapeInv'
  BY DEF ShapeInv, Serve, Shaped

(* The answer of the executor keeps the types. *)
LEMMA ExecutionDoneTypes ==
    ASSUME TypeOK, ShapeInv, NEW m \in network, RouteExecutionDone(m)
    PROVE  TypeOK'
<1>0. /\ StoreTypeOK /\ QM!TypeOK /\ m.task \in TaskId /\ m.arg \in Outcome
      /\ "recording" \in TaskStatus /\ [detail[m.task] EXCEPT !.execution = m.arg] \in Detail
      /\ (m.arg = "success") \in BOOLEAN
      /\ UNCHANGED <<pending, feishuVars, historyVars>>
  BY RequestTypes, DetailTypes
  DEF TypeOK, TaskStatus, RouteExecutionDone, ShapeInv, Shaped, RecordingKinds, Outcome
<1>1. Request("record", m.task, m.cause, m.arg) \in Message
  BY RequestTypes DEF Kind
<1>2. CASE NotFound(m)
  <2>1. Serve(m, {}) /\ StoreTypeOK' /\ QM!TypeOK'
    BY <1>0, <1>2, SameStore, QueueTypes DEF NotFound
  <2>2. QED
    BY <1>0, <2>1, RouteTypes
<1>3. CASE ExecutionDone(m)
  <2>1. StoreTypeOK'
    BY <1>0, <1>3, UpdateTypes DEF ExecutionDone
  <2>2. QM!TypeOK'
    BY <1>0, <1>3, QueueTypes DEF ExecutionDone
  <2>3. QED
    BY <1>0, <1>1, <1>3, <2>1, <2>2, RouteTypes DEF ExecutionDone
<1>4. QED
  BY <1>2, <1>3 DEF RouteExecutionDone

(* The answer of the recorder keeps the types. *)
LEMMA RecordingDoneTypes ==
    ASSUME TypeOK, ShapeInv, NEW m \in network, RouteRecordingDone(m)
    PROVE  TypeOK'
<1>0. /\ StoreTypeOK /\ QM!TypeOK /\ m.task \in TaskId
      /\ (IF m.arg = "success" THEN "completed" ELSE "failed") \in TaskStatus
      /\ [detail[m.task] EXCEPT !.recording = m.arg] \in Detail
      /\ UNCHANGED <<pending, feishuVars, historyVars>>
  BY RequestTypes, DetailTypes
  DEF TypeOK, TaskStatus, Terminal, RouteRecordingDone, ShapeInv, Shaped, RecordingKinds, Outcome
<1>1. CASE NotFound(m)
  <2>1. Serve(m, {}) /\ StoreTypeOK' /\ QM!TypeOK'
    BY <1>0, <1>1, SameStore, QueueTypes DEF NotFound
  <2>2. QED
    BY <1>0, <2>1, RouteTypes
<1>2. CASE RecordingDone(m)
  <2>1. StoreTypeOK' /\ QM!TypeOK'
    BY <1>0, <1>2, UpdateTypes, QueueTypes DEF RecordingDone
  <2>2. QED
    BY <1>0, <1>2, <2>1, RouteTypes DEF RecordingDone
<1>3. QED
  BY <1>1, <1>2 DEF RouteRecordingDone

(* A worker that serves a request keeps the types. *)
LEMMA WorkerTypes ==
    ASSUME TypeOK, ShapeInv, NEW m \in network,
           Analyze(m) \/ DecisionRequest(m) \/ DecisionCallback(m) \/ Execute(m) \/ Record(m)
    PROVE  TypeOK'
<1>0. /\ StoreTypeOK /\ QM!TypeOK /\ m.task \in TaskId /\ m.cause \in 0..Len(clicks)
      /\ Len(clicks) \in Nat /\ clicks \in Seq([task : TaskId, action : Action])
      /\ pending \in [TaskId -> {"none", "open", "confirmed"}]
      /\ cards \subseteq TaskId /\ rows \subseteq Report /\ runs \subseteq Report
      /\ losses \in Nat /\ restarts \in Nat
  BY RequestTypes DEF TypeOK
<1>1. ASSUME UNCHANGED <<storeVars, queueVars>> PROVE StoreTypeOK' /\ QM!TypeOK'
  BY <1>0, <1>1, SameStore, QueueTypes
<1>2. CASE Analyze(m)
  <2>1. PICK verdict \in Verdict : Serve(m, {Request("analysis_done", m.task, 0, verdict)})
    BY <1>2 DEF Analyze
  <2>2. Request("analysis_done", m.task, 0, verdict) \in Message
    BY RequestTypes DEF Kind, Verdict
  <2>3. QED
    BY <1>1, <1>2, <2>1, <2>2, RouteTypes DEF Analyze
<1>3. CASE DecisionRequest(m)
  <2>1. network' \subseteq Message' /\ Report' = Report
    BY <1>3, ServeTypes DEF DecisionRequest, historyVars
  <2>2. /\ pending' \in [TaskId -> {"none", "open", "confirmed"}] /\ cards' \subseteq TaskId
        /\ UNCHANGED <<storeVars, queueVars, rows, clicks, runs, losses, restarts>>
    BY <1>0, <1>3 DEF DecisionRequest, historyVars
  <2>3. QED
    BY <1>0, <1>1, <2>1, <2>2 DEF TypeOK
<1>4. CASE DecisionCallback(m)
  <2>1. Request("decisions", m.task, m.cause, m.arg) \in Message
    BY RequestTypes DEF Kind
  <2>2. network' \subseteq Message' /\ Report' = Report
    BY <1>4, <2>1, ServeTypes DEF DecisionCallback, historyVars
  <2>3. /\ pending' \in [TaskId -> {"none", "open", "confirmed"}]
        /\ UNCHANGED <<storeVars, queueVars, cards, rows, clicks, runs, losses, restarts>>
    BY <1>0, <1>4 DEF DecisionCallback, Confirm, historyVars, feishuVars
  <2>4. QED
    BY <1>0, <1>1, <2>2, <2>3 DEF TypeOK
<1>5. CASE Execute(m)
  <2>1. PICK outcome \in {"success", "failure"} :
           /\ runs' = runs \cup {[task |-> m.task, cause |-> m.cause, outcome |-> outcome]}
           /\ Serve(m, {Request("execution_done", m.task, m.cause, outcome)})
    BY <1>5 DEF Execute
  <2>2. Request("execution_done", m.task, m.cause, outcome) \in Message
    BY RequestTypes DEF Kind
  <2>3. UNCHANGED <<storeVars, queueVars, pending, cards, rows, clicks, losses, restarts>>
    BY <1>5 DEF Execute, feishuVars
  <2>4. network' \subseteq Message' /\ Report' = Report
    BY <2>1, <2>2, <2>3, ServeTypes
  <2>5. m.cause \in 1..Len(clicks)
    BY <1>0, <1>5 DEF ShapeInv, Shaped, ExecutionKinds, Execute
  <2>6. runs' \subseteq Report
    BY <1>0, <2>1, <2>5 DEF Report
  <2>7. QED
    BY <1>0, <1>1, <2>3, <2>4, <2>6 DEF TypeOK
<1>6. CASE Record(m)
  <2>1. Request("recording_done", m.task, m.cause, m.arg) \in Message
    BY RequestTypes DEF Kind
  <2>2. UNCHANGED <<storeVars, queueVars, pending, cards, clicks, runs, losses, restarts>>
    BY <1>6 DEF Record, historyVars
  <2>3. network' \subseteq Message' /\ Report' = Report
    BY <1>6, <2>1, <2>2, ServeTypes DEF Record
  <2>4. m.cause \in 1..Len(clicks) /\ m.arg \in {"success", "failure"}
    BY <1>0, <1>6 DEF ShapeInv, Shaped, RecordingKinds, Record
  <2>5. rows' \subseteq Report
    BY <1>0, <1>6, <2>4 DEF Report, Record
  <2>6. QED
    BY <1>0, <1>1, <2>2, <2>3, <2>5 DEF TypeOK
<1>7. QED
  BY <1>2, <1>3, <1>4, <1>5, <1>6

(* Decisions made by the user, or by an operator: what both do.             *)
Decide(t, a, k) ==
    /\ clicks' = Append(clicks, [task |-> t, action |-> a])
    /\ network' = network \cup {Request(k, t, Len(clicks) + 1, a)}
    /\ UNCHANGED <<storeVars, queueVars, pending, feishuVars, runs, losses, restarts>>

(* A click and a post are decisions. *)
LEMMA ClickDecides ==
    ASSUME NEW t \in TaskId
    PROVE  /\ \A a \in {"approve", "reject", "later"} :
                 Click(t, a) => Decide(t, a, "decision_callback") /\ t \in cards /\ a \in Action
           /\ \A a \in OperatorActions :
                 OperatorPost(t, a) => Decide(t, a, "decisions") /\ status[t] # "absent" /\ a \in Action
  BY GatewayAssumption DEF Click, OperatorPost, Decide, Action

(* A decision keeps the types. *)
LEMMA DecideTypes ==
    ASSUME TypeOK, NEW t \in TaskId, NEW a \in Action, NEW k \in Kind, Decide(t, a, k)
    PROVE  TypeOK'
<1>1. clicks' = Append(clicks, [task |-> t, action |-> a])
  BY DEF Decide
<1>2. /\ clicks' \in Seq([task : TaskId, action : Action])
      /\ Message \subseteq Message' /\ Report \subseteq Report'
  BY <1>1, AppendClick
<1>3. Request(k, t, Len(clicks) + 1, a) \in Message'
  BY <1>1, ClickTypes
<1>4. UNCHANGED <<storeVars, queueVars, pending, cards, rows, runs, losses, restarts>>
  BY DEF Decide, feishuVars
<1>5. StoreTypeOK' /\ QM!TypeOK'
  BY <1>4, SameStore, QueueTypes DEF TypeOK
<1>6. network' \subseteq Message' /\ rows' \subseteq Report' /\ runs' \subseteq Report'
  BY <1>2, <1>3, <1>4 DEF TypeOK, Decide
<1>7. QED
  BY <1>2, <1>4, <1>5, <1>6 DEF TypeOK

(* Every step keeps the types. *)
LEMMA NextTypeOK == TypeOK /\ ShapeInv /\ [Next]_vars => TypeOK'
<1> SUFFICES ASSUME TypeOK, ShapeInv, [Next]_vars PROVE TypeOK'
  OBVIOUS
<1>0. /\ StoreTypeOK /\ QM!TypeOK
      /\ pending \in [TaskId -> {"none", "open", "confirmed"}]
      /\ losses \in Nat /\ restarts \in Nat /\ Len(clicks) \in Nat
  BY DEF TypeOK
<1>1. ASSUME UNCHANGED clicks PROVE Message' = Message /\ Report' = Report
  BY <1>1 DEF Message, Report
<1>2. ASSUME NEW m \in network, Lose(m) PROVE TypeOK'
  <2>1. UNCHANGED <<storeVars, queueVars, pending, cards, rows, clicks, runs, restarts>>
    BY <1>2 DEF Lose, feishuVars
  <2>2. StoreTypeOK' /\ QM!TypeOK'
    BY <1>0, <2>1, SameStore, QueueTypes
  <2>3. network' \subseteq network /\ losses' \in Nat
    BY <1>0, <1>2 DEF Lose, Serve
  <2>4. QED
    BY <1>1, <2>1, <2>2, <2>3 DEF TypeOK
<1>3. CASE Restart
  <2>1. StoreTypeOK'
    BY <1>0, <1>3, ForgetTypes DEF Restart
  <2>2. DOMAIN stats = QM!Counter
    BY <1>0 DEF QM!TypeOK
  <2>3. QM!TypeOK'
    BY <1>3, <2>2 DEF Restart, QM!TypeOK
  <2>4. UNCHANGED <<network, pending, cards, rows, clicks, runs, losses>> /\ restarts' \in Nat
    BY <1>0, <1>3 DEF Restart, feishuVars
  <2>5. QED
    BY <1>1, <2>1, <2>3, <2>4 DEF TypeOK
<1>4. ASSUME NEW t \in TaskId, ReceiveMessage(t) PROVE TypeOK'
  <2>1. /\ UNCHANGED <<queueVars, pending, cards, rows, clicks, runs, losses, restarts>>
        /\ CreateTask(t, "filtering")
        /\ network' = network \cup {Request("analyze", t, 0, "none")}
    BY <1>4 DEF ReceiveMessage, RouteNewMessage, feishuVars, historyVars
  <2>2. StoreTypeOK' /\ QM!TypeOK'
    BY <1>0, <2>1, CreateTypes, QueueTypes
  <2>3. Request("analyze", t, 0, "none") \in Message
    BY <1>0 DEF Request, Message, Kind
  <2>4. QED
    BY <1>1, <2>1, <2>2, <2>3 DEF TypeOK
<1>5. ASSUME NEW t \in TaskId, TimerExpires(t) PROVE TypeOK'
  <2>1. /\ UNCHANGED <<storeVars, queueVars, network, cards, rows, clicks, runs, losses, restarts>>
        /\ pending' \in [TaskId -> {"none", "open", "confirmed"}]
    BY <1>0, <1>5 DEF TimerExpires, feishuVars, historyVars
  <2>2. StoreTypeOK' /\ QM!TypeOK'
    BY <1>0, <2>1, SameStore, QueueTypes
  <2>3. QED
    BY <1>1, <2>1, <2>2 DEF TypeOK
<1>6. ASSUME NEW t \in TaskId, NEW a \in {"approve", "reject", "later"}, Click(t, a) PROVE TypeOK'
  BY <1>6, ClickDecides, DecideTypes DEF Kind
<1>7. ASSUME NEW t \in TaskId, NEW a \in OperatorActions, OperatorPost(t, a) PROVE TypeOK'
  BY <1>7, ClickDecides, DecideTypes DEF Kind
<1>8. CASE UNCHANGED vars
  <2>1. UNCHANGED <<storeVars, queueVars, network, pending, cards, rows, clicks, runs, losses, restarts>>
    BY <1>8 DEF vars, feishuVars, historyVars
  <2>2. StoreTypeOK' /\ QM!TypeOK'
    BY <1>0, <2>1, SameStore, QueueTypes
  <2>3. QED
    BY <1>1, <2>1, <2>2 DEF TypeOK
<1>9. CASE Deliver
  BY <1>9, AnalysisDoneTypes, DecisionTypes, ExecutionDoneTypes, RecordingDoneTypes, WorkerTypes
  DEF Deliver
<1>10. QED
  BY <1>2, <1>3, <1>4, <1>5, <1>6, <1>7, <1>8, <1>9 DEF Next

-----------------------------------------------------------------------------
(* What the steps do, seen from one task and from one request.              *)

(* Store and queue change only where the gateway handles an answer about a  *)
(* task it holds, creates one, or restarts.                                 *)
GatewayStep ==
    \/ UNCHANGED <<storeVars, queueVars>>
    \/ \E t \in TaskId : ReceiveMessage(t)
    \/ Restart
    \/ \E m \in network :
         /\ Known(m.task)
         /\ \/ m.kind = "analysis_done" /\ AnalysisDone(m)
            \/ /\ m.kind = "decisions"
               /\ \/ m.arg = "approve" /\ Approve(m)
                  \/ m.arg = "reject" /\ Reject(m)
                  \/ m.arg = "later" /\ Later(m)
                  \/ m.arg = "timeout" /\ Timeout(m)
            \/ m.kind = "execution_done" /\ ExecutionDone(m)
            \/ m.kind = "recording_done" /\ RecordingDone(m)
         /\ UNCHANGED <<pending, feishuVars, historyVars>>

(* Every step is one of these. *)
LEMMA GatewaySteps == [Next]_vars => GatewayStep
<1> SUFFICES ASSUME [Next]_vars PROVE GatewayStep
  OBVIOUS
<1>1. ASSUME NEW m \in network, Lose(m) PROVE GatewayStep
  BY <1>1 DEF Lose, GatewayStep
<1>2. ASSUME NEW t \in TaskId, TimerExpires(t) PROVE GatewayStep
  BY <1>2 DEF TimerExpires, GatewayStep
<1>3. ASSUME NEW t \in TaskId, NEW a, Click(t, a) PROVE GatewayStep
  BY <1>3 DEF Click, GatewayStep
<1>4. ASSUME NEW t \in TaskId, NEW a, OperatorPost(t, a) PROVE GatewayStep
  BY <1>4 DEF OperatorPost, GatewayStep
<1>5. CASE UNCHANGED vars
  BY <1>5 DEF vars, GatewayStep
<1>6. ASSUME NEW m \in network,
             Analyze(m) \/ DecisionRequest(m) \/ DecisionCallback(m) \/ Execute(m) \/ Record(m)
      PROVE  GatewayStep
  BY <1>6 DEF Analyze, DecisionRequest, DecisionCallback, Execute, Record, GatewayStep
<1>7. ASSUME NEW m \in network, RouteAnalysisDone(m) PROVE GatewayStep
  BY <1>7 DEF RouteAnalysisDone, NotFound, GatewayStep
<1>8. ASSUME NEW m \in network, RouteDecision(m) PROVE GatewayStep
  BY <1>8 DEF RouteDecision, NotFound, GatewayStep
<1>9. ASSUME NEW m \in network, RouteExecutionDone(m) PROVE GatewayStep
  BY <1>9 DEF RouteExecutionDone, NotFound, GatewayStep
<1>10. ASSUME NEW m \in network, RouteRecordingDone(m) PROVE GatewayStep
  BY <1>10 DEF RouteRecordingDone, NotFound, GatewayStep
<1>11. CASE Restart \/ \E t \in TaskId : ReceiveMessage(t)
  BY <1>11 DEF GatewayStep
<1>12. QED
  BY <1>1, <1>2, <1>3, <1>4, <1>5, <1>6, <1>7, <1>8, <1>9, <1>10, <1>11 DEF Next, Deliver

(* A task once mentioned: it stays one, it never comes back when forgotten, *)
(* and its analysis is not taken back.                                      *)
Lasting(t) ==
    /\ status[t] # "absent" => status'[t] # "absent"
    /\ status[t] = "forgotten" => status'[t] = "forgotten"
    /\ status[t] # "absent" /\ Analysed(t) => Analysed(t)'

(* No step makes a task absent again, revives a forgotten one, or takes an  *)
(* analysis back.                                                           *)
LEMMA TasksLast ==
    ASSUME TypeOK, [Next]_vars, NEW t \in TaskId
    PROVE  Lasting(t)
<1>0. /\ status \in [TaskId -> TaskStatus \cup {"absent", "forgotten"}]
      /\ detail \in [TaskId -> Detail]
      /\ "absent" \notin TaskStatus /\ "forgotten" \notin TaskStatus
  BY DEF TypeOK, StoreTypeOK, TaskStatus, Terminal
<1>1. CASE UNCHANGED <<storeVars, queueVars>>
  BY <1>1 DEF storeVars, Lasting, Analysed, Known
<1>2. ASSUME NEW u \in TaskId, ReceiveMessage(u) PROVE Lasting(t)
  <2>1. CreateTask(u, "filtering")
    BY <1>2 DEF ReceiveMessage
  <2>2. CASE t = u
    BY <1>0, <2>1, <2>2 DEF CreateTask, Lasting, Known
  <2>3. CASE t # u
    <3>1. \/ status'[t] = "forgotten"
          \/ status'[t] = status[t] /\ detail'[t] = detail[t]
      BY <1>0, <2>1, <2>3 DEF CreateTask
    <3>2. QED
      BY <1>0, <3>1 DEF Lasting, Analysed, Known
  <2>4. QED
    BY <2>2, <2>3
<1>3. CASE Restart
  <2>1. status'[t] = IF Known(t) THEN "forgotten" ELSE status[t]
    BY <1>3 DEF Restart, ForgetAll
  <2>2. QED
    BY <1>0, <2>1 DEF Lasting, Analysed, Known
<1>4. ASSUME NEW m \in network, Known(m.task),
             NEW s \in TaskStatus, NEW d, UpdateTask(m.task, s, d),
             detail[m.task].analysed => d.analysed
      PROVE  Lasting(t)
  BY <1>0, <1>4, RequestTypes DEF UpdateTask, Lasting, Analysed, Known
<1>5. ASSUME NEW m \in network, Known(m.task),
             SetDetail(m.task, [detail[m.task] EXCEPT !.analysed = TRUE])
      PROVE  Lasting(t)
  <2>1. m.task \in TaskId /\ detail[m.task] \in Detail
    BY <1>0, RequestTypes
  <2>2. [detail[m.task] EXCEPT !.analysed = TRUE].analysed
    BY <2>1 DEF Detail
  <2>3. QED
    BY <1>0, <1>5, <2>1, <2>2 DEF SetDetail, Lasting, Analysed, Known
<1>6. ASSUME NEW m \in network, Known(m.task), AnalysisDone(m) PROVE Lasting(t)
  <2>1. m.task \in TaskId /\ detail[m.task] \in Detail
    BY <1>0, RequestTypes
  <2>2. [detail[m.task] EXCEPT !.analysed = TRUE].analysed
    BY <2>1 DEF Detail
  <2>3. "cancelled" \in TaskStatus /\ "awaiting_confirmation" \in TaskStatus
    BY DEF TaskStatus, Terminal
  <2>4. QED
    BY <1>4, <1>5, <1>6, <2>2, <2>3 DEF AnalysisDone
<1>7. ASSUME NEW m \in network, Known(m.task),
             Approve(m) \/ Reject(m) \/ Later(m) \/ Timeout(m) \/ ExecutionDone(m) \/ RecordingDone(m)
      PROVE  Lasting(t)
  <2>1. m.task \in TaskId /\ detail[m.task] \in Detail
    BY <1>0, RequestTypes
  <2>2. \A x : /\ [detail[m.task] EXCEPT !.decision = x].analysed = detail[m.task].analysed
               /\ [detail[m.task] EXCEPT !.execution = x].analysed = detail[m.task].analysed
               /\ [detail[m.task] EXCEPT !.recording = x].analysed = detail[m.task].analysed
    BY <2>1 DEF Detail
  <2>3. /\ {"executing", "rejected", "later", "timeout", "recording"} \subseteq TaskStatus
        /\ (IF m.arg = "success" THEN "completed" ELSE "failed") \in TaskStatus
    BY DEF TaskStatus, Terminal
  <2>4. CASE Approve(m) \/ Reject(m) \/ Later(m) \/ Timeout(m)
    BY <1>4, <1>7, <2>2, <2>3, <2>4 DEF Approve, Reject, Later, Timeout
  <2>5. CASE ExecutionDone(m) \/ RecordingDone(m)
    BY <1>4, <1>7, <2>2, <2>3, <2>5 DEF ExecutionDone, RecordingDone
  <2>6. QED
    BY <1>7, <2>4, <2>5
<1>8. QED
  BY <1>1, <1>2, <1>3, <1>6, <1>7, GatewaySteps DEF GatewayStep

(* What a request says. *)
Says(n, kind, t, cause, arg) ==
    n.kind = kind /\ n.task = t /\ n.cause = cause /\ n.arg = arg

(* Request n is a decision that is being made. *)
Decided(n) ==
    \E t \in TaskId, a \in Action, k \in DecisionKinds :
        /\ Says(n, k, t, Len(clicks) + 1, a)
        /\ Decide(t, a, k)
        /\ \/ k = "decision_callback" /\ t \in cards /\ a # "timeout" /\ Click(t, a)
           \/ k = "decisions" /\ status[t] # "absent" /\ a \in OperatorActions

(* Request n is sent by the handler that serves m. *)
Follows(n, m) ==
    /\ Serve(m, {n})
    /\ \/ Analyze(m) /\ \E v \in Verdict : Says(n, "analysis_done", m.task, 0, v)
       \/ /\ m.kind = "analysis_done" /\ Known(m.task)
          /\ QM!TryEnqueue(m.task, TRUE)
          /\ UpdateTask(m.task, "awaiting_confirmation", [detail[m.task] EXCEPT !.analysed = TRUE])
          /\ Says(n, "decision_request", m.task, 0, "none")
       \/ DecisionCallback(m) /\ Says(n, "decisions", m.task, m.cause, m.arg)
       \/ /\ m.kind = "decisions" /\ m.arg = "approve" /\ Known(m.task) /\ Approve(m)
          /\ Says(n, "execute", m.task, m.cause, "none")
       \/ /\ m.kind = "decisions" /\ Known(m.task)
          /\ (m.arg = "reject" /\ Reject(m)) \/ (m.arg = "timeout" /\ Timeout(m))
          /\ Says(n, "record", m.task, m.cause, "failure")
       \/ /\ Execute(m)
          /\ \E outcome \in {"success", "failure"} :
                /\ runs' = runs \cup {[task |-> m.task, cause |-> m.cause, outcome |-> outcome]}
                /\ Says(n, "execution_done", m.task, m.cause, outcome)
       \/ /\ m.kind = "execution_done" /\ Known(m.task) /\ ExecutionDone(m)
          /\ Says(n, "record", m.task, m.cause, m.arg)
       \/ Record(m) /\ Says(n, "recording_done", m.task, m.cause, m.arg)

(* Where a request that was not there before comes from. *)
Origin(n) ==
    \/ \E t \in TaskId : ReceiveMessage(t) /\ Says(n, "analyze", t, 0, "none")
    \/ Decided(n)
    \/ \E m \in network : Follows(n, m)

(* Which request follows which, in short. *)
LEMMA Chain ==
    ASSUME NEW n, NEW m, Follows(n, m)
    PROVE  /\ n.task = m.task
           /\ \/ n.kind = "analysis_done" /\ m.kind = "analyze"
              \/ n.kind = "decision_request" /\ m.kind = "analysis_done"
              \/ /\ n.kind = "decisions" /\ m.kind = "decision_callback"
                 /\ n.cause = m.cause /\ n.arg = m.arg
              \/ /\ n.kind = "execute" /\ m.kind = "decisions" /\ m.arg = "approve"
                 /\ n.cause = m.cause
              \/ /\ n.kind = "record" /\ m.kind = "decisions" /\ m.arg \in {"reject", "timeout"}
                 /\ n.cause = m.cause /\ n.arg = "failure"
              \/ /\ n.kind = "execution_done" /\ m.kind = "execute"
                 /\ n.cause = m.cause /\ n.arg \in {"success", "failure"}
              \/ /\ n.kind = "record" /\ m.kind = "execution_done"
                 /\ n.cause = m.cause /\ n.arg = m.arg
              \/ /\ n.kind = "recording_done" /\ m.kind = "record"
                 /\ n.cause = m.cause /\ n.arg = m.arg
  BY DEF Follows, Says, Analyze, DecisionCallback, Execute, Record

(* Every new request has one of these origins. *)
LEMMA NewRequests == [Next]_vars => \A n \in network' : n \in network \/ Origin(n)
<1> SUFFICES ASSUME [Next]_vars, NEW n \in network', n \notin network PROVE Origin(n)
  OBVIOUS
<1>0. ASSUME NEW m, Serve(m, {}) PROVE FALSE
  BY <1>0 DEF Serve
<1>1. CASE UNCHANGED network
  BY <1>1
<1>2. ASSUME NEW t \in TaskId, ReceiveMessage(t) PROVE Origin(n)
  BY <1>2 DEF ReceiveMessage, RouteNewMessage, Origin, Says, Request
<1>3. ASSUME NEW t \in TaskId, NEW a \in {"approve", "reject", "later"}, Click(t, a) PROVE Origin(n)
  <2>1. Decide(t, a, "decision_callback") /\ t \in cards /\ a \in Action /\ a # "timeout"
    BY <1>3, ClickDecides
  <2>2. Says(n, "decision_callback", t, Len(clicks) + 1, a)
    BY <2>1 DEF Decide, Says, Request
  <2>3. Decided(n)
    BY <1>3, <2>1, <2>2 DEF Decided, DecisionKinds
  <2>4. QED
    BY <2>3 DEF Origin
<1>4. ASSUME NEW t \in TaskId, NEW a \in OperatorActions, OperatorPost(t, a) PROVE Origin(n)
  <2>1. Decide(t, a, "decisions") /\ status[t] # "absent" /\ a \in Action
    BY <1>4, ClickDecides
  <2>2. Says(n, "decisions", t, Len(clicks) + 1, a)
    BY <2>1 DEF Decide, Says, Request
  <2>3. Decided(n)
    BY <2>1, <2>2 DEF Decided, DecisionKinds
  <2>4. QED
    BY <2>3 DEF Origin
<1>0a. ASSUME NEW m, NEW k, NEW c, NEW a, Serve(m, {Request(k, m.task, c, a)})
       PROVE  Serve(m, {n}) /\ Says(n, k, m.task, c, a)
  BY <1>0a DEF Serve, Says, Request
<1>5. ASSUME NEW m \in network, Analyze(m) PROVE Origin(n)
  <2>1. PICK v \in Verdict : Serve(m, {Request("analysis_done", m.task, 0, v)})
    BY <1>0, <1>5 DEF Analyze
  <2>2. Serve(m, {n}) /\ Says(n, "analysis_done", m.task, 0, v)
    BY <1>0a, <2>1
  <2>3. Follows(n, m)
    BY <2>1, <2>2, <1>5 DEF Follows
  <2>4. QED
    BY <2>3 DEF Origin
<1>6. ASSUME NEW m \in network, RouteAnalysisDone(m) PROVE Origin(n)
  <2>1. /\ m.kind = "analysis_done" /\ Known(m.task)
        /\ QM!TryEnqueue(m.task, TRUE)
        /\ UpdateTask(m.task, "awaiting_confirmation", [detail[m.task] EXCEPT !.analysed = TRUE])
        /\ Serve(m, {Request("decision_request", m.task, 0, "none")})
    BY <1>0, <1>6 DEF RouteAnalysisDone, NotFound, AnalysisDone
  <2>2. Serve(m, {n}) /\ Says(n, "decision_request", m.task, 0, "none")
    BY <1>0a, <2>1
  <2>3. Follows(n, m)
    BY <2>1, <2>2 DEF Follows
  <2>4. QED
    BY <2>3 DEF Origin
<1>7. ASSUME NEW m \in network, DecisionCallback(m) PROVE Origin(n)
  <2>1. Serve(m, {Request("decisions", m.task, m.cause, m.arg)})
    BY <1>7 DEF DecisionCallback
  <2>2. Serve(m, {n}) /\ Says(n, "decisions", m.task, m.cause, m.arg)
    BY <1>0a, <2>1
  <2>3. Follows(n, m)
    BY <2>1, <2>2, <1>7 DEF Follows
  <2>4. QED
    BY <2>3 DEF Origin
<1>8. ASSUME NEW m \in network, RouteDecision(m) PROVE Origin(n)
  <2>1. Known(m.task) /\ m.kind = "decisions"
    BY <1>0, <1>8 DEF RouteDecision, NotFound
  <2>2. CASE m.arg = "approve" /\ Approve(m)
    <3>1. Serve(m, {Request("execute", m.task, m.cause, "none")})
      BY <2>2 DEF Approve
    <3>2. Serve(m, {n}) /\ Says(n, "execute", m.task, m.cause, "none")
      BY <1>0a, <3>1
    <3>3. Follows(n, m)
      BY <3>1, <3>2, <2>1, <2>2 DEF Follows
    <3>4. QED
      BY <3>3 DEF Origin
  <2>3. CASE m.arg = "reject" /\ Reject(m)
    <3>1. Serve(m, {Request("record", m.task, m.cause, "failure")})
      BY <2>3 DEF Reject
    <3>2. Serve(m, {n}) /\ Says(n, "record", m.task, m.cause, "failure")
      BY <1>0a, <3>1
    <3>3. Follows(n, m)
      BY <3>1, <3>2, <2>1, <2>3 DEF Follows
    <3>4. QED
      BY <3>3 DEF Origin
  <2>4. CASE m.arg = "timeout" /\ Timeout(m)
    <3>1. Serve(m, {Request("record", m.task, m.cause, "failure")})
      BY <2>4 DEF Timeout
    <3>2. Serve(m, {n}) /\ Says(n, "record", m.task, m.cause, "failure")
      BY <1>0a, <3>1
    <3>3. Follows(n, m)
      BY <3>1, <3>2, <2>1, <2>4 DEF Follows
    <3>4. QED
      BY <3>3 DEF Origin
  <2>5. CASE Later(m)
    BY <1>0, <2>5 DEF Later
  <2>6. QED
    BY <1>0, <1>8, <2>2, <2>3, <2>4, <2>5 DEF RouteDecision, NotFound
<1>9. ASSUME NEW m \in network, Execute(m) PROVE Origin(n)
  <2>1. PICK outcome \in {"success", "failure"} :
          /\ runs' = runs \cup {[task |-> m.task, cause |-> m.cause, outcome |-> outcome]}
          /\ Serve(m, {Request("execution_done", m.task, m.cause, outcome)})
    BY <1>9 DEF Execute
  <2>2. Serve(m, {n}) /\ Says(n, "execution_done", m.task, m.cause, outcome)
    BY <1>0a, <2>1
  <2>3. Follows(n, m)
    BY <2>1, <2>2, <1>9 DEF Follows
  <2>4. QED
    BY <2>3 DEF Origin
<1>10. ASSUME NEW m \in network, RouteExecutionDone(m) PROVE Origin(n)
  <2>1. /\ Known(m.task) /\ m.kind = "execution_done" /\ ExecutionDone(m)
        /\ Serve(m, {Request("record", m.task, m.cause, m.arg)})
    BY <1>0, <1>10 DEF RouteExecutionDone, NotFound, ExecutionDone
  <2>2. Serve(m, {n}) /\ Says(n, "record", m.task, m.cause, m.arg)
    BY <1>0a, <2>1
  <2>3. Follows(n, m)
    BY <2>1, <2>2 DEF Follows
  <2>4. QED
    BY <2>3 DEF Origin
<1>11. ASSUME NEW m \in network, Record(m) PROVE Origin(n)
  <2>1. Serve(m, {Request("recording_done", m.task, m.cause, m.arg)})
    BY <1>11 DEF Record
  <2>2. Serve(m, {n}) /\ Says(n, "recording_done", m.task, m.cause, m.arg)
    BY <1>0a, <2>1
  <2>3. Follows(n, m)
    BY <2>1, <2>2, <1>11 DEF Follows
  <2>4. QED
    BY <2>3 DEF Origin
<1>12. ASSUME NEW m \in network,
              DecisionRequest(m) \/ Lose(m) \/ RouteRecordingDone(m)
       PROVE  Origin(n)
  BY <1>0, <1>12 DEF DecisionRequest, Lose, RouteRecordingDone, NotFound, RecordingDone
<1>13. CASE UNCHANGED vars \/ Restart \/ \E t \in TaskId : TimerExpires(t)
  BY <1>1, <1>13 DEF vars, Restart, TimerExpires
<1>14. QED
  BY <1>2, <1>3, <1>4, <1>5, <1>6, <1>7, <1>8, <1>9, <1>10, <1>11, <1>12, <1>13 DEF Next, Deliver

(* Decisions, executions and cards are never taken back. *)
Extends ==
    /\ DOMAIN clicks \subseteq DOMAIN clicks'
    /\ \A i \in DOMAIN clicks : clicks'[i] = clicks[i]
    /\ runs \subseteq runs'
    /\ cards \subseteq cards'

(* Where executions and cards come from. *)
Grown ==
    /\ \A t \in cards' \ cards : \E m \in network :
          /\ DecisionRequest(m) /\ t = m.task
    /\ \A r \in runs' \ runs : \E m \in network :
          m.kind = "execute" /\ r.task = m.task /\ r.cause = m.cause

(* The history of decisions and executions only grows, by an execution that *)
(* was requested.                                                           *)
LEMMA HistoryGrows == TypeOK /\ [Next]_vars => Extends /\ Grown
<1> SUFFICES ASSUME TypeOK, [Next]_vars PROVE Extends /\ Grown
  OBVIOUS
<1>1. CASE UNCHANGED <<clicks, runs, cards>>
  BY <1>1 DEF Extends, Grown
<1>2. ASSUME NEW t \in TaskId, NEW a \in Action, NEW k, Decide(t, a, k) PROVE Extends /\ Grown
  <2>1. UNCHANGED <<runs, cards>> /\ clicks' = Append(clicks, [task |-> t, action |-> a])
    BY <1>2 DEF Decide, feishuVars
  <2>2. DOMAIN clicks \subseteq DOMAIN clicks' /\ \A i \in DOMAIN clicks : clicks'[i] = clicks[i]
    BY <2>1, AppendClick
  <2>3. QED
    BY <2>1, <2>2 DEF Extends, Grown
<1>3. ASSUME NEW m \in network, DecisionRequest(m) PROVE Extends /\ Grown
  <2>1. UNCHANGED <<clicks, runs>> /\ cards \subseteq cards' /\ cards' \subseteq cards \cup {m.task}
    BY <1>3 DEF DecisionRequest, historyVars
  <2>2. QED
    BY <1>3, <2>1 DEF Extends, Grown
<1>4. ASSUME NEW m \in network, Execute(m) PROVE Extends /\ Grown
  <2>1. PICK outcome \in {"success", "failure"} :
           runs' = runs \cup {[task |-> m.task, cause |-> m.cause, outcome |-> outcome]}
    BY <1>4 DEF Execute
  <2>2. UNCHANGED <<clicks, cards>> /\ m.kind = "execute"
    BY <1>4 DEF Execute, feishuVars
  <2>3. QED
    BY <2>1, <2>2 DEF Extends, Grown
<1>5. ASSUME NEW m \in network,
             \/ Analyze(m) \/ RouteAnalysisDone(m) \/ DecisionCallback(m) \/ RouteDecision(m)
             \/ RouteExecutionDone(m) \/ Record(m) \/ RouteRecordingDone(m) \/ Lose(m)
      PROVE  UNCHANGED <<clicks, runs, cards>>
  BY <1>5 DEF Analyze, RouteAnalysisDone, DecisionCallback, RouteDecision, RouteExecutionDone,
              Record, RouteRecordingDone, Lose, feishuVars, historyVars
<1>6. ASSUME NEW t \in TaskId, ReceiveMessage(t) \/ TimerExpires(t)
      PROVE  UNCHANGED <<clicks, runs, cards>>
  BY <1>6 DEF ReceiveMessage, TimerExpires, feishuVars, historyVars
<1>7. CASE UNCHANGED vars \/ Restart
  BY <1>1, <1>7 DEF vars, Restart, feishuVars, historyVars
<1>8. QED
  BY <1>1, <1>2, <1>3, <1>4, <1>5, <1>6, <1>7, ClickDecides DEF Next, Deliver

-----------------------------------------------------------------------------
(* Approved before executed, and an end for a reason. *)

(* The invariant that needs no assumption about who decides. *)
BaseInv == TypeOK /\ ShapeInv /\ MentionInv /\ CauseInv

(* It holds at the start. *)
LEMMA InitBaseInv == Init => BaseInv
<1>1. Init => ShapeInv /\ MentionInv /\ CauseInv
  BY DEF Init, ShapeInv, MentionInv, CauseInv
<1>2. QED
  BY <1>1, InitTypeOK DEF BaseInv

(* Every request sent has the shape its kind asks for. *)
LEMMA ShapeStep == BaseInv /\ [Next]_vars => ShapeInv'
<1> SUFFICES ASSUME BaseInv, [Next]_vars, NEW n \in network', n \notin network PROVE Shaped(n)
  BY DEF BaseInv, ShapeInv, Shaped
<1>1. Len(clicks) \in Nat /\ \A m \in network : Shaped(m)
  BY DEF BaseInv, TypeOK, ShapeInv
<1>2. CASE Decided(n)
  BY <1>1, <1>2 DEF Decided, Says, Shaped, DecisionKinds, ExecutionKinds, RecordingKinds
<1>3. ASSUME NEW m \in network, Follows(n, m) PROVE Shaped(n)
  BY <1>1, <1>3, Chain DEF Shaped, DecisionKinds, ExecutionKinds, RecordingKinds
<1>4. CASE n.kind = "analyze"
  BY <1>4 DEF Shaped, DecisionKinds, ExecutionKinds, RecordingKinds
<1>5. QED
  BY <1>2, <1>3, <1>4, NewRequests DEF Origin, Says

(* A step mentions no task that does not exist: a request is about the task *)
(* of the one it follows, or about one just created or clicked on.          *)
LEMMA MentionStep == BaseInv /\ [Next]_vars => MentionInv'
<1> SUFFICES ASSUME BaseInv, [Next]_vars PROVE MentionInv'
  OBVIOUS
<1>0. /\ \A t \in TaskId : status[t] # "absent" => status'[t] # "absent"
      /\ MentionInv /\ \A m \in network : m.task \in TaskId
      /\ cards \subseteq TaskId /\ \A r \in runs : r.task \in TaskId
      /\ Grown
  BY TasksLast, RequestTypes, HistoryGrows DEF BaseInv, Lasting, TypeOK, Report
<1>1. ASSUME NEW n \in network', n \notin network PROVE status'[n.task] # "absent"
  <2>1. Origin(n)
    BY <1>1, NewRequests
  <2>2. ASSUME NEW t \in TaskId, ReceiveMessage(t), n.task = t PROVE status'[n.task] # "absent"
    BY <2>2 DEF ReceiveMessage, CreateTask
  <2>3. (\E t \in TaskId : ReceiveMessage(t) /\ n.task = t)
        \/ (\E t \in TaskId : (t \in cards \/ status[t] # "absent") /\ n.task = t)
        \/ (\E m \in network : n.task = m.task)
    <3>1. ASSUME NEW m \in network, Follows(n, m) PROVE n.task = m.task
      BY <3>1, Chain
    <3>2. QED
      BY <2>1, <3>1 DEF Origin, Says, Decided
  <2>4. QED
    BY <1>0, <2>2, <2>3 DEF MentionInv
<1>2. ASSUME NEW n \in network, n \in network' PROVE status'[n.task] # "absent"
  BY <1>0 DEF MentionInv
<1>3. ASSUME NEW t \in cards' PROVE status'[t] # "absent"
  BY <1>0 DEF MentionInv, Grown
<1>4. ASSUME NEW r \in runs' PROVE status'[r.task] # "absent"
  BY <1>0 DEF MentionInv, Grown
<1>5. QED
  BY <1>1, <1>2, <1>3, <1>4 DEF MentionInv

(* The decision that a request names is handed on with it, unchanged. *)
LEMMA CauseStep == BaseInv /\ [Next]_vars => CauseInv'
<1> SUFFICES ASSUME BaseInv, [Next]_vars PROVE CauseInv'
  OBVIOUS
<1>0. /\ CauseInv /\ Extends /\ Grown /\ TypeOK
      /\ \A r \in runs : r.cause \in DOMAIN clicks
      /\ Len(clicks) \in Nat
  BY HistoryGrows DEF BaseInv, TypeOK, Report
<1> DEFINE Caused(m, c) ==
      /\ m.kind \in DecisionKinds =>
            m.cause \in DOMAIN c /\ c[m.cause] = [task |-> m.task, action |-> m.arg]
      /\ m.kind \in ExecutionKinds =>
            m.cause \in DOMAIN c /\ c[m.cause] = [task |-> m.task, action |-> "approve"]
<1>1. \A m \in network : Caused(m, clicks) /\ Caused(m, clicks')
  BY <1>0 DEF CauseInv, Extends
<1>2. ASSUME NEW n \in network', n \notin network PROVE Caused(n, clicks')
  <2>1. Origin(n)
    BY <1>2, NewRequests
  <2>2. CASE Decided(n)
    <3>1. PICK t \in TaskId, a \in Action, k \in DecisionKinds :
                Says(n, k, t, Len(clicks) + 1, a) /\ Decide(t, a, k)
      BY <2>2 DEF Decided
    <3>2. /\ Len(clicks) + 1 \in DOMAIN clicks'
          /\ clicks'[Len(clicks) + 1] = [task |-> t, action |-> a]
      BY <1>0, <3>1, AppendClick DEF Decide
    <3>3. QED
      BY <3>1, <3>2 DEF Says, DecisionKinds, ExecutionKinds
  <2>3. ASSUME NEW m \in network, Follows(n, m) PROVE Caused(n, clicks')
    <3>1. CASE n.kind = "decisions"
      <4>1. /\ m.kind = "decision_callback" /\ n.task = m.task
            /\ n.cause = m.cause /\ n.arg = m.arg
        BY <2>3, <3>1, Chain
      <4>2. m.cause \in DOMAIN clicks' /\ clicks'[m.cause] = [task |-> m.task, action |-> m.arg]
        BY <1>1, <4>1 DEF DecisionKinds
      <4>3. QED
        BY <3>1, <4>1, <4>2 DEF ExecutionKinds
    <3>2. CASE n.kind = "execute"
      BY <1>1, <2>3, <3>2, Chain DEF DecisionKinds, ExecutionKinds
    <3>3. CASE n.kind = "execution_done"
      <4>1. m.kind = "execute" /\ n.task = m.task /\ n.cause = m.cause
        BY <2>3, <3>3, Chain
      <4>2. m.cause \in DOMAIN clicks' /\ clicks'[m.cause] = [task |-> m.task, action |-> "approve"]
        BY <1>1, <4>1 DEF ExecutionKinds
      <4>3. QED
        BY <3>3, <4>1, <4>2 DEF DecisionKinds
    <3>4. CASE n.kind \notin {"decisions", "execute", "execution_done"}
      BY <2>3, <3>4, Chain DEF DecisionKinds, ExecutionKinds
    <3>5. QED
      BY <3>1, <3>2, <3>3, <3>4
  <2>4. CASE n.kind = "analyze"
    BY <2>4 DEF DecisionKinds, ExecutionKinds
  <2>5. QED
    BY <2>1, <2>2, <2>3, <2>4 DEF Origin, Says
<1>3. ASSUME NEW r \in runs' PROVE clicks'[r.cause] = [task |-> r.task, action |-> "approve"]
  <2>1. CASE r \in runs
    BY <1>0, <2>1 DEF CauseInv, Extends
  <2>2. CASE r \notin runs
    <3>1. PICK m \in network : m.kind = "execute" /\ r.task = m.task /\ r.cause = m.cause
      BY <1>0, <1>3, <2>2 DEF Grown
    <3>2. QED
      BY <1>1, <3>1 DEF ExecutionKinds
  <2>3. QED
    BY <2>1, <2>2
<1>4. QED
  BY <1>1, <1>2, <1>3 DEF CauseInv

(* Every step keeps the base invariant. *)
LEMMA BaseStep == BaseInv /\ [Next]_vars => BaseInv'
<1>1. BaseInv /\ [Next]_vars => TypeOK'
  BY NextTypeOK DEF BaseInv
<1>2. QED
  BY <1>1, ShapeStep, MentionStep, CauseStep DEF BaseInv

(* So it always holds. *)
LEMMA BaseInvariant == Spec => []BaseInv
  BY InitBaseInv, BaseStep, PTL DEF Spec

(* The model's variables keep their types, whatever is decided, lost and    *)
(* restarted.                                                               *)
THEOREM TypeCorrect == Spec => []TypeOK
<1>1. BaseInv => TypeOK
  BY DEF BaseInv
<1>2. QED
  BY <1>1, BaseInvariant, PTL

(* What may be approved has been analysed, if nobody approves by hand.      *)
LEMMA AnalysedStep ==
    ASSUME "approve" \notin OperatorActions, BaseInv, AnalysedInv, [Next]_vars
    PROVE  AnalysedInv'
<1>0. /\ TypeOK /\ MentionInv /\ AnalysedInv /\ Grown
      /\ \A m \in network : m.task \in TaskId
      /\ cards \subseteq TaskId /\ \A r \in runs : r.task \in TaskId
  BY RequestTypes, HistoryGrows DEF BaseInv, TypeOK, Report
<1>1. ASSUME NEW t \in TaskId, status[t] # "absent", Analysed(t) PROVE Analysed(t)'
  BY <1>0, <1>1, TasksLast DEF Lasting
<1>2. ASSUME NEW t \in cards' PROVE Analysed(t)'
  <2>1. t \in cards \/ \E m \in network : m.kind = "decision_request" /\ t = m.task
    BY <1>0 DEF Grown, DecisionRequest
  <2>2. t \in TaskId /\ status[t] # "absent" /\ Analysed(t)
    BY <1>0, <2>1 DEF MentionInv, AnalysedInv, OfApproved
  <2>3. QED
    BY <1>1, <2>2
<1>3. ASSUME NEW r \in runs' PROVE Analysed(r.task)'
  <2>1. r \in runs \/ \E m \in network : m.kind = "execute" /\ r.task = m.task
    BY <1>0 DEF Grown
  <2>2. r.task \in TaskId /\ status[r.task] # "absent" /\ Analysed(r.task)
    BY <1>0, <2>1 DEF MentionInv, AnalysedInv, OfApproved, ExecutionKinds
  <2>3. QED
    BY <1>1, <2>2
<1>4. ASSUME NEW n \in network', OfApproved(n) PROVE Analysed(n.task)'
  <2>1. CASE n \in network
    BY <1>0, <1>1, <1>4, <2>1 DEF MentionInv, AnalysedInv
  <2>2. CASE n \notin network
    <3>1. Origin(n)
      BY <2>2, <1>4, NewRequests
    <3>2. CASE Decided(n)
      BY <1>0, <1>1, <1>4, <3>2 DEF Decided, Says, OfApproved, ExecutionKinds,
                                    MentionInv, AnalysedInv
    <3>3. ASSUME NEW m \in network, Follows(n, m) PROVE Analysed(n.task)'
      <4>1. CASE n.kind = "decision_request"
        <5>1. UpdateTask(m.task, "awaiting_confirmation", [detail[m.task] EXCEPT !.analysed = TRUE])
          BY <3>3, <4>1 DEF Follows, Says
        <5>2. m.task \in TaskId /\ detail \in [TaskId -> Detail] /\ detail[m.task] \in Detail
          BY <1>0 DEF TypeOK, StoreTypeOK
        <5>3. detail'[m.task] = [detail[m.task] EXCEPT !.analysed = TRUE]
          BY <5>1, <5>2 DEF UpdateTask
        <5>4. n.task = m.task
          BY <3>3, Chain
        <5>5. QED
          BY <5>2, <5>3, <5>4 DEF Analysed, Detail
      <4>2. CASE n.kind # "decision_request"
        <5>1. OfApproved(m) /\ n.task = m.task
          BY <1>4, <3>3, <4>2, Chain DEF OfApproved, ExecutionKinds
        <5>2. QED
          BY <1>0, <1>1, <5>1 DEF MentionInv, AnalysedInv
      <4>3. QED
        BY <4>1, <4>2
    <3>4. CASE n.kind = "analyze"
      BY <1>4, <3>4 DEF OfApproved, ExecutionKinds
    <3>5. QED
      BY <3>1, <3>2, <3>3, <3>4 DEF Origin, Says
  <2>3. QED
    BY <2>1, <2>2
<1>5. QED
  BY <1>2, <1>3, <1>4 DEF AnalysedInv

(* Nothing is executed that was not approved under its own id and found to  *)
(* be a task, as long as nobody posts an approval by hand.                  *)
THEOREM ApprovalsPrecede ==
    ASSUME "approve" \notin OperatorActions
    PROVE  Spec => []ApprovedBeforeExecuted
<1>1. Init => AnalysedInv
  BY DEF Init, AnalysedInv
<1>2. BaseInv /\ AnalysedInv /\ [Next]_vars => AnalysedInv'
  BY AnalysedStep
<1>3. BaseInv /\ AnalysedInv => ApprovedBeforeExecuted
  BY DEF BaseInv, CauseInv, AnalysedInv, Analysed, ApprovedBeforeExecuted
<1>4. QED
  BY <1>1, <1>2, <1>3, BaseInvariant, PTL DEF Spec

-----------------------------------------------------------------------------
(* How the status of one task moves. *)

(* The status an answer about t moves it to, with the outcome it leaves.    *)
Answered(t, m) ==
    LET s == status'[t]
        kept == detail'[t].execution = detail[t].execution
    IN
    \/ m.kind = "analysis_done" /\ s \in {"cancelled", "awaiting_confirmation"} /\ kept
    \/ m.kind = "decisions" /\ m.arg = "approve" /\ s = "executing" /\ kept
    \/ m.kind = "decisions" /\ m.arg = "reject" /\ s = "rejected" /\ kept
    \/ m.kind = "decisions" /\ m.arg = "later" /\ s = "later" /\ kept
    \/ m.kind = "decisions" /\ m.arg = "timeout" /\ s = "timeout" /\ kept
    \/ m.kind = "execution_done" /\ s = "recording" /\ detail'[t].execution = m.arg
    \/ /\ m.kind = "recording_done" /\ kept
       /\ s = IF m.arg = "success" THEN "completed" ELSE "failed"

TaskMove(t) ==
    \/ status'[t] = status[t] /\ detail'[t].execution = detail[t].execution
    \/ /\ ReceiveMessage(t) /\ status[t] = "absent" /\ status'[t] = "filtering"
       /\ detail'[t].execution = detail[t].execution
    \/ /\ \E u \in TaskId : ReceiveMessage(u)
       /\ status[t] \in Terminal /\ status'[t] = "forgotten" /\ detail'[t].execution = "none"
    \/ /\ Restart /\ detail'[t].execution = "none"
       /\ status'[t] = IF Known(t) THEN "forgotten" ELSE status[t]
    \/ \E m \in network :
          /\ m.task = t /\ Known(t) /\ Answered(t, m)
          /\ m \notin network'
          /\ UNCHANGED <<pending, feishuVars, historyVars>>

(* A new task pushes out only tasks that have ended. *)
LEMMA CreateMoves ==
    ASSUME TypeOK, NEW t \in TaskId, NEW u \in TaskId, ReceiveMessage(u)
    PROVE  \/ t = u /\ status[t] = "absent" /\ status'[t] = "filtering" /\ detail'[t] = detail[t]
           \/ t # u /\ status'[t] = status[t] /\ detail'[t] = detail[t]
           \/ status[t] \in Terminal /\ status'[t] = "forgotten" /\ detail'[t] = NoDetail
<1>1. CreateTask(u, "filtering")
  BY DEF ReceiveMessage
<1>2. \A v \in Doomed : status[v] \in Terminal
  BY DEF Doomed
<1> DEFINE gone == IF Cardinality(Held) + 1 > MaxTasks THEN Doomed ELSE {}
<1>3. \A v \in gone : status[v] \in Terminal
  BY <1>2
<1>4. /\ status[u] = "absent"
      /\ status'[t] = IF t \in gone THEN "forgotten" ELSE IF t = u THEN "filtering" ELSE status[t]
      /\ detail'[t] = IF t \in gone THEN NoDetail ELSE detail[t]
  BY <1>1 DEF CreateTask
<1> HIDE DEF gone
<1>5. QED
  BY <1>3, <1>4 DEF Terminal

(* Every step moves a task in one of these ways. *)
LEMMA TaskMoves ==
    ASSUME TypeOK, [Next]_vars, NEW t \in TaskId
    PROVE  TaskMove(t)
<1>0. /\ status \in [TaskId -> TaskStatus \cup {"absent", "forgotten"}]
      /\ detail \in [TaskId -> Detail]
      /\ \A m \in network : m.task \in TaskId /\ detail[m.task] \in Detail
  BY RequestTypes, DetailTypes DEF TypeOK, StoreTypeOK
<1>1. CASE UNCHANGED <<storeVars, queueVars>>
  BY <1>1 DEF storeVars, TaskMove
<1>2. ASSUME NEW u \in TaskId, ReceiveMessage(u) PROVE TaskMove(t)
  BY <1>2, CreateMoves DEF TaskMove, NoDetail
<1>3. CASE Restart
  <2>1. status'[t] = (IF Known(t) THEN "forgotten" ELSE status[t]) /\ detail'[t] = NoDetail
    BY <1>3 DEF Restart, ForgetAll
  <2>2. QED
    BY <1>3, <2>1 DEF TaskMove, NoDetail
<1>4. ASSUME NEW m \in network, NEW s, NEW d, NEW e, UpdateTask(m.task, s, d), d.execution = e
      PROVE  IF m.task = t THEN status'[t] = s /\ detail'[t].execution = e
                           ELSE status'[t] = status[t] /\ detail'[t].execution = detail[t].execution
  BY <1>0, <1>4 DEF UpdateTask
<1>4a. ASSUME NEW m \in network, Known(m.task), UNCHANGED <<pending, feishuVars, historyVars>>,
              m \notin network',
              IF m.task = t THEN Answered(t, m)
                            ELSE status'[t] = status[t] /\ detail'[t].execution = detail[t].execution
       PROVE  TaskMove(t)
  BY <1>4a DEF TaskMove
<1>5. ASSUME NEW m \in network
      PROVE  /\ \A x : [detail[m.task] EXCEPT !.decision = x].execution = detail[m.task].execution
             /\ \A x : [detail[m.task] EXCEPT !.execution = x].execution = x
             /\ \A x : [detail[m.task] EXCEPT !.recording = x].execution = detail[m.task].execution
             /\ [detail[m.task] EXCEPT !.analysed = TRUE].execution = detail[m.task].execution
  BY <1>0 DEF Detail
<1>6. ASSUME NEW m \in network, Known(m.task), UNCHANGED <<pending, feishuVars, historyVars>>,
             m.kind = "analysis_done", AnalysisDone(m)
      PROVE  TaskMove(t)
  <2>1. CASE UpdateTask(m.task, "cancelled", detail[m.task]) /\ Serve(m, {})
    <3>1. UpdateTask(m.task, "cancelled", detail[m.task]) /\ m \notin network'
      BY <2>1 DEF Serve
    <3>2. (detail[m.task]).execution = detail[m.task].execution
      BY <1>5
    <3>3. IF m.task = t THEN /\ status'[t] = "cancelled"
                             /\ detail'[t].execution = detail[m.task].execution
                   ELSE status'[t] = status[t] /\ detail'[t].execution = detail[t].execution
      BY <1>4, <3>1, <3>2
    <3>4. IF m.task = t THEN Answered(t, m)
                   ELSE status'[t] = status[t] /\ detail'[t].execution = detail[t].execution
      BY <1>6, <3>3 DEF Answered
    <3>5. QED
      BY <1>4a, <1>6, <3>1, <3>4
  <2>2. CASE /\ UpdateTask(m.task, "awaiting_confirmation", [detail[m.task] EXCEPT !.analysed = TRUE])
             /\ Serve(m, {Request("decision_request", m.task, 0, "none")})
    <3>1. UpdateTask(m.task, "awaiting_confirmation", [detail[m.task] EXCEPT !.analysed = TRUE])
          /\ m \notin network'
      BY <1>6, <2>2 DEF Serve, Request
    <3>2. ([detail[m.task] EXCEPT !.analysed = TRUE]).execution = detail[m.task].execution
      BY <1>5
    <3>3. IF m.task = t THEN /\ status'[t] = "awaiting_confirmation"
                             /\ detail'[t].execution = detail[m.task].execution
                   ELSE status'[t] = status[t] /\ detail'[t].execution = detail[t].execution
      BY <1>4, <3>1, <3>2
    <3>4. IF m.task = t THEN Answered(t, m)
                   ELSE status'[t] = status[t] /\ detail'[t].execution = detail[t].execution
      BY <1>6, <3>3 DEF Answered
    <3>5. QED
      BY <1>4a, <1>6, <3>1, <3>4
  <2>3. CASE SetDetail(m.task, [detail[m.task] EXCEPT !.analysed = TRUE])
    BY <1>0, <1>5, <2>3 DEF SetDetail, TaskMove
  <2>4. QED
    BY <1>6, <2>1, <2>2, <2>3 DEF AnalysisDone
<1>7. ASSUME NEW m \in network, Known(m.task), UNCHANGED <<pending, feishuVars, historyVars>>,
             m.kind = "decisions",
             \/ m.arg = "approve" /\ Approve(m)
             \/ m.arg = "reject" /\ Reject(m)
             \/ m.arg = "later" /\ Later(m)
             \/ m.arg = "timeout" /\ Timeout(m)
      PROVE  TaskMove(t)
  <2>1. CASE m.arg = "approve" /\ Approve(m)
    <3>1. /\ UpdateTask(m.task, "executing", [detail[m.task] EXCEPT !.decision = "approve"])
          /\ m \notin network'
      BY <2>1 DEF Approve, Serve, Request
    <3>2. ([detail[m.task] EXCEPT !.decision = "approve"]).execution = detail[m.task].execution
      BY <1>5
    <3>3. IF m.task = t THEN /\ status'[t] = "executing"
                             /\ detail'[t].execution = detail[m.task].execution
                   ELSE status'[t] = status[t] /\ detail'[t].execution = detail[t].execution
      BY <1>4, <3>1, <3>2
    <3>4. IF m.task = t THEN Answered(t, m)
                   ELSE status'[t] = status[t] /\ detail'[t].execution = detail[t].execution
      BY <1>7, <2>1, <3>3 DEF Answered
    <3>5. QED
      BY <1>4a, <1>7, <3>1, <3>4
  <2>2. CASE m.arg = "reject" /\ Reject(m)
    <3>1. /\ UpdateTask(m.task, "rejected", [detail[m.task] EXCEPT !.decision = "reject"])
          /\ m \notin network'
      BY <2>2 DEF Reject, Serve, Request
    <3>2. ([detail[m.task] EXCEPT !.decision = "reject"]).execution = detail[m.task].execution
      BY <1>5
    <3>3. IF m.task = t THEN /\ status'[t] = "rejected"
                             /\ detail'[t].execution = detail[m.task].execution
                   ELSE status'[t] = status[t] /\ detail'[t].execution = detail[t].execution
      BY <1>4, <3>1, <3>2
    <3>4. IF m.task = t THEN Answered(t, m)
                   ELSE status'[t] = status[t] /\ detail'[t].execution = detail[t].execution
      BY <1>7, <2>2, <3>3 DEF Answered
    <3>5. QED
      BY <1>4a, <1>7, <3>1, <3>4
  <2>3. CASE m.arg = "later" /\ Later(m)
    <3>1. /\ UpdateTask(m.task, "later", [detail[m.task] EXCEPT !.decision = "later"])
          /\ m \notin network'
      BY <2>3 DEF Later, Serve, Request
    <3>2. ([detail[m.task] EXCEPT !.decision = "later"]).execution = detail[m.task].execution
      BY <1>5
    <3>3. IF m.task = t THEN status'[t] = "later" /\ detail'[t].execution = detail[m.task].execution
                   ELSE status'[t] = status[t] /\ detail'[t].execution = detail[t].execution
      BY <1>4, <3>1, <3>2
    <3>4. IF m.task = t THEN Answered(t, m)
                   ELSE status'[t] = status[t] /\ detail'[t].execution = detail[t].execution
      BY <1>7, <2>3, <3>3 DEF Answered
    <3>5. QED
      BY <1>4a, <1>7, <3>1, <3>4
  <2>4. CASE m.arg = "timeout" /\ Timeout(m)
    <3>1. /\ UpdateTask(m.task, "timeout", [detail[m.task] EXCEPT !.decision = "timeout"])
          /\ m \notin network'
      BY <2>4 DEF Timeout, Serve, Request
    <3>2. ([detail[m.task] EXCEPT !.decision = "timeout"]).execution = detail[m.task].execution
      BY <1>5
    <3>3. IF m.task = t THEN /\ status'[t] = "timeout"
                             /\ detail'[t].execution = detail[m.task].execution
                   ELSE status'[t] = status[t] /\ detail'[t].execution = detail[t].execution
      BY <1>4, <3>1, <3>2
    <3>4. IF m.task = t THEN Answered(t, m)
                   ELSE status'[t] = status[t] /\ detail'[t].execution = detail[t].execution
      BY <1>7, <2>4, <3>3 DEF Answered
    <3>5. QED
      BY <1>4a, <1>7, <3>1, <3>4
  <2>5. QED
    BY <1>7, <2>1, <2>2, <2>3, <2>4
<1>8. ASSUME NEW m \in network, Known(m.task), UNCHANGED <<pending, feishuVars, historyVars>>,
             m.kind = "execution_done", ExecutionDone(m)
      PROVE  TaskMove(t)
  <2>1. /\ UpdateTask(m.task, "recording", [detail[m.task] EXCEPT !.execution = m.arg])
        /\ m \notin network'
    BY <1>8 DEF ExecutionDone, Serve, Request
  <2>2. ([detail[m.task] EXCEPT !.execution = m.arg]).execution = m.arg
    BY <1>5
  <2>3. IF m.task = t THEN status'[t] = "recording" /\ detail'[t].execution = m.arg
                 ELSE status'[t] = status[t] /\ detail'[t].execution = detail[t].execution
    BY <1>4, <2>1, <2>2
  <2>4. IF m.task = t THEN Answered(t, m)
                 ELSE status'[t] = status[t] /\ detail'[t].execution = detail[t].execution
    BY <1>8, <2>3 DEF Answered
  <2>5. QED
    BY <1>4a, <1>8, <2>1, <2>4
<1>9. ASSUME NEW m \in network, Known(m.task), UNCHANGED <<pending, feishuVars, historyVars>>,
             m.kind = "recording_done", RecordingDone(m)
      PROVE  TaskMove(t)
  <2>1. /\ UpdateTask(m.task, IF m.arg = "success" THEN "completed" ELSE "failed",
                      [detail[m.task] EXCEPT !.recording = m.arg])
        /\ m \notin network'
    BY <1>9 DEF RecordingDone, Serve
  <2>2. ([detail[m.task] EXCEPT !.recording = m.arg]).execution = detail[m.task].execution
    BY <1>5
  <2>3. IF m.task = t THEN /\ status'[t] = (IF m.arg = "success" THEN "completed" ELSE "failed")
                           /\ detail'[t].execution = detail[m.task].execution
                 ELSE status'[t] = status[t] /\ detail'[t].execution = detail[t].execution
    BY <1>4, <2>1, <2>2
  <2>4. IF m.task = t THEN Answered(t, m)
                 ELSE status'[t] = status[t] /\ detail'[t].execution = detail[t].execution
    BY <1>9, <2>3 DEF Answered
  <2>5. QED
    BY <1>4a, <1>9, <2>1, <2>4
<1>10. QED
  BY <1>1, <1>2, <1>3, <1>6, <1>7, <1>8, <1>9, GatewaySteps DEF GatewayStep

(* Reasons do not go away. *)
LEMMA ReasonsLast ==
    ASSUME Extends, NEW t, NEW outcome, Explained(t, outcome)
    PROVE  Explained(t, outcome)'
  BY DEF Extends, Explained

(* A status of completed or failed, and every request that leads to one, has*)
(* its reason in the history.                                               *)
LEMMA ReasonStep == BaseInv /\ ReasonInv /\ [Next]_vars => ReasonInv'
<1> SUFFICES ASSUME BaseInv, ReasonInv, [Next]_vars PROVE ReasonInv'
  OBVIOUS
<1>0. TypeOK /\ ShapeInv /\ CauseInv /\ Extends
  BY HistoryGrows DEF BaseInv
<1> DEFINE Good(m, e) ==
      /\ m.kind = "execution_done" => \E r \in e : r.task = m.task /\ r.outcome = m.arg
<1>1. ASSUME NEW n \in network' PROVE Good(n, runs')
  <2>1. CASE n \in network
    BY <1>0, <2>1 DEF ReasonInv, Extends
  <2>2. ASSUME NEW m \in network, Follows(n, m), n.kind = "execution_done" PROVE Good(n, runs')
    <3>1. PICK outcome \in {"success", "failure"} :
             /\ runs' = runs \cup {[task |-> m.task, cause |-> m.cause, outcome |-> outcome]}
             /\ Says(n, "execution_done", m.task, m.cause, outcome)
      BY <2>2 DEF Follows, Says
    <3>2. [task |-> m.task, cause |-> m.cause, outcome |-> outcome] \in runs'
      BY <3>1
    <3>3. QED
      BY <2>2, <3>1, <3>2 DEF Says
  <2>3. QED
    BY <2>1, <2>2, NewRequests DEF Origin, Decided, Says, DecisionKinds
<1>2. ASSUME NEW n \in network', n.kind \in RecordingKinds
      PROVE  n.arg \in {"success", "failure"} /\ Explained(n.task, n.arg)'
  <2>1. CASE n \in network
    BY <1>0, <1>2, <2>1, ReasonsLast DEF ReasonInv
  <2>2. ASSUME NEW m \in network, Follows(n, m)
        PROVE  n.arg \in {"success", "failure"} /\ Explained(n.task, n.arg)'
    <3>1. CASE m.kind = "decisions"
      <4>1. m.arg \in {"reject", "timeout"} /\ n.arg = "failure" /\ n.task = m.task
        BY <1>2, <2>2, <3>1, Chain DEF RecordingKinds
      <4>2. m.cause \in DOMAIN clicks /\ clicks[m.cause] = [task |-> m.task, action |-> m.arg]
        BY <1>0, <3>1 DEF CauseInv, DecisionKinds
      <4>3. Explained(n.task, "failure")
        BY <4>1, <4>2 DEF Explained
      <4>4. QED
        BY <1>0, <4>1, <4>3, ReasonsLast
    <3>2. CASE m.kind = "execution_done"
      <4>1. n.arg = m.arg /\ n.task = m.task
        BY <1>2, <2>2, <3>2, Chain DEF RecordingKinds
      <4>2. m.arg \in {"success", "failure"} /\ Explained(m.task, m.arg)
        BY <1>0, <3>2 DEF ShapeInv, Shaped, ReasonInv, Explained
      <4>3. QED
        BY <1>0, <4>1, <4>2, ReasonsLast
    <3>3. CASE m.kind = "record"
      <4>1. n.arg = m.arg /\ n.task = m.task
        BY <1>2, <2>2, <3>3, Chain DEF RecordingKinds
      <4>2. m.arg \in {"success", "failure"} /\ Explained(m.task, m.arg)
        BY <3>3 DEF ReasonInv, RecordingKinds
      <4>3. QED
        BY <1>0, <4>1, <4>2, ReasonsLast
    <3>4. QED
      BY <1>2, <2>2, <3>1, <3>2, <3>3, Chain DEF RecordingKinds
  <2>3. QED
    BY <1>2, <2>1, <2>2, NewRequests DEF Origin, Decided, Says, DecisionKinds, RecordingKinds
<1>3. ASSUME NEW t \in TaskId
      PROVE  /\ status'[t] = "completed" => Explained(t, "success")'
             /\ status'[t] = "failed" => Explained(t, "failure")'
  <2>1. CASE status'[t] = status[t]
    BY <1>0, <2>1, ReasonsLast DEF ReasonInv
  <2>2. ASSUME NEW m \in network, m.task = t, Answered(t, m), status'[t] \in {"completed", "failed"}
        PROVE  /\ status'[t] = "completed" => Explained(t, "success")'
               /\ status'[t] = "failed" => Explained(t, "failure")'
    <3>1. /\ m.kind = "recording_done"
          /\ status'[t] = IF m.arg = "success" THEN "completed" ELSE "failed"
      BY <2>2 DEF Answered
    <3>2. m.arg \in {"success", "failure"} /\ Explained(m.task, m.arg)
      BY <3>1 DEF ReasonInv, RecordingKinds
    <3>3. status'[t] = (IF m.arg = "success" THEN "completed" ELSE "failed") /\ m.task = t
      BY <2>2, <3>1
    <3>4. Explained(t, m.arg)'
      BY <1>0, <2>2, <3>2, ReasonsLast
    <3>5. CASE m.arg = "success"
      BY <3>3, <3>4, <3>5
    <3>6. CASE m.arg = "failure"
      BY <3>3, <3>4, <3>6
    <3>7. QED
      BY <3>2, <3>5, <3>6
  <2>3. CASE status'[t] \in {"filtering", "forgotten"}
    BY <2>3
  <2>4. TaskMove(t)
    BY <1>0, TaskMoves
  <2>5. CASE \E m \in network : m.task = t /\ Answered(t, m)
    BY <2>2, <2>5
  <2>6. QED
    BY <2>1, <2>3, <2>4, <2>5 DEF TaskMove
<1>4. QED
  BY <1>1, <1>2, <1>3 DEF ReasonInv

(* A task that ends as completed was executed successfully; one that ends   *)
(* as failed was executed in vain, rejected or timed out.                   *)
THEOREM EndsExplained == Spec => []EndsForAReason
<1>1. Init => ReasonInv
  BY DEF Init, StoreInit, ReasonInv
<1>2. BaseInv /\ ReasonInv => EndsForAReason
  BY DEF ReasonInv, Explained, EndsForAReason
<1>3. QED
  BY <1>1, <1>2, ReasonStep, BaseInvariant, PTL DEF Spec

-----------------------------------------------------------------------------
(* What is done to tasks the gateway has forgotten, or makes it forget one. *)

(* An answer about a task the gateway has forgotten changes nothing in it.  *)
THEOREM LateAnswersHarmless == Spec => LateAnswersIgnored
<1> DEFINE Ignored == \A m \in network : (m \notin network' /\ ~Known(m.task))
                                            => UNCHANGED <<storeVars, queueVars>>
<1>1. [Next]_vars => Ignored
  <2> SUFFICES ASSUME [Next]_vars, NEW m \in network, m \notin network', ~Known(m.task)
               PROVE  UNCHANGED <<storeVars, queueVars>>
    OBVIOUS
  <2>1. ASSUME NEW t \in TaskId, ReceiveMessage(t) PROVE FALSE
    BY <2>1 DEF ReceiveMessage, RouteNewMessage
  <2>2. CASE Restart
    BY <2>2 DEF Restart
  <2>3. ASSUME NEW n \in network, Known(n.task),
               \/ AnalysisDone(n) \/ Approve(n) \/ Reject(n) \/ Later(n) \/ Timeout(n)
               \/ ExecutionDone(n) \/ RecordingDone(n)
        PROVE  FALSE
    <3>1. \E sent : Serve(n, sent)
      BY <2>3 DEF AnalysisDone, Approve, Reject, Later, Timeout, ExecutionDone, RecordingDone
    <3>2. m = n
      BY <3>1 DEF Serve
    <3>3. QED
      BY <2>3, <3>2
  <2>4. QED
    BY <2>1, <2>2, <2>3, GatewaySteps DEF GatewayStep
<1>2. QED
  BY <1>1, PTL DEF Spec, LateAnswersIgnored

(* Only tasks that have ended are pushed out of the store. *)
THEOREM ForgetsEnded == Spec => ForgetsOnlyEnded
<1> DEFINE Ended == \A t \in TaskId :
               (Known(t) /\ ~Known(t)' /\ restarts' = restarts) => status[t] \in Terminal
<1>1. TypeOK /\ [Next]_vars => Ended
  <2> SUFFICES ASSUME TypeOK, [Next]_vars, NEW t \in TaskId,
                      Known(t), ~Known(t)', restarts' = restarts
               PROVE  status[t] \in Terminal
    OBVIOUS
  <2>1. TaskMove(t) /\ restarts \in Nat
    BY TaskMoves DEF TypeOK
  <2>2. ~Restart
    BY <2>1 DEF Restart
  <2>3. ASSUME NEW m, Answered(t, m) PROVE FALSE
    BY <2>3 DEF Answered, Known, TaskStatus, Terminal
  <2>4. QED
    BY <2>1, <2>2, <2>3 DEF TaskMove, Known, TaskStatus, Terminal
<1>2. QED
  BY <1>1, TypeCorrect, PTL DEF Spec, ForgetsOnlyEnded

-----------------------------------------------------------------------------
(* The slot and the queue. *)

(* A request that is gone was served, or lost. *)
Served(m) ==
    \/ Analyze(m) \/ RouteAnalysisDone(m) \/ DecisionRequest(m) \/ DecisionCallback(m)
    \/ RouteDecision(m) \/ Execute(m) \/ RouteExecutionDone(m) \/ Record(m)
    \/ RouteRecordingDone(m) \/ Lose(m)

(* No step removes a request it does not serve. *)
LEMMA GoneWasServed ==
    ASSUME [Next]_vars, NEW m \in network, m \notin network'
    PROVE  Served(m)
<1>1. ASSUME NEW n \in network, Served(n) PROVE m = n
  <2>1. \E sent : Serve(n, sent)
    <3>1. CASE \/ Analyze(n) \/ DecisionRequest(n) \/ DecisionCallback(n)
               \/ Execute(n) \/ Record(n) \/ Lose(n)
      BY <3>1 DEF Analyze, DecisionRequest, DecisionCallback, Execute, Record, Lose
    <3>2. CASE RouteAnalysisDone(n)
      BY <3>2 DEF RouteAnalysisDone, NotFound, AnalysisDone
    <3>3. CASE RouteDecision(n)
      BY <3>3 DEF RouteDecision, NotFound, Approve, Reject, Later, Timeout
    <3>4. CASE RouteExecutionDone(n)
      BY <3>4 DEF RouteExecutionDone, NotFound, ExecutionDone
    <3>5. CASE RouteRecordingDone(n)
      BY <3>5 DEF RouteRecordingDone, NotFound, RecordingDone
    <3>6. QED
      BY <1>1, <3>1, <3>2, <3>3, <3>4, <3>5 DEF Served
  <2>2. QED
    BY <2>1 DEF Serve
<1>2. ASSUME NEW t \in TaskId, ReceiveMessage(t) \/ TimerExpires(t) PROVE FALSE
  BY <1>2 DEF ReceiveMessage, RouteNewMessage, TimerExpires
<1>3. ASSUME NEW t, NEW a, Click(t, a) \/ OperatorPost(t, a) PROVE FALSE
  BY <1>3 DEF Click, OperatorPost
<1>4. CASE UNCHANGED vars \/ Restart
  BY <1>4 DEF vars, Restart
<1>5. ASSUME NEW n \in network, Served(n) PROVE Served(m)
  BY <1>1, <1>5
<1>6. QED
  BY <1>2, <1>3, <1>4, <1>5 DEF Next, Deliver, Served

(* Losses are counted. *)
LEMMA LossesCounted ==
    [Next]_vars => losses' = losses \/ losses' = losses + 1
<1>1. ASSUME NEW m \in network, Served(m) PROVE losses' = losses \/ losses' = losses + 1
  BY <1>1 DEF Served, Analyze, RouteAnalysisDone, DecisionRequest, DecisionCallback, RouteDecision,
     Execute, RouteExecutionDone, Record, RouteRecordingDone, Lose, historyVars
<1>2. ASSUME NEW t \in TaskId, ReceiveMessage(t) \/ TimerExpires(t) PROVE losses' = losses
  BY <1>2 DEF ReceiveMessage, TimerExpires, historyVars
<1>3. ASSUME NEW t, NEW a, Click(t, a) \/ OperatorPost(t, a) PROVE losses' = losses
  BY <1>3 DEF Click, OperatorPost
<1>4. CASE UNCHANGED vars \/ Restart
  BY <1>4 DEF vars, historyVars, Restart
<1>5. QED
  BY <1>1, <1>2, <1>3, <1>4 DEF Next, Deliver, Served

(* How the slot and the queue move. Only an approval takes the slot, and    *)
(* only a decision other than "later", or a restart, takes from the queue.  *)
QueueMove ==
    /\ \/ current' \in {current, NoTask}
       \/ \E m \in network : Approve(m)
    /\ \/ queue' = queue
       \/ \E e \in QM!Item : queue' = Append(queue, e)
       \/ Restart
       \/ \E m \in network : m.kind = "decisions" /\ m.arg # "later"

(* Slot and queue move in no other way. *)
LEMMA QueueMoves == TypeOK /\ [Next]_vars => QueueMove
<1> SUFFICES ASSUME TypeOK, [Next]_vars PROVE QueueMove
  OBVIOUS
<1>0. /\ \A m \in network : m.task \in TaskId
      /\ index \in [TaskId -> Nat] /\ stats \in [QM!Counter -> Nat]
  BY RequestTypes DEF TypeOK, QM!TypeOK
<1>1. CASE UNCHANGED queueVars
  BY <1>1 DEF queueVars, QueueMove
<1>2. CASE \E t \in TaskId : ReceiveMessage(t)
  BY <1>1, <1>2 DEF ReceiveMessage
<1>3. CASE Restart
  BY <1>3 DEF Restart, QueueMove
<1>4. ASSUME NEW m \in network, AnalysisDone(m) PROVE QueueMove
  <2>1. CASE QM!Enqueue(m.task)
    <3>1. [task |-> m.task, stamp |-> stats["enqueued"] + 1] \in QM!Item
      BY <1>0 DEF QM!Item, QM!Counter
    <3>2. QED
      BY <2>1, <3>1 DEF QM!Enqueue, QueueMove
  <2>2. CASE UNCHANGED QM!vars
    BY <2>2 DEF QM!vars, QueueMove
  <2>3. QED
    BY <1>1, <1>4, <2>1, <2>2 DEF AnalysisDone, QM!TryEnqueue
<1>5. ASSUME NEW m \in network, m.kind = "decisions", m.arg # "later", Approve(m) PROVE QueueMove
  BY <1>5 DEF QueueMove
<1>6. ASSUME NEW m \in network, m.kind = "decisions", m.arg # "later", Reject(m) \/ Timeout(m)
      PROVE  QueueMove
  <2>1. current' \in {current, NoTask}
    BY <1>6 DEF Reject, Timeout, QM!TryCompleteCurrent, QM!CompleteCurrent, QM!TryTimeoutTask,
                QM!TimeoutTask, QM!Release, QM!vars
  <2>2. QED
    BY <1>6, <2>1 DEF QueueMove
<1>7. ASSUME NEW m \in network, Later(m) PROVE QueueMove
  <2>1. CASE QM!RequeueTask(m.task)
    <3>1. QM!RegisteredItem(m.task) \in QM!Item
      BY <1>0 DEF QM!RegisteredItem, QM!Item
    <3>2. QED
      BY <2>1, <3>1 DEF QM!RequeueTask, QM!Release, QueueMove
  <2>2. CASE UNCHANGED QM!vars
    BY <2>2 DEF QM!vars, QueueMove
  <2>3. QED
    BY <1>7, <2>1, <2>2 DEF Later, QM!TryRequeueTask
<1>8. ASSUME NEW m \in network, ExecutionDone(m) PROVE QueueMove
  BY <1>8 DEF ExecutionDone, QM!TryCompleteCurrent, QM!CompleteCurrent, QM!vars, QueueMove
<1>9. ASSUME NEW m \in network, RecordingDone(m) PROVE QueueMove
  BY <1>1, <1>9 DEF RecordingDone
<1>10. QED
  BY <1>1, <1>2, <1>3, <1>4, <1>5, <1>6, <1>7, <1>8, <1>9, GatewaySteps DEF GatewayStep

(* The execution that the slot waits for is asked for by the approval that  *)
(* takes it, and goes on until its answer releases it.                      *)
LEMMA BusyStep == BaseInv /\ BusyMeansExecuting /\ [Next]_vars => BusyMeansExecuting'
<1> SUFFICES ASSUME BaseInv, BusyMeansExecuting, [Next]_vars, current' # NoTask, losses' = 0,
                    \A t \in TaskId : status'[t] # "forgotten"
             PROVE  \E m \in network' : m.kind \in {"execute", "execution_done"}
  BY DEF BusyMeansExecuting
<1>0. TypeOK /\ losses = 0
  BY LossesCounted DEF BaseInv, TypeOK
<1>1. \A t \in TaskId : status[t] # "forgotten"
  BY <1>0, TasksLast DEF Lasting
<1>2. ASSUME NEW m \in network, Approve(m)
      PROVE  Request("execute", m.task, m.cause, "none") \in network'
  BY <1>2 DEF Approve, Serve
<1>3. CASE current' \in {current, NoTask}
  <2>1. PICK m \in network : m.kind \in {"execute", "execution_done"}
    BY <1>0, <1>1, <1>3 DEF BusyMeansExecuting
  <2>2. CASE m \in network'
    BY <2>1, <2>2
  <2>3. CASE m \notin network'
    <3>1. Execute(m) \/ RouteExecutionDone(m)
      <4>1. Served(m)
        BY <2>3, GoneWasServed
      <4>2. ~Lose(m)
        BY <1>0 DEF Lose
      <4>3. QED
        BY <2>1, <4>1, <4>2 DEF Served, Analyze, RouteAnalysisDone, DecisionRequest, DecisionCallback,
           RouteDecision, Record, RouteRecordingDone
    <3>2. CASE Execute(m)
      <4>1. PICK outcome \in {"success", "failure"} :
               Serve(m, {Request("execution_done", m.task, m.cause, outcome)})
        BY <3>2 DEF Execute
      <4>2. Request("execution_done", m.task, m.cause, outcome) \in network'
        BY <4>1 DEF Serve
      <4>3. QED
        BY <4>2 DEF Request
    <3>3. CASE RouteExecutionDone(m)
      <4>1. m.task \in TaskId /\ status[m.task] # "absent"
        BY <1>0, RequestTypes DEF BaseInv, MentionInv
      <4>2. Known(m.task)
        BY <1>0, <1>1, <4>1 DEF Known, TypeOK, StoreTypeOK
      <4>3. current' = NoTask
        BY <3>3, <4>2 DEF RouteExecutionDone, NotFound, ExecutionDone, QM!TryCompleteCurrent,
                          QM!CompleteCurrent, QM!vars
      <4>4. QED
        BY <4>3
    <3>4. QED
      BY <3>1, <3>2, <3>3
  <2>4. QED
    BY <2>2, <2>3
<1>4. QED
  BY <1>0, <1>2, <1>3, QueueMoves DEF QueueMove, Request

(* Without lost requests and forgotten tasks, the slot is held only while   *)
(* an execution that will release it is on its way or going on.             *)
THEOREM SlotIsHeldForAReason == Spec => []BusyMeansExecuting
<1>1. Init => BusyMeansExecuting
  BY DEF Init, QM!Init, BusyMeansExecuting
<1>2. QED
  BY <1>1, BusyStep, BaseInvariant, PTL DEF Spec

(* As long as everybody says "later", nothing leaves the queue. *)
LEMMA DeferStep ==
    ASSUME "later" \notin OperatorActions, BaseInv, DeferInv, [Next]_vars, AllLater'
    PROVE  \A t \in TaskId : /\ (Known(t) /\ Announced(t))' => Queued(t)'
                             /\ status'[t] = "later" => Queued(t)'
<1>0. /\ TypeOK /\ Extends /\ Grown /\ CauseInv /\ MentionInv
      /\ queue \in Seq(QM!Item) /\ Len(clicks) \in Nat
      /\ \A m \in network : m.task \in TaskId
  BY HistoryGrows, RequestTypes DEF BaseInv, TypeOK, QM!TypeOK
<1>1. AllLater
  BY <1>0 DEF AllLater, Extends
<1>2. ASSUME NEW m \in network, m.kind \in DecisionKinds PROVE m.arg = "later"
  <2>1. m.cause \in DOMAIN clicks /\ clicks[m.cause] = [task |-> m.task, action |-> m.arg]
    BY <1>0, <1>2 DEF CauseInv
  <2>2. clicks[m.cause].action = "later" /\ clicks[m.cause].action = m.arg
    BY <1>1, <2>1 DEF AllLater
  <2>3. QED
    BY <2>2
<1>3. \/ queue' = queue
      \/ \E e \in QM!Item : queue' = Append(queue, e)
      \/ Restart
  BY <1>0, <1>2, QueueMoves DEF QueueMove, DecisionKinds
<1>4. ASSUME NEW t \in TaskId, ~Restart, Queued(t) PROVE Queued(t)'
  BY <1>0, <1>3, <1>4 DEF Queued
<1>5. ASSUME NEW t \in TaskId, Known(t), Announced(t) PROVE Queued(t)
  BY <1>1, <1>5 DEF DeferInv
<1>6. ASSUME NEW t \in TaskId, Known(t)' PROVE ~Restart
  <2>1. CASE Restart
    <3>1. status'[t] = IF Known(t) THEN "forgotten" ELSE status[t]
      BY <2>1 DEF Restart, ForgetAll
    <3>2. QED
      BY <1>6, <3>1 DEF Known, TaskStatus, Terminal
  <2>2. QED
    BY <2>1
<1>7. ASSUME NEW t \in TaskId, Known(t)', status[t] # "absent", Announced(t) PROVE Queued(t)'
  <2>1. Lasting(t)
    BY <1>0, TasksLast
  <2>2. Known(t)
    BY <1>0, <1>7, <2>1 DEF Lasting, Known, TypeOK, StoreTypeOK, TaskStatus, Terminal
  <2>3. QED
    BY <1>4, <1>5, <1>6, <1>7, <2>2
<1>8. ASSUME NEW t \in TaskId, Known(t)', t \in cards' PROVE Queued(t)'
  <2>1. t \in cards \/ \E m \in network : DecisionRequest(m) /\ t = m.task
    BY <1>0, <1>8 DEF Grown
  <2>2. Announced(t) /\ status[t] # "absent"
    BY <1>0, <2>1 DEF Announced, DecisionRequest, MentionInv
  <2>3. QED
    BY <1>7, <1>8, <2>2
<1>9. ASSUME NEW t \in TaskId, Known(t)', NEW n \in network', n.task = t,
             n.kind \in {"decision_request"} \cup DecisionKinds
      PROVE  Queued(t)'
  <2>1. CASE n \in network
    <3>1. Announced(t) /\ status[t] # "absent"
      BY <1>0, <1>9, <2>1 DEF Announced, MentionInv
    <3>2. QED
      BY <1>7, <1>9, <3>1
  <2>2. CASE Decided(n)
    <3>1. PICK u \in TaskId, a \in Action, k \in DecisionKinds :
             /\ Says(n, k, u, Len(clicks) + 1, a) /\ Decide(u, a, k)
             /\ u \in cards \/ a \in OperatorActions
      BY <2>2 DEF Decided
    <3>2. clicks'[Len(clicks) + 1].action = a /\ Len(clicks) + 1 \in DOMAIN clicks'
      BY <1>0, <3>1, AppendClick DEF Decide
    <3>3. t \in cards
      BY <1>9, <3>1, <3>2 DEF AllLater, Says
    <3>4. Announced(t) /\ status[t] # "absent"
      BY <1>0, <3>3 DEF Announced, MentionInv
    <3>5. QED
      BY <1>7, <1>9, <3>4
  <2>3. ASSUME NEW m \in network, Follows(n, m), n.kind = "decision_request" PROVE Queued(t)'
    <3>1. QM!TryEnqueue(m.task, TRUE) /\ m.task = t
      BY <1>9, <2>3, Chain DEF Follows, Says
    <3>2. queue' = Append(queue, [task |-> t, stamp |-> stats["enqueued"] + 1])
      BY <3>1 DEF QM!TryEnqueue, QM!Enqueue
    <3>3. /\ Len(queue) + 1 \in DOMAIN queue'
          /\ queue'[Len(queue) + 1] = [task |-> t, stamp |-> stats["enqueued"] + 1]
      BY <1>0, <3>2
    <3>4. QED
      BY <3>3 DEF Queued
  <2>4. ASSUME NEW m \in network, Follows(n, m), n.kind # "decision_request" PROVE Queued(t)'
    <3>1. m.kind = "decision_callback" /\ m.task = t
      BY <1>9, <2>4, Chain DEF DecisionKinds
    <3>2. Announced(t) /\ status[t] # "absent"
      BY <1>0, <3>1 DEF Announced, MentionInv, DecisionKinds
    <3>3. QED
      BY <1>7, <1>9, <3>2
  <2>5. QED
    BY <1>9, <2>1, <2>2, <2>3, <2>4, NewRequests DEF Origin, Says, DecisionKinds
<1>10. ASSUME NEW t \in TaskId, status'[t] = "later" PROVE Queued(t)'
  <2>1. Known(t)'
    BY <1>10 DEF Known, TaskStatus
  <2>2. TaskMove(t)
    BY <1>0, TaskMoves
  <2>3. CASE status[t] = "later"
    <3>1. Queued(t)
      BY <1>1, <2>3 DEF DeferInv
    <3>2. QED
      BY <1>4, <1>6, <2>1, <3>1
  <2>4. ASSUME NEW m \in network, m.task = t, Answered(t, m) PROVE Queued(t)'
    <3>1. m.kind = "decisions"
      BY <1>10, <2>4 DEF Answered
    <3>2. Announced(t) /\ status[t] # "absent"
      BY <1>0, <2>4, <3>1 DEF Announced, MentionInv, DecisionKinds
    <3>3. QED
      BY <1>7, <2>1, <3>2
  <2>5. QED
    BY <1>6, <1>10, <2>1, <2>2, <2>3, <2>4 DEF TaskMove
<1>11. QED
  BY <1>8, <1>9, <1>10 DEF Announced

(* A deferred task is in the queue unless somebody decided otherwise about  *)
(* some task, as long as nobody posts a deferral by hand.                   *)
THEOREM DeferredAreQueued ==
    ASSUME "later" \notin OperatorActions
    PROVE  Spec => []DeferredLostForAReason
<1>1. Init => DeferInv
  BY DEF Init, StoreInit, DeferInv, Known, TaskStatus, Terminal
<1>2. BaseInv /\ DeferInv /\ [Next]_vars => DeferInv'
  BY DeferStep DEF DeferInv
<1>3. DeferInv => DeferredLostForAReason
  BY DEF DeferInv, AllLater, Queued, DeferredLostForAReason
<1>4. QED
  BY <1>1, <1>2, <1>3, BaseInvariant, PTL DEF Spec

-----------------------------------------------------------------------------
(* With a user who decides once, no operator and no restart, a task goes    *)
(* one way.                                                                 *)

Patient == PatientUser /\ OperatorActions = {} /\ MaxRestarts = 0

(* What the proofs of this section start from. *)
PatientInv == BaseInv /\ WayInv

(* Nothing is restarted, and a decision is made by a click of a user who    *)
(* waits for the last one to be processed.                                  *)
LEMMA PatientSteps ==
    ASSUME Patient, PatientInv, [Next]_vars
    PROVE  /\ ~Restart
           /\ \A m \in network : m.kind \in DecisionKinds => m.arg # "timeout"
           /\ \A n : Decided(n) =>
                 /\ n.kind = "decision_callback" /\ n.arg # "timeout"
                 /\ n.task \in TaskId /\ n.task \in cards
                 /\ status[n.task] \in {"awaiting_confirmation", "later"}
                 /\ \A m \in network : m.task # n.task
                 /\ \E r : network' = network \cup {r}
                 /\ UNCHANGED storeVars
<1>1. ~Restart
  BY DEF Patient, PatientInv, BaseInv, TypeOK, Restart
<1>2. ASSUME NEW m \in network, m.kind \in DecisionKinds PROVE m.arg # "timeout"
  <2>1. m.cause \in DOMAIN clicks /\ clicks[m.cause] = [task |-> m.task, action |-> m.arg]
    BY <1>2 DEF PatientInv, BaseInv, CauseInv
  <2>2. clicks[m.cause].action # "timeout" /\ clicks[m.cause].action = m.arg
    BY <2>1 DEF PatientInv, WayInv
  <2>3. QED
    BY <2>2
<1>3. ASSUME NEW n, Decided(n)
      PROVE  /\ n.kind = "decision_callback" /\ n.arg # "timeout"
             /\ n.task \in TaskId /\ n.task \in cards
             /\ status[n.task] \in {"awaiting_confirmation", "later"}
             /\ \A m \in network : m.task # n.task
             /\ \E r : network' = network \cup {r}
             /\ UNCHANGED storeVars
  <2>1. PICK t \in TaskId, a \in Action :
           /\ Says(n, "decision_callback", t, Len(clicks) + 1, a)
           /\ Decide(t, a, "decision_callback")
           /\ t \in cards /\ a # "timeout" /\ Click(t, a)
    BY <1>3 DEF Decided, Patient
  <2>2. /\ ~Deciding(t)
        /\ \A i \in DOMAIN clicks : clicks[i].task = t => clicks[i].action = "later"
    BY <2>1 DEF Click, Patient
  <2>3. /\ status[t] \in {"awaiting_confirmation", "later"}
        /\ \A m \in network : m.task = t => m.kind \in DecisionKinds
    BY <2>1, <2>2 DEF PatientInv, WayInv
  <2>4. \A m \in network : m.task # t
    BY <2>2, <2>3 DEF Deciding, DecisionKinds
  <2>5. QED
    BY <2>1, <2>3, <2>4 DEF Says, Decide
<1>4. QED
  BY <1>1, <1>2, <1>3

(* Where a new request stands among those about its task: it is the only    *)
(* one.                                                                     *)
LEMMA OneRequest ==
    ASSUME Patient, PatientInv, [Next]_vars, NEW a \in network', NEW b \in network', a.task = b.task
    PROVE  a = b
<1>0. \A m \in network : status[m.task] # "absent"
  BY DEF PatientInv, BaseInv, MentionInv
<1>1. ASSUME NEW x \in network', x \notin network, NEW y \in network', x.task = y.task PROVE x = y
  <2>1. ASSUME NEW t \in TaskId, ReceiveMessage(t), Says(x, "analyze", t, 0, "none") PROVE x = y
    <3>1. network' = network \cup {Request("analyze", t, 0, "none")} /\ status[t] = "absent"
      BY <2>1 DEF ReceiveMessage, RouteNewMessage, CreateTask
    <3>2. y \notin network
      BY <1>0, <1>1, <2>1, <3>1 DEF Says
    <3>3. QED
      BY <1>1, <3>1, <3>2
  <2>2. CASE Decided(x)
    BY <1>1, <2>2, PatientSteps
  <2>3. ASSUME NEW m \in network, Follows(x, m) PROVE x = y
    <3>1. network' = (network \ {m}) \cup {x} /\ x.task = m.task
      BY <2>3, Chain DEF Follows, Serve
    <3>2. QED
      BY <1>1, <3>1 DEF PatientInv, WayInv
  <2>4. QED
    BY <1>1, <2>1, <2>2, <2>3, NewRequests DEF Origin
<1>2. CASE a \in network /\ b \in network
  BY <1>2 DEF PatientInv, WayInv
<1>3. QED
  BY <1>1, <1>2

(* The store is left alone by the workers. *)
LEMMA WorkersLeaveStore ==
    ASSUME NEW m, \/ Analyze(m) \/ DecisionRequest(m) \/ DecisionCallback(m)
                  \/ Execute(m) \/ Record(m)
    PROVE  UNCHANGED storeVars
  BY DEF Analyze, DecisionRequest, DecisionCallback, Execute, Record

(* What an update leaves of its task. *)
LEMMA UpdateLeaves ==
    ASSUME TypeOK, NEW t \in TaskId, NEW s, NEW d, UpdateTask(t, s, d)
    PROVE  status'[t] = s /\ detail'[t] = d
  BY DEF TypeOK, StoreTypeOK, UpdateTask

(* A request that stays is still the one its task's status asks for: what   *)
(* moves the task consumes its request, and pushing a task out leaves at    *)
(* most the recording of a refusal behind.                                  *)
LEMMA AwaitedStays ==
    ASSUME Patient, PatientInv, [Next]_vars, NEW n \in network, n \in network'
    PROVE  Awaited(n)'
<1> DEFINE t == n.task
<1>0. /\ TypeOK /\ t \in TaskId /\ status[t] # "absent" /\ Awaited(n) /\ ~Restart
      /\ \A m \in network : m.task = t => m = n
  BY RequestTypes, PatientSteps DEF PatientInv, BaseInv, MentionInv, WayInv
<1>1. CASE status'[t] = status[t] /\ detail'[t].execution = detail[t].execution
  BY <1>0, <1>1 DEF Awaited, DecisionKinds, ExecutionKinds, RecordingKinds
<1>2. CASE status[t] \in Terminal /\ status'[t] = "forgotten"
  BY <1>0, <1>2 DEF Awaited, Terminal, DecisionKinds, ExecutionKinds, RecordingKinds
<1>3. TaskMove(t)
  BY <1>0, TaskMoves
<1>4. QED
  BY <1>0, <1>1, <1>2, <1>3 DEF TaskMove

(* A new request is the one the status its task is moved to asks for. *)
LEMMA AwaitedNew ==
    ASSUME Patient, PatientInv, [Next]_vars, NEW n \in network', n \notin network
    PROVE  Awaited(n)'
<1>0. /\ TypeOK /\ \A m \in network : Awaited(m) /\ m.task \in TaskId /\ detail[m.task] \in Detail
      /\ \A m \in network : m.kind \in DecisionKinds => m.arg # "timeout"
  BY RequestTypes, DetailTypes, PatientSteps DEF PatientInv, BaseInv, WayInv, TypeOK
<1>1. ASSUME NEW t \in TaskId, ReceiveMessage(t), Says(n, "analyze", t, 0, "none") PROVE Awaited(n)'
  <2>1. status[t] = "absent"
    BY <1>1 DEF ReceiveMessage, CreateTask
  <2>2. status'[t] = "filtering"
    BY <1>0, <1>1, <2>1, CreateMoves DEF Terminal
  <2>3. QED
    BY <1>1, <2>2 DEF Awaited, Says, DecisionKinds, ExecutionKinds, RecordingKinds
<1>2. CASE Decided(n)
  <2>1. /\ n.kind = "decision_callback" /\ UNCHANGED storeVars
        /\ status[n.task] \in {"awaiting_confirmation", "later"}
    BY <1>2, PatientSteps
  <2>2. status'[n.task] \in {"awaiting_confirmation", "later"}
    BY <2>1 DEF storeVars
  <2>3. QED
    BY <2>1, <2>2 DEF Awaited, DecisionKinds, ExecutionKinds, RecordingKinds
<1>3. ASSUME NEW m \in network, Follows(n, m) PROVE Awaited(n)'
  <2>0. n.task = m.task /\ Awaited(m)
    BY <1>0, <1>3, Chain
  <2>1. CASE Analyze(m) /\ n.kind = "analysis_done"
    <3>1. status[n.task] = "filtering" /\ UNCHANGED status
      BY <2>0, <2>1, WorkersLeaveStore DEF Analyze, Awaited, storeVars, DecisionKinds,
                                           ExecutionKinds, RecordingKinds
    <3>2. QED
      BY <2>1, <3>1 DEF Awaited, DecisionKinds, ExecutionKinds, RecordingKinds
  <2>2. CASE /\ UpdateTask(m.task, "awaiting_confirmation", [detail[m.task] EXCEPT !.analysed = TRUE])
             /\ n.kind = "decision_request"
    <3>1. status'[n.task] = "awaiting_confirmation"
      BY <1>0, <2>0, <2>2, UpdateLeaves
    <3>2. QED
      BY <2>2, <3>1 DEF Awaited, DecisionKinds, ExecutionKinds, RecordingKinds
  <2>3. CASE DecisionCallback(m) /\ n.kind = "decisions"
    <3>1. status[n.task] \in {"awaiting_confirmation", "later"} /\ UNCHANGED status
      BY <2>0, <2>3, WorkersLeaveStore DEF DecisionCallback, Awaited, DecisionKinds, storeVars,
                                           ExecutionKinds, RecordingKinds
    <3>2. QED
      BY <2>3, <3>1 DEF Awaited, DecisionKinds, ExecutionKinds, RecordingKinds
  <2>4. CASE Approve(m) /\ n.kind = "execute"
    <3>1. status'[n.task] = "executing"
      BY <1>0, <2>0, <2>4, UpdateLeaves DEF Approve
    <3>2. QED
      BY <2>4, <3>1 DEF Awaited, DecisionKinds, ExecutionKinds, RecordingKinds
  <2>5. CASE Reject(m) /\ n.kind = "record" /\ n.arg = "failure"
    <3>1. status'[n.task] = "rejected"
      BY <1>0, <2>0, <2>5, UpdateLeaves DEF Reject
    <3>2. QED
      BY <2>5, <3>1 DEF Awaited, DecisionKinds, ExecutionKinds, RecordingKinds
  <2>6. CASE Execute(m) /\ n.kind = "execution_done"
    <3>1. status[n.task] = "executing" /\ UNCHANGED status
      BY <2>0, <2>6, WorkersLeaveStore DEF Execute, Awaited, DecisionKinds, ExecutionKinds,
                                           storeVars, RecordingKinds
    <3>2. QED
      BY <2>6, <3>1 DEF Awaited, DecisionKinds, ExecutionKinds, RecordingKinds
  <2>7. CASE ExecutionDone(m) /\ n.kind = "record" /\ n.arg = m.arg
    <3>1. /\ status'[n.task] = "recording"
          /\ detail'[n.task] = [detail[m.task] EXCEPT !.execution = m.arg]
      BY <1>0, <2>0, <2>7, UpdateLeaves DEF ExecutionDone
    <3>2. detail'[n.task].execution = m.arg
      BY <1>0, <3>1 DEF Detail
    <3>3. QED
      BY <2>7, <3>1, <3>2 DEF Awaited, DecisionKinds, ExecutionKinds, RecordingKinds
  <2>8. CASE Record(m) /\ n.kind = "recording_done" /\ n.arg = m.arg
    <3>1. m.kind = "record" /\ UNCHANGED <<status, detail>>
      BY <2>8, WorkersLeaveStore DEF Record, storeVars
    <3>2. QED
      BY <2>0, <2>8, <3>1 DEF Awaited, DecisionKinds, ExecutionKinds, RecordingKinds
  <2>9. m.kind = "decisions" => m.arg # "timeout"
    BY <1>0 DEF DecisionKinds
  <2>10. QED
    BY <1>3, <2>1, <2>2, <2>3, <2>4, <2>5, <2>6, <2>7, <2>8, <2>9 DEF Follows, Says
<1>4. QED
  BY <1>1, <1>2, <1>3, NewRequests DEF Origin

(* New decisions are clicks, or posts. *)
LEMMA NewClicks ==
    [Next]_vars => \/ UNCHANGED clicks
                   \/ \E t \in TaskId : \/ \E a \in {"approve", "reject", "later"} : Click(t, a)
                                        \/ \E a \in OperatorActions : OperatorPost(t, a)
<1>1. ASSUME NEW m \in network, Served(m) PROVE UNCHANGED clicks
  BY <1>1 DEF Served, Analyze, RouteAnalysisDone, DecisionRequest, DecisionCallback, RouteDecision,
     Execute, RouteExecutionDone, Record, RouteRecordingDone, Lose, historyVars
<1>2. ASSUME NEW t \in TaskId, ReceiveMessage(t) \/ TimerExpires(t) PROVE UNCHANGED clicks
  BY <1>2 DEF ReceiveMessage, TimerExpires, historyVars
<1>3. CASE UNCHANGED vars \/ Restart
  BY <1>3 DEF vars, historyVars, Restart
<1>4. QED
  BY <1>1, <1>2, <1>3 DEF Next, Deliver, Served

(* A card that may still be clicked belongs to a task that waits. *)
LEMMA CardsWait ==
    ASSUME Patient, PatientInv, [Next]_vars, NEW t \in cards',
           \A i \in DOMAIN clicks' : clicks'[i].task = t => clicks'[i].action = "later"
    PROVE  /\ status'[t] \in {"awaiting_confirmation", "later"}
           /\ \A n \in network' : n.task = t => n.kind \in DecisionKinds
<1>0. TypeOK /\ WayInv /\ Extends /\ Grown /\ CauseInv /\ cards \subseteq TaskId
  BY HistoryGrows DEF PatientInv, BaseInv, TypeOK
<1>1. \A i \in DOMAIN clicks : clicks[i].task = t => clicks[i].action = "later"
  BY <1>0 DEF Extends
<1>2. CASE t \in cards
  <2>1. /\ status[t] \in {"awaiting_confirmation", "later"} /\ t \in TaskId
        /\ \A m \in network : m.task = t => m.kind \in DecisionKinds
    BY <1>0, <1>1, <1>2 DEF WayInv
  <2>2. ASSUME NEW m \in network, m.task = t PROVE m.arg = "later"
    <3>1. m.cause \in DOMAIN clicks /\ clicks[m.cause] = [task |-> m.task, action |-> m.arg]
      BY <1>0, <2>1, <2>2 DEF CauseInv
    <3>2. clicks[m.cause].task = t /\ clicks[m.cause].action = m.arg
      BY <2>2, <3>1
    <3>3. QED
      BY <1>1, <3>1, <3>2
  <2>3. status'[t] \in {"awaiting_confirmation", "later"}
    <3>1. TaskMove(t) /\ ~Restart
      BY <1>0, <2>1, TaskMoves, PatientSteps
    <3>2. ASSUME NEW m \in network, m.task = t, Answered(t, m) PROVE status'[t] = "later"
      BY <2>1, <2>2, <3>2 DEF Answered, DecisionKinds
    <3>3. QED
      BY <2>1, <3>1, <3>2 DEF TaskMove, Terminal
  <2>4. ASSUME NEW n \in network', n.task = t PROVE n.kind \in DecisionKinds
    <3>1. CASE n \in network
      BY <2>1, <2>4, <3>1
    <3>2. ASSUME NEW u \in TaskId, ReceiveMessage(u), Says(n, "analyze", u, 0, "none") PROVE FALSE
      BY <2>1, <2>4, <3>2 DEF ReceiveMessage, CreateTask, Says
    <3>3. CASE Decided(n)
      BY <3>3, PatientSteps DEF DecisionKinds
    <3>4. ASSUME NEW m \in network, Follows(n, m) PROVE n.kind \in DecisionKinds
      <4>1. n.task = m.task
        BY <3>4, Chain
      <4>2. m.kind \in DecisionKinds /\ m.arg = "later"
        BY <2>1, <2>2, <2>4, <4>1
      <4>3. QED
        BY <3>4, <4>2, Chain DEF DecisionKinds
    <3>5. QED
      BY <3>1, <3>2, <3>3, <3>4, NewRequests DEF Origin
  <2>5. QED
    BY <2>3, <2>4
<1>3. CASE t \notin cards
  <2>1. PICK m \in network : DecisionRequest(m) /\ t = m.task
    BY <1>0, <1>3 DEF Grown
  <2>2. status[t] = "awaiting_confirmation" /\ UNCHANGED status
    BY <1>0, <2>1, WorkersLeaveStore DEF WayInv, Awaited, DecisionRequest, storeVars, DecisionKinds,
                                         ExecutionKinds, RecordingKinds
  <2>3. network' = network \ {m}
    BY <2>1 DEF DecisionRequest, Serve
  <2>4. \A n \in network' : n.task # t
    BY <1>0, <2>1, <2>3 DEF WayInv
  <2>5. QED
    BY <2>2, <2>4
<1>4. QED
  BY <1>2, <1>3

(* Every step keeps a task on its way. *)
LEMMA WayStep ==
    ASSUME Patient, PatientInv, [Next]_vars
    PROVE  WayInv'
<1>0. /\ TypeOK /\ WayInv /\ ~Restart /\ Len(clicks) \in Nat
      /\ \A m \in network : m.kind \in DecisionKinds => m.arg # "timeout"
  BY PatientSteps DEF PatientInv, BaseInv, TypeOK
<1>1. \A m, n \in network' : m.task = n.task => m = n
  BY OneRequest
<1>2. \A n \in network' : Awaited(n)'
  BY AwaitedStays, AwaitedNew
<1>3. ASSUME NEW t \in TaskId
      PROVE  /\ status'[t] # "timeout"
             /\ status'[t] \in {"absent", "filtering", "awaiting_confirmation", "later",
                                "executing", "rejected"} => detail'[t].execution = "none"
  <2>1. TaskMove(t)
    BY <1>0, TaskMoves
  <2>2. ASSUME NEW m \in network, m.task = t, Answered(t, m)
        PROVE  /\ status'[t] # "timeout"
               /\ status'[t] \in {"absent", "filtering", "awaiting_confirmation", "later",
                                  "executing", "rejected"} => detail'[t].execution = "none"
    <3>1. CASE m.kind \in {"analysis_done", "decisions"}
      <4>1. status[t] \in {"filtering", "awaiting_confirmation", "later"}
        BY <1>0, <2>2, <3>1 DEF WayInv, Awaited, DecisionKinds, ExecutionKinds, RecordingKinds
      <4>2. detail[t].execution = "none"
        BY <1>0, <4>1 DEF WayInv
      <4>3. QED
        BY <1>0, <2>2, <3>1, <4>2 DEF Answered, DecisionKinds
    <3>2. CASE m.kind \in {"execution_done", "recording_done"}
      BY <2>2, <3>2 DEF Answered
    <3>3. QED
      BY <2>2, <3>1, <3>2 DEF Answered
  <2>3. QED
    BY <1>0, <2>1, <2>2 DEF TaskMove, WayInv
<1>4. \A i \in DOMAIN clicks' : clicks'[i].action # "timeout"
  <2>1. CASE UNCHANGED clicks
    BY <1>0, <2>1 DEF WayInv
  <2>2. ASSUME NEW t \in TaskId, NEW a \in {"approve", "reject", "later"}, Click(t, a)
        PROVE  \A i \in DOMAIN clicks' : clicks'[i].action # "timeout"
    <3>1. clicks' = Append(clicks, [task |-> t, action |-> a]) /\ a \in Action
      BY <2>2 DEF Click, Action
    <3>2. /\ DOMAIN clicks = 1..Len(clicks) /\ DOMAIN clicks' = 1..Len(clicks)+1
          /\ \A i \in DOMAIN clicks : clicks'[i] = clicks[i]
          /\ clicks'[Len(clicks) + 1] = [task |-> t, action |-> a]
      BY <1>0, <3>1, AppendClick
    <3>3. \A i \in DOMAIN clicks' : i \in DOMAIN clicks \/ i = Len(clicks) + 1
      BY <1>0, <3>2
    <3>4. [task |-> t, action |-> a].action # "timeout"
      BY <2>2
    <3>5. QED
      BY <1>0, <3>2, <3>3, <3>4 DEF WayInv
  <2>3. QED
    BY <2>1, <2>2, NewClicks DEF Patient
<1>5. QED
  BY <1>1, <1>2, <1>3, <1>4, CardsWait DEF WayInv

(* One task's way: the requests of a patient user's system are one per task. *)
LEMMA PatientInvariant ==
    ASSUME Patient
    PROVE  Spec => []PatientInv
<1>1. Init => WayInv
  BY DEF Init, StoreInit, WayInv, NoDetail
<1>2. PatientInv /\ [Next]_vars => PatientInv'
  BY BaseStep, WayStep DEF PatientInv
<1>3. Init => PatientInv
  BY <1>1, InitBaseInv DEF PatientInv
<1>4. QED
  BY <1>2, <1>3, PTL DEF Spec

(* Rows come from serving a request to record. *)
LEMMA NewRows ==
    [Next]_vars => \/ rows' = rows
                   \/ \E m \in network : /\ Record(m)
                         /\ rows' = rows \cup {[task |-> m.task, cause |-> m.cause, outcome |-> m.arg]}
<1>1. ASSUME NEW m \in network,
             \/ Analyze(m) \/ RouteAnalysisDone(m) \/ DecisionRequest(m) \/ DecisionCallback(m)
             \/ RouteDecision(m) \/ Execute(m) \/ RouteExecutionDone(m) \/ RouteRecordingDone(m)
             \/ Lose(m)
      PROVE  rows' = rows
  BY <1>1 DEF Analyze, RouteAnalysisDone, DecisionRequest, DecisionCallback, RouteDecision,
     Execute, RouteExecutionDone, RouteRecordingDone, Lose, feishuVars
<1>2. ASSUME NEW m \in network, Record(m)
      PROVE  rows' = rows \/ rows' = rows \cup {[task |-> m.task, cause |-> m.cause, outcome |-> m.arg]}
  BY <1>2 DEF Record
<1>3. ASSUME NEW t \in TaskId, ReceiveMessage(t) \/ TimerExpires(t) PROVE rows' = rows
  BY <1>3 DEF ReceiveMessage, TimerExpires, feishuVars
<1>4. ASSUME NEW t, NEW a, Click(t, a) \/ OperatorPost(t, a) PROVE rows' = rows
  BY <1>4 DEF Click, OperatorPost, feishuVars
<1>5. CASE UNCHANGED vars \/ Restart
  BY <1>5 DEF vars, feishuVars, Restart
<1>6. QED
  BY <1>1, <1>2, <1>3, <1>4, <1>5 DEF Next, Deliver

(* What is true of a task that has a row. *)
Rowed(t) ==
    /\ status[t] \in {"recording", "rejected", "completed", "failed", "forgotten"}
    /\ \A m \in network : m.task = t => m.kind = "recording_done"

(* It stays true. *)
LEMMA RowedStays ==
    ASSUME Patient, PatientInv, [Next]_vars, NEW t \in TaskId, Rowed(t)
    PROVE  Rowed(t)'
<1>0. TypeOK /\ ~Restart
  BY PatientSteps DEF PatientInv, BaseInv
<1>1. status'[t] \in {"recording", "rejected", "completed", "failed", "forgotten"}
  <2>1. TaskMove(t)
    BY <1>0, TaskMoves
  <2>2. ASSUME NEW m \in network, m.task = t, Answered(t, m)
        PROVE  status'[t] \in {"completed", "failed"}
    BY <2>2 DEF Answered, Rowed
  <2>3. QED
    BY <1>0, <2>1, <2>2 DEF TaskMove, Rowed
<1>2. ASSUME NEW n \in network', n.task = t PROVE n.kind = "recording_done"
  <2>1. CASE n \in network
    BY <1>2, <2>1 DEF Rowed
  <2>2. ASSUME NEW u \in TaskId, ReceiveMessage(u), Says(n, "analyze", u, 0, "none") PROVE FALSE
    BY <1>2, <2>2 DEF ReceiveMessage, CreateTask, Says, Rowed
  <2>3. CASE Decided(n)
    BY <1>2, <2>3, PatientSteps DEF Rowed
  <2>4. ASSUME NEW m \in network, Follows(n, m) PROVE FALSE
    <3>1. m.kind = "recording_done"
      BY <1>2, <2>4, Chain DEF Rowed
    <3>2. QED
      BY <2>4, <3>1, Chain
  <2>5. QED
    BY <2>1, <2>2, <2>3, <2>4, NewRequests DEF Origin
<1>3. QED
  BY <1>1, <1>2 DEF Rowed

(* A task that has a row is not recorded again. *)
LEMMA RowStep ==
    ASSUME Patient, PatientInv, RowInv, [Next]_vars
    PROVE  RowInv'
<1>0. /\ TypeOK /\ WayInv /\ \A r \in rows : r.task \in TaskId /\ Rowed(r.task)
  BY DEF PatientInv, BaseInv, TypeOK, Report, RowInv, Rowed
<1>1. \A r \in rows : Rowed(r.task)'
  BY <1>0, RowedStays
<1>2. CASE rows' = rows
  BY <1>1, <1>2 DEF RowInv, OneRowPerTask, Rowed
<1>3. ASSUME NEW m \in network, Record(m),
             rows' = rows \cup {[task |-> m.task, cause |-> m.cause, outcome |-> m.arg]}
      PROVE  RowInv'
  <2> DEFINE new == [task |-> m.task, cause |-> m.cause, outcome |-> m.arg]
  <2>1. \A r \in rows : r.task # m.task
    BY <1>0, <1>3 DEF Record, Rowed
  <2>2. status'[m.task] \in {"recording", "rejected", "forgotten"}
    <3>1. UNCHANGED status /\ Awaited(m)
      BY <1>0, <1>3, WorkersLeaveStore DEF WayInv, storeVars
    <3>2. QED
      BY <1>3, <3>1 DEF Awaited, Record, RecordingKinds
  <2>3. \A n \in network' : n.task = m.task => n.kind = "recording_done"
    <3>1. network' = (network \ {m}) \cup {Request("recording_done", m.task, m.cause, m.arg)}
      BY <1>3 DEF Record, Serve
    <3>2. QED
      BY <1>0, <3>1 DEF WayInv, Request
  <2>4. Rowed(new.task)'
    BY <2>2, <2>3 DEF Rowed
  <2>5. \A r \in rows' : r \in rows \/ r = new
    BY <1>3
  <2> HIDE DEF new
  <2>6. \A r \in rows' : Rowed(r.task)'
    BY <1>1, <2>4, <2>5
  <2>7. new.task = m.task
    BY DEF new
  <2>8. ASSUME NEW r \in rows', NEW q \in rows', r.task = q.task PROVE r = q
    BY <2>1, <2>5, <2>7, <2>8 DEF RowInv, OneRowPerTask
  <2>9. OneRowPerTask'
    BY <2>8 DEF OneRowPerTask
  <2>10. QED
    BY <2>6, <2>9 DEF RowInv, Rowed
<1>4. QED
  BY <1>2, <1>3, NewRows

(* With a user who decides once, no operator and no restart, a task leaves  *)
(* at most one row in the Feishu table, however many requests are lost.     *)
THEOREM OneRow ==
    ASSUME Patient
    PROVE  Spec => []OneRowPerTask
<1>1. Init => RowInv
  BY DEF Init, RowInv, OneRowPerTask
<1>2. PatientInv /\ RowInv /\ [Next]_vars => RowInv'
  BY RowStep
<1>3. RowInv => OneRowPerTask
  BY DEF RowInv
<1>4. QED
  BY <1>1, <1>2, <1>3, PatientInvariant, PTL DEF Spec

-----------------------------------------------------------------------------
(* The gateway implements the promised life of a task. *)

outcomes == [t \in TaskId |-> detail[t].execution]

(* An update seen from the abstract specification. *)
LEMMA UpdateMoves ==
    ASSUME TypeOK, NEW t \in TaskId, NEW s, NEW d, UpdateTask(t, s, d)
    PROVE  /\ status' = [status EXCEPT ![t] = s]
           /\ outcomes' = [outcomes EXCEPT ![t] = d.execution]
<1>1. status' = [status EXCEPT ![t] = s] /\ detail' = [detail EXCEPT ![t] = d]
  BY DEF UpdateTask
<1>2. detail \in [TaskId -> Detail]
  BY DEF TypeOK, StoreTypeOK
<1>3. ASSUME NEW u \in TaskId PROVE outcomes'[u] = [outcomes EXCEPT ![t] = d.execution][u]
  <2>1. CASE u = t
    BY <1>1, <1>2, <2>1 DEF outcomes
  <2>2. CASE u # t
    BY <1>1, <1>2, <2>2 DEF outcomes
  <2>3. QED
    BY <2>1, <2>2
<1>4. QED
  BY <1>1, <1>3 DEF outcomes

(* Initial states map to initial states. *)
LEMMA LifecycleInit == Init => Lifecycle!Init
<1>1. Init => outcomes = [t \in TaskId |-> "none"]
  BY DEF Init, StoreInit, NoDetail, outcomes
<1>2. QED
  BY <1>1 DEF Init, StoreInit, Lifecycle!Init, outcomes

(* Every step maps to a step of the life of a task, or to a stutter. *)
LEMMA LifecycleStep ==
    ASSUME Patient, PatientInv, [Next]_vars
    PROVE  [Lifecycle!Next]_Lifecycle!vars
<1>0. /\ TypeOK /\ WayInv /\ ~Restart
      /\ detail \in [TaskId -> Detail] /\ status \in [TaskId -> TaskStatus \cup {"absent", "forgotten"}]
      /\ \A m \in network : m.task \in TaskId /\ detail[m.task] \in Detail /\ Awaited(m)
      /\ \A m \in network : m.kind \in DecisionKinds => m.arg # "timeout"
      /\ \A m \in network : m.kind \in {"execution_done"} \cup RecordingKinds
                                => m.arg \in {"success", "failure"}
  BY RequestTypes, DetailTypes, PatientSteps
  DEF PatientInv, BaseInv, TypeOK, StoreTypeOK, WayInv, ShapeInv, Shaped
<1>1. ASSUME UNCHANGED <<status, outcomes>> PROVE UNCHANGED Lifecycle!vars
  BY <1>1 DEF Lifecycle!vars, outcomes
<1>2. CASE UNCHANGED <<storeVars, queueVars>>
  BY <1>1, <1>2 DEF storeVars, outcomes
<1>3. ASSUME NEW t \in TaskId, ReceiveMessage(t) PROVE Lifecycle!ReceiveAndForget(t)
  <2> DEFINE gone == IF Cardinality(Held) + 1 > MaxTasks THEN Doomed ELSE {}
  <2>1. /\ status[t] = "absent"
        /\ status' = [u \in TaskId |-> IF u \in gone THEN "forgotten"
                                       ELSE IF u = t THEN "filtering" ELSE status[u]]
        /\ detail' = [u \in TaskId |-> IF u \in gone THEN NoDetail ELSE detail[u]]
    BY <1>3 DEF ReceiveMessage, CreateTask
  <2>2. \A v \in gone : v \in TaskId /\ status[v] \in Terminal
    BY DEF Doomed
  <2>3. gone \in SUBSET {u \in TaskId : status[u] \in {"completed", "failed", "cancelled", "rejected"}}
    BY <1>0, <2>2 DEF Terminal, WayInv
  <2> HIDE DEF gone
  <2>4. outcomes' = [u \in TaskId |-> IF u \in gone THEN "none" ELSE outcomes[u]]
    BY <2>1 DEF outcomes, NoDetail
  <2>5. QED
    BY <2>1, <2>3, <2>4 DEF Lifecycle!ReceiveAndForget, outcomes
<1>4. ASSUME NEW m \in network
      PROVE  /\ \A x : [detail[m.task] EXCEPT !.decision = x].execution = detail[m.task].execution
             /\ \A x : [detail[m.task] EXCEPT !.execution = x].execution = x
             /\ \A x : [detail[m.task] EXCEPT !.recording = x].execution = detail[m.task].execution
             /\ [detail[m.task] EXCEPT !.analysed = TRUE].execution = detail[m.task].execution
  BY <1>0 DEF Detail
<1>5. ASSUME NEW m \in network, NEW s, NEW d, UpdateTask(m.task, s, d),
             d.execution = detail[m.task].execution
      PROVE  status' = [status EXCEPT ![m.task] = s] /\ outcomes' = outcomes
  <2>1. /\ status' = [status EXCEPT ![m.task] = s]
        /\ outcomes' = [outcomes EXCEPT ![m.task] = d.execution]
    BY <1>0, <1>5, UpdateMoves
  <2>2. /\ outcomes = [u \in TaskId |-> outcomes[u]]
        /\ outcomes[m.task] = detail[m.task].execution
    BY <1>0 DEF outcomes
  <2>3. [outcomes EXCEPT ![m.task] = d.execution] = outcomes
    BY <1>5, <2>2
  <2>4. QED
    BY <2>1, <2>3
<1>6. ASSUME NEW m \in network, m.kind = "analysis_done", AnalysisDone(m)
      PROVE  [Lifecycle!Next]_Lifecycle!vars
  <2>1. status[m.task] = "filtering"
    BY <1>0, <1>6 DEF Awaited
  <2>2. CASE UpdateTask(m.task, "cancelled", detail[m.task])
    <3>1. status' = [status EXCEPT ![m.task] = "cancelled"] /\ outcomes' = outcomes
      BY <1>5, <2>2
    <3>2. Lifecycle!Classify(m.task)
      BY <2>1, <3>1 DEF Lifecycle!Classify, Lifecycle!Move, outcomes
    <3>3. QED
      BY <1>0, <3>2 DEF Lifecycle!Next
  <2>3. CASE UpdateTask(m.task, "awaiting_confirmation", [detail[m.task] EXCEPT !.analysed = TRUE])
    <3>1. status' = [status EXCEPT ![m.task] = "awaiting_confirmation"] /\ outcomes' = outcomes
      BY <1>4, <1>5, <2>3
    <3>2. Lifecycle!Classify(m.task)
      BY <2>1, <3>1 DEF Lifecycle!Classify, Lifecycle!Move, outcomes
    <3>3. QED
      BY <1>0, <3>2 DEF Lifecycle!Next
  <2>4. CASE SetDetail(m.task, [detail[m.task] EXCEPT !.analysed = TRUE])
    <3>1. /\ detail' = [detail EXCEPT ![m.task] = [detail[m.task] EXCEPT !.analysed = TRUE]]
          /\ UNCHANGED status
      BY <2>4 DEF SetDetail
    <3>2. \A u \in TaskId : detail'[u].execution = detail[u].execution
      BY <1>0, <1>4, <3>1
    <3>3. outcomes' = outcomes
      BY <3>2 DEF outcomes
    <3>4. QED
      BY <1>1, <3>1, <3>3
  <2>5. QED
    BY <1>6, <2>2, <2>3, <2>4 DEF AnalysisDone
<1>7. ASSUME NEW m \in network, m.kind = "decisions", NEW s \in {"executing", "rejected", "later"},
             NEW x, UpdateTask(m.task, s, [detail[m.task] EXCEPT !.decision = x])
      PROVE  [Lifecycle!Next]_Lifecycle!vars
  <2>1. status[m.task] \in {"awaiting_confirmation", "later"}
    BY <1>0, <1>7 DEF Awaited, DecisionKinds
  <2>2. [detail[m.task] EXCEPT !.decision = x].execution = detail[m.task].execution
    BY <1>4
  <2>3. status' = [status EXCEPT ![m.task] = s] /\ outcomes' = outcomes
    BY <1>5, <1>7, <2>2
  <2>4. Lifecycle!Decide(m.task)
    BY <1>7, <2>1, <2>3 DEF Lifecycle!Decide, Lifecycle!Move, outcomes
  <2>5. QED
    BY <1>0, <2>4 DEF Lifecycle!Next
<1>8. ASSUME NEW m \in network, m.kind = "execution_done", ExecutionDone(m)
      PROVE  [Lifecycle!Next]_Lifecycle!vars
  <2>1. status[m.task] = "executing" /\ m.arg \in {"success", "failure"}
    BY <1>0, <1>8 DEF Awaited, ExecutionKinds
  <2>2. [detail[m.task] EXCEPT !.execution = m.arg].execution = m.arg
    BY <1>4
  <2> DEFINE d == [detail[m.task] EXCEPT !.execution = m.arg]
  <2>3. UpdateTask(m.task, "recording", d)
    BY <1>8 DEF ExecutionDone
  <2>4. /\ status' = [status EXCEPT ![m.task] = "recording"]
        /\ outcomes' = [outcomes EXCEPT ![m.task] = m.arg]
    <3>1. d.execution = m.arg
      BY <2>2
    <3> HIDE DEF d
    <3>2. /\ status' = [status EXCEPT ![m.task] = "recording"]
          /\ outcomes' = [outcomes EXCEPT ![m.task] = d.execution]
      BY <1>0, <2>3, UpdateMoves
    <3>3. QED
      BY <3>1, <3>2
  <2>5. Lifecycle!Executed(m.task)
    BY <2>1, <2>4 DEF Lifecycle!Executed, Lifecycle!Move, outcomes
  <2>6. QED
    BY <1>0, <2>5 DEF Lifecycle!Next
<1>9. ASSUME NEW m \in network, m.kind = "recording_done", Known(m.task), RecordingDone(m)
      PROVE  [Lifecycle!Next]_Lifecycle!vars
  <2>1. /\ m.arg \in {"success", "failure"}
        /\ \/ status[m.task] = "recording" /\ detail[m.task].execution = m.arg
           \/ status[m.task] = "rejected" /\ m.arg = "failure"
    BY <1>0, <1>9 DEF Awaited, RecordingKinds, Known, TaskStatus, Terminal
  <2>2. status[m.task] = "rejected" => detail[m.task].execution = "none"
    BY <1>0 DEF WayInv
  <2>3. [detail[m.task] EXCEPT !.recording = m.arg].execution = detail[m.task].execution
    BY <1>4
  <2>4. /\ status' = [status EXCEPT ![m.task] = IF m.arg = "success" THEN "completed" ELSE "failed"]
        /\ outcomes' = outcomes
    BY <1>5, <1>9, <2>3 DEF RecordingDone
  <2>5. outcomes[m.task] = detail[m.task].execution
    BY <1>0 DEF outcomes
  <2>6. Lifecycle!Recorded(m.task) \/ Lifecycle!RejectionRecorded(m.task)
    BY <2>1, <2>2, <2>4, <2>5
       DEF Lifecycle!Recorded, Lifecycle!RejectionRecorded, Lifecycle!Move, outcomes
  <2>7. QED
    BY <1>0, <2>6 DEF Lifecycle!Next
<1>10. QED
  <2>1. ASSUME NEW m \in network, m.kind = "decisions",
               \/ Approve(m) \/ Reject(m) \/ Later(m)
        PROVE  [Lifecycle!Next]_Lifecycle!vars
    BY <1>7, <2>1 DEF Approve, Reject, Later
  <2>2. ASSUME NEW t \in TaskId, ReceiveMessage(t) PROVE [Lifecycle!Next]_Lifecycle!vars
    BY <1>3, <2>2 DEF Lifecycle!Next
  <2>3. QED
    BY <1>0, <1>1, <1>2, <1>6, <1>8, <1>9, <2>1, <2>2, GatewaySteps DEF GatewayStep, DecisionKinds

(* With a user who decides once, no operator and no restart, the gateway    *)
(* and its workers implement the life of a task that TaskLifecycle          *)
(* describes, even when requests are lost: the moves of README's diagram,   *)
(* and from rejected to failed.                                             *)
THEOREM GatewayImplementsLifecycle ==
    ASSUME Patient
    PROVE  Spec => ImplementsLifecycle
<1>1. PatientInv /\ [Next]_vars => [Lifecycle!Next]_Lifecycle!vars
  BY LifecycleStep
<1>2. QED
  BY <1>1, LifecycleInit, PatientInvariant, PTL DEF Spec, ImplementsLifecycle, Lifecycle!Spec


(* The tasks CountedOnce compares with the counters. *)
EndedTasks == {t \in TaskId : status[t] \in {"completed", "failed"}}

PastTasks == {t \in TaskId : status[t] \in {"completed", "failed", "forgotten"}}

SeenTasks == {t \in TaskId : status[t] # "absent"}

CountInv == IsFiniteSet(SeenTasks) /\ CountedOnce

(* Tasks that have ended were seen, so they are finitely many too. *)
LEMMA EndedAreFinite ==
    ASSUME IsFiniteSet(SeenTasks)
    PROVE  /\ IsFiniteSet(EndedTasks) /\ Cardinality(EndedTasks) \in Nat
           /\ IsFiniteSet(PastTasks) /\ Cardinality(PastTasks) \in Nat
<1>1. EndedTasks \subseteq SeenTasks /\ PastTasks \subseteq SeenTasks
  BY DEF EndedTasks, PastTasks, SeenTasks
<1>2. IsFiniteSet(EndedTasks) /\ IsFiniteSet(PastTasks)
  BY <1>1, FS_Subset
<1>3. QED
  BY <1>2, FS_CardinalityType

(* A step that ends no task and counts none leaves the counts right. *)
LEMMA CountKept ==
    ASSUME TypeOK, CountInv, IsFiniteSet(SeenTasks'),
           EndedTasks' \subseteq EndedTasks, PastTasks \subseteq PastTasks',
           tmStats'.completed = tmStats.completed, tmStats'.failed = tmStats.failed
    PROVE  CountInv'
<1>1. /\ IsFiniteSet(EndedTasks) /\ Cardinality(EndedTasks) \in Nat
      /\ Cardinality(PastTasks) \in Nat
  BY EndedAreFinite DEF CountInv
<1>2. /\ IsFiniteSet(EndedTasks') /\ Cardinality(EndedTasks') \in Nat
      /\ IsFiniteSet(PastTasks') /\ Cardinality(PastTasks') \in Nat
  <2>1. EndedTasks' \subseteq SeenTasks' /\ PastTasks' \subseteq SeenTasks'
    BY DEF EndedTasks, PastTasks, SeenTasks
  <2>2. QED
    BY <2>1, FS_Subset, FS_CardinalityType
<1>3. /\ Cardinality(EndedTasks') <= Cardinality(EndedTasks)
      /\ Cardinality(PastTasks) <= Cardinality(PastTasks')
  BY <1>1, <1>2, FS_Subset
<1>4. tmStats.completed \in Nat /\ tmStats.failed \in Nat
  BY DEF TypeOK, StoreTypeOK
<1>5. /\ Cardinality(EndedTasks) <= tmStats.completed + tmStats.failed
      /\ tmStats.completed + tmStats.failed <= Cardinality(PastTasks)
  BY DEF CountInv, CountedOnce, EndedTasks, PastTasks
<1>6. /\ Cardinality(EndedTasks') <= tmStats'.completed + tmStats'.failed
      /\ tmStats'.completed + tmStats'.failed <= Cardinality(PastTasks')
  BY <1>1, <1>2, <1>3, <1>4, <1>5
<1>7. QED
  BY <1>6 DEF CountInv, CountedOnce, EndedTasks, PastTasks

(* Under one request per task, a report is recorded for a task that is      *)
(* being recorded or was rejected: it is counted for the first time.        *)
LEMMA CountStep ==
    ASSUME Patient, PatientInv, CountInv, [Next]_vars
    PROVE  CountInv'
<1>0. /\ TypeOK /\ WayInv /\ ~Restart
      /\ status \in [TaskId -> TaskStatus \cup {"absent", "forgotten"}]
      /\ tmStats \in [{"created", "completed", "failed", "cancelled"} -> Nat]
      /\ \A m \in network : m.task \in TaskId /\ Awaited(m)
      /\ \A m \in network : m.kind \in DecisionKinds => m.arg # "timeout"
      /\ IsFiniteSet(SeenTasks)
  BY RequestTypes, PatientSteps
  DEF PatientInv, BaseInv, TypeOK, StoreTypeOK, WayInv, ShapeInv, Shaped, CountInv
<1>1. ASSUME UNCHANGED storeVars PROVE CountInv'
  BY <1>1 DEF storeVars, CountInv, CountedOnce, SeenTasks
<1>2. ASSUME NEW t \in TaskId, ReceiveMessage(t) PROVE CountInv'
  <2>1. /\ \A u \in TaskId : \/ status'[u] = status[u]
                             \/ u = t /\ status[u] = "absent" /\ status'[u] = "filtering"
                             \/ status[u] \in Terminal /\ status'[u] = "forgotten"
        /\ tmStats' = [tmStats EXCEPT !.created = @ + 1]
    BY <1>2 DEF ReceiveMessage, CreateTask, Doomed
  <2>2. /\ EndedTasks' \subseteq EndedTasks /\ PastTasks \subseteq PastTasks'
        /\ SeenTasks' \subseteq SeenTasks \cup {t}
    BY <2>1 DEF EndedTasks, PastTasks, SeenTasks, Terminal
  <2>3. IsFiniteSet(SeenTasks')
    BY <1>0, <2>2, FS_AddElement, FS_Subset
  <2>4. tmStats'.completed = tmStats.completed /\ tmStats'.failed = tmStats.failed
    BY <1>0, <2>1
  <2>5. QED
    BY <1>0, <2>2, <2>3, <2>4, CountKept
<1>3. ASSUME NEW m \in network, NEW s, NEW d, UpdateTask(m.task, s, d),
             s \notin {"completed", "failed", "forgotten"},
             status[m.task] \notin {"absent", "completed", "failed", "forgotten"}
      PROVE  CountInv'
  <2>1. /\ status' = [status EXCEPT ![m.task] = s]
        /\ tmStats'.completed = tmStats.completed /\ tmStats'.failed = tmStats.failed
    BY <1>0, <1>3 DEF UpdateTask
  <2>2. /\ EndedTasks' \subseteq EndedTasks /\ PastTasks \subseteq PastTasks'
        /\ SeenTasks' \subseteq SeenTasks
    BY <1>0, <1>3, <2>1 DEF EndedTasks, PastTasks, SeenTasks
  <2>3. IsFiniteSet(SeenTasks')
    BY <1>0, <2>2, FS_Subset
  <2>4. QED
    BY <1>0, <2>1, <2>2, <2>3, CountKept
<1>4. ASSUME NEW m \in network, m.kind = "analysis_done", AnalysisDone(m) PROVE CountInv'
  <2>1. status[m.task] = "filtering"
    BY <1>0, <1>4 DEF Awaited
  <2>2. CASE SetDetail(m.task, [detail[m.task] EXCEPT !.analysed = TRUE])
    BY <2>2 DEF SetDetail, CountInv, CountedOnce, SeenTasks
  <2>3. CASE UpdateTask(m.task, "cancelled", detail[m.task])
    BY <1>3, <2>1, <2>3
  <2>4. CASE UpdateTask(m.task, "awaiting_confirmation", [detail[m.task] EXCEPT !.analysed = TRUE])
    BY <1>3, <2>1, <2>4
  <2>5. QED
    BY <1>4, <2>2, <2>3, <2>4 DEF AnalysisDone
<1>5. ASSUME NEW m \in network, m.kind = "decisions", Approve(m) \/ Reject(m) \/ Later(m)
      PROVE  CountInv'
  <2>1. status[m.task] \in {"awaiting_confirmation", "later"}
    BY <1>0, <1>5 DEF Awaited, DecisionKinds
  <2>2. ASSUME NEW s \in {"executing", "rejected", "later"}, NEW d, UpdateTask(m.task, s, d)
        PROVE  CountInv'
    BY <1>3, <2>1, <2>2
  <2>3. QED
    BY <1>5, <2>2 DEF Approve, Reject, Later
<1>6. ASSUME NEW m \in network, m.kind = "execution_done", ExecutionDone(m) PROVE CountInv'
  <2>1. status[m.task] = "executing"
    BY <1>0, <1>6 DEF Awaited, ExecutionKinds
  <2>2. PICK d : UpdateTask(m.task, "recording", d)
    BY <1>6 DEF ExecutionDone
  <2>3. QED
    BY <1>3, <2>1, <2>2
<1>7. ASSUME NEW m \in network, m.kind = "recording_done", Known(m.task), RecordingDone(m)
      PROVE  CountInv'
  <2>1. status[m.task] \in {"recording", "rejected"}
    BY <1>0, <1>7 DEF Awaited, RecordingKinds, Known, TaskStatus, Terminal
  <2> DEFINE s == IF m.arg = "success" THEN "completed" ELSE "failed"
  <2>2. /\ status' = [status EXCEPT ![m.task] = s]
        /\ tmStats' = IF m.arg = "success" THEN [tmStats EXCEPT !.completed = @ + 1]
                                           ELSE [tmStats EXCEPT !.failed = @ + 1]
    BY <1>7 DEF RecordingDone, UpdateTask
  <2>3. /\ EndedTasks' = EndedTasks \cup {m.task} /\ PastTasks' = PastTasks \cup {m.task}
        /\ m.task \notin EndedTasks /\ m.task \notin PastTasks
        /\ SeenTasks' = SeenTasks
    BY <1>0, <2>1, <2>2 DEF EndedTasks, PastTasks, SeenTasks
  <2>4. tmStats'.completed + tmStats'.failed = tmStats.completed + tmStats.failed + 1
    BY <1>0, <2>2
  <2>5. /\ IsFiniteSet(EndedTasks) /\ Cardinality(EndedTasks) \in Nat
        /\ IsFiniteSet(PastTasks) /\ Cardinality(PastTasks) \in Nat
    BY <1>0, EndedAreFinite
  <2>6. /\ Cardinality(EndedTasks') = Cardinality(EndedTasks) + 1
        /\ Cardinality(PastTasks') = Cardinality(PastTasks) + 1
    BY <2>3, <2>5, FS_AddElement
  <2>7. /\ Cardinality(EndedTasks) <= tmStats.completed + tmStats.failed
        /\ tmStats.completed + tmStats.failed <= Cardinality(PastTasks)
    BY DEF CountInv, CountedOnce, EndedTasks, PastTasks
  <2>8. tmStats.completed \in Nat /\ tmStats.failed \in Nat
    BY <1>0
  <2>9. /\ Cardinality(EndedTasks') <= tmStats'.completed + tmStats'.failed
        /\ tmStats'.completed + tmStats'.failed <= Cardinality(PastTasks')
    BY <2>4, <2>5, <2>6, <2>7, <2>8
  <2>10. QED
    BY <1>0, <2>3, <2>9 DEF CountInv, CountedOnce, EndedTasks, PastTasks
<1>8. QED
  <2>1. ASSUME NEW m \in network, m.kind = "decisions", \/ Approve(m) \/ Reject(m) \/ Later(m)
        PROVE  CountInv'
    BY <1>5, <2>1
  <2>2. QED
    BY <1>0, <1>1, <1>2, <1>4, <1>6, <1>7, <2>1, GatewaySteps DEF GatewayStep, DecisionKinds

(* With a user who decides once, no operator and no restart, a task that    *)
(* has ended is counted exactly once.                                       *)
THEOREM EndsCounted ==
    ASSUME Patient
    PROVE  Spec => []CountedOnce
<1>1. Init => CountInv
  <2>1. Init => /\ \A t \in TaskId : status[t] = "absent"
                /\ tmStats.completed = 0 /\ tmStats.failed = 0
    BY DEF Init, StoreInit
  <2>2. Init => EndedTasks = {} /\ PastTasks = {} /\ SeenTasks = {}
    BY <2>1 DEF EndedTasks, PastTasks, SeenTasks
  <2>3. QED
    BY <2>1, <2>2, FS_EmptySet DEF CountInv, CountedOnce, EndedTasks, PastTasks
<1>2. PatientInv /\ CountInv /\ [Next]_vars => CountInv'
  BY CountStep
<1>3. CountInv => CountedOnce
  BY DEF CountInv
<1>4. QED
  BY <1>1, <1>2, <1>3, PatientInvariant, PTL DEF Spec

-----------------------------------------------------------------------------
(* The queue. Whatever is proved of QueueManager alone holds of the queue   *)
(* in the gateway, through restarts: the handlers use its methods only.     *)

QMP == INSTANCE QueueManagerProofs

(* The gateway's assumption on its constants is the queue's. *)
LEMMA QueueConstants == QMP!QueueAssumption
  BY GatewayAssumption DEF QMP!QueueAssumption

(* What a handler does to the queue is a call of one of its methods, or a   *)
(* refused one; no handler calls cancel_task.                               *)
QueueCalled ==
    \/ QM!Dequeue
    \/ \E b \in BOOLEAN : QM!CompleteCurrent(b)
    \/ \E t \in TaskId : QM!Enqueue(t) \/ QM!RequeueTask(t) \/ QM!TimeoutTask(t)

(* Every step of the gateway calls one method of the queue, leaves it as it *)
(* is, or restarts the process with an empty one.                           *)
LEMMA QueueSteps ==
    TypeOK /\ [Next]_vars => \/ QueueCalled \/ UNCHANGED queueVars \/ (Restart /\ QM!Init')
<1> SUFFICES ASSUME TypeOK, [Next]_vars
             PROVE  \/ QueueCalled \/ UNCHANGED queueVars \/ (Restart /\ QM!Init')
  OBVIOUS
<1> DEFINE Q == QueueCalled \/ UNCHANGED queueVars
<1>0. UNCHANGED QM!vars => UNCHANGED queueVars
  BY DEF QM!vars, queueVars
<1>1. GatewayStep
  BY GatewaySteps
<1>2. CASE UNCHANGED <<storeVars, queueVars>>
  BY <1>2 DEF queueVars
<1>3. ASSUME NEW t \in TaskId, ReceiveMessage(t) PROVE Q
  BY <1>3 DEF ReceiveMessage
<1>4. CASE Restart
  <2>1. DOMAIN stats = QM!Counter
    BY DEF TypeOK, QM!TypeOK
  <2>2. QM!Init'
    BY <1>4, <2>1 DEF Restart, QM!Init
  <2>3. QED
    BY <1>4, <2>2
<1>5. ASSUME NEW m \in network,
             \/ Approve(m) \/ Reject(m) \/ Later(m) \/ Timeout(m)
             \/ AnalysisDone(m) \/ ExecutionDone(m) \/ RecordingDone(m)
      PROVE  Q
  <2>1. m.task \in TaskId
    BY DEF TypeOK, Message
  <2>2. \/ QM!TryDequeue \/ UNCHANGED queueVars
        \/ \E b \in BOOLEAN : QM!TryCompleteCurrent(b)
        \/ QM!TryEnqueue(m.task, TRUE) \/ QM!TryEnqueue(m.task, FALSE)
        \/ QM!TryRequeueTask(m.task) \/ QM!TryTimeoutTask(m.task)
    BY <1>5 DEF Approve, Reject, Later, Timeout, AnalysisDone, ExecutionDone, RecordingDone
  <2>3. QED
    BY <1>0, <2>1, <2>2
      DEF QM!TryDequeue, QM!TryCompleteCurrent, QM!TryEnqueue, QM!TryRequeueTask,
          QM!TryTimeoutTask, QueueCalled
<1>6. QED
  BY <1>1, <1>2, <1>3, <1>4, <1>5 DEF GatewayStep

(* The methods are the same ones under either prefix. *)
LEMMA QueueCallIsStep == QueueCalled => QMP!Next /\ QM!Next
<1>1. QueueCalled => QM!Next
  BY DEF QueueCalled, QM!Next
<1>2. QM!Dequeue => QMP!Dequeue
  BY DEF QM!Dequeue, QMP!Dequeue, QM!Count, QMP!Count
<1>3. ASSUME NEW b \in BOOLEAN PROVE QM!CompleteCurrent(b) => QMP!CompleteCurrent(b)
  BY DEF QM!CompleteCurrent, QMP!CompleteCurrent, QM!Count, QMP!Count, QM!Unregister, QMP!Unregister
<1>4. ASSUME NEW t \in TaskId PROVE QM!Enqueue(t) => QMP!Enqueue(t)
  BY DEF QM!Enqueue, QMP!Enqueue, QM!Count, QMP!Count
<1>5. ASSUME NEW t \in TaskId PROVE QM!RequeueTask(t) => QMP!RequeueTask(t)
  BY DEF QM!RequeueTask, QMP!RequeueTask, QM!Registered, QMP!Registered, QM!Release, QMP!Release,
         QM!RegisteredItem, QMP!RegisteredItem
<1>6. ASSUME NEW t \in TaskId PROVE QM!TimeoutTask(t) => QMP!TimeoutTask(t)
  BY DEF QM!TimeoutTask, QMP!TimeoutTask, QM!Registered, QMP!Registered, QM!Release, QMP!Release,
         QM!Unregister, QMP!Unregister, QM!Count, QMP!Count
<1>7. QueueCalled => QMP!Next
  BY <1>2, <1>3, <1>4, <1>5, <1>6 DEF QueueCalled, QMP!Next
<1>8. QED
  BY <1>1, <1>7

(* The queue's inductive invariant is one of the gateway too. *)
LEMMA QueueInvariant == Spec => []QMP!IInv
<1>1. QM!Init => QMP!Init
  BY DEF QM!Init, QMP!Init, QM!Counter, QMP!Counter
<1>2. Init => QMP!IInv
  BY <1>1, QMP!InitOK, QueueConstants DEF Init
<1>3. TypeOK /\ QMP!IInv /\ [Next]_vars => QMP!IInv'
  <2> SUFFICES ASSUME TypeOK, QMP!IInv, [Next]_vars PROVE QMP!IInv'
    OBVIOUS
  <2>1. CASE QueueCalled
    BY <2>1, QueueCallIsStep, QMP!StepOK, QueueConstants
  <2>2. CASE UNCHANGED queueVars
    <3>1. UNCHANGED QMP!vars
      BY <2>2 DEF queueVars, QMP!vars
    <3>2. QED
      BY <3>1, QMP!StepOK, QueueConstants
  <2>3. CASE QM!Init'
    <3>1. QMP!Init'
      BY <2>3 DEF QM!Init, QMP!Init, QM!Counter, QMP!Counter
    <3>2. (QMP!Init => QMP!IInv)'
      BY QMP!InitOK, QueueConstants, PTL
    <3>3. QED
      BY <3>1, <3>2
  <2>4. QED
    BY <2>1, <2>2, <2>3, QueueSteps
<1>4. QED
  BY <1>2, <1>3, TypeCorrect, PTL DEF Spec

(* The gateway uses the queue through its methods: every step of it is a    *)
(* step of QueueManager or none of the queue's, or a restart.               *)
THEOREM GatewayUsesQueue == Spec => [][QM!Next \/ (Restart /\ QM!Init')]_queueVars
<1>1. TypeOK /\ [Next]_vars => [QM!Next \/ (Restart /\ QM!Init')]_queueVars
  BY QueueSteps, QueueCallIsStep
<1>2. QED
  BY <1>1, TypeCorrect, PTL DEF Spec

(* So the bound of the queue, the balance of its entries, of its slot and   *)
(* the order of service hold in the gateway: for any user, any losses and   *)
(* any restarts.                                                            *)
THEOREM QueueCorrect ==
    Spec => [](/\ QM!CapacityHolds /\ QM!EntriesConserved /\ QM!SlotAccounted
               /\ QM!NewestRegistered /\ QM!FifoUnlessRequeued)
<1>1. QMP!IInv => QM!CapacityHolds /\ QM!EntriesConserved
  BY DEF QMP!IInv, QMP!CapacityHolds, QM!CapacityHolds, QMP!EntriesConserved, QM!EntriesConserved
<1>2. QMP!IInv => QM!SlotAccounted
  BY DEF QMP!IInv, QMP!SlotAccounted, QM!SlotAccounted, QMP!Busy, QM!Busy
<1>3. QMP!IInv => QM!NewestRegistered /\ QM!FifoUnlessRequeued
  BY DEF QMP!IInv, QMP!Ordered, QMP!NewestRegistered, QM!NewestRegistered, QMP!Registered,
         QM!Registered, QMP!FifoUnlessRequeued, QM!FifoUnlessRequeued
<1>4. QED
  BY <1>1, <1>2, <1>3, QueueInvariant, PTL

-----------------------------------------------------------------------------
(* The requests. Nothing a handler sends goes back: each request is served  *)
(* or lost, and leaves at most one behind, further on its task's way. With  *)
(* the fairness of Deliver this is why the traffic about a decision ends.   *)

(* How far on its way a task is when a request of this kind is sent.        *)
Stage == [k \in Kind |->
    CASE k = "analyze" -> 0
      [] k = "analysis_done" -> 1
      [] k = "decision_request" -> 2
      [] k = "decision_callback" -> 3
      [] k = "decisions" -> 4
      [] k = "execute" -> 5
      [] k = "execution_done" -> 6
      [] k = "record" -> 7
      [] k = "recording_done" -> 8]

(* A request that leaves the network is the only one that does, and at most *)
(* one comes in its place, about the same task and further on.              *)
Forward ==
    \A m \in network \ network' :
        /\ network \ {m} \subseteq network'
        /\ \A n, o \in network' \ network : n = o
        /\ \A n \in network' \ network :
              n.task = m.task /\ Stage[m.kind] < Stage[n.kind]

(* The stages are those numbers. *)
LEMMA Stages ==
    /\ Stage["analyze"] = 0 /\ Stage["analysis_done"] = 1 /\ Stage["decision_request"] = 2
    /\ Stage["decision_callback"] = 3 /\ Stage["decisions"] = 4 /\ Stage["execute"] = 5
    /\ Stage["execution_done"] = 6 /\ Stage["record"] = 7 /\ Stage["recording_done"] = 8
  BY DEF Stage, Kind

(* A handler that serves m and sends nothing. *)
LEMMA ServedLast == ASSUME NEW m \in network, Serve(m, {}) PROVE Forward
  BY DEF Serve, Forward

(* A handler that serves m and sends one request further on. *)
LEMMA ServedForward ==
    ASSUME NEW m \in network, NEW k, NEW cause, NEW arg,
           Serve(m, {Request(k, m.task, cause, arg)}), Stage[m.kind] < Stage[k]
    PROVE  Forward
  BY DEF Serve, Forward, Request

(* Every handler and every other step goes forward. *)
LEMMA ForwardStep == [Next]_vars => Forward
<1> SUFFICES ASSUME [Next]_vars PROVE Forward
  OBVIOUS
<1>1. CASE network \subseteq network'
  BY <1>1 DEF Forward
<1>2. ASSUME NEW m \in network, Analyze(m) PROVE Forward
  BY <1>2, Stages, ServedForward, SMTT(60) DEF Analyze
<1>3. ASSUME NEW m \in network, RouteAnalysisDone(m) PROVE Forward
  <2>1. m.kind = "analysis_done"
    BY <1>3 DEF RouteAnalysisDone
  <2>2. \/ Serve(m, {})
        \/ Serve(m, {Request("decision_request", m.task, 0, "none")})
    BY <1>3 DEF RouteAnalysisDone, NotFound, AnalysisDone
  <2>3. Stage[m.kind] < Stage["decision_request"]
    BY <2>1, Stages
  <2>4. CASE Serve(m, {})
    BY <2>4, ServedLast
  <2>5. CASE Serve(m, {Request("decision_request", m.task, 0, "none")})
    BY <2>3, <2>5, ServedForward
  <2>6. QED
    BY <2>2, <2>4, <2>5
<1>4. ASSUME NEW m \in network, DecisionRequest(m) \/ Lose(m) PROVE Forward
  BY <1>4, ServedLast, SMTT(60) DEF DecisionRequest, Lose
<1>5. ASSUME NEW m \in network, DecisionCallback(m) PROVE Forward
  BY <1>5, Stages, ServedForward DEF DecisionCallback
<1>6. ASSUME NEW m \in network, RouteDecision(m) PROVE Forward
  <2>1. m.kind = "decisions"
    BY <1>6 DEF RouteDecision
  <2>2. \/ Serve(m, {})
        \/ Serve(m, {Request("execute", m.task, m.cause, "none")})
        \/ Serve(m, {Request("record", m.task, m.cause, "failure")})
    BY <1>6 DEF RouteDecision, NotFound, Approve, Reject, Later, Timeout
  <2>3. Stage[m.kind] < Stage["execute"] /\ Stage[m.kind] < Stage["record"]
    BY <2>1, Stages
  <2>4. CASE Serve(m, {})
    BY <2>4, ServedLast
  <2>5. CASE Serve(m, {Request("execute", m.task, m.cause, "none")})
    BY <2>3, <2>5, ServedForward
  <2>6. CASE Serve(m, {Request("record", m.task, m.cause, "failure")})
    BY <2>3, <2>6, ServedForward
  <2>7. QED
    BY <2>2, <2>4, <2>5, <2>6
<1>7. ASSUME NEW m \in network, Execute(m) PROVE Forward
  BY <1>7, Stages, ServedForward DEF Execute
<1>8. ASSUME NEW m \in network, RouteExecutionDone(m) PROVE Forward
  <2>1. m.kind = "execution_done"
    BY <1>8 DEF RouteExecutionDone
  <2>2. Serve(m, {}) \/ Serve(m, {Request("record", m.task, m.cause, m.arg)})
    BY <1>8 DEF RouteExecutionDone, NotFound, ExecutionDone
  <2>3. Stage[m.kind] < Stage["record"]
    BY <2>1, Stages
  <2>4. CASE Serve(m, {})
    BY <2>4, ServedLast, SMTT(60)
  <2>5. CASE Serve(m, {Request("record", m.task, m.cause, m.arg)})
    BY <2>3, <2>5, ServedForward
  <2>6. QED
    BY <2>2, <2>4, <2>5
<1>9. ASSUME NEW m \in network, Record(m) PROVE Forward
  BY <1>9, Stages, ServedForward, SMTT(60) DEF Record
<1>10. ASSUME NEW m \in network, RouteRecordingDone(m) PROVE Forward
  BY <1>10, ServedLast DEF RouteRecordingDone, NotFound, RecordingDone
<1>11. ASSUME NEW t \in TaskId,
              \/ ReceiveMessage(t) \/ TimerExpires(t)
              \/ \E a : Click(t, a) \/ OperatorPost(t, a)
       PROVE  network \subseteq network'
  BY <1>11 DEF ReceiveMessage, RouteNewMessage, TimerExpires, Click, OperatorPost
<1>12. CASE Restart \/ UNCHANGED vars
  BY <1>1, <1>12 DEF Restart, vars
<1>13. QED
  BY <1>1, <1>2, <1>3, <1>4, <1>5, <1>6, <1>7, <1>8, <1>9, <1>10, <1>11, <1>12 DEF Next, Deliver

(* No handler sends more than one request, and none about another task or   *)
(* back to an earlier stage; a request in flight is never dropped silently  *)
(* by a step that serves another.                                           *)
THEOREM RequestsGoForward == Spec => [][Forward]_vars
  BY ForwardStep, PTL DEF Spec

=============================================================================
