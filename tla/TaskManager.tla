---------------------------- MODULE TaskManager ----------------------------
(***************************************************************************)
(* The gateway's task store, src/src/gateway/core/task_manager.py: a dict  *)
(* from task id to TaskState, with counters, a limit above which finished  *)
(* tasks are forgotten, and a status that any caller may overwrite with    *)
(* any other. Its methods take a lock and never wait, so what a handler    *)
(* does to the store between two awaits is one step of the composed system *)
(* (module Gateway); the operators below are those steps.                  *)
(***************************************************************************)
EXTENDS Naturals, Sequences, FiniteSets

CONSTANTS
    TaskId,    \* ids; create_task hashes message and time, so an id is never reused
    MaxTasks   \* TaskManager(max_tasks)

ASSUME TaskManagerAssumption == MaxTasks \in Nat \ {0}

VARIABLES
    born,     \* when a task was put into _tasks, which keeps its keys in that order
    status,   \* TaskState.status, or "absent" before and "forgotten" after
    detail,   \* the results attached to a TaskState
    tmStats   \* _stats

storeVars == <<born, status, detail, tmStats>>

-----------------------------------------------------------------------------

Terminal == {"completed", "failed", "cancelled", "rejected", "timeout"}

TaskStatus == Terminal \cup
    {"filtering", "awaiting_confirmation", "executing", "recording", "later"}

Outcome == {"none", "success", "failure"}

Action == {"approve", "reject", "later", "timeout"}

Detail == [analysed  : BOOLEAN,             \* analysis_result is not None
           decision  : Action \cup {"none"},
           execution : Outcome,             \* execution_result.success
           recording : Outcome]             \* recording_result.success

NoDetail == [analysed |-> FALSE, decision |-> "none",
             execution |-> "none", recording |-> "none"]

(* get_task(t) is not None *)
Known(t) == status[t] \in TaskStatus

(* the keys of _tasks *)
Held == {t \in TaskId : Known(t)}

StoreInit ==
    /\ born = [t \in TaskId |-> 0]
    /\ status = [t \in TaskId |-> "absent"]
    /\ detail = [t \in TaskId |-> NoDetail]
    /\ tmStats = [created |-> 0, completed |-> 0, failed |-> 0, cancelled |-> 0]

StoreTypeOK ==
    /\ born \in [TaskId -> Nat]
    /\ status \in [TaskId -> TaskStatus \cup {"absent", "forgotten"}]
    /\ detail \in [TaskId -> Detail]
    /\ tmStats \in [{"created", "completed", "failed", "cancelled"} -> Nat]

-----------------------------------------------------------------------------
(* Plausible bugs. *)

DoomedOldestHalf ==   \* whatever their status
    {t \in Held : Cardinality({u \in Held : born[u] < born[t]}) < Cardinality(Held) \div 2}

-----------------------------------------------------------------------------

(* _cleanup_old_tasks: the older half of the tasks in a terminal status.    *)
Doomed ==
    LET ended == {t \in TaskId : status[t] \in Terminal}
    IN  {t \in ended : Cardinality({u \in ended : born[u] < born[t]})
                           < Cardinality(ended) \div 2}

(* create_task, then the first update_status of its caller to s. *)
CreateTask(t, s) ==
    LET gone == IF Cardinality(Held) + 1 > MaxTasks THEN Doomed ELSE {}
    IN
    /\ status[t] = "absent"
    /\ born' = [u \in TaskId |-> IF u \in gone THEN 0
                                 ELSE IF u = t THEN tmStats.created + 1 ELSE born[u]]
    /\ status' = [u \in TaskId |-> IF u \in gone THEN "forgotten"
                                   ELSE IF u = t THEN s ELSE status[u]]
    /\ detail' = [u \in TaskId |-> IF u \in gone THEN NoDetail ELSE detail[u]]
    /\ tmStats' = [tmStats EXCEPT !.created = @ + 1]

(* set_analysis_result without a change of status *)
SetDetail(t, d) ==
    /\ detail' = [detail EXCEPT ![t] = d]
    /\ UNCHANGED <<born, status, tmStats>>

(* set_decision, set_execution_result or set_recording_result, followed by  *)
(* update_status to s, which replaces whatever the status was.              *)
UpdateTask(t, s, d) ==
    /\ status' = [status EXCEPT ![t] = s]
    /\ detail' = [detail EXCEPT ![t] = d]
    /\ tmStats' = CASE s = "completed" -> [tmStats EXCEPT !.completed = @ + 1]
                    [] s = "failed" -> [tmStats EXCEPT !.failed = @ + 1]
                    [] s \in {"cancelled", "rejected"} -> [tmStats EXCEPT !.cancelled = @ + 1]
                    [] OTHER -> tmStats
    /\ UNCHANGED born

(* The process dies: the dict is in memory only. *)
ForgetAll ==
    /\ born' = [t \in TaskId |-> 0]
    /\ status' = [t \in TaskId |-> IF Known(t) THEN "forgotten" ELSE status[t]]
    /\ detail' = [t \in TaskId |-> NoDetail]
    /\ tmStats' = [created |-> 0, completed |-> 0, failed |-> 0, cancelled |-> 0]

=============================================================================
