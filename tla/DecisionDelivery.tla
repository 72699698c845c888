-------------------------- MODULE DecisionDelivery --------------------------
(***************************************************************************)
(* What the single-process pipeline promises about decisions, whatever     *)
(* futures, timers and threads carry them: one task at a time is asked     *)
(* about; the asker gets at most one decision, of those that were made for *)
(* that very task, and a decision is used once at most; a task is executed *)
(* if, and only if, the decision it got is an approval. A decision that    *)
(* finds nobody asking about its task is lost, and so may be one that      *)
(* meets the end of the wait; a decision may reach a later question about  *)
(* the same task than the one it was made for.                             *)
(***************************************************************************)
EXTENDS Naturals

CONSTANTS Task, Decision, None

VARIABLES
    asking,     \* the task a decision is awaited for
    answer,     \* the decision the asker got, "none" before
    onTheWay,   \* per task: decisions made that have not arrived
    executing   \* the task being executed

vars == <<asking, answer, onTheWay, executing>>

Init ==
    /\ asking = None /\ answer = "none" /\ executing = None
    /\ onTheWay = [t \in Task |-> [d \in Decision |-> 0]]

Ask(t) ==
    /\ asking = None /\ executing = None
    /\ asking' = t
    /\ UNCHANGED <<answer, onTheWay, executing>>

Decide(t, d) ==
    /\ onTheWay' = [onTheWay EXCEPT ![t][d] = @ + 1]
    /\ UNCHANGED <<asking, answer, executing>>

Arrive(t, d) ==
    /\ onTheWay[t][d] > 0
    /\ onTheWay' = [onTheWay EXCEPT ![t][d] = @ - 1]
    /\ \/ UNCHANGED answer
       \/ asking = t /\ answer = "none" /\ answer' = d
    /\ UNCHANGED <<asking, executing>>

(* Whatever the asker got is gone with the question.                        *)
StopAsking == asking' = None /\ answer' = "none"

GiveUp ==
    /\ asking # None /\ answer # "approve"
    /\ StopAsking
    /\ UNCHANGED <<onTheWay, executing>>

Execute ==
    /\ asking # None /\ answer = "approve"
    /\ StopAsking
    /\ executing' = asking
    /\ UNCHANGED onTheWay

ExecutionEnds ==
    /\ executing # None
    /\ executing' = None
    /\ UNCHANGED <<asking, answer, onTheWay>>

Next ==
    \/ \E t \in Task : Ask(t)
    \/ \E t \in Task, d \in Decision : Decide(t, d) \/ Arrive(t, d)
    \/ GiveUp \/ Execute \/ ExecutionEnds

Spec == Init /\ [][Next]_vars
=============================================================================
