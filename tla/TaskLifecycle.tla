--------------------------- MODULE TaskLifecycle ---------------------------
(***************************************************************************)
(* The life of a task at the gateway, whoever does the work: a status that *)
(* only moves forward, one execution per task, and an end that matches the *)
(* outcome of that execution. The moves are those of the diagram in        *)
(* README.md, but for RejectionRecorded, which the code makes and neither  *)
(* that diagram nor docs/ARCHITECTURE_V2.md has. A task that has ended may *)
(* be forgotten.                                                           *)
(***************************************************************************)
CONSTANT TaskId

VARIABLES
    status,   \* where each task stands
    outcome   \* the outcome of its execution, "none" before

vars == <<status, outcome>>

Init ==
    /\ status = [t \in TaskId |-> "absent"]
    /\ outcome = [t \in TaskId |-> "none"]

(* A status that any of the tasks in from may leave for to. *)
Move(t, from, to) ==
    /\ status[t] \in from
    /\ status' = [status EXCEPT ![t] = to]

Receive(t) == Move(t, {"absent"}, "filtering") /\ UNCHANGED outcome

(* A new task may push finished ones out. *)
ReceiveAndForget(t) ==
    /\ status[t] = "absent"
    /\ \E gone \in SUBSET {u \in TaskId : status[u] \in
                              {"completed", "failed", "cancelled", "rejected"}} :
          /\ status' = [u \in TaskId |-> IF u \in gone THEN "forgotten"
                                         ELSE IF u = t THEN "filtering" ELSE status[u]]
          /\ outcome' = [u \in TaskId |-> IF u \in gone THEN "none" ELSE outcome[u]]

Classify(t) ==
    /\ \/ Move(t, {"filtering"}, "cancelled")
       \/ Move(t, {"filtering"}, "awaiting_confirmation")
    /\ UNCHANGED outcome

Decide(t) ==
    /\ \/ Move(t, {"awaiting_confirmation", "later"}, "executing")
       \/ Move(t, {"awaiting_confirmation", "later"}, "rejected")
       \/ Move(t, {"awaiting_confirmation", "later"}, "later")
    /\ UNCHANGED outcome

Executed(t) ==
    /\ Move(t, {"executing"}, "recording")
    /\ \E result \in {"success", "failure"} : outcome' = [outcome EXCEPT ![t] = result]

(* The diagram of ARCHITECTURE_V2, section 3.4, has a failure end before    *)
(* the recording; that of README.md, after it.                              *)
Recorded(t) ==
    /\ \/ outcome[t] = "success" /\ Move(t, {"recording"}, "completed")
       \/ outcome[t] = "failure" /\ Move(t, {"recording"}, "failed")
    /\ UNCHANGED outcome

(* Not in the documents: for README.md a rejection is an end, and by        *)
(* ARCHITECTURE_V2, section 5.3, a recorded rejection ends as completed. In *)
(* the code it goes on to failed.                                           *)
RejectionRecorded(t) ==
    /\ outcome[t] = "none" /\ Move(t, {"rejected"}, "failed")
    /\ UNCHANGED outcome

Next ==
    \E t \in TaskId :
        \/ Receive(t)
        \/ ReceiveAndForget(t)
        \/ Classify(t)
        \/ Decide(t)
        \/ Executed(t)
        \/ Recorded(t)
        \/ RejectionRecorded(t)

Spec == Init /\ [][Next]_vars

=============================================================================
