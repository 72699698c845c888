----------------------------- MODULE Executors -----------------------------
(***************************************************************************)
(* The code executors: a deployment runs the executor package or the       *)
(* worker's CodeExecutor.                                                  *)
(***************************************************************************)
EXTENDS ExecutorPackage, CodeExecutor

VARIABLE deployed

executorsVars == <<deployed, executorVars, sdkVars>>

ExecutorsInit == deployed \in {"package", "sdk"} /\ ExecutorInit /\ SdkInit

ExecutorsNext ==
    \/ deployed = "package" /\ ExecutorNext /\ UNCHANGED <<deployed, sdkVars>>
    \/ deployed = "sdk" /\ SdkNext /\ UNCHANGED <<deployed, executorVars>>

ExecutorsSpec == ExecutorsInit /\ [][ExecutorsNext]_executorsVars

(* Every wait in both is bounded by a timer: communicate and requests by    *)
(* their timeouts, the prompt by wait_for, the start of the server by 30    *)
(* polls.                                                                   *)
ExecutorsFairness ==
    /\ \A e \in Exec : WF_executorsVars(deployed = "package" /\ Ending(e) /\ UNCHANGED <<deployed, sdkVars>>)
    /\ \A c \in Call : WF_executorsVars(deployed = "sdk" /\ GoingOn(c) /\ UNCHANGED <<deployed, executorVars>>)

-----------------------------------------------------------------------------
(* Properties. *)

(* Every variable has its type; only a process of this machine is           *)
(* registered as the current execution.                                     *)
ExecutorsTypeOK ==
    /\ backend \in {"opencode", "openhands"} /\ mode \in {"webui", "cli", "api"}
    /\ run \in [Exec -> Run]
    /\ current \in Exec \cup {NoExecution} /\ canceller \in Exec \cup {NoExecution}
    /\ cancels \in 0..MaxCancels /\ overlapped \subseteq Exec
    /\ call \in [Call -> CallState]
    /\ server \in {"down", "launched", "up"} /\ failures \in 0..MaxFailures
    /\ current # NoExecution => Registers

(* cancel can reach a running process as long as no other execution began   *)
(* or ended meanwhile: _current_execution holds one, and every execution    *)
(* clears it when it ends.                                                  *)
CancelReachesTheRunning ==
    \A e \in Exec : run[e].phase = "running" /\ Registers => current = e \/ e \in overlapped

(* What cancel can reach is running or about to return, unless making its   *)
(* directory failed, in mode cli: no execution that had a process is left   *)
(* in _current_execution, however it ended.                                 *)
CurrentIsRunning ==
    \A e \in Exec : current = e => run[e].phase \in {"running", "ended"} \/ (mode = "cli" /\ run[e].phase = "nodir")

(* The server works on the prompt of a call that has returned only if the   *)
(* request to abort it was lost, or the SDK process was left running by the *)
(* outer timeout and brought the prompt afterwards.                         *)
WorkGoesOnForAReason ==
    \A c \in Call : call[c].phase = "returned" /\ call[c].prompt = "working" =>
                        call[c].abort = "lost" \/ call[c].proc = "left"

(* Every execution of either executor that has begun returns. *)
ExecutionReturns ==
    /\ \A e \in Exec : run[e].phase = "running" ~> run[e].phase = "returned"
    /\ \A c \in Call : call[c].phase = "checking" ~> call[c].phase = "returned"
=============================================================================
