-------------------------- MODULE ExecutorPackage --------------------------
(***************************************************************************)
(* The executor package (src/src/executor) with its back ends OpenCode and *)
(* OpenHands. Executions run on pool threads (execute_async) and share one *)
(* field, _current_execution, through which another thread cancels. One    *)
(* back end and mode is configured; "attach" is "api". Output, durations   *)
(* and counters are left out.                                              *)
(***************************************************************************)
EXTENDS Naturals, FiniteSets

CONSTANTS
    Exec,       \* executions, each of a task of its own
    NoExecution,
    MaxCancels  \* bound: calls of cancel

ASSUME ExecutorAssumption == NoExecution \notin Exec /\ MaxCancels \in Nat

VARIABLES
    backend, mode, \* the configuration
    run,           \* per execution: phase and ExecutionResult
    current,       \* _current_execution
    canceller,     \* the call of cancel in progress: its task, or NoExecution
    cancels,       \* history: calls of cancel
    overlapped     \* history: executions during which another registered or cleared current

config == <<backend, mode>>
cancelVars == <<canceller, cancels>>
executorVars == <<config, run, current, cancelVars, overlapped>>

Status == {"none", "running", "waiting_input", "completed", "failed", "cancelled", "timeout"}

(* A run that is over has returned or raised; one whose makedirs raised is  *)
(* told apart, as "nodir".                                                  *)
Run == [phase : {"idle", "running", "ended", "returned", "nodir"}, status : Status, success : BOOLEAN]

ExecutorInit ==
    /\ backend \in {"opencode", "openhands"} /\ mode \in {"webui", "cli", "api"}
    /\ run = [e \in Exec |-> [phase |-> "idle", status |-> "none", success |-> FALSE]]
    /\ current = NoExecution /\ canceller = NoExecution
    /\ cancels = 0 /\ overlapped = {}

Conclude(e, phase, status) ==
    run' = [run EXCEPT ![e] = [phase |-> phase, status |-> status, success |-> status = "completed"]]

(* The registered executions are those of a process of this machine. *)
Registers == mode = "cli" \/ (backend = "opencode" /\ mode = "api")

Disturb(e) ==
    overlapped' = overlapped \cup {d \in Exec \ {e} : run[d].phase \in {"running", "ended"}}

-----------------------------------------------------------------------------
(* Plausible bugs. *)

BeginUnregistered(e) ==          \* as OpenHands in mode api
    /\ Registers
    /\ current' = current /\ Disturb(e)
    /\ run' = [run EXCEPT ![e] = [phase |-> "running", status |-> "running", success |-> FALSE]]

ClearNothing(e) ==               \* no finally clause
    /\ run[e].phase = "ended"
    /\ run' = [run EXCEPT ![e].phase = "returned"]
    /\ Disturb(e)
    /\ UNCHANGED <<config, current, cancelVars>>

-----------------------------------------------------------------------------
(* execute, up to the start of a process. *)

(* A forbidden path or pattern raises. *)
CheckSecurity(e) == run' = [run EXCEPT ![e].phase = "returned"] /\ UNCHANGED <<current, overlapped>>

(* A dry run, and a mode of the user's own hands: both are over at once. *)
ExecuteDry(e) == Conclude(e, "returned", "completed") /\ UNCHANGED <<current, overlapped>>

ExecuteWebui(e) ==
    /\ mode = "webui"
    /\ \E status \in {"waiting_input", "failed"} : Conclude(e, "returned", status)
    /\ UNCHANGED <<current, overlapped>>

(* The execution registers itself; then its process starts or fails to.     *)
BeginProcess(e) ==
    /\ Registers
    /\ current' = e /\ Disturb(e)
    /\ \/ run' = [run EXCEPT ![e] = [phase |-> "running", status |-> "running", success |-> FALSE]]
       \/ Conclude(e, "ended", "failed")

(* In mode cli an error from makedirs raises, the registration stays. *)
NoWorkDir(e) ==
    /\ mode = "cli"
    /\ current' = e /\ Disturb(e)
    /\ run' = [run EXCEPT ![e].phase = "nodir", ![e].status = "running"]

(* OpenHands in mode api: a conversation on a server; without a URL, or     *)
(* with a refused request, it is over.                                      *)
BeginConversation(e) ==
    /\ backend = "openhands" /\ mode = "api"
    /\ \/ run' = [run EXCEPT ![e] = [phase |-> "running", status |-> "running", success |-> FALSE]]
       \/ Conclude(e, "returned", "failed")
    /\ UNCHANGED <<current, overlapped>>

Execute(e) ==
    /\ run[e].phase = "idle"
    /\ \/ CheckSecurity(e)
       \/ ExecuteDry(e)
       \/ ExecuteWebui(e)
       \/ BeginProcess(e)
       \/ NoWorkDir(e)
       \/ BeginConversation(e)
    /\ UNCHANGED <<config, cancelVars>>

-----------------------------------------------------------------------------
(* The end of an execution. *)

(* communicate returns, or its time is up and the process is killed.        *)
CliEnds(e) ==
    /\ mode = "cli"
    /\ \E status \in {"completed", "failed", "timeout"} : Conclude(e, "ended", status)

(* The bridge prints a result line, or an error line, or neither: then its  *)
(* return code decides, about a status still RUNNING and never about        *)
(* success.                                                                 *)
BridgeEnds(e) ==
    /\ backend = "opencode" /\ mode = "api"
    /\ \/ \E status \in {"completed", "failed", "timeout"} : Conclude(e, "ended", status)
       \/ \E status \in {"completed", "failed"} :
             run' = [run EXCEPT ![e].phase = "ended",
                                ![e].status = IF @ = "running" THEN status ELSE @]

ProcessEnds(e) ==
    /\ run[e].phase = "running"
    /\ CliEnds(e) \/ BridgeEnds(e)
    /\ UNCHANGED <<config, current, cancelVars, overlapped>>

(* The finally clause clears the field, whoever is in it. *)
ClearCurrent(e) ==
    /\ run[e].phase = "ended"
    /\ run' = [run EXCEPT ![e].phase = "returned"]
    /\ current' = NoExecution /\ Disturb(e)
    /\ UNCHANGED <<config, cancelVars>>

(* The last poll of a conversation: a final status, an exception, or the    *)
(* polls are used up.                                                       *)
ConversationEnds(e) ==
    /\ backend = "openhands" /\ mode = "api" /\ run[e].phase = "running"
    /\ \E status \in {"completed", "failed", "timeout"} : Conclude(e, "returned", status)
    /\ UNCHANGED <<config, current, cancelVars, overlapped>>

-----------------------------------------------------------------------------
(* cancel compares the task of the current execution, then writes to what   *)
(* is current by then, or raises when nothing is. No process is stopped: a  *)
(* session id is only known once the process has ended.                     *)

Cancel(e) ==
    /\ canceller = NoExecution /\ cancels < MaxCancels
    /\ cancels' = cancels + 1
    /\ canceller' = IF current = e THEN e ELSE NoExecution
    /\ UNCHANGED <<config, run, current, overlapped>>

MarkCancelled ==
    /\ canceller # NoExecution
    /\ canceller' = NoExecution
    /\ run' = IF current = NoExecution THEN run ELSE [run EXCEPT ![current].status = "cancelled"]
    /\ UNCHANGED <<config, current, cancels, overlapped>>

-----------------------------------------------------------------------------

Ending(e) == ProcessEnds(e) \/ ClearCurrent(e) \/ ConversationEnds(e)

ExecutorNext == (\E e \in Exec : Execute(e) \/ Ending(e) \/ Cancel(e)) \/ MarkCancelled

=============================================================================
