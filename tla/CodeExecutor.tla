---------------------------- MODULE CodeExecutor ----------------------------
(***************************************************************************)
(* The execution worker's executor (src/src/code_executor): each call of   *)
(* execute drives an OpenCode server through SDK processes, starts the     *)
(* server when it is not healthy, and guards the prompt by two timers of   *)
(* the same length, one inside the other. Calls overlap: the worker serves *)
(* its requests concurrently. What the prompt produced is left out.        *)
(***************************************************************************)
EXTENDS Naturals

CONSTANTS
    Call,        \* calls of execute, each with a session of its own
    MaxFailures  \* bound: times the server goes down

ASSUME CodeExecutorAssumption == MaxFailures \in Nat

VARIABLES
    call,    \* per call: phase, what it returns, SDK process, prompt, abort
    server,  \* the OpenCode server: "down", "launched", "up"
    failures \* history: times it went down

sdkVars == <<call, server, failures>>

(* proc is the SDK process of the prompt ("left" when nobody waits for it   *)
(* any longer), prompt what the server makes of it, abort what became of    *)
(* the request to stop that.                                                *)
CallState == [phase : {"idle", "checking", "starting", "creating", "prompting", "aborting", "returned"},
              result : {"none", "success", "failure", "timeout", "raised"},
              proc : {"none", "running", "exited", "killed", "left"},
              prompt : {"none", "unsent", "working", "done", "aborted"},
              abort : {"none", "heard", "lost"}]

SdkInit ==
    /\ call = [c \in Call |-> [phase |-> "idle", result |-> "none", proc |-> "none",
                               prompt |-> "none", abort |-> "none"]]
    /\ server = "down" /\ failures = 0

Step(c, from, to) ==
    /\ call[c].phase = from
    /\ call' = [call EXCEPT ![c].phase = to]

Returns(c, from, result) ==
    /\ call[c].phase = from
    /\ call' = [call EXCEPT ![c].phase = "returned", ![c].result = result]

-----------------------------------------------------------------------------
(* Plausible bugs. *)

InnerTimeoutKillsNothing(c) ==   \* the process is left running here too
    /\ call[c].phase = "prompting" /\ call[c].proc = "running"
    /\ call' = [call EXCEPT ![c].phase = "aborting"]
    /\ UNCHANGED <<server, failures>>

AwaitServerForever(c) ==         \* no limit of 30 polls
    /\ Step(c, "starting", "creating") /\ server = "up"
    /\ UNCHANGED <<server, failures>>

-----------------------------------------------------------------------------
(* The server, and the part of the SDK process that runs on its own. *)

ServerComesUp ==
    /\ server = "launched"
    /\ server' = "up"
    /\ UNCHANGED <<call, failures>>

(* A server that goes down takes its prompts along. *)
ServerFails ==
    /\ server = "up" /\ failures < MaxFailures
    /\ server' = "down" /\ failures' = failures + 1
    /\ call' = [c \in Call |-> IF call[c].prompt = "working" THEN [call[c] EXCEPT !.prompt = "aborted"]
                                                             ELSE call[c]]

PromptArrives(c) ==
    /\ server = "up"
    /\ call[c].proc \in {"running", "left"} /\ call[c].prompt = "unsent"
    /\ call' = [call EXCEPT ![c].prompt = "working"]
    /\ UNCHANGED <<server, failures>>

PromptIsDone(c) ==
    /\ call[c].prompt = "working"
    /\ call' = [call EXCEPT ![c].prompt = "done"]
    /\ UNCHANGED <<server, failures>>

-----------------------------------------------------------------------------
(* execute. *)

(* A dry run returns before the security check, which raises or not. *)
ExecuteSdk(c) ==
    /\ \/ Step(c, "idle", "checking")
       \/ \E r \in {"success", "raised"} : Returns(c, "idle", r)
    /\ UNCHANGED <<server, failures>>

(* The health check is an SDK call too. *)
HealthCheck(c) == server = "up" /\ Step(c, "checking", "creating") /\ UNCHANGED <<server, failures>>

(* When it fails, whatever the server's state, a server is started; without *)
(* an executable the service is unavailable. The call does not know whether *)
(* another has just started one.                                            *)
TryStartOpencode(c) ==
    \/ /\ Step(c, "checking", "starting")
       /\ server' = IF server = "down" THEN "launched" ELSE server
       /\ UNCHANGED failures
    \/ Returns(c, "checking", "failure") /\ UNCHANGED <<server, failures>>

(* One of the 30 polls succeeds, or none does. *)
ServerAwaited(c) ==
    /\ \/ Step(c, "starting", "creating") /\ server = "up"
       \/ Returns(c, "starting", "failure")
    /\ UNCHANGED <<server, failures>>

(* Without an answer, or a session id in it, the call has failed. *)
CreateSession(c) ==
    /\ \/ server = "up" /\ Step(c, "creating", "prompting")
       \/ Returns(c, "creating", "failure")
    /\ UNCHANGED <<server, failures>>

(* _run_sdk starts the process of the prompt. *)
SendMessage(c) ==
    /\ call[c].phase = "prompting" /\ call[c].proc = "none"
    /\ call' = [call EXCEPT ![c].proc = "running", ![c].prompt = "unsent"]
    /\ UNCHANGED <<server, failures>>

(* The answer has arrived: success when it says "stop" and names no error;  *)
(* an answer of another form raises in execute.                             *)
AnswerArrives(c) ==
    /\ call[c].phase = "prompting" /\ call[c].prompt = "done"
    /\ \E r \in {"success", "failure"} :
          call' = [call EXCEPT ![c].phase = "returned", ![c].result = r, ![c].proc = "exited"]
    /\ UNCHANGED <<server, failures>>

(* There is no process, or it ends without a usable answer: _send_message   *)
(* returns None.                                                            *)
SdkFails(c) ==
    /\ call[c].phase = "prompting"
    /\ call' = [call EXCEPT ![c].phase = "aborting", ![c].proc = "exited"]
    /\ UNCHANGED <<server, failures>>

(* _run_sdk's own timer kills the process. *)
InnerTimeout(c) ==
    /\ call[c].phase = "prompting" /\ call[c].proc = "running"
    /\ call' = [call EXCEPT ![c].phase = "aborting", ![c].proc = "killed"]
    /\ UNCHANGED <<server, failures>>

(* execute's timer, started earlier, cancels _send_message: a cancellation  *)
(* passes every except clause of _run_sdk and the process is left running.  *)
OuterTimeout(c) ==
    /\ call[c].phase = "prompting"
    /\ call' = [call EXCEPT ![c].phase = "aborting", ![c].proc = IF @ = "running" THEN "left" ELSE @]
    /\ UNCHANGED <<server, failures>>

(* _abort_session is one more SDK call, whose failure is swallowed; a       *)
(* prompt that has not arrived yet is not stopped by it. Whatever failed,   *)
(* the call reports a timeout.                                              *)
AbortSession(c) ==
    /\ call[c].phase = "aborting"
    /\ \E a \in {"heard", "lost"} :
          /\ a = "heard" => server = "up"
          /\ call' = [call EXCEPT ![c].phase = "returned", ![c].result = "timeout", ![c].abort = a,
                                  ![c].prompt = IF a = "heard" /\ @ = "working" THEN "aborted" ELSE @]
    /\ UNCHANGED <<server, failures>>

-----------------------------------------------------------------------------

GoingOn(c) ==
    \/ HealthCheck(c) \/ TryStartOpencode(c) \/ ServerAwaited(c) \/ CreateSession(c) \/ SendMessage(c)
    \/ AnswerArrives(c) \/ SdkFails(c) \/ InnerTimeout(c) \/ OuterTimeout(c) \/ AbortSession(c)

SdkNext ==
    \/ ServerComesUp \/ ServerFails
    \/ \E c \in Call : ExecuteSdk(c) \/ GoingOn(c) \/ PromptArrives(c) \/ PromptIsDone(c)
=============================================================================
