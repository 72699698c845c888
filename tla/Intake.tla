------------------------------- MODULE Intake -------------------------------
(***************************************************************************)
(* How a message gets from a listener into the gateway:                    *)
(* PushClient.push_message (src/src/listener_push) with its timeouts and   *)
(* retries, the route POST /api/v1/listener/msg, and the MessageProcessor  *)
(* behind it. What happens to the task a message becomes is the subject of *)
(* module Gateway, whose ReceiveMessage is the acceptance modelled here.   *)
(*                                                                         *)
(* An attempt whose answer does not come in time is abandoned, but its     *)
(* request may still be on its way to the gateway, or have been served.    *)
(***************************************************************************)
EXTENDS MessageProcessor, FiniteSets

CONSTANTS
    Push,         \* calls of push_message
    MsgIdOf(_),   \* the message id each of them carries
    Malformed,    \* those whose content is empty
    MaxRetries,   \* PushClient.max_retries, the number of attempts
    MaxCalls,     \* bound: calls made in one behaviour
    MaxClock,     \* bound: the last tick
    MaxRestarts   \* bound: gateway restarts

ASSUME IntakeAssumption ==
    /\ \A p \in Push : MsgIdOf(p) \in MsgId
    /\ Malformed \subseteq Push
    /\ MaxRetries \in Nat \ {0}
    /\ MaxCalls \in Nat /\ MaxClock \in Nat /\ MaxRestarts \in Nat

VARIABLES
    push,        \* where each call stands
    attempt,     \* the attempt it is at, from 1
    result,      \* the body push_message returned
    requests,    \* requests on their way to the gateway
    answers,     \* answers on their way back to an attempt that waits
    restarts     \* history: gateway restarts

clientVars == <<push, attempt, result>>
vars == <<clock, processorVars, clientVars, requests, answers, restarts>>

Phase == {"idle", "waiting", "backoff", "pushed", "failed"}

(* Bodies of the route, all sent with HTTP 200: code 400, 200, and 0 or 500 *)
(* for an accepted message that was or was not handed to the analysis.      *)
Body == {"invalid", "duplicate", "accepted"}

Try(p) == [push |-> p, attempt |-> attempt[p]]

Init ==
    /\ ProcessorInit
    /\ push = [p \in Push |-> "idle"]
    /\ attempt = [p \in Push |-> 0]
    /\ result = [p \in Push |-> "none"]
    /\ requests = {}
    /\ answers = {}
    /\ restarts = 0

-----------------------------------------------------------------------------
(* Plausible bugs. *)

RetryForever(p) ==             \* the attempt is not counted
    /\ push[p] = "backoff"
    /\ push' = [push EXCEPT ![p] = "waiting"]
    /\ requests' = requests \cup {Try(p)}
    /\ UNCHANGED <<clock, processorVars, attempt, result, answers, restarts>>

DuplicateBeforeValidation(r, body) ==   \* is_duplicate is asked before validate
    LET id == MsgIdOf(r.push) IN
    \/ body = "duplicate" /\ RefuseDuplicate(id)
    \/ /\ body = "invalid" /\ r.push \in Malformed /\ ~IsDuplicate(id)
       /\ cachedAt' = [cachedAt EXCEPT ![id] = clock]
       /\ UNCHANGED <<dedupQueue, counts, accepted>>
    \/ body = "accepted" /\ r.push \notin Malformed /\ Accept(id, restarts)

-----------------------------------------------------------------------------
(* push_message *)

StartPush(p) ==
    /\ push[p] = "idle"
    /\ Cardinality({q \in Push : push[q] # "idle"}) < MaxCalls
    /\ push' = [push EXCEPT ![p] = "waiting"]
    /\ attempt' = [attempt EXCEPT ![p] = 1]
    /\ requests' = requests \cup {[push |-> p, attempt |-> 1]}
    /\ UNCHANGED <<clock, processorVars, result, answers, restarts>>

(* HTTP 200, whatever the code in the body. *)
Answered(a) ==
    /\ push[a.push] = "waiting" /\ attempt[a.push] = a.attempt
    /\ push' = [push EXCEPT ![a.push] = "pushed"]
    /\ result' = [result EXCEPT ![a.push] = a.body]
    /\ answers' = answers \ {a}
    /\ UNCHANGED <<clock, processorVars, attempt, requests, restarts>>

(* A timeout, a refused connection or an HTTP error: the request may have   *)
(* been served, may be served later, or is never served.                    *)
AttemptFails(p) ==
    /\ push[p] = "waiting"
    /\ push' = [push EXCEPT ![p] = IF attempt[p] < MaxRetries THEN "backoff" ELSE "failed"]
    /\ answers' = {a \in answers : a.push # p}
    /\ UNCHANGED <<clock, processorVars, attempt, result, requests, restarts>>

(* asyncio.sleep is over. *)
Retry(p) ==
    /\ push[p] = "backoff"
    /\ push' = [push EXCEPT ![p] = "waiting"]
    /\ attempt' = [attempt EXCEPT ![p] = @ + 1]
    /\ requests' = requests \cup {[push |-> p, attempt |-> attempt[p] + 1]}
    /\ UNCHANGED <<clock, processorVars, result, answers, restarts>>

-----------------------------------------------------------------------------
(* Gateway *)

(* receive_listener_message, up to its answer. An accepted message has been *)
(* marked as seen, and its task created, before route_new_message can fail. *)
Process(r, body) ==
    LET id == MsgIdOf(r.push) IN
    \/ body = "invalid" /\ r.push \in Malformed /\ RefuseInvalid
    \/ body = "duplicate" /\ r.push \notin Malformed /\ RefuseDuplicate(id)
    \/ body = "accepted" /\ r.push \notin Malformed /\ Accept(id, restarts)

(* POST /api/v1/listener/msg: the answer is of use only to an attempt that  *)
(* still waits for it.                                                      *)
ReceiveListenerMessage(r) ==
    \E body \in Body :
        /\ Process(r, body)
        /\ requests' = requests \ {r}
        /\ answers' = answers \cup
              {[push |-> p, attempt |-> attempt[p], body |-> body] :
                  p \in {q \in Push : push[q] = "waiting" /\ Try(q) = r}}
        /\ UNCHANGED <<clock, clientVars, restarts>>

Restart ==
    /\ restarts < MaxRestarts
    /\ restarts' = restarts + 1
    /\ ProcessorRestart
    /\ UNCHANGED <<clock, clientVars, requests, answers>>

Tick ==
    /\ clock < MaxClock
    /\ clock' = clock + 1
    /\ UNCHANGED <<processorVars, clientVars, requests, answers, restarts>>

-----------------------------------------------------------------------------

Progress(p) ==
    \/ AttemptFails(p)
    \/ Retry(p)
    \/ \E a \in answers : a.push = p /\ Answered(a)

Next ==
    \/ \E p \in Push : StartPush(p) \/ Progress(p)
    \/ \E r \in requests : ReceiveListenerMessage(r)
    \/ Restart
    \/ Tick

Spec == Init /\ [][Next]_vars

(* Every attempt has a timeout and every sleep ends; the gateway need not   *)
(* answer.                                                                  *)
FairSpec == Spec /\ \A p \in Push : WF_vars(Progress(p))

-----------------------------------------------------------------------------

TypeOK ==
    /\ ProcessorTypeOK
    /\ push \in [Push -> Phase]
    /\ attempt \in [Push -> 0..MaxRetries]
    /\ result \in [Push -> Body \cup {"none"}]
    /\ requests \subseteq [push : Push, attempt : 1..MaxRetries]
    /\ answers \subseteq [push : Push, attempt : 1..MaxRetries, body : Body]
    /\ restarts \in Nat

(* The cache is bounded: every cached id is queued, and the queue holds at  *)
(* most max_cache_size ids, though it keeps ids the cache has dropped.      *)
CacheBounded ==
    /\ Len(dedupQueue) <= MaxCache
    /\ \A id \in MsgId : cachedAt[id] # 0 => \E i \in DOMAIN dedupQueue : dedupQueue[i] = id

(* No message is swallowed: an id is reported as a duplicate only when a    *)
(* message with it was accepted less than ttl_seconds ago; reporting a      *)
(* duplicate does not prolong that.                                         *)
DuplicateWasAccepted ==
    \A id \in MsgId : IsDuplicate(id) =>
        \E i \in DOMAIN accepted :
            accepted[i].id = id /\ clock - accepted[i].at < TTL

(* An id is accepted twice within ttl_seconds only after a restart, or when *)
(* an entry of that id (the first of the two or an older, expired one that  *)
(* was still queued) reached the head of a full queue in between.           *)
ReacceptedForAReason ==
    \A i, j \in DOMAIN accepted :
        (/\ i < j /\ accepted[i].id = accepted[j].id
         /\ accepted[i].life = accepted[j].life
         /\ accepted[j].at - accepted[i].at < TTL)
        => \E k \in 1..i :
              /\ accepted[k].id = accepted[i].id
              /\ accepted[k].life = accepted[i].life
              /\ k + MaxCache \in i..(j - 1)

(* When push_message returns anything but a failure, a well-formed message  *)
(* with that id was accepted by the gateway, through this call, an earlier  *)
(* attempt of it, or another call.                                          *)
PushedMeansAccepted ==
    \A p \in Push :
        result[p] \in {"accepted", "duplicate"} =>
            \E i \in DOMAIN accepted : accepted[i].id = MsgIdOf(p)

(* Every call of push_message returns. *)
PushEnds == \A p \in Push : push[p] # "idle" ~> push[p] \in {"pushed", "failed"}

=============================================================================
