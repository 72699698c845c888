----------------------------- MODULE Periphery -----------------------------
(***************************************************************************)
(* What the pipeline is surrounded by and what has timers or threads of    *)
(* its own: the listeners, the decision managers and the code executors.   *)
(* They call one another only through components modelled elsewhere and    *)
(* share no state, so that a property of one is a property of any          *)
(* interleaving of them; a behaviour here is one of one of them, "part".   *)
(***************************************************************************)
EXTENDS Listeners, Confirmations, Executors

VARIABLE part

vars == <<part, listenersVars, confirmationsVars, executorsVars>>

(* The configuration of the other parts is left at one value. *)
Init ==
    /\ part \in {"listeners", "confirmations", "executors"}
    /\ ListenersInit /\ ConfirmationsInit /\ ExecutorsInit
    /\ part # "listeners" => kind = "webhook" /\ entry = "alone"
    /\ part # "confirmations" => manager = "feishu"
    /\ part # "executors" => deployed = "sdk" /\ backend = "opencode" /\ mode = "cli"

Next ==
    /\ \/ part = "listeners" /\ ListenersNext /\ UNCHANGED <<confirmationsVars, executorsVars>>
       \/ part = "confirmations" /\ ConfirmationsNext /\ UNCHANGED <<listenersVars, executorsVars>>
       \/ part = "executors" /\ ExecutorsNext /\ UNCHANGED <<listenersVars, confirmationsVars>>
    /\ UNCHANGED part

Spec == Init /\ [][Next]_vars

FairSpec == Spec /\ ConfirmationsFairness /\ ExecutorsFairness

(* Every variable of the three has its type. *)
TypeOK == ListenersTypeOK /\ ConfirmationsTypeOK /\ ExecutorsTypeOK
=============================================================================
