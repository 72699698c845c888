------------------------------ MODULE Services ------------------------------
(***************************************************************************)
(* What the workers build on: the filter and analysis worker, the long     *)
(* connection to Feishu, the bot, and the client of Feishu's API. The four *)
(* share no state, so that a property of one is a property of any          *)
(* interleaving of them; a behaviour here is one of one of them, "part".   *)
(***************************************************************************)
EXTENDS Analysis, FeishuChannel, FeishuBot, FeishuClient

VARIABLE part

vars == <<part, analysisVars, channelVars, botVars, clientVars>>

(* The configuration of the other parts is left at one value. *)
Init ==
    /\ part \in {"analysis", "channel", "bot", "client"}
    /\ AnalysisInit /\ ChannelInit /\ BotInit /\ ClientInit
    /\ part # "analysis" => cloudKey = FALSE
    /\ part # "channel" => owner = "gateway"
    /\ part # "client" => channels = {}

Next ==
    /\ \/ part = "analysis" /\ AnalysisNext /\ UNCHANGED <<channelVars, botVars, clientVars>>
       \/ part = "channel" /\ ChannelNext /\ UNCHANGED <<analysisVars, botVars, clientVars>>
       \/ part = "bot" /\ BotNext /\ UNCHANGED <<analysisVars, channelVars, clientVars>>
       \/ part = "client" /\ ClientNext /\ UNCHANGED <<analysisVars, channelVars, botVars>>
    /\ UNCHANGED part

Spec == Init /\ [][Next]_vars

TypeOK == AnalysisTypeOK /\ ChannelTypeOK /\ BotTypeOK /\ ClientTypeOK
=============================================================================
