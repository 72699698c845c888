----------------------------- MODULE FeishuBot -----------------------------
(***************************************************************************)
(* The bot (src/src/feishu_bot): users bind themselves by a message, the   *)
(* bindings are kept in memory and in one file, which is rewritten as a    *)
(* whole at every change and read once, at the start. The process may      *)
(* crash at any point. Wording and layout of messages and cards are left   *)
(* out; a message is the set of users it reached.                          *)
(***************************************************************************)
EXTENDS FiniteSets, Naturals

CONSTANTS
    User,
    MaxCommands,    \* bound: commands received
    MaxCrashes      \* bound: crashes of the process

ASSUME BotAssumption == MaxCommands \in Nat /\ MaxCrashes \in Nat

VARIABLES
    up,         \* the process runs
    bound,      \* _bound_users
    file,       \* config.bind_file: absent, whole or torn, and the users in it
    token,      \* a tenant_access_token is cached and not about to expire
    work,       \* the event or message in progress
    answered,   \* history: per user, what the last command returned
    unsaved,    \* history: the last save did not succeed, or not yet
    lost,       \* history: the bot has started from a file whose last save did not succeed
    commands, crashes

botVars == <<up, bound, file, token, work, answered, unsaved, lost, commands, crashes>>

Idle == [step |-> "idle", user |-> "none", command |-> "none", left |-> {}]

BotInit ==
    /\ up = TRUE /\ bound = {} /\ file = [kind |-> "absent", users |-> {}]
    /\ token = FALSE /\ work = Idle
    /\ answered = [u \in User |-> "unbound"] /\ unsaved = FALSE /\ lost = FALSE
    /\ commands = 0 /\ crashes = 0

-----------------------------------------------------------------------------
(* handle_event: /bind, /unbind, /status and /help; any other text goes to  *)
(* the callback, any other event is ignored.                                *)

Receive(u, command) ==
    /\ up /\ work = Idle /\ commands < MaxCommands
    /\ commands' = commands + 1
    /\ \/ /\ command = "bind" \/ (command = "unbind" /\ u \in bound)
          /\ bound' = IF command = "bind" THEN bound \cup {u} ELSE bound \ {u}
          /\ work' = [Idle EXCEPT !.step = "open", !.user = u, !.command = command]
          /\ answered' = [answered EXCEPT ![u] = "unclear"]
       \/ /\ command = "status" \/ (command = "unbind" /\ u \notin bound)
          /\ work' = [Idle EXCEPT !.step = "reply", !.user = u, !.command = command]
          /\ UNCHANGED <<bound, answered>>
    /\ UNCHANGED <<up, file, token, unsaved, lost, crashes>>

(* _save_bound_users: the directory is made outside its try, so that an     *)
(* error there ends the handler without a reply; open(..., "w") empties the *)
(* file ...                                                                 *)
OpenFile ==
    /\ up /\ work.step = "open"
    /\ unsaved' = TRUE
    /\ \/ file' = [kind |-> "torn", users |-> {}] /\ work' = [work EXCEPT !.step = "write"]
       \/ file' = file /\ work' = [work EXCEPT !.step = "reply"]         \* refused: logged
       \/ file' = file /\ work' = Idle                                   \* mkdir raises
    /\ UNCHANGED <<up, bound, token, answered, lost, commands, crashes>>

(* Plausible bug. *)
SaveTheUser ==               \* only the user of the command is written
    /\ up /\ work.step = "write"
    /\ file' = [kind |-> "whole", users |-> {work.user} \cap bound] /\ unsaved' = FALSE
    /\ work' = [work EXCEPT !.step = "reply"]
    /\ UNCHANGED <<up, bound, token, answered, lost, commands, crashes>>

(* ... and json.dump fills it, or fails, which is only logged.              *)
WriteFile ==
    /\ up /\ work.step = "write"
    /\ \/ file' = [kind |-> "whole", users |-> bound] /\ unsaved' = FALSE
       \/ UNCHANGED <<file, unsaved>>
    /\ work' = [work EXCEPT !.step = "reply"]
    /\ UNCHANGED <<up, bound, token, answered, lost, commands, crashes>>

(* _get_tenant_access_token: the cached one, or a new one if Feishu gives it. *)
GetToken == token' \in {token, TRUE}

(* _send_message: nobody looks at what it returns.                          *)
Reply ==
    /\ up /\ work.step = "reply"
    /\ GetToken
    /\ work' = Idle
    /\ answered' = [answered EXCEPT ![work.user] =
                       CASE work.command = "bind" -> "bound"
                         [] work.command = "unbind" -> "unbound"
                         [] OTHER -> @]
    /\ UNCHANGED <<up, bound, file, unsaved, lost, commands, crashes>>

BotTokenExpires ==
    /\ token /\ token' = FALSE
    /\ UNCHANGED <<up, bound, file, work, answered, unsaved, lost, commands, crashes>>

-----------------------------------------------------------------------------
(* send_to_bound_users: one request for each user, in any order. *)

Broadcast ==
    /\ up /\ work = Idle /\ bound # {}
    /\ work' = [Idle EXCEPT !.step = "send", !.left = bound]
    /\ UNCHANGED <<up, bound, file, token, answered, unsaved, lost, commands, crashes>>

SendMessage ==
    /\ up /\ work.step = "send"
    /\ GetToken
    /\ \E u \in work.left :
          work' = IF work.left = {u} THEN Idle ELSE [work EXCEPT !.left = @ \ {u}]
    /\ UNCHANGED <<up, bound, file, answered, unsaved, lost, commands, crashes>>

-----------------------------------------------------------------------------
Crash ==
    /\ up /\ crashes < MaxCrashes
    /\ up' = FALSE /\ bound' = {} /\ token' = FALSE /\ work' = Idle /\ crashes' = crashes + 1
    /\ UNCHANGED <<file, answered, unsaved, lost, commands>>

(* _load_bound_users: a file that cannot be parsed is logged, and the bot   *)
(* starts with nobody bound.                                                *)
LoadBoundUsers ==
    /\ ~up /\ up' = TRUE
    /\ bound' = IF file.kind = "whole" THEN file.users ELSE {}
    /\ lost' = (lost \/ unsaved)
    /\ UNCHANGED <<file, token, work, answered, unsaved, commands, crashes>>

-----------------------------------------------------------------------------
BotNext ==
    \/ \E u \in User, command \in {"bind", "unbind", "status"} : Receive(u, command)
    \/ OpenFile \/ WriteFile \/ Reply \/ BotTokenExpires
    \/ Broadcast \/ SendMessage
    \/ Crash \/ LoadBoundUsers

-----------------------------------------------------------------------------
(* Properties. *)

BotTypeOK ==
    /\ up \in BOOLEAN /\ bound \subseteq User
    /\ file \in [kind : {"absent", "whole", "torn"}, users : SUBSET User]
    /\ token \in BOOLEAN
    /\ work \in [step : {"idle", "open", "write", "reply", "send"}, user : User \cup {"none"},
                 command : {"none", "bind", "unbind", "status"}, left : SUBSET User]
    /\ answered \in [User -> {"bound", "unbound", "unclear"}]
    /\ unsaved \in BOOLEAN /\ lost \in BOOLEAN /\ commands \in 0..MaxCommands /\ crashes \in 0..MaxCrashes

(* The users a running bot serves are those whose last command was answered *)
(* so, over any crashes, unless the bot has started from a file whose last  *)
(* save failed or was cut off (feishu_bot/__init__.py:72-108).              *)
BindingsSurvive ==
    up /\ ~lost =>
        \A u \in User : /\ answered[u] = "bound" => u \in bound
                        /\ answered[u] = "unbound" => u \notin bound
=============================================================================
