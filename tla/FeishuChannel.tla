--------------------------- MODULE FeishuChannel ---------------------------
(***************************************************************************)
(* The long connection over which Feishu delivers the clicks on cards      *)
(* (src/src/feishu_recorder/ws_client.py) and its three owners: the        *)
(* gateway, FeishuBridge, and FeishuWSClientAsync, which alone may start   *)
(* one FeishuWSClient again. lark's client is external: its start returns  *)
(* only by an exception. Feishu hands a click to one open connection and   *)
(* repeats it until it is acknowledged.                                    *)
(***************************************************************************)
EXTENDS SequencesExt

CONSTANTS
    Handler,        \* functions given to on_card_action
    ClickId,
    MaxStarts,      \* bound: starts of a client
    MaxDeliveries   \* bound: deliveries of one click

ASSUME ChannelAssumption == MaxStarts \in Nat \ {0} /\ MaxDeliveries \in Nat \ {0}

VARIABLES
    owner,      \* "gateway", "bridge" or "async"
    known,      \* the owner's handlers (the bridge's _card_handlers)
    held,       \* the FeishuWSClient the owner holds, or 0
    client,     \* per FeishuWSClient: _running, _card_handlers, _client (the start that made it)
    thread,     \* one per start, in order: the FeishuWSClient, the lark client it runs, its phase
    click,      \* per click: whether it was acknowledged, and how often it was delivered
    tasks,      \* handlers scheduled on a thread's loop
    ran         \* history: per click and handler, runs that ended

channelVars == <<owner, known, held, client, thread, click, tasks, ran>>

Client == 1..MaxStarts

ChannelInit ==
    /\ owner \in {"gateway", "bridge", "async"}
    /\ known = <<>> /\ held = 0
    /\ client = [c \in Client |-> [running |-> FALSE, handlers |-> <<>>, lark |-> 0]]
    /\ thread = <<>> /\ tasks = {}
    /\ click = [k \in ClickId |-> [phase |-> "none", delivered |-> 0]]
    /\ ran = [k \in ClickId |-> [h \in Handler |-> 0]]

-----------------------------------------------------------------------------
(* Registration. *)

(* The bridge keeps its handlers, and hands a late one on to its client;    *)
(* the gateway registers before it starts, the wrapper at any time.         *)
OnCardAction(h) ==
    /\ h \notin Range(known) /\ (owner = "gateway" => thread = <<>>)
    /\ known' = Append(known, h)
    /\ client' = IF held # 0 THEN [client EXCEPT ![held].handlers = Append(@, h)] ELSE client
    /\ UNCHANGED <<owner, held, thread, click, tasks, ran>>

-----------------------------------------------------------------------------
(* Start and stop. *)

(* FeishuWSClient.start: _running is set before anything is connected.      *)
Start(c, handlers) ==
    /\ Len(thread) < MaxStarts /\ ~client[c].running
    /\ client' = [client EXCEPT ![c] = [running |-> TRUE, handlers |-> handlers, lark |-> Len(thread) + 1]]
    /\ thread' = Append(thread, [client |-> c, lark |-> 0, phase |-> "spawned"])

(* The bridge refuses while it holds a client, alive or not, and makes a    *)
(* client of its own for every start; the gateway starts once.              *)
StartOwned ==
    /\ held = 0 /\ Start(Len(thread) + 1, known)
    /\ owner = "gateway" => thread = <<>>
    /\ held' = Len(thread) + 1
    /\ UNCHANGED <<owner, known, click, tasks, ran>>

Restart ==
    /\ owner = "async" /\ held # 0 /\ Start(held, client[held].handlers)
    /\ UNCHANGED <<owner, known, held, click, tasks, ran>>

(* Only the flag is reset; the bridge and the gateway also drop the client. *)
Stop ==
    /\ held # 0
    /\ client' = [client EXCEPT ![held].running = FALSE]
    /\ held' = IF owner = "async" THEN held ELSE 0
    /\ UNCHANGED <<owner, known, thread, click, tasks, ran>>

-----------------------------------------------------------------------------
(* A thread: _run_client reads _client when it is scheduled. *)

RunClient(n) ==
    /\ thread[n].phase = "spawned"
    /\ thread' = [thread EXCEPT ![n].phase = "running", ![n].lark = client[thread[n].client].lark]
    /\ UNCHANGED <<owner, known, held, client, click, tasks, ran>>

(* lark gives up: the loop ends, and what is scheduled on it never runs.    *)
ClientRaises(n) ==
    /\ thread[n].phase = "running"
    /\ thread' = [thread EXCEPT ![n].phase = "raised"]
    /\ tasks' = {task \in tasks : task.thread # n}
    /\ UNCHANGED <<owner, known, held, client, click, ran>>

(* Plausible bug. *)
RaisedKeepsRunning(n) ==     \* the except clause only logs
    /\ thread[n].phase = "raised"
    /\ thread' = [thread EXCEPT ![n].phase = "ended"]
    /\ UNCHANGED <<owner, known, held, client, click, tasks, ran>>

MarkStopped(n) ==
    /\ thread[n].phase = "raised"
    /\ thread' = [thread EXCEPT ![n].phase = "ended"]
    /\ client' = [client EXCEPT ![thread[n].client].running = FALSE]
    /\ UNCHANGED <<owner, known, held, click, tasks, ran>>

-----------------------------------------------------------------------------
(* Clicks. *)

Press(k) ==
    /\ click[k].phase = "none"
    /\ click' = [click EXCEPT ![k].phase = "pressed"]
    /\ UNCHANGED <<owner, known, held, client, thread, tasks, ran>>

Scheduled(k, n) ==
    {[click |-> k, handler |-> h, thread |-> n, delivery |-> click[k].delivered + 1]
        : h \in Range(client[thread[n].client].handlers)}

(* patched_handle_data_frame and _handle_card_action_p2: every handler      *)
(* becomes a task of the running loop, and the click is acknowledged        *)
(* whatever will come of them. The acknowledgement may be lost.             *)
Deliver(k, n) ==
    /\ thread[n].phase = "running" /\ click[k].phase = "pressed" /\ click[k].delivered < MaxDeliveries
    /\ tasks' = tasks \cup Scheduled(k, n)
    /\ \E phase \in {"acknowledged", "pressed"} :
          click' = [click EXCEPT ![k] = [phase |-> phase, delivered |-> @.delivered + 1]]
    /\ UNCHANGED <<owner, known, held, client, thread, ran>>

(* The handler ends, normally or not: nobody looks at the task's result.    *)
HandlerEnds(task) ==
    /\ tasks' = tasks \ {task}
    /\ ran' = [ran EXCEPT ![task.click][task.handler] = @ + 1]
    /\ UNCHANGED <<owner, known, held, client, thread, click>>

-----------------------------------------------------------------------------
ChannelNext ==
    \/ \E h \in Handler : OnCardAction(h)
    \/ StartOwned \/ Restart \/ Stop
    \/ \E n \in DOMAIN thread : RunClient(n) \/ ClientRaises(n) \/ MarkStopped(n)
    \/ \E k \in ClickId : Press(k)
    \/ \E k \in ClickId, n \in DOMAIN thread : Deliver(k, n)
    \/ \E task \in tasks : HandlerEnds(task)

-----------------------------------------------------------------------------
(* Properties. *)

ChannelTypeOK ==
    /\ owner \in {"gateway", "bridge", "async"} /\ known \in Seq(Handler) /\ held \in 0..MaxStarts
    /\ client \in [Client -> [running : BOOLEAN, handlers : Seq(Handler), lark : 0..MaxStarts]]
    /\ thread \in Seq([client : Client, lark : 0..MaxStarts,
                       phase : {"spawned", "running", "raised", "ended"}])
    /\ click \in [ClickId -> [phase : {"none", "pressed", "acknowledged"}, delivered : 0..MaxDeliveries]]
    /\ tasks \subseteq [click : ClickId, handler : Handler, thread : 1..MaxStarts, delivery : 1..MaxDeliveries]
    /\ ran \in [ClickId -> [Handler -> 0..MaxDeliveries]]

(* is_connected is right in one direction: a client that says it is         *)
(* connected has a thread that has not ended, whichever of its threads      *)
(* ended before (ws_client.py:192-204).                                     *)
ConnectedIsAlive ==
    \A c \in Client : client[c].running =>
        \E n \in DOMAIN thread : thread[n].client = c /\ thread[n].phase # "ended"
=============================================================================
