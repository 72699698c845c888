----------------------------- MODULE Listeners -----------------------------
(***************************************************************************)
(* The four listeners of src/src/wechat_listener: an HTTP webhook, the     *)
(* ntwork hook, a poller of the chat window's controls (UI Automation) and *)
(* one of its picture (OCR). Each passes messages through a filter of      *)
(* known ones, puts them into a queue and calls the callback; a listening  *)
(* loop takes them off the queue and calls it again.                       *)
(*                                                                         *)
(* A listener is started in one of three ways: connect, then               *)
(* start_background (run_listener of main.py, tests/test_wecom_listener);  *)
(* connect, then start_listening (examples/listener_example.py); or        *)
(* start_background alone. Messages are opaque: what is a task, and how a  *)
(* text is cut into messages, is left out.                                 *)
(***************************************************************************)
EXTENDS Naturals, Sequences, FiniteSets, SequencesExt

CONSTANTS
    Message,
    Key(_),      \* what the filter knows a message by
    Timed,       \* messages whose item in the window shows a time
    MaxCache,    \* _MAX_DEDUP, max_history
    Visible,     \* items looked at in one poll
    MaxHandled,  \* bound: times a message passes the filter or is posted
    MaxDays      \* bound: midnights

ASSUME ListenersAssumption ==
    {MaxCache, Visible, MaxHandled} \subseteq Nat \ {0} /\ MaxDays \in Nat

VARIABLES
    kind, entry, \* which listener, started how
    running,     \* _running
    poller,      \* the polling thread
    loop,        \* the listening loop, or the webhook's HTTP server
    hook,        \* ntwork's: registered, told to exit, or neither
    day,         \* the date, in midnights
    arrived,     \* the messages there are, in order of arrival
    previous,    \* _prev_text_lines: the messages of the last picture
    cache,       \* the filter's memory, oldest first
    queue,       \* _message_queue
    handled,     \* history: times a message passed the filter
    reported,    \* history: times the callback was called with it
    failed,      \* history: keys remembered whose message got no further
    evicted,     \* history: keys that were pushed out of the cache
    late         \* history: messages the listening loop took after disconnect

threads == <<running, poller, loop, hook>>
memory == <<previous, cache, handled, failed, evicted>>
listenersVars == <<kind, entry, threads, day, arrived, memory, queue, reported, late>>

Polls == kind \in {"uiautomation", "ocr"}

ListenersInit ==
    /\ kind \in {"webhook", "ntwork", "uiautomation", "ocr"}
    /\ entry \in {"background", "listening", "alone"}
    /\ running = FALSE /\ poller = "off" /\ loop = "off" /\ hook = "off" /\ day = 0
    /\ arrived = <<>> /\ previous = {} /\ cache = <<>> /\ queue = <<>>
    /\ handled = [m \in Message |-> 0] /\ reported = handled
    /\ failed = {} /\ evicted = {} /\ late = 0

(* A UI Automation id ends in a time: that of the poll, which no other id   *)
(* has, or, when the item shows one, that hour and minute of the poll's     *)
(* date. The other filters' ids do not change with the date.                *)
Id(m) == IF kind = "uiautomation" /\ m \notin Timed
         THEN <<Key(m), {m}, handled[m]>>
         ELSE <<Key(m), {}, day>>

Known(m) == Id(m) \in ToSet(cache)

(* The webhook and UI Automation push out the oldest id, OCR never does:    *)
(* only a second, unused list of what was seen is bounded.                  *)
Overflows == kind # "ocr" /\ Len(cache) >= MaxCache

(* Plausible bug. *)
RememberEvictsNewest(m) ==       \* popleft, but discards the id just added
    /\ cache' = IF Overflows THEN cache ELSE Append(cache, Id(m))
    /\ evicted' = IF Overflows THEN evicted \cup {Head(cache)[1]} ELSE evicted
    /\ handled' = [handled EXCEPT ![m] = @ + 1]

Remember(m) ==
    LET c == Append(cache, Id(m)) IN
    /\ cache' = IF Overflows THEN Tail(c) ELSE c
    /\ evicted' = IF Overflows THEN evicted \cup {Head(c)[1]} ELSE evicted
    /\ handled' = [handled EXCEPT ![m] = @ + 1]

(* Into the queue and to the callback, or an exception before either.       *)
Pass(m) ==
    \/ /\ queue' = Append(queue, m)
       /\ reported' = [reported EXCEPT ![m] = @ + 1]
       /\ UNCHANGED failed
    \/ failed' = failed \cup {Key(m)} /\ UNCHANGED <<queue, reported>>

-----------------------------------------------------------------------------
(* A plausible bug. *)

ReportSeenOnly ==                \* every text on the picture is marked seen
    /\ kind = "ocr" /\ poller = "on"
    /\ previous' = ToSet(arrived)
    /\ cache' = cache \o SetToSeq({Id(m) : m \in ToSet(arrived)} \ ToSet(cache))
    /\ UNCHANGED <<kind, entry, threads, day, arrived, handled, failed, evicted, queue, reported, late>>

ListenUnchecked ==               \* the loop does not look at _running again
    /\ loop = "on" /\ kind # "webhook"
    /\ loop' = "getting"
    /\ UNCHANGED <<kind, entry, running, poller, hook, day, arrived, memory, queue, reported, late>>

-----------------------------------------------------------------------------
(* Threads. A date matters to UI Automation's ids only. *)

Midnight ==
    /\ kind = "uiautomation" /\ day < MaxDays
    /\ day' = day + 1
    /\ UNCHANGED <<kind, entry, threads, arrived, memory, queue, reported, late>>

(* connect is called by the listener's owner, or by the thread of           *)
(* start_background. For ntwork it registers the hook before it sets        *)
(* _running.                                                                *)
Connecting ==
    /\ ~running
    /\ \/ loop = "connecting"
       \/ entry # "alone" /\ loop = "off" /\ poller = "off"

RegisterHook ==
    /\ kind = "ntwork" /\ Connecting /\ hook # "on"
    /\ hook' = "on"
    /\ UNCHANGED <<kind, entry, running, poller, loop, day, arrived, memory, queue, reported, late>>

Connect ==
    /\ Connecting /\ loop = "off" /\ (kind = "ntwork" => hook = "on")
    /\ running' = TRUE
    /\ UNCHANGED <<kind, entry, poller, loop, hook, day, arrived, memory, queue, reported, late>>

(* The pollers override start_background to start their thread first. The   *)
(* inherited part does nothing while _running is set: after a connect there *)
(* is no listening loop, and nothing serves the webhook.                    *)
StartBackground ==
    /\ entry \in {"background", "alone"} /\ loop = "off"
    /\ running <=> entry = "background"
    /\ IF Polls THEN poller = "off" /\ poller' = "started" ELSE UNCHANGED poller
    /\ loop' = IF running THEN "off" ELSE "connecting"
    /\ loop' # loop \/ poller' # poller
    /\ UNCHANGED <<kind, entry, running, hook, day, arrived, memory, queue, reported, late>>

RunListeningLoop ==
    /\ Connecting /\ loop = "connecting" /\ (kind = "ntwork" => hook = "on")
    /\ loop' = "on" /\ running' = TRUE
    /\ UNCHANGED <<kind, entry, poller, hook, day, arrived, memory, queue, reported, late>>

StartListening ==
    /\ entry = "listening" /\ running /\ loop = "off"
    /\ loop' = "on"
    /\ UNCHANGED <<kind, entry, running, poller, hook, day, arrived, memory, queue, reported, late>>

(* Before every message the loop looks at _running, and then waits for the  *)
(* message, for up to a second.                                             *)
ListenAgain ==
    /\ loop = "on" /\ kind # "webhook"
    /\ loop' = IF running THEN "getting" ELSE "ended"
    /\ UNCHANGED <<kind, entry, running, poller, hook, day, arrived, memory, queue, reported, late>>

(* The polling thread looks at _running before every poll, and ends for     *)
(* good when it is not set, be it not yet.                                  *)
RunPollingLoop ==
    /\ poller = "started"
    /\ poller' = IF running THEN "on" ELSE "ended"
    /\ UNCHANGED <<kind, entry, running, loop, hook, day, arrived, memory, queue, reported, late>>

(* Nobody is interrupted: the loop and the poller find out when they look   *)
(* at _running, the webhook's server never (_server_task is not assigned),  *)
(* and ntwork is told to exit. Disconnected is only who was connected.      *)
Disconnect ==
    /\ running
    /\ running' = FALSE
    /\ hook' = IF kind = "ntwork" THEN "leaving" ELSE hook
    /\ UNCHANGED <<kind, entry, poller, loop, day, arrived, memory, queue, reported, late>>

(* ntwork.exit_ is through; an exception of it is ignored. *)
ExitHook ==
    /\ hook = "leaving"
    /\ hook' = "off"
    /\ UNCHANGED <<kind, entry, running, poller, loop, day, arrived, memory, queue, reported, late>>

-----------------------------------------------------------------------------
(* Messages come in. *)

Arrive(m) ==
    /\ m \notin ToSet(arrived)
    /\ arrived' = Append(arrived, m)
    /\ UNCHANGED <<kind, entry, threads, day, memory, queue, reported, late>>

(* POST to the webhook, the first time or again, when nobody answered or    *)
(* the answer was not ok. The id is remembered before the message is        *)
(* parsed; for a known one the answer is ok. *)
HandleWebhookRequest(m) ==
    /\ kind = "webhook" /\ loop = "on"
    /\ m \in ToSet(arrived) /\ handled[m] < MaxHandled
    /\ IF Known(m)
       THEN UNCHANGED <<cache, evicted, handled, failed, queue, reported>>
       ELSE Remember(m) /\ Pass(m)
    /\ UNCHANGED <<kind, entry, threads, day, arrived, previous, late>>

(* The hook calls from its registration to its exit, whatever _running is,  *)
(* and keeps no ids. *)
HandleNtworkMessage(m) ==
    /\ kind = "ntwork" /\ hook # "off"
    /\ m \in ToSet(arrived) /\ handled[m] = 0
    /\ handled' = [handled EXCEPT ![m] = 1]
    /\ Pass(m)
    /\ UNCHANGED <<kind, entry, threads, day, arrived, previous, cache, evicted, late>>

OnScreen == ToSet(SubSeq(arrived, IF Len(arrived) > Visible THEN Len(arrived) - Visible + 1 ELSE 1, Len(arrived)))

(* One item of a poll of the window's controls. An exception ends that poll *)
(* and the next one goes on with the items that are not cached yet.         *)
PollItem(m) ==
    /\ kind = "uiautomation" /\ poller = "on"
    /\ m \in OnScreen /\ ~Known(m) /\ handled[m] < MaxHandled
    /\ Remember(m) /\ Pass(m)
    /\ poller' \in {"on", "started"}
    /\ UNCHANGED <<kind, entry, running, loop, hook, day, arrived, previous, late>>

(* One poll of the picture: nothing when it has not changed; otherwise what *)
(* was not on the last one and was never seen is marked as seen, and then   *)
(* passed on unless its confidence is low or the callback raises before it. *)
Unseen == {m \in OnScreen : m \notin previous /\ ~Known(m)}

DetectNewMessages ==
    /\ previous' = OnScreen
    /\ cache' = cache \o SetToSeq({Id(m) : m \in Unseen})
    /\ handled' = [m \in Message |-> IF m \in Unseen THEN handled[m] + 1 ELSE handled[m]]

Before(m, n) == \E i, j \in 1..Len(arrived) : i <= j /\ arrived[i] = m /\ arrived[j] = n

(* Two new messages of one key: the first is reported. *)
Firsts == {m \in Unseen : \A n \in Unseen : Key(n) = Key(m) => Before(m, n)}

PollPicture ==
    /\ kind = "ocr" /\ poller = "on"
    /\ OnScreen # previous
    /\ DetectNewMessages
    /\ \E passed \in SUBSET Firsts : \E inOrder \in SetToSeqs(passed) :
          /\ \A i, j \in DOMAIN inOrder : i <= j => Before(inOrder[i], inOrder[j])
          /\ queue' = queue \o inOrder
          /\ reported' = [m \in Message |-> IF m \in passed THEN reported[m] + 1 ELSE reported[m]]
          /\ failed' = failed \cup {Key(m) : m \in Firsts \ passed}
    /\ poller' = "started"
    /\ UNCHANGED <<kind, entry, running, loop, hook, day, arrived, evicted, late>>

(* The loop reports once more what was reported already, also when the      *)
(* listener was disconnected while it waited; or nothing came in time.      *)
GetNextMessage ==
    /\ loop = "getting"
    /\ loop' = "on"
    /\ IF queue = <<>> THEN UNCHANGED <<queue, reported, late>>
       ELSE /\ queue' = Tail(queue)
            /\ reported' = [reported EXCEPT ![Head(queue)] = @ + 1]
            /\ late' = IF running THEN late ELSE late + 1
    /\ UNCHANGED <<kind, entry, running, poller, hook, day, arrived, memory>>

-----------------------------------------------------------------------------

ListenersNext ==
    \/ RegisterHook \/ Connect \/ StartBackground \/ RunListeningLoop \/ StartListening
    \/ RunPollingLoop \/ ListenAgain \/ Disconnect \/ ExitHook \/ Midnight
    \/ \E m \in Message : Arrive(m) \/ HandleWebhookRequest(m) \/ HandleNtworkMessage(m) \/ PollItem(m)
    \/ PollPicture \/ GetNextMessage

ListenersSpec == ListenersInit /\ [][ListenersNext]_listenersVars

-----------------------------------------------------------------------------
(* Properties. *)

(* Every variable has its type, and no filter but OCR's outgrows its limit. *)
ListenersTypeOK ==
    /\ kind \in {"webhook", "ntwork", "uiautomation", "ocr"}
    /\ entry \in {"background", "listening", "alone"}
    /\ running \in BOOLEAN
    /\ poller \in {"off", "started", "on", "ended"}
    /\ loop \in {"off", "connecting", "on", "getting", "ended"}
    /\ hook \in {"off", "on", "leaving"}
    /\ day \in 0..MaxDays /\ late \in Nat
    /\ arrived \in Seq(Message) /\ queue \in Seq(Message)
    /\ previous \subseteq Message
    /\ cache \in Seq({Key(m) : m \in Message} \X (SUBSET Message) \X Nat)
    /\ kind # "ocr" => Len(cache) <= MaxCache
    /\ handled \in [Message -> 0..MaxHandled]
    /\ reported \in [Message -> Nat]

(* A message the filter refuses is one whose key was reported before, or    *)
(* whose first handling failed after the id had been remembered: apart from *)
(* such a failure the filters lose nothing.                                 *)
KnownWasReported ==
    \A id \in ToSet(cache) :
        id[1] \in failed \/ \E m \in Message : Key(m) = id[1] /\ reported[m] > 0

(* A message is reported once, or once on each of its dates in UI           *)
(* Automation's window, where an item that shows a time gets a new id at    *)
(* midnight. More often it is reported only by a listening loop next to the *)
(* reporter, after its id was pushed out, or when its id is new every time. *)
ReportedAgainForAReason ==
    \A m \in Message : reported[m] > day + 1 =>
        \/ loop \in {"on", "getting", "ended"} /\ kind # "webhook"
        \/ Key(m) \in evicted
        \/ kind = "uiautomation" /\ m \notin Timed

(* After disconnect nothing is reported any more, except by a poll that has *)
(* begun, by the webhook's server, which goes on, by ntwork's hook until it *)
(* has exited, and by the listening loop, which may be waiting for the next *)
(* message: it reports that one and no other.                               *)
SilentAfterDisconnect ==
    [][reported' # reported /\ ~running =>
         \/ kind = "webhook" \/ hook # "off" \/ poller = "on"
         \/ loop = "getting" /\ late = 0]_listenersVars
=============================================================================
