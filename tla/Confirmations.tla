--------------------------- MODULE Confirmations ---------------------------
(***************************************************************************)
(* The two decision managers (src/src/decision, src/src/decision_manager). *)
(* Each asks a user, keeps an entry in _pending and polls it until there   *)
(* is a decision or the time is up.                                        *)
(*                                                                         *)
(* Decisions come in on the callback server's thread, polling runs on the  *)
(* event loop: an answer is looked up in one step and stored in another,   *)
(* and a round of the loop, which looks at the entry, looks at the time,   *)
(* reads the decision and removes the entry in steps of its own, may find  *)
(* an answer between any two of them. A round may be late, when other      *)
(* coroutines or a message to the user (a blocking requests.post) hold the *)
(* event loop. A task is waited for again only after the previous wait has *)
(* returned (its callers await), and tasks share nothing but counters      *)
(* nobody reads, so one task with its consecutive waits is modelled.       *)
(***************************************************************************)
EXTENDS Naturals

CONSTANTS
    None,
    Timeout, PollInterval, ReminderInterval, MaxReminders, \* DecisionConfig, in ticks
    MaxDelay,   \* how late a round of the loop may be, in ticks
    MaxWaits,   \* bound: calls of wait_confirmation
    MaxReplies  \* bound: calls of receive_decision

AnyAnswer == {"approved", "rejected", "later"}

(* An entry belongs to the wait that made it. It is final for the Feishu    *)
(* manager when it has a decision, for the WeChat manager when confirmed,   *)
(* which receive_decision assigns before the decision. Cancelled it is no   *)
(* longer listed in _pending, but who has got hold of it keeps it.          *)
Entry == [wait : 1..MaxWaits, answer : AnyAnswer \cup {"none"},
          final : BOOLEAN, reminded : BOOLEAN, listed : BOOLEAN]

ASSUME ConfirmationsAssumption ==
    /\ Timeout \in Nat \ {0} /\ PollInterval \in Nat \ {0}
    /\ {ReminderInterval, MaxReminders, MaxDelay, MaxWaits, MaxReplies} \subseteq Nat
    /\ None \notin Entry

VARIABLES
    manager,    \* which of the two classes
    tokenValid, \* the cached tenant token is far from its expiry
    phase,      \* of wait_confirmation
    result,     \* what the last wait returned, or is about to
    pending,    \* the entry of the wait
    elapsed,    \* time since the wait started
    sleep,      \* what is left of asyncio.sleep
    delay,      \* how late the loop is, since it last looked at the entry
    reminders,  \* reminder_count
    reply,      \* the call of receive_decision in progress
    waits,      \* history: calls of wait_confirmation
    replies,    \* history: calls of receive_decision
    acked,      \* history: the newest answer acknowledged before the wait
                \* had read its decision
    ackedAt,    \* history: when it was
    overtaken   \* history: the newest one acknowledged after that

waitVars == <<phase, result, elapsed, sleep, delay, reminders, waits>>
replyVars == <<reply, replies>>
history == <<acked, ackedAt, overtaken>>
confirmationsVars == <<manager, tokenValid, waitVars, pending, replyVars, history>>

Answer == IF manager = "feishu" THEN {"approved", "rejected", "later"}
                                ELSE {"approved", "rejected"}

NewEntry(n) == [wait |-> n, answer |-> "none", final |-> FALSE, reminded |-> FALSE, listed |-> TRUE]

Answered(e, a) == [e EXCEPT !.answer = a, !.final = TRUE]

Listed == pending # None /\ pending.listed

Final == Listed /\ pending.final

NoReply == [stage |-> "idle", answer |-> "none", wait |-> 0]

ConfirmationsInit ==
    /\ manager \in {"feishu", "wechat"}
    /\ tokenValid = FALSE
    /\ phase = "idle" /\ result = "none"
    /\ pending = None
    /\ elapsed = 0 /\ sleep = 0 /\ delay = 0 /\ reminders = 0
    /\ reply = NoReply
    /\ waits = 0 /\ replies = 0
    /\ acked = "none" /\ ackedAt = 0 /\ overtaken = "none"

-----------------------------------------------------------------------------
(* Plausible bugs. *)

StoreFirst ==                    \* the first decision stands
    /\ reply.stage = "found" /\ manager = "feishu"
    /\ IF pending # None /\ pending.wait = reply.wait
       THEN /\ pending' = IF pending.final THEN pending ELSE Answered(pending, reply.answer)
            /\ IF pending.listed /\ phase # "taken" THEN acked' = reply.answer /\ ackedAt' = elapsed
               ELSE UNCHANGED <<acked, ackedAt>>
       ELSE UNCHANGED <<pending, acked, ackedAt>>
    /\ reply' = NoReply
    /\ UNCHANGED <<manager, tokenValid, waitVars, replies, overtaken>>

ReturnKeepsPolling ==            \* the loop is not left at the timeout
    /\ phase \in {"expired", "taken"}
    /\ phase' = IF phase = "expired" THEN "polling" ELSE "idle"
    /\ pending' = None
    /\ UNCHANGED <<manager, tokenValid, result, elapsed, sleep, delay, reminders, waits, replyVars, history>>

LookWechatTimeFirst ==           \* as the Feishu manager
    /\ phase = "polling" /\ manager = "wechat" /\ sleep = 0
    /\ phase' = IF Final /\ elapsed < Timeout THEN "answered" ELSE "unanswered"
    /\ delay' = 0
    /\ UNCHANGED <<manager, tokenValid, result, pending, elapsed, sleep, reminders, waits, replyVars, history>>

-----------------------------------------------------------------------------
(* Messages to the user. *)

(* A token that is missing or about to expire is fetched anew, or not; then *)
(* the message arrives, or not.                                             *)
SendPrivateMessage(ok) ==
    \/ tokenValid' = TRUE
    \/ ~ok /\ ~tokenValid /\ UNCHANGED tokenValid

(* A caller shows progress on a card of its own, as long as the task is     *)
(* waited for; the entry stays as it is.                                    *)
UpdateProgress ==
    /\ manager = "feishu" /\ Listed
    /\ \E ok \in BOOLEAN : SendPrivateMessage(ok)
    /\ UNCHANGED <<manager, waitVars, pending, replyVars, history>>

TokenExpires ==
    /\ tokenValid
    /\ tokenValid' = FALSE
    /\ UNCHANGED <<manager, waitVars, pending, replyVars, history>>

-----------------------------------------------------------------------------
(* wait_confirmation. *)

Begin(p, r) ==
    /\ phase = "idle" /\ waits < MaxWaits
    /\ waits' = waits + 1
    /\ phase' = p /\ result' = r
    /\ elapsed' = 0 /\ delay' = 0 /\ reminders' = 0
    /\ acked' = (IF r = "approved" THEN r ELSE "none") /\ ackedAt' = 0 /\ overtaken' = "none"

(* auto_confirm: no entry in one manager, one that stays in the other. *)
AutoConfirm ==
    /\ Begin("idle", "approved")
    /\ pending' = IF manager = "feishu" THEN pending
                  ELSE Answered(NewEntry(waits + 1), "approved")
    /\ UNCHANGED <<manager, tokenValid, sleep, replyVars>>

(* The Feishu manager sends its card first; without it the wait is over.    *)
RequestConfirmation ==
    /\ manager = "feishu"
    /\ \/ SendPrivateMessage(TRUE) /\ Begin("sent", "none")
       \/ SendPrivateMessage(FALSE) /\ Begin("idle", "timeout")
    /\ UNCHANGED <<manager, pending, sleep, replyVars>>

(* Its entry exists only when the card is with the user. *)
Register ==
    /\ phase = "sent"
    /\ phase' = "polling"
    /\ pending' = NewEntry(waits)
    /\ sleep' = 0
    /\ UNCHANGED <<manager, tokenValid, result, elapsed, delay, reminders, waits, replyVars, history>>

(* The WeChat manager makes its entry, sends whatever comes of it, and      *)
(* sleeps before it looks.                                                  *)
SendConfirmation ==
    /\ manager = "wechat"
    /\ Begin("polling", "none")
    /\ pending' = NewEntry(waits + 1)
    /\ sleep' = PollInterval
    /\ UNCHANGED <<manager, tokenValid, replyVars>>

ReminderDue ==
    /\ ReminderInterval > 0 /\ reminders < MaxReminders
    /\ elapsed > (reminders + 1) * ReminderInterval
    /\ Listed /\ ~pending.reminded

(* One round of the Feishu manager's loop: the time is looked at first. *)
PollFeishu ==
    /\ phase = "polling" /\ manager = "feishu" /\ sleep = 0
    /\ \/ /\ elapsed >= Timeout
          /\ phase' = "expired" /\ result' = "timeout"
          /\ UNCHANGED <<sleep, delay>>
       \/ /\ elapsed < Timeout /\ delay' = 0
          /\ phase' = IF Final THEN "answered" ELSE IF ReminderDue THEN "reminding" ELSE "polling"
          /\ sleep' = IF phase' = "polling" THEN PollInterval ELSE 0
          /\ UNCHANGED result
    /\ UNCHANGED <<manager, tokenValid, pending, elapsed, reminders, waits, replyVars, history>>

Remind ==
    /\ phase = "reminding"
    /\ \E ok \in BOOLEAN : SendPrivateMessage(ok)
    /\ pending' = [pending EXCEPT !.reminded = TRUE]
    /\ reminders' = reminders + 1
    /\ phase' = "polling" /\ sleep' = PollInterval
    /\ UNCHANGED <<manager, result, elapsed, delay, waits, replyVars, history>>

(* The WeChat manager looks at the entry first, and then at the time. *)
LookWechat ==
    /\ phase = "polling" /\ manager = "wechat" /\ sleep = 0
    /\ phase' = IF Final THEN "answered" ELSE "unanswered"
    /\ delay' = 0
    /\ UNCHANGED <<manager, tokenValid, result, pending, elapsed, sleep, reminders, waits, replyVars, history>>

CheckTime ==
    /\ phase = "unanswered"
    /\ IF elapsed >= Timeout
       THEN phase' = "expired" /\ result' = "timeout" /\ UNCHANGED sleep
       ELSE phase' = "polling" /\ sleep' = PollInterval /\ UNCHANGED result
    /\ UNCHANGED <<manager, tokenValid, pending, elapsed, delay, reminders, waits, replyVars, history>>

(* The decision is read, or missed by the WeChat manager when the entry is  *)
(* confirmed and has none yet. *)
ReadDecision ==
    /\ phase = "answered"
    /\ phase' = "taken"
    /\ result' = IF pending.answer = "none" THEN "timeout" ELSE pending.answer
    /\ UNCHANGED <<manager, tokenValid, pending, elapsed, sleep, delay, reminders, waits, replyVars, history>>

(* The entry is removed, whatever it says by now. *)
Return ==
    /\ phase \in {"expired", "taken"}
    /\ phase' = "idle"
    /\ pending' = None
    /\ UNCHANGED <<manager, tokenValid, result, elapsed, sleep, delay, reminders, waits, replyVars, history>>

Tick ==
    /\ phase = "polling" /\ sleep > 0
    /\ sleep' = sleep - 1 /\ elapsed' = elapsed + 1
    /\ UNCHANGED <<manager, tokenValid, phase, result, delay, reminders, waits, pending, replyVars, history>>

(* Time passes and the wait does not go on. *)
Delay ==
    /\ phase \notin {"idle", "sent"} /\ sleep = 0 /\ delay < MaxDelay
    /\ delay' = delay + 1 /\ elapsed' = elapsed + 1
    /\ UNCHANGED <<manager, tokenValid, phase, result, sleep, reminders, waits, pending, replyVars, history>>

-----------------------------------------------------------------------------
(* receive_decision, and cancel_pending. *)

(* Without an entry, or for a text that is no decision, it returns False. *)
ReceiveDecision ==
    /\ reply.stage = "idle" /\ replies < MaxReplies
    /\ replies' = replies + 1
    /\ \E a \in Answer :
          reply' = IF ~Listed THEN NoReply
                   ELSE [stage |-> "found", answer |-> a, wait |-> pending.wait]
    /\ UNCHANGED <<manager, tokenValid, waitVars, pending, history>>

(* To the wait in progress, unless that was cancelled before it had seen    *)
(* any answer. *)
Acknowledge ==
    IF reply.wait # waits THEN UNCHANGED history
    ELSE /\ IF phase \notin {"idle", "taken"} /\ (pending.listed \/ phase = "answered")
            THEN acked' = reply.answer /\ ackedAt' = elapsed
            ELSE UNCHANGED <<acked, ackedAt>>
         /\ overtaken' = IF phase = "taken" THEN reply.answer ELSE overtaken

(* The Feishu manager writes to the entry it found, also when that has left *)
(* the table, and returns True.                                             *)
Store ==
    /\ reply.stage = "found" /\ manager = "feishu"
    /\ IF pending # None /\ pending.wait = reply.wait
       THEN pending' = Answered(pending, reply.answer) /\ Acknowledge
       ELSE UNCHANGED <<pending, history>>
    /\ reply' = NoReply
    /\ UNCHANGED <<manager, tokenValid, waitVars, replies>>

(* The WeChat manager looks the entry up again for each of its two          *)
(* assignments; a KeyError ends it.                                         *)
StoreConfirmed ==
    /\ reply.stage = "found" /\ manager = "wechat"
    /\ IF pending = None THEN reply' = NoReply /\ UNCHANGED pending
       ELSE /\ reply' = [reply EXCEPT !.stage = "confirmed"]
            /\ pending' = [pending EXCEPT !.final = TRUE]
    /\ UNCHANGED <<manager, tokenValid, waitVars, replies, history>>

StoreDecision ==
    /\ reply.stage = "confirmed"
    /\ IF pending = None THEN UNCHANGED <<pending, history>>
       ELSE pending' = [pending EXCEPT !.answer = reply.answer] /\ Acknowledge
    /\ reply' = NoReply
    /\ UNCHANGED <<manager, tokenValid, waitVars, replies>>

(* The entry goes, the poll goes on; but a decision that it has seen counts. *)
CancelPending ==
    /\ manager = "feishu" /\ Listed
    /\ pending' = [pending EXCEPT !.listed = FALSE]
    /\ IF phase \in {"answered", "taken"} THEN UNCHANGED history
       ELSE acked' = "none" /\ ackedAt' = 0 /\ UNCHANGED overtaken
    /\ UNCHANGED <<manager, tokenValid, waitVars, replyVars>>

-----------------------------------------------------------------------------

WaitConfirmation == RequestConfirmation \/ SendConfirmation \/ AutoConfirm
Rounds == \/ Register \/ PollFeishu \/ Remind \/ LookWechat \/ CheckTime
          \/ ReadDecision \/ Return \/ Tick
Receiving == ReceiveDecision \/ Store \/ StoreConfirmed \/ StoreDecision

ConfirmationsNext ==
    WaitConfirmation \/ Rounds \/ Delay \/ Receiving \/ CancelPending \/ UpdateProgress \/ TokenExpires

ConfirmationsSpec == ConfirmationsInit /\ [][ConfirmationsNext]_confirmationsVars

(* asyncio.sleep wakes the coroutine up again and again.                    *)
ConfirmationsFairness == WF_confirmationsVars(Rounds)

-----------------------------------------------------------------------------
(* Properties. *)

(* Every variable has its type; the clock of a wait stops within a poll and *)
(* two late rounds of the timeout, and a second reminder is never sent.     *)
MaxElapsed == Timeout + PollInterval + 2 * MaxDelay

ConfirmationsTypeOK ==
    /\ manager \in {"feishu", "wechat"} /\ tokenValid \in BOOLEAN
    /\ phase \in {"idle", "sent", "polling", "reminding", "unanswered", "answered", "taken", "expired"}
    /\ result \in AnyAnswer \cup {"none", "timeout"}
    /\ pending \in Entry \cup {None}
    /\ elapsed \in 0..MaxElapsed /\ sleep \in 0..PollInterval /\ delay \in 0..MaxDelay
    /\ reminders \in 0..1
    /\ reply \in [stage : {"idle", "found", "confirmed"}, answer : AnyAnswer \cup {"none"}, wait : 0..MaxWaits]
    /\ waits \in 0..MaxWaits /\ replies \in 0..MaxReplies
    /\ {acked, overtaken} \subseteq AnyAnswer \cup {"none"} /\ ackedAt \in 0..MaxElapsed

(* Either manager may time out over an answer it has acknowledged, but only *)
(* over one from the end of the wait: for Feishu, which looks at the time   *)
(* first, from the last poll interval and the delays of its last round; for *)
(* WeChat, which looks at the entry first, from those delays. Besides, the  *)
(* WeChat manager, and only it, may take an entry that is confirmed and not *)
(* yet decided for a timeout, at any time.                                  *)
AnswerInTimeCounts ==
    phase = "idle" /\ result = "timeout" =>
        /\ acked # "none" =>
               ackedAt + MaxDelay + (IF manager = "feishu" THEN PollInterval ELSE 0) >= Timeout
        /\ overtaken # "none" => manager = "wechat"

(* What a Feishu wait returns is the newest answer acknowledged to that     *)
(* very wait before it read its decision: a press that was under way when   *)
(* an earlier wait of the task ended decides nothing. (The WeChat manager   *)
(* looks the entry up again to write to it, and may hand such an answer to  *)
(* the next wait.)                                                          *)
NewestAnswerReturned ==
    manager = "feishu" /\ phase = "idle" /\ result \in AnyAnswer => result = acked

(* Every wait returns, cancelled, answered or neither. *)
WaitEnds == phase # "idle" ~> phase = "idle"
=============================================================================
