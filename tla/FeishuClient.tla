---------------------------- MODULE FeishuClient ----------------------------
(***************************************************************************)
(* FeishuClient and the sending side of FeishuBridge                       *)
(* (src/src/feishu_recorder): rows of a Bitable table and cards, over HTTP *)
(* requests of which each may be refused, or be served and answered too    *)
(* late. Several threads of control use one client. Fields of rows and     *)
(* cards other than the task and its completion are left out.              *)
(***************************************************************************)
EXTENDS FiniteSets, Naturals

CONSTANTS
    Caller,     \* threads of control, each of which makes one call
    Task,
    MaxRows     \* bound: rows ever made

ASSUME ClientAssumption == MaxRows \in Nat

VARIABLES
    channels,   \* configured: "user" and "webhook" for cards, "table" (bitable_token),
                \* "bridge": FeishuBridge's own app_id, app_secret and table_id
    cached,     \* a tenant_access_token is cached and not about to expire
    rows,       \* the table: id, task and completion of every row
    made,       \* rows ever made
    cards,      \* cards Feishu shows: the caller that sent it, and how
    call        \* per caller: what it calls, for which task, how far it is, and
                \* the row it has found, or was told it has made

clientVars == <<channels, cached, rows, made, cards, call>>

(* "write" is the bridge's write_record, "create" the client's create_record. *)
Operation == {"write", "create", "update", "delete", "delete_by_id", "card"}

NoCall == [op |-> "none", task |-> "none", phase |-> "idle", row |-> 0,
           completed |-> FALSE, result |-> FALSE]

ClientInit ==
    /\ channels \in SUBSET {"user", "webhook", "table", "bridge"}
    /\ cached = FALSE /\ rows = {} /\ made = 0 /\ cards = {}
    /\ call = [c \in Caller |-> NoCall]

Begin(c, op, task, completed) ==
    /\ call[c].phase = "idle" /\ (completed => op \in {"write", "create", "update"})
    /\ call' = [call EXCEPT ![c] = [@ EXCEPT !.op = op, !.task = task, !.completed = completed,
                                             !.phase = "begun"]]
    /\ UNCHANGED <<channels, cached, rows, made, cards>>

Return(c, result) == call' = [call EXCEPT ![c].phase = "returned", ![c].result = result]

-----------------------------------------------------------------------------
(* Requests. *)

(* Without a token the call is over; a token is fetched if none is cached.  *)
WithToken == cached' = TRUE
NoToken(c) == ~cached /\ cached' = FALSE /\ Return(c, FALSE)

ClientTokenExpires ==
    /\ cached /\ cached' = FALSE
    /\ UNCHANGED <<channels, rows, made, cards, call>>

(* A request is served or not, and only an answer in time counts: the       *)
(* caller may be told "no" of what was done.                                *)
Answers(served) == IF served THEN BOOLEAN ELSE {FALSE}

-----------------------------------------------------------------------------
(* Rows. *)

(* write_record without the bridge's own credentials ("test mode") reports   *)
(* success and makes no row.                                                *)
SkipRecord(c) ==
    /\ call[c].op = "write" /\ call[c].phase = "begun" /\ "bridge" \notin channels
    /\ Return(c, TRUE)
    /\ UNCHANGED <<channels, cached, rows, made, cards>>

(* create_record does not look for a row of the task.                       *)
CreateRecord(c) ==
    /\ call[c].phase = "begun"
    /\ call[c].op = "create" \/ (call[c].op = "write" /\ "bridge" \in channels)
    /\ \/ NoToken(c) /\ UNCHANGED <<rows, made>>
       \/ /\ WithToken
          /\ \E served \in BOOLEAN, answer \in BOOLEAN :
                /\ answer \in Answers(served)
                /\ served => "table" \in channels /\ made < MaxRows
                /\ LET row == [id |-> made + 1, task |-> call[c].task, completed |-> call[c].completed]
                   IN  /\ rows' = IF served THEN rows \cup {row} ELSE rows
                       /\ made' = IF served THEN made + 1 ELSE made
                       /\ call' = [call EXCEPT ![c] = [@ EXCEPT !.phase = "returned", !.result = answer,
                                                       !.row = IF answer THEN row.id ELSE 0]]
    /\ UNCHANGED <<channels, cards>>

(* Plausible bug. *)
FindAnyRecord(c) ==          \* the filter formula is dropped
    /\ call[c].op \in {"update", "delete"} /\ call[c].phase = "begun"
    /\ \E row \in rows : call' = [call EXCEPT ![c].phase = "found", ![c].row = row.id]
    /\ WithToken
    /\ UNCHANGED <<channels, rows, made, cards>>

(* update_status and delete_record look the row up first: one row of that   *)
(* task, whichever Feishu returns; a failure looks like no row at all.      *)
FindRecord(c) ==
    /\ call[c].op \in {"update", "delete"} /\ call[c].phase = "begun"
    /\ \/ Return(c, FALSE) /\ cached' \in {cached, TRUE}
       \/ /\ WithToken
          /\ \E row \in rows :
                /\ row.task = call[c].task
                /\ call' = [call EXCEPT ![c].phase = "found", ![c].row = row.id]
    /\ UNCHANGED <<channels, rows, made, cards>>

GivenRecord(c) ==
    /\ call[c].op = "delete_by_id" /\ call[c].phase = "begun"
    /\ \E row \in rows : call' = [call EXCEPT ![c].phase = "found", ![c].row = row.id]
    /\ UNCHANGED <<channels, cached, rows, made, cards>>

Target(c) == {row \in rows : row.id = call[c].row}

(* The row found may be gone by now: then the request is refused.           *)
ChangeRecord(c) ==
    /\ call[c].phase = "found"
    /\ \/ NoToken(c) /\ UNCHANGED rows
       \/ /\ WithToken
          /\ \E served \in BOOLEAN, answer \in BOOLEAN :
                /\ served => Target(c) # {}
                /\ answer \in Answers(served) /\ Return(c, answer)
                /\ rows' = IF ~served THEN rows
                           ELSE IF call[c].op = "update"
                           THEN (rows \ Target(c)) \cup
                                {[row EXCEPT !.completed = call[c].completed] : row \in Target(c)}
                           ELSE rows \ Target(c)
    /\ UNCHANGED <<channels, made, cards>>

-----------------------------------------------------------------------------
(* Cards. *)

Show(c, via, answer) ==
    \E served \in BOOLEAN :
        /\ answer \in Answers(served)
        /\ cards' = IF served THEN cards \cup {[sender |-> c, via |-> via]} ELSE cards

(* send_private_message: a message id is the only success.                  *)
SendPrivateMessage(c) ==
    \/ /\ ~cached /\ cached' = FALSE
       /\ call' = [call EXCEPT ![c].phase = "fallback"]
       /\ UNCHANGED cards
    \/ /\ WithToken
       /\ \E answer \in BOOLEAN :
             /\ Show(c, "bot", answer)
             /\ IF answer THEN Return(c, TRUE) ELSE call' = [call EXCEPT ![c].phase = "fallback"]

(* send_approval_card, send_notification_card: the bot if there is a user,  *)
(* the webhook otherwise, or nothing.                                       *)
SendCard(c) ==
    /\ call[c].op = "card" /\ call[c].phase = "begun"
    /\ \/ "user" \in channels /\ SendPrivateMessage(c)
       \/ /\ "user" \notin channels /\ "webhook" \in channels
          /\ call' = [call EXCEPT ![c].phase = "fallback"] /\ UNCHANGED <<cached, cards>>
       \/ /\ channels \cap {"user", "webhook"} = {}
          /\ Return(c, FALSE) /\ UNCHANGED <<cached, cards>>
    /\ UNCHANGED <<channels, rows, made>>

(* The webhook is used whenever the bot did not answer with a message id.   *)
SendWebhookCard(c) ==
    /\ call[c].phase = "fallback"
    /\ \/ "webhook" \notin channels /\ Return(c, FALSE) /\ UNCHANGED cards
       \/ /\ "webhook" \in channels
          /\ \E answer \in BOOLEAN : Show(c, "webhook", answer) /\ Return(c, answer)
    /\ UNCHANGED <<channels, cached, rows, made>>

-----------------------------------------------------------------------------
ClientNext ==
    \/ ClientTokenExpires
    \/ \E c \in Caller :
        \/ \E op \in Operation, task \in Task, completed \in BOOLEAN : Begin(c, op, task, completed)
        \/ SkipRecord(c) \/ CreateRecord(c) \/ FindRecord(c) \/ GivenRecord(c)
        \/ ChangeRecord(c) \/ SendCard(c) \/ SendWebhookCard(c)

-----------------------------------------------------------------------------
(* Properties. *)

ClientTypeOK ==
    /\ channels \subseteq {"user", "webhook", "table", "bridge"} /\ cached \in BOOLEAN
    /\ made \in 0..MaxRows
    /\ rows \subseteq [id : 1..made, task : Task, completed : BOOLEAN]
    /\ cards \subseteq [sender : Caller, via : {"bot", "webhook"}]
    /\ call \in [Caller -> [op : Operation \cup {"none"}, task : Task \cup {"none"},
                            phase : {"idle", "begun", "found", "fallback", "returned"}, row : 0..made,
                            completed : BOOLEAN, result : BOOLEAN]]

(* What a row says was said of its own task. A caller that was told its row *)
(* was made finds it there, unless a deletion of its task or of its id has  *)
(* found that row, or the bridge had no credentials and made none; and a    *)
(* row is gone once its deletion was reported. The rows an update or a      *)
(* deletion looks up at one request and changes at the next are its task's  *)
(* (feishu_bridge.py:46-53, client.py:80-241).                              *)
RowsTellTheTruth ==
    /\ \A row \in rows : \E c \in Caller : /\ call[c].op \in {"write", "create", "update"}
                                          /\ call[c].task = row.task /\ call[c].completed = row.completed
    /\ \A c \in Caller : call[c].op \in {"write", "create"} /\ call[c].result =>
          \/ call[c].op = "write" /\ "bridge" \notin channels
          \/ \E row \in rows : row.id = call[c].row /\ row.task = call[c].task
          \/ \E d \in Caller : /\ call[d].row = call[c].row
                               /\ \/ call[d].op = "delete_by_id"
                                  \/ call[d].op = "delete" /\ call[d].task = call[c].task
    /\ \A d \in Caller : call[d].op \in {"delete", "delete_by_id"} /\ call[d].result =>
          \A row \in rows : row.id # call[d].row
=============================================================================
