--------------------------- MODULE ServicesProofs ---------------------------
(***************************************************************************)
(* Proofs about what the workers build on: for any number of requests,     *)
(* texts, starts, users, callers, crashes and rows.                        *)
(***************************************************************************)
EXTENDS Services, FiniteSetTheorems, TLAPS

-----------------------------------------------------------------------------
(* The long connection. *)

ThreadRecord == [client : Client, lark : 0..MaxStarts, phase : {"spawned", "running", "raised", "ended"}]
ClientRecord == [running : BOOLEAN, handlers : Seq(Handler), lark : 0..MaxStarts]

ChannelShape ==
    /\ known \in Seq(Handler) /\ held \in 0..MaxStarts
    /\ client \in [Client -> ClientRecord] /\ thread \in Seq(ThreadRecord)

ChannelInv == ChannelShape /\ ConnectedIsAlive

(* No client exists at first. *)
LEMMA ChannelInitOK == ChannelInit => ChannelInv
<1> SUFFICES ASSUME ChannelInit PROVE ChannelInv
  OBVIOUS
<1>1. held = 0 /\ thread = <<>> /\ known = <<>>
      /\ client = [c \in Client |-> [running |-> FALSE, handlers |-> <<>>, lark |-> 0]]
  BY DEF ChannelInit
<1>2. ChannelShape
  BY <1>1, ChannelAssumption DEF ChannelShape, ClientRecord
<1>3. QED
  BY <1>1, <1>2 DEF ChannelInv, ConnectedIsAlive

(* A sequence that is appended to, or changed in one place.                 *)
LEMMA Appending ==
    ASSUME NEW S, NEW s \in Seq(S), NEW e \in S
    PROVE  /\ Append(s, e) \in Seq(S) /\ DOMAIN s = 1..Len(s) /\ Len(s) \in Nat
           /\ DOMAIN Append(s, e) = 1..(Len(s) + 1)
           /\ Append(s, e)[Len(s) + 1] = e
           /\ \A n \in DOMAIN s : Append(s, e)[n] = s[n]
  OBVIOUS

(* The sequence with its n-th element replaced. *)
LEMMA Changing ==
    ASSUME NEW S, NEW s \in Seq(S), NEW n \in DOMAIN s, NEW e \in S
    PROVE  /\ [s EXCEPT ![n] = e] \in Seq(S) /\ s[n] \in S
           /\ DOMAIN [s EXCEPT ![n] = e] = DOMAIN s
           /\ [s EXCEPT ![n] = e][n] = e
           /\ \A m \in DOMAIN s \ {n} : [s EXCEPT ![n] = e][m] = s[m]
  OBVIOUS

(* A thread that starts serves its client; the others are as they were.     *)
LEMMA StartOK ==
    ASSUME ChannelInv, NEW c \in Client, NEW handlers \in Seq(Handler), Start(c, handlers)
    PROVE  client' \in [Client -> ClientRecord] /\ thread' \in Seq(ThreadRecord) /\ ConnectedIsAlive'
<1> DEFINE new == [client |-> c, lark |-> 0, phase |-> "spawned"]
           record == [running |-> TRUE, handlers |-> handlers, lark |-> Len(thread) + 1]
<1>1. /\ client' = [client EXCEPT ![c] = record] /\ thread' = Append(thread, new)
      /\ Len(thread) < MaxStarts
  BY DEF Start
<1>2. new \in ThreadRecord
  BY ChannelAssumption DEF ThreadRecord
<1>3. thread \in Seq(ThreadRecord) /\ client \in [Client -> ClientRecord]
  BY DEF ChannelInv, ChannelShape
<1>4. record \in ClientRecord
  BY <1>1, <1>3, ChannelAssumption DEF ClientRecord
<1>5. /\ thread' \in Seq(ThreadRecord) /\ DOMAIN thread = 1..Len(thread) /\ Len(thread) \in Nat
      /\ DOMAIN thread' = 1..(Len(thread) + 1) /\ thread'[Len(thread) + 1] = new
      /\ \A n \in DOMAIN thread : thread'[n] = thread[n]
  BY <1>1, <1>2, <1>3, Appending
<1>6. ASSUME NEW d \in Client, client'[d].running
      PROVE  \E n \in DOMAIN thread' : thread'[n].client = d /\ thread'[n].phase # "ended"
  <2>1. CASE d = c
    <3>1. Len(thread) + 1 \in DOMAIN thread' /\ new.client = c /\ new.phase # "ended"
      BY <1>5
    <3>2. QED
      BY <1>5, <2>1, <3>1
  <2>2. CASE d # c
    <3>1. client[d].running
      BY <1>1, <1>3, <1>6, <2>2
    <3>2. PICK n \in DOMAIN thread : thread[n].client = d /\ thread[n].phase # "ended"
      BY <3>1 DEF ChannelInv, ConnectedIsAlive
    <3>3. n \in DOMAIN thread' /\ thread'[n] = thread[n]
      BY <1>5, <3>2
    <3>4. QED
      BY <3>2, <3>3
  <2>3. QED
    BY <2>1, <2>2
<1>7. QED
  BY <1>1, <1>3, <1>4, <1>5, <1>6 DEF ConnectedIsAlive

(* A thread that goes on to another phase, and does not end while its       *)
(* client is running.                                                       *)
LEMMA ThreadOK ==
    ASSUME ChannelInv, NEW n \in DOMAIN thread, NEW r \in ThreadRecord,
           thread' = [thread EXCEPT ![n] = r], r.client = thread[n].client,
           client' \in [Client -> ClientRecord],
           \A c \in Client : client'[c].running => client[c].running,
           r.phase = "ended" => ~client'[r.client].running,
           UNCHANGED <<known, held>>
    PROVE  ChannelInv'
<1>1. thread \in Seq(ThreadRecord)
  BY DEF ChannelInv, ChannelShape
<1>2. /\ thread' \in Seq(ThreadRecord) /\ DOMAIN thread' = DOMAIN thread /\ thread'[n] = r
      /\ \A m \in DOMAIN thread \ {n} : thread'[m] = thread[m]
  BY <1>1, Changing
<1>3. ASSUME NEW c \in Client, client'[c].running
      PROVE  \E m \in DOMAIN thread' : thread'[m].client = c /\ thread'[m].phase # "ended"
  <2>1. PICK m \in DOMAIN thread : thread[m].client = c /\ thread[m].phase # "ended"
    BY <1>3 DEF ChannelInv, ConnectedIsAlive
  <2>2. CASE m = n
    BY <1>2, <1>3, <2>1, <2>2
  <2>3. CASE m # n
    BY <1>2, <2>1, <2>3
  <2>4. QED
    BY <2>2, <2>3
<1>4. QED
  BY <1>2, <1>3 DEF ChannelInv, ChannelShape, ConnectedIsAlive

(* Every action around the long connection keeps its invariant. *)
LEMMA ChannelStep == ChannelInv /\ ChannelNext => ChannelInv'
<1> SUFFICES ASSUME ChannelInv, ChannelNext PROVE ChannelInv'
  OBVIOUS
<1>0. /\ known \in Seq(Handler) /\ held \in 0..MaxStarts /\ MaxStarts \in Nat
      /\ client \in [Client -> ClientRecord] /\ thread \in Seq(ThreadRecord)
      /\ Client = 1..MaxStarts /\ ConnectedIsAlive
  BY ChannelAssumption DEF ChannelInv, ChannelShape, Client
<1>1. ASSUME NEW h \in Handler, OnCardAction(h) PROVE ChannelInv'
  <2>1. known' = Append(known, h) /\ Append(known, h) \in Seq(Handler) /\ UNCHANGED <<held, thread>>
    BY <1>0, <1>1 DEF OnCardAction
  <2>2. client' \in [Client -> ClientRecord] /\ \A c \in Client : client'[c].running = client[c].running
    <3>1. CASE held = 0
      BY <1>0, <1>1, <3>1 DEF OnCardAction
    <3>2. CASE held # 0
      <4>1. held \in Client /\ client[held].handlers \in Seq(Handler)
        BY <1>0, <3>2 DEF ClientRecord
      <4>2. Append(client[held].handlers, h) \in Seq(Handler)
        BY <4>1
      <4>3. client' = [client EXCEPT ![held].handlers = Append(client[held].handlers, h)]
        BY <1>1, <3>2 DEF OnCardAction
      <4>4. QED
        BY <1>0, <4>1, <4>2, <4>3 DEF ClientRecord
    <3>3. QED
      BY <3>1, <3>2
  <2>3. QED
    BY <1>0, <2>1, <2>2 DEF ChannelInv, ChannelShape, ConnectedIsAlive
<1>2. CASE StartOwned
  <2>1. /\ Len(thread) \in Nat /\ Len(thread) < MaxStarts /\ Start(Len(thread) + 1, known)
        /\ held' = Len(thread) + 1 /\ known' = known
    BY <1>0, <1>2 DEF StartOwned, Start
  <2>2. Len(thread) + 1 \in Client /\ held' \in 0..MaxStarts
    BY <1>0, <2>1
  <2>3. QED
    BY <1>0, <2>1, <2>2, StartOK DEF ChannelInv, ChannelShape
<1>3. CASE Restart
  <2>1. /\ held \in Client /\ client[held].handlers \in Seq(Handler)
        /\ Start(held, client[held].handlers) /\ UNCHANGED <<known, held>>
    BY <1>0, <1>3 DEF Restart, ClientRecord
  <2>2. QED
    BY <1>0, <2>1, StartOK DEF ChannelInv, ChannelShape
<1>4. CASE Stop
  <2>1. /\ held \in Client /\ client' = [client EXCEPT ![held].running = FALSE]
        /\ held' \in 0..MaxStarts /\ UNCHANGED <<known, thread>>
    BY <1>0, <1>4 DEF Stop
  <2>2. /\ client' \in [Client -> ClientRecord]
        /\ \A c \in Client : client'[c].running => client[c].running
    BY <1>0, <2>1 DEF ClientRecord
  <2>3. QED
    BY <1>0, <2>1, <2>2 DEF ChannelInv, ChannelShape, ConnectedIsAlive
<1>5. ASSUME NEW n \in DOMAIN thread, RunClient(n) PROVE ChannelInv'
  <2> DEFINE r == [thread[n] EXCEPT !.phase = "running", !.lark = client[thread[n].client].lark]
  <2>1. thread[n] \in ThreadRecord
    BY <1>0
  <2>2. r \in ThreadRecord /\ r.client = thread[n].client /\ r.phase # "ended"
    BY <1>0, <2>1 DEF ThreadRecord, ClientRecord
  <2>3. thread' = [thread EXCEPT ![n] = r] /\ UNCHANGED <<known, held, client>>
    BY <1>5 DEF RunClient
  <2> HIDE DEF r
  <2>4. QED
    BY <1>0, <2>2, <2>3, ThreadOK
<1>6. ASSUME NEW n \in DOMAIN thread, ClientRaises(n) PROVE ChannelInv'
  <2> DEFINE r == [thread[n] EXCEPT !.phase = "raised"]
  <2>1. thread[n] \in ThreadRecord
    BY <1>0
  <2>2. r \in ThreadRecord /\ r.client = thread[n].client /\ r.phase # "ended"
    BY <2>1 DEF ThreadRecord
  <2>3. thread' = [thread EXCEPT ![n] = r] /\ UNCHANGED <<known, held, client>>
    BY <1>6 DEF ClientRaises
  <2> HIDE DEF r
  <2>4. QED
    BY <1>0, <2>2, <2>3, ThreadOK
<1>7. ASSUME NEW n \in DOMAIN thread, MarkStopped(n) PROVE ChannelInv'
  <2> DEFINE r == [thread[n] EXCEPT !.phase = "ended"]
  <2>1. thread[n] \in ThreadRecord
    BY <1>0
  <2>2. r \in ThreadRecord /\ r.client = thread[n].client /\ r.client \in Client
    BY <2>1 DEF ThreadRecord
  <2>3. /\ thread' = [thread EXCEPT ![n] = r] /\ UNCHANGED <<known, held>>
        /\ client' = [client EXCEPT ![thread[n].client].running = FALSE]
    BY <1>7 DEF MarkStopped
  <2> HIDE DEF r
  <2>4. /\ client' \in [Client -> ClientRecord]
        /\ \A c \in Client : client'[c].running => client[c].running
        /\ ~client'[r.client].running
    BY <1>0, <2>2, <2>3 DEF ClientRecord
  <2>5. QED
    BY <2>2, <2>3, <2>4, ThreadOK
<1>8. ASSUME UNCHANGED <<known, held, client, thread>> PROVE ChannelInv'
  BY <1>8 DEF ChannelInv, ChannelShape, ConnectedIsAlive
<1>9. QED
  BY <1>1, <1>2, <1>3, <1>4, <1>5, <1>6, <1>7, <1>8
     DEF ChannelNext, Press, Deliver, HandlerEnds

-----------------------------------------------------------------------------
(* The bot. *)

(* The bindings the next start reads. *)
Saved == IF file.kind = "whole" THEN file.users ELSE {}

(* What users were told agrees with a set of bindings. *)
Agrees(users) ==
    \A u \in User : /\ answered[u] = "bound" => u \in users
                    /\ answered[u] = "unbound" => u \notin users

BotShape ==
    /\ up \in BOOLEAN /\ unsaved \in BOOLEAN /\ lost \in BOOLEAN
    /\ bound \subseteq User
    /\ file \in [kind : {"absent", "whole", "torn"}, users : SUBSET User]
    /\ work \in [step : {"idle", "open", "write", "reply", "send"}, user : User \cup {"none"},
                 command : {"none", "bind", "unbind", "status"}, left : SUBSET User]
    /\ answered \in [User -> {"bound", "unbound", "unclear"}]
    /\ work.step \in {"open", "write", "reply"} => work.user \in User
    /\ ~up => work.step = "idle"

(* Memory agrees with what users were told unless a start has lost          *)
(* bindings, and so does the file unless the last save did not succeed; the *)
(* two differ only between a change and its save.                           *)
BotInv ==
    /\ BotShape
    /\ BindingsSurvive
    /\ ~lost /\ ~unsaved => Agrees(Saved)
    /\ up /\ ~unsaved /\ work.step # "open" => Saved = bound
    /\ work.step = "write" => unsaved
    /\ work.step \in {"open", "write", "reply"} =>
          /\ work.command = "bind" => work.user \in bound
          /\ work.command = "unbind" => work.user \notin bound

(* No user is bound at first, in memory or in the file. *)
LEMMA BotInitOK == BotInit => BotInv
<1> SUFFICES ASSUME BotInit PROVE BotInv
  OBVIOUS
<1>1. BotShape
  BY DEF BotInit, BotShape, Idle
<1>2. file.kind # "whole" /\ work.step = "idle" /\ bound = {} /\ \A u \in User : answered[u] = "unbound"
  BY DEF BotInit, Idle
<1>3. QED
  BY <1>1, <1>2 DEF BotInv, BindingsSurvive, Agrees, Saved

(* Every action of the bot keeps the invariant of its bindings. *)
LEMMA BotStep == BotInv /\ BotNext => BotInv'
<1> SUFFICES ASSUME BotInv, BotNext PROVE BotInv'
  OBVIOUS
<1> USE DEF BotInv, BotShape, BindingsSurvive, Agrees, Saved, Idle
<1>1. ASSUME NEW u \in User, NEW command \in {"bind", "unbind", "status"}, Receive(u, command)
      PROVE  BotInv'
  <2>1. CASE command = "bind"
    <3>1. /\ up /\ work = Idle /\ bound' = bound \cup {u} /\ answered' = [answered EXCEPT ![u] = "unclear"]
          /\ work' = [step |-> "open", user |-> u, command |-> "bind", left |-> {}]
          /\ UNCHANGED <<up, file, unsaved, lost>>
      BY <1>1, <2>1 DEF Receive
    <3>2. BotShape'
      BY <3>1
    <3>3. QED
      BY <3>1, <3>2
  <2>2. CASE command = "unbind" /\ u \in bound
    <3>1. /\ up /\ work = Idle /\ bound' = bound \ {u} /\ answered' = [answered EXCEPT ![u] = "unclear"]
          /\ work' = [step |-> "open", user |-> u, command |-> "unbind", left |-> {}]
          /\ UNCHANGED <<up, file, unsaved, lost>>
      BY <1>1, <2>2 DEF Receive
    <3>2. BotShape'
      BY <3>1
    <3>3. QED
      BY <3>1, <3>2
  <2>3. CASE command = "status" \/ (command = "unbind" /\ u \notin bound)
    BY <1>1, <2>3 DEF Receive
  <2>4. QED
    BY <2>1, <2>2, <2>3
<1>2. CASE OpenFile
  BY <1>2 DEF OpenFile
<1>3. CASE WriteFile
  <2>1. CASE file' = [kind |-> "whole", users |-> bound] /\ unsaved' = FALSE
    <3>1. Saved' = bound' /\ file' \in [kind : {"absent", "whole", "torn"}, users : SUBSET User]
      BY <1>3, <2>1 DEF WriteFile
    <3>2. QED
      BY <1>3, <2>1, <3>1 DEF WriteFile
  <2>2. CASE UNCHANGED <<file, unsaved>>
    BY <1>3, <2>2 DEF WriteFile
  <2>3. QED
    BY <1>3, <2>1, <2>2 DEF WriteFile
<1>4. CASE Reply
  BY <1>4 DEF Reply, GetToken
<1>5. CASE BotTokenExpires
  BY <1>5 DEF BotTokenExpires
<1>6. CASE Broadcast
  BY <1>6 DEF Broadcast
<1>7. CASE SendMessage
  BY <1>7 DEF SendMessage, GetToken
<1>8. CASE Crash
  BY <1>8 DEF Crash
<1>9. CASE LoadBoundUsers
  BY <1>9 DEF LoadBoundUsers
<1>10. QED
  BY <1>1, <1>2, <1>3, <1>4, <1>5, <1>6, <1>7, <1>8, <1>9 DEF BotNext

-----------------------------------------------------------------------------
(* The client of Feishu's API. *)

CallRecord == [op : Operation \cup {"none"}, task : Task \cup {"none"},
               phase : {"idle", "begun", "found", "fallback", "returned"}, row : Nat,
               completed : BOOLEAN, result : BOOLEAN]

RowRecord == [id : Nat, task : Task, completed : BOOLEAN]

ClientShape ==
    /\ made \in Nat /\ rows \subseteq RowRecord
    /\ call \in [Caller -> CallRecord]

(* Ids are not used twice; the row a caller has found or made is one of its *)
(* task.                                                                    *)
IdsInv ==
    /\ \A row \in rows : row.id \in 1..made
    /\ \A row1, row2 \in rows : row1.id = row2.id => row1.task = row2.task

CallsInv ==
    \A c \in Caller :
        /\ call[c].phase \in {"idle", "begun"} => call[c].row = 0
        /\ call[c].phase # "idle" => call[c].op \in Operation /\ call[c].task \in Task
        /\ call[c].phase = "idle" => call[c].op = "none"
        /\ call[c].phase = "found" => call[c].op \in {"update", "delete", "delete_by_id"}
        /\ call[c].phase = "fallback" => call[c].op = "card"
        /\ call[c].row <= made
        /\ call[c].result => call[c].phase = "returned"
        /\ call[c].op # "delete_by_id" => \A row \in rows : row.id = call[c].row => row.task = call[c].task

(* The three parts of RowsTellTheTruth, for a row and for a caller.         *)
SaidOfItsTask(row) ==
    \E c \in Caller : /\ call[c].op \in {"write", "create", "update"}
                      /\ call[c].task = row.task /\ call[c].completed = row.completed

Skipped(c) == call[c].op = "write" /\ "bridge" \notin channels
IsThere(c) == \E row \in rows : row.id = call[c].row /\ row.task = call[c].task
IsDeleted(c) ==
    \E d \in Caller : /\ call[d].row = call[c].row
                      /\ \/ call[d].op = "delete_by_id"
                         \/ call[d].op = "delete" /\ call[d].task = call[c].task

CreationIsTrue(c) ==
    call[c].op \in {"write", "create"} /\ call[c].result =>
        Skipped(c) \/ (call[c].row # 0 /\ (IsThere(c) \/ IsDeleted(c)))

DeletionIsTrue(c) ==
    call[c].op \in {"delete", "delete_by_id"} /\ call[c].result => \A row \in rows : row.id # call[c].row

TruthInv ==
    /\ \A row \in rows : SaidOfItsTask(row)
    /\ \A c \in Caller : CreationIsTrue(c) /\ DeletionIsTrue(c)

ClientInv == ClientShape /\ IdsInv /\ CallsInv /\ TruthInv

(* The invariant says what the property says. *)
LEMMA TruthIsTold == TruthInv => RowsTellTheTruth
  BY DEF TruthInv, SaidOfItsTask, CreationIsTrue, Skipped, IsThere, IsDeleted, DeletionIsTrue,
         RowsTellTheTruth

(* There are no rows and no calls at first. *)
LEMMA ClientInitOK == ClientInit => ClientInv
  BY DEF ClientInit, ClientInv, ClientShape, IdsInv, CallsInv, TruthInv, CreationIsTrue, DeletionIsTrue,
         NoCall, CallRecord, RowRecord

(* What is kept of a call when it goes on.                                  *)
GoesOn(old, new) ==
    /\ new \in CallRecord /\ new.phase # "idle"
    /\ new.op \in Operation /\ new.task \in Task /\ new.row <= made'
    /\ old.op # "none" => new.op = old.op /\ new.task = old.task /\ new.completed = old.completed
    /\ old.row # 0 => new.row = old.row
    /\ new.phase = "begun" => new.row = 0
    /\ new.phase = "found" => new.op \in {"update", "delete", "delete_by_id"}
    /\ new.phase = "fallback" => new.op = "card"
    /\ new.result => new.phase = "returned"

(* What is said of the other callers' rows stays so while rows are made, or *)
(* are deleted by the caller that goes on; the row it found or made is its  *)
(* task's.                                                                  *)
LEMMA OthersStayTrue ==
    ASSUME ClientInv, NEW c \in Caller, NEW r, GoesOn(call[c], r), call' = [call EXCEPT ![c] = r],
           UNCHANGED channels,
           \A row \in rows' : \/ \E old \in rows : old.id = row.id /\ old.task = row.task
                              \/ row.id > made,
           \A old \in rows : \/ \E row \in rows' : row.id = old.id /\ row.task = old.task
                             \/ /\ r.row = old.id
                                /\ r.op = "delete_by_id" \/ (r.op = "delete" /\ r.task = old.task)
    PROVE  /\ \A d \in Caller : call'[d] = IF d = c THEN r ELSE call[d]
           /\ \A d \in Caller : call[d].op # "none" => /\ call'[d].op = call[d].op
                                                       /\ call'[d].task = call[d].task
                                                       /\ call'[d].completed = call[d].completed
           /\ \A row \in rows : SaidOfItsTask(row)'
           /\ \A d \in Caller \ {c} : CreationIsTrue(d)' /\ DeletionIsTrue(d)'
<1>1. \A d \in Caller : /\ call'[d] = IF d = c THEN r ELSE call[d]
                        /\ call[d] \in CallRecord
  BY DEF ClientInv, ClientShape
<1>2. \A d \in Caller : call[d].op # "none" => /\ call'[d].op = call[d].op
                                               /\ call'[d].task = call[d].task
                                               /\ call'[d].completed = call[d].completed
  BY <1>1 DEF GoesOn
<1>3. ASSUME NEW row \in rows PROVE SaidOfItsTask(row)'
  <2>1. PICK d \in Caller : /\ call[d].op \in {"write", "create", "update"}
                            /\ call[d].task = row.task /\ call[d].completed = row.completed
    BY DEF ClientInv, TruthInv, SaidOfItsTask
  <2>2. QED
    BY <1>2, <2>1 DEF SaidOfItsTask
<1>4. ASSUME NEW d \in Caller \ {c} PROVE DeletionIsTrue(d)'
  <2> SUFFICES ASSUME call[d].op \in {"delete", "delete_by_id"}, call[d].result, NEW row \in rows'
               PROVE  row.id # call[d].row
    BY <1>1 DEF DeletionIsTrue
  <2>1. \A old \in rows : old.id # call[d].row
    BY DEF ClientInv, TruthInv, DeletionIsTrue
  <2>2. call[d].row <= made /\ call[d].row \in Nat /\ made \in Nat
    BY <1>1 DEF ClientInv, CallsInv, ClientShape, CallRecord
  <2>3. QED
    BY <2>1, <2>2
<1>5. ASSUME NEW d \in Caller \ {c} PROVE CreationIsTrue(d)'
  <2> SUFFICES ASSUME call[d].op \in {"write", "create"}, call[d].result, ~Skipped(d)
               PROVE  (call[d].row # 0 /\ (IsThere(d) \/ IsDeleted(d)))'
    BY <1>1 DEF CreationIsTrue, Skipped
  <2>1. call[d].row # 0 /\ (IsThere(d) \/ IsDeleted(d)) /\ call'[d] = call[d]
    BY <1>1 DEF ClientInv, TruthInv, CreationIsTrue
  <2>2. CASE IsThere(d)
    <3>1. PICK old \in rows : old.id = call[d].row /\ old.task = call[d].task
      BY <2>2 DEF IsThere
    <3>2. CASE \E row \in rows' : row.id = old.id /\ row.task = old.task
      BY <2>1, <3>1, <3>2 DEF IsThere
    <3>3. CASE r.row = old.id /\ (r.op = "delete_by_id" \/ (r.op = "delete" /\ r.task = old.task))
      BY <1>1, <2>1, <3>1, <3>3 DEF IsDeleted
    <3>4. QED
      BY <3>1, <3>2, <3>3
  <2>3. CASE IsDeleted(d)
    <3>1. PICK e \in Caller : /\ call[e].row = call[d].row
                              /\ \/ call[e].op = "delete_by_id"
                                 \/ call[e].op = "delete" /\ call[e].task = call[d].task
      BY <2>3 DEF IsDeleted
    <3>2. call'[e].row = call[e].row
      BY <1>1, <2>1, <3>1 DEF GoesOn
    <3>3. call'[e].op = call[e].op /\ call'[e].task = call[e].task
      BY <1>2, <3>1
    <3>4. QED
      BY <2>1, <3>1, <3>2, <3>3 DEF IsDeleted
  <2>4. QED
    BY <2>1, <2>2, <2>3
<1>6. QED
  BY <1>1, <1>2, <1>3, <1>4, <1>5

(* A call that goes on while the rows stay as they are, and is not told of  *)
(* a row made or deleted.                                                   *)
LEMMA CallGoesOn ==
    ASSUME ClientInv, NEW c \in Caller, NEW r, GoesOn(call[c], r),
           call' = [call EXCEPT ![c] = r], UNCHANGED <<channels, rows, made>>,
           r.op # "delete_by_id" => \A row \in rows : row.id = r.row => row.task = r.task,
           r.result => r.op = "card" \/ (r.op = "write" /\ "bridge" \notin channels)
    PROVE  ClientInv'
<1>1. /\ \A d \in Caller : call'[d] = IF d = c THEN r ELSE call[d]
      /\ \A row \in rows : SaidOfItsTask(row)'
      /\ \A d \in Caller \ {c} : CreationIsTrue(d)' /\ DeletionIsTrue(d)'
  BY OthersStayTrue
<1>2. ClientShape'
  BY DEF ClientInv, ClientShape, GoesOn
<1>3. IdsInv'
  BY DEF ClientInv, IdsInv
<1>4. CallsInv'
  BY <1>1 DEF ClientInv, CallsInv, GoesOn
<1>5. CreationIsTrue(c)' /\ DeletionIsTrue(c)'
  BY <1>1 DEF CreationIsTrue, DeletionIsTrue, Skipped
<1>6. TruthInv'
  BY <1>1, <1>5 DEF TruthInv
<1>7. QED
  BY <1>2, <1>3, <1>4, <1>6 DEF ClientInv

(* A call that ends, or turns to the webhook. *)
LEMMA CallMoves ==
    ASSUME ClientInv, NEW c \in Caller, call[c].phase # "idle",
           NEW phase \in {"returned", "fallback"}, NEW result \in BOOLEAN,
           result => phase = "returned", phase = "fallback" => call[c].op = "card"
    PROVE  LET r == [call[c] EXCEPT !.phase = phase, !.result = result]
           IN  /\ r \in CallRecord /\ r.phase = phase /\ r.result = result
               /\ r.op = call[c].op /\ r.task = call[c].task /\ r.completed = call[c].completed
               /\ r.row = call[c].row
               /\ UNCHANGED made => GoesOn(call[c], r)
               /\ /\ call' = [call EXCEPT ![c] = r] /\ UNCHANGED <<channels, rows, made>>
                  /\ result => call[c].op = "card" \/ (call[c].op = "write" /\ "bridge" \notin channels)
                  => ClientInv'
<1> DEFINE r == [call[c] EXCEPT !.phase = phase, !.result = result]
<1>1. call[c] \in CallRecord /\ call[c].op \in Operation /\ call[c].task \in Task /\ call[c].row <= made
  BY DEF ClientInv, ClientShape, CallsInv
<1>2. /\ r \in CallRecord /\ r.phase = phase /\ r.result = result
      /\ r.op = call[c].op /\ r.task = call[c].task /\ r.completed = call[c].completed
      /\ r.row = call[c].row
  BY <1>1 DEF CallRecord
<1> HIDE DEF r
<1>3. ASSUME made' = made PROVE GoesOn(call[c], r)
  BY <1>1, <1>2, <1>3 DEF GoesOn
<1>4. r.op # "delete_by_id" => \A row \in rows : row.id = r.row => row.task = r.task
  BY <1>2 DEF ClientInv, CallsInv
<1>5. ASSUME call' = [call EXCEPT ![c] = r], UNCHANGED <<channels, rows, made>>,
             result => call[c].op = "card" \/ (call[c].op = "write" /\ "bridge" \notin channels)
      PROVE  ClientInv'
  BY <1>2, <1>3, <1>4, <1>5, CallGoesOn
<1>6. QED
  BY <1>2, <1>3, <1>5 DEF r

(* Every action of the client of Feishu's API keeps its invariant. *)
LEMMA ClientStep == ClientInv /\ ClientNext => ClientInv'
<1> SUFFICES ASSUME ClientInv, ClientNext PROVE ClientInv'
  OBVIOUS
<1>0. /\ made \in Nat /\ call \in [Caller -> CallRecord] /\ CallsInv
      /\ \A c \in Caller : call[c] \in CallRecord
  BY DEF ClientInv, ClientShape
<1>1. CASE ClientTokenExpires
  BY <1>1 DEF ClientTokenExpires, ClientInv, ClientShape, IdsInv, CallsInv, TruthInv, SaidOfItsTask,
              CreationIsTrue, DeletionIsTrue, Skipped, IsThere, IsDeleted
<1>2. ASSUME NEW c \in Caller, NEW op \in Operation, NEW task \in Task, NEW completed \in BOOLEAN,
             Begin(c, op, task, completed)
      PROVE  ClientInv'
  <2> DEFINE r == [call[c] EXCEPT !.op = op, !.task = task, !.completed = completed, !.phase = "begun"]
  <2>1. /\ call[c] \in CallRecord /\ call[c].phase = "idle" /\ call[c].op = "none" /\ call[c].row = 0
        /\ ~call[c].result
    BY <1>0, <1>2 DEF Begin, CallsInv
  <2>2. /\ r \in CallRecord /\ r.op = op /\ r.task = task /\ r.completed = completed
        /\ r.phase = "begun" /\ r.row = 0 /\ ~r.result
    BY <2>1 DEF CallRecord
  <2>3. call' = [call EXCEPT ![c] = r] /\ UNCHANGED <<channels, rows, made>>
    BY <1>2 DEF Begin
  <2> HIDE DEF r
  <2>4. GoesOn(call[c], r)
    BY <1>0, <2>1, <2>2, <2>3 DEF GoesOn
  <2>5. \A row \in rows : row.id # 0
    BY DEF ClientInv, IdsInv
  <2>6. QED
    BY <2>2, <2>3, <2>4, <2>5, CallGoesOn
<1>a. ASSUME NEW c \in Caller, SkipRecord(c) PROVE ClientInv'
  <2>1. /\ call[c].phase # "idle" /\ call[c].op = "write" /\ "bridge" \notin channels
        /\ call' = [call EXCEPT ![c] = [call[c] EXCEPT !.phase = "returned", !.result = TRUE]]
        /\ UNCHANGED <<channels, rows, made>>
    BY <1>a DEF SkipRecord, Return
  <2>2. QED
    BY <2>1, CallMoves
<1>3. ASSUME NEW c \in Caller, CreateRecord(c) PROVE ClientInv'
  <2>1. /\ call[c].phase = "begun" /\ call[c].op \in {"write", "create"} /\ call[c].row = 0
        /\ call[c] \in CallRecord /\ call[c].task \in Task /\ UNCHANGED channels
    BY <1>0, <1>3 DEF CreateRecord, CallsInv
  <2>2. CASE NoToken(c) /\ UNCHANGED <<rows, made>>
    <3>1. call' = [call EXCEPT ![c] = [call[c] EXCEPT !.phase = "returned", !.result = FALSE]]
      BY <2>2 DEF NoToken, Return
    <3>2. QED
      BY <2>1, <2>2, <3>1, CallMoves
  <2>3. ASSUME NEW served \in BOOLEAN, NEW answer \in BOOLEAN, answer \in Answers(served),
               LET row == [id |-> made + 1, task |-> call[c].task, completed |-> call[c].completed]
               IN  /\ rows' = IF served THEN rows \cup {row} ELSE rows
                   /\ made' = IF served THEN made + 1 ELSE made
                   /\ call' = [call EXCEPT ![c] = [@ EXCEPT !.phase = "returned", !.result = answer,
                                                   !.row = IF answer THEN row.id ELSE 0]]
        PROVE  ClientInv'
    <3>a. PICK new : new = IF answer THEN made + 1 ELSE 0
      OBVIOUS
    <3>b. PICK row : row = [id |-> made + 1, task |-> call[c].task, completed |-> call[c].completed]
      OBVIOUS
    <3>c. new \in Nat /\ new <= made + 1
      BY <1>0, <3>a
    <3> DEFINE r == [call[c] EXCEPT !.phase = "returned", !.result = answer, !.row = new]
    <3>1. /\ call' = [call EXCEPT ![c] = r]
          /\ rows' = IF served THEN rows \cup {row} ELSE rows
          /\ made' = IF served THEN made + 1 ELSE made
          /\ answer => served
      BY <2>3, <3>a, <3>b DEF Answers
    <3>2. /\ r \in CallRecord /\ r.phase = "returned" /\ r.op = call[c].op /\ r.task = call[c].task
          /\ r.completed = call[c].completed /\ r.row = new /\ r.result = answer
      BY <2>1, <3>c DEF CallRecord
    <3>3. row.id = made + 1 /\ row.task = call[c].task /\ row.completed = call[c].completed
          /\ row \in RowRecord
      BY <1>0, <2>1, <3>b DEF RowRecord, CallRecord
    <3> HIDE DEF r
    <3>4. GoesOn(call[c], r)
      BY <1>0, <2>1, <3>a, <3>c, <3>1, <3>2 DEF GoesOn, Operation
    <3>5. \A old \in rows : old.id \in 1..made
      BY DEF ClientInv, IdsInv
    <3>6. CASE ~served
      <4>1. ~answer /\ UNCHANGED <<channels, rows, made>> /\ \A old \in rows : old.id # r.row
        BY <1>0, <2>1, <3>a, <3>1, <3>2, <3>5, <3>6
      <4>2. QED
        BY <3>1, <3>2, <3>4, <4>1, CallGoesOn
    <3>7. CASE served
      <4>1. rows' = rows \cup {row} /\ made' = made + 1
        BY <3>1, <3>7
      <4>2. /\ \A d \in Caller : call'[d] = IF d = c THEN r ELSE call[d]
            /\ \A old \in rows : SaidOfItsTask(old)'
            /\ \A d \in Caller \ {c} : CreationIsTrue(d)' /\ DeletionIsTrue(d)'
        <5>1. \A any \in rows' : \/ \E old \in rows : old.id = any.id /\ old.task = any.task
                                \/ any.id > made
          BY <1>0, <3>3, <4>1
        <5>2. \A old \in rows : \E any \in rows' : any.id = old.id /\ any.task = old.task
          BY <4>1
        <5>3. QED
          BY <2>1, <3>1, <3>4, <5>1, <5>2, OthersStayTrue
      <4>3. ClientShape'
        BY <1>0, <3>1, <3>2, <3>3, <4>1 DEF ClientInv, ClientShape
      <4>4. IdsInv'
        BY <1>0, <3>3, <3>5, <4>1 DEF ClientInv, IdsInv
      <4>5. CallsInv'
        <5> SUFFICES ASSUME NEW d \in Caller PROVE CallsInv!(d)'
          BY DEF CallsInv
        <5>1. CASE d = c
          <6>1. \A old \in rows' : old.id = r.row => old.task = r.task
            BY <1>0, <3>a, <3>2, <3>3, <3>5, <4>1
          <6>2. QED
            BY <1>0, <2>1, <3>c, <3>2, <3>7, <4>1, <4>2, <5>1, <6>1 DEF Operation
        <5>2. CASE d # c
          <6>1. call'[d] = call[d] /\ call[d].row <= made /\ call[d].row \in Nat
            BY <1>0, <4>2, <5>2 DEF CallsInv, CallRecord
          <6>2. \A old \in rows' : old.id = call[d].row => old \in rows
            BY <1>0, <3>3, <4>1, <6>1
          <6>3. QED
            BY <1>0, <4>1, <6>1, <6>2 DEF CallsInv
        <5>3. QED
          BY <5>1, <5>2
      <4>6. SaidOfItsTask(row)'
        BY <2>1, <3>2, <3>3, <4>2 DEF SaidOfItsTask
      <4>7. CreationIsTrue(c)' /\ DeletionIsTrue(c)'
        <5>1. answer => r.row = row.id /\ r.row # 0
          BY <1>0, <3>a, <3>2, <3>3
        <5>2. QED
          BY <2>1, <3>2, <3>3, <4>1, <4>2, <5>1 DEF CreationIsTrue, DeletionIsTrue, IsThere
      <4>8. TruthInv'
        BY <4>1, <4>2, <4>6, <4>7 DEF TruthInv
      <4>9. QED
        BY <4>3, <4>4, <4>5, <4>8 DEF ClientInv
    <3>8. QED
      BY <3>6, <3>7
  <2>4. QED
    BY <1>3, <2>2, <2>3 DEF CreateRecord
<1>4. ASSUME NEW c \in Caller, FindRecord(c) PROVE ClientInv'
  <2>1. /\ call[c].phase = "begun" /\ call[c].op \in {"update", "delete"} /\ call[c].row = 0
        /\ call[c] \in CallRecord /\ call[c].task \in Task /\ ~call[c].result
        /\ UNCHANGED <<channels, rows, made>>
    BY <1>0, <1>4 DEF FindRecord, CallsInv
  <2>2. CASE Return(c, FALSE)
    <3>1. call' = [call EXCEPT ![c] = [call[c] EXCEPT !.phase = "returned", !.result = FALSE]]
      BY <2>2 DEF Return
    <3>2. QED
      BY <2>1, <3>1, CallMoves
  <2>3. ASSUME NEW row \in rows, row.task = call[c].task,
               call' = [call EXCEPT ![c].phase = "found", ![c].row = row.id]
        PROVE  ClientInv'
    <3> DEFINE r == [call[c] EXCEPT !.phase = "found", !.row = row.id]
    <3>1. row.id \in 1..made /\ \A old \in rows : old.id = row.id => old.task = row.task
      BY DEF ClientInv, IdsInv
    <3>a. row.id \in Nat /\ row.id <= made
      BY <1>0, <3>1
    <3>2. /\ r \in CallRecord /\ r.phase = "found" /\ r.op = call[c].op /\ r.task = call[c].task
          /\ r.completed = call[c].completed /\ r.row = row.id /\ ~r.result
      BY <2>1, <3>a DEF CallRecord
    <3>3. call' = [call EXCEPT ![c] = r]
      BY <2>3
    <3> HIDE DEF r
    <3>4. GoesOn(call[c], r)
      BY <2>1, <3>a, <3>2 DEF GoesOn, Operation
    <3>5. QED
      BY <2>1, <2>3, <3>1, <3>2, <3>3, <3>4, CallGoesOn
  <2>4. QED
    BY <1>4, <2>2, <2>3 DEF FindRecord
<1>5. ASSUME NEW c \in Caller, GivenRecord(c) PROVE ClientInv'
  <2>1. /\ call[c].phase = "begun" /\ call[c].op = "delete_by_id" /\ call[c].row = 0
        /\ call[c] \in CallRecord /\ call[c].task \in Task /\ ~call[c].result
        /\ UNCHANGED <<channels, rows, made>>
    BY <1>0, <1>5 DEF GivenRecord, CallsInv
  <2>2. PICK row \in rows : call' = [call EXCEPT ![c].phase = "found", ![c].row = row.id]
    BY <1>5 DEF GivenRecord
  <2> DEFINE r == [call[c] EXCEPT !.phase = "found", !.row = row.id]
  <2>3. row.id \in 1..made
    BY DEF ClientInv, IdsInv
  <2>a. row.id \in Nat /\ row.id <= made
    BY <1>0, <2>3
  <2>4. /\ r \in CallRecord /\ r.phase = "found" /\ r.op = call[c].op /\ r.task = call[c].task
        /\ r.completed = call[c].completed /\ r.row = row.id /\ ~r.result
    BY <2>1, <2>a DEF CallRecord
  <2>5. call' = [call EXCEPT ![c] = r]
    BY <2>2
  <2> HIDE DEF r
  <2>6. GoesOn(call[c], r)
    BY <2>1, <2>a, <2>4 DEF GoesOn, Operation
  <2>7. QED
    BY <2>1, <2>4, <2>5, <2>6, CallGoesOn
<1>6. ASSUME NEW c \in Caller, ChangeRecord(c) PROVE ClientInv'
  <2>1. call[c].phase = "found" /\ call[c].op \in {"update", "delete", "delete_by_id"}
        /\ UNCHANGED <<channels, made>>
    BY <1>0, <1>6 DEF ChangeRecord, CallsInv
  <2>2. ASSUME Return(c, FALSE), UNCHANGED rows PROVE ClientInv'
    <3>1. call' = [call EXCEPT ![c] = [call[c] EXCEPT !.phase = "returned", !.result = FALSE]]
      BY <2>2 DEF Return
    <3>2. QED
      BY <2>1, <2>2, <3>1, CallMoves
  <2>3. ASSUME NEW answer \in BOOLEAN, Return(c, answer),
               rows' = IF call[c].op = "update"
                       THEN (rows \ Target(c)) \cup
                            {[row EXCEPT !.completed = call[c].completed] : row \in Target(c)}
                       ELSE rows \ Target(c)
        PROVE  ClientInv'
    <3> DEFINE r == [call[c] EXCEPT !.phase = "returned", !.result = answer]
    <3>1. call' = [call EXCEPT ![c] = r]
      BY <2>3 DEF Return
    <3>2. /\ r \in CallRecord /\ r.phase = "returned" /\ r.op = call[c].op /\ r.task = call[c].task
          /\ r.completed = call[c].completed /\ r.row = call[c].row
          /\ UNCHANGED made => GoesOn(call[c], r)
      BY <2>1, <2>3, CallMoves
    <3>3. Target(c) = {row \in rows : row.id = call[c].row}
      BY DEF Target
    <3> HIDE DEF r
    <3>5. \A row \in rows : row.id = call[c].row /\ call[c].op \in {"update", "delete"} => row.task = call[c].task
      BY <1>0 DEF CallsInv
    <3>6. \A row \in rows : [row EXCEPT !.completed = call[c].completed] \in RowRecord
              /\ [row EXCEPT !.completed = call[c].completed].id = row.id
              /\ [row EXCEPT !.completed = call[c].completed].task = row.task
              /\ [row EXCEPT !.completed = call[c].completed].completed = call[c].completed
      BY <1>0 DEF ClientInv, ClientShape, RowRecord, CallRecord
    (* Every row there is now was there before, but for its completion ...  *)
    <3>7. \A row \in rows' : /\ row \in RowRecord
                             /\ \E old \in rows : old.id = row.id /\ old.task = row.task
                             /\ \/ row \in rows
                                \/ /\ call[c].op = "update" /\ row.task = call[c].task
                                   /\ row.completed = call[c].completed
      <4> SUFFICES ASSUME NEW row \in rows', row \notin rows
                   PROVE  /\ row \in RowRecord
                          /\ \E old \in rows : old.id = row.id /\ old.task = row.task
                          /\ call[c].op = "update" /\ row.task = call[c].task
                          /\ row.completed = call[c].completed
        BY <2>3 DEF ClientInv, ClientShape
      <4>1. /\ call[c].op = "update"
            /\ \E old \in Target(c) : row = [old EXCEPT !.completed = call[c].completed]
        BY <2>3
      <4>2. QED
        BY <3>3, <3>5, <3>6, <4>1
    (* ... and every row that was there is, or was deleted.                 *)
    <3>8. \A old \in rows : \/ \E row \in rows' : row.id = old.id /\ row.task = old.task
                            \/ /\ r.row = old.id
                               /\ r.op = "delete_by_id" \/ (r.op = "delete" /\ r.task = old.task)
      <4> SUFFICES ASSUME NEW old \in rows, old \in Target(c)
                   PROVE  \/ \E row \in rows' : row.id = old.id /\ row.task = old.task
                          \/ /\ r.row = old.id
                             /\ r.op = "delete_by_id" \/ (r.op = "delete" /\ r.task = old.task)
        BY <2>3
      <4>1. CASE call[c].op = "update"
        <5>1. [old EXCEPT !.completed = call[c].completed] \in rows'
          BY <2>3, <4>1
        <5>2. QED
          BY <3>6, <5>1
      <4>2. CASE call[c].op # "update"
        BY <2>1, <3>2, <3>3, <3>5, <4>2
      <4>3. QED
        BY <4>1, <4>2
    <3>9. /\ \A d \in Caller : call'[d] = IF d = c THEN r ELSE call[d]
          /\ \A row \in rows : SaidOfItsTask(row)'
          /\ \A d \in Caller \ {c} : CreationIsTrue(d)' /\ DeletionIsTrue(d)'
      BY <2>1, <3>1, <3>2, <3>7, <3>8, OthersStayTrue
    <3>10. ClientShape'
      BY <1>0, <2>1, <3>1, <3>2, <3>7 DEF ClientInv, ClientShape
    <3>11. IdsInv'
      BY <2>1, <3>7 DEF ClientInv, IdsInv
    <3>12. CallsInv'
      BY <1>0, <2>1, <3>2, <3>7, <3>9 DEF CallsInv
    <3>13. ASSUME NEW row \in rows' PROVE SaidOfItsTask(row)'
      <4>1. CASE row \in rows
        BY <3>9, <4>1
      <4>2. CASE row \notin rows
        BY <3>2, <3>7, <3>9, <4>2 DEF SaidOfItsTask
      <4>3. QED
        BY <4>1, <4>2
    <3>14. CreationIsTrue(c)'
      BY <2>1, <3>2, <3>9 DEF CreationIsTrue
    <3>15. DeletionIsTrue(c)'
      <4> SUFFICES ASSUME call[c].op # "update", NEW row \in rows' PROVE row.id # call[c].row
        BY <3>2, <3>9 DEF DeletionIsTrue
      <4>1. row \in rows /\ row \notin Target(c)
        BY <2>3
      <4>2. QED
        BY <3>3, <4>1
    <3>16. TruthInv'
      BY <3>9, <3>13, <3>14, <3>15 DEF TruthInv
    <3>17. QED
      BY <3>10, <3>11, <3>12, <3>16 DEF ClientInv
  <2>4. QED
    BY <1>6, <2>2, <2>3 DEF ChangeRecord, NoToken, Answers
<1>7. ASSUME NEW c \in Caller, SendCard(c) \/ SendWebhookCard(c) PROVE ClientInv'
  <2>1. call[c].phase # "idle" /\ UNCHANGED <<channels, rows, made>>
    BY <1>7 DEF SendCard, SendWebhookCard
  <2>a. call[c].op = "card"
    BY <1>0, <1>7 DEF SendCard, SendWebhookCard, CallsInv
  <2>2. ASSUME NEW result \in BOOLEAN, Return(c, result) PROVE ClientInv'
    <3>1. call' = [call EXCEPT ![c] = [call[c] EXCEPT !.phase = "returned", !.result = result]]
      BY <2>2 DEF Return
    <3>2. QED
      BY <2>1, <2>a, <3>1, CallMoves
  <2>3. ASSUME call' = [call EXCEPT ![c].phase = "fallback"] PROVE ClientInv'
    <3>1. call[c].result = FALSE
      BY <1>0, <1>7 DEF CallRecord, CallsInv, SendCard, SendWebhookCard
    <3>2. call' = [call EXCEPT ![c] = [call[c] EXCEPT !.phase = "fallback", !.result = FALSE]]
      BY <1>0, <2>3, <3>1 DEF CallRecord
    <3>3. QED
      BY <2>1, <2>a, <3>1, <3>2, CallMoves
  <2>4. QED
    BY <1>7, <2>2, <2>3 DEF SendCard, SendPrivateMessage, SendWebhookCard
<1>8. QED
  BY <1>1, <1>2, <1>a, <1>3, <1>4, <1>5, <1>6, <1>7 DEF ClientNext

-----------------------------------------------------------------------------
(* The filter. *)

Shorter(m, n) == IF m <= n THEN m ELSE n

FilterShape == history \in Seq(Entry) /\ looks \in Seq(Entry)

(* The history is the end of looks. *)
HistoryIsTheEnd ==
    /\ Len(history) = Shorter(Len(looks), MaxHistory)
    /\ \A i \in 1..Len(history) : history[i] = looks[Len(looks) - Len(history) + i]

FilterInv == FilterShape /\ HistoryIsTheEnd /\ SecondLookForAReason

(* The history and the log of texts are empty at first. *)
LEMMA FilterInitOK == AnalysisInit => FilterInv
  BY AnalysisAssumption
     DEF AnalysisInit, FilterInv, FilterShape, HistoryIsTheEnd, Shorter, SecondLookForAReason

(* A new entry goes to the end of both, and the oldest of a full history    *)
(* leaves it.                                                               *)
LEMMA RecordedOK ==
    ASSUME FilterInv, NEW r \in Request, NEW text \in Text, NEW vector \in BOOLEAN,
           Recorded(r, text, vector)
    PROVE  FilterInv'
<1> DEFINE entry == [id |-> r, text |-> text, vector |-> vector]
<1>1. entry \in Entry /\ entry.text = text /\ entry.vector = vector
  BY DEF Entry
<1>2. /\ history' = IF Len(history) < MaxHistory THEN Append(history, entry) ELSE Append(Tail(history), entry)
      /\ looks' = Append(looks, entry) /\ ~Found(history, text, vector)
  BY DEF Recorded, Appended
<1> HIDE DEF entry
<1>3. /\ history \in Seq(Entry) /\ looks \in Seq(Entry)
      /\ Len(history) = Shorter(Len(looks), MaxHistory) /\ MaxHistory \in Nat \ {0}
      /\ Len(history) \in Nat /\ Len(looks) \in Nat /\ Len(history) <= Len(looks)
  BY AnalysisAssumption DEF FilterInv, FilterShape, HistoryIsTheEnd, Shorter
<1>4. /\ looks' \in Seq(Entry) /\ Len(looks') = Len(looks) + 1 /\ looks'[Len(looks) + 1] = entry
      /\ \A i \in 1..Len(looks) : looks'[i] = looks[i]
  BY <1>1, <1>2, <1>3
<1>5. FilterShape' /\ HistoryIsTheEnd'
  <2>1. CASE Len(history) < MaxHistory
    <3>1. /\ history' \in Seq(Entry) /\ Len(history') = Len(history) + 1
          /\ history'[Len(history) + 1] = entry
          /\ \A i \in 1..Len(history) : history'[i] = history[i]
      BY <1>1, <1>2, <1>3, <2>1
    <3>2. Len(history) = Len(looks)
      BY <1>3, <2>1 DEF Shorter
    <3>3. ASSUME NEW i \in 1..Len(history)
          PROVE  history[i] = looks[i] /\ i \in 1..Len(looks)
      <4>1. Len(looks) - Len(history) + i = i
        BY <1>3, <3>2
      <4>2. QED
        BY <3>2, <4>1 DEF FilterInv, HistoryIsTheEnd
    <3>4. ASSUME NEW i \in 1..Len(history')
          PROVE  history'[i] = looks'[Len(looks') - Len(history') + i]
      <4>1. Len(looks') - Len(history') + i = i
        BY <1>3, <1>4, <3>1, <3>2
      <4>2. CASE i = Len(history) + 1
        BY <1>4, <3>1, <3>2, <4>1, <4>2
      <4>3. CASE i # Len(history) + 1
        <5>1. i \in 1..Len(history)
          BY <1>3, <3>1, <4>3
        <5>2. QED
          BY <1>4, <3>1, <3>3, <4>1, <5>1
      <4>4. QED
        BY <4>2, <4>3
    <3>5. Len(history') = Shorter(Len(looks'), MaxHistory)
      BY <1>3, <1>4, <2>1, <3>1, <3>2 DEF Shorter
    <3>6. QED
      BY <1>4, <3>1, <3>4, <3>5 DEF FilterShape, HistoryIsTheEnd
  <2>2. CASE ~(Len(history) < MaxHistory)
    <3>1. Len(history) = MaxHistory /\ MaxHistory <= Len(looks)
      BY <1>3, <2>2 DEF Shorter
    <3>2. /\ history' \in Seq(Entry) /\ Len(history') = Len(history)
          /\ history'[Len(history)] = entry
          /\ \A i \in 1..(Len(history) - 1) : history'[i] = history[i + 1]
      BY <1>1, <1>2, <1>3, <2>2, <3>1
    <3>3. \A i \in 1..Len(history) : history[i] = looks[Len(looks) - Len(history) + i]
      BY DEF FilterInv, HistoryIsTheEnd
    <3>4. ASSUME NEW i \in 1..Len(history')
          PROVE  history'[i] = looks'[Len(looks') - Len(history') + i]
      <4>1. CASE i = Len(history)
        BY <1>3, <1>4, <3>2, <4>1
      <4>2. CASE i # Len(history)
        <5>1. i \in 1..(Len(history) - 1) /\ i + 1 \in 1..Len(history)
          BY <1>3, <3>2, <4>2
        <5>2. history'[i] = looks[Len(looks) - Len(history) + (i + 1)]
          BY <3>2, <3>3, <5>1
        <5>3. Len(looks') - Len(history') + i = Len(looks) - Len(history) + (i + 1)
          BY <1>3, <1>4, <3>2, <5>1
        <5>4. Len(looks) - Len(history) + (i + 1) \in 1..Len(looks)
          <6>1. i \in Nat /\ 1 <= i /\ i + 1 <= Len(history)
            BY <1>3, <5>1
          <6>2. QED
            BY <1>3, <6>1
        <5>5. QED
          BY <1>4, <5>2, <5>3, <5>4
      <4>3. QED
        BY <4>1, <4>2
    <3>5. QED
      BY <1>3, <1>4, <3>1, <3>2, <3>4 DEF FilterShape, HistoryIsTheEnd, Shorter
  <2>3. QED
    BY <2>1, <2>2
<1>6. ASSUME NEW i \in 1..Len(looks), Len(looks) + 1 - i <= MaxHistory, <<looks[i].text, text>> \in Similar
      PROVE  (~looks[i].vector /\ vector) \/ (~vector /\ looks[i].text # text)
  <2>1. i - (Len(looks) - Len(history)) \in 1..Len(history)
    BY <1>3, <1>6 DEF Shorter
  <2>2. history[i - (Len(looks) - Len(history))] = looks[i]
    BY <1>3, <2>1 DEF FilterInv, HistoryIsTheEnd
  <2>3. ~Resembles(looks[i], text, vector)
    BY <1>2, <2>1, <2>2 DEF Found
  <2>4. <<text, looks[i].text>> \in Similar
    BY <1>6, AnalysisAssumption
  <2>5. looks[i] \in Entry
    BY <1>3
  <2>6. looks[i].vector \in BOOLEAN
    BY <2>5 DEF Entry
  <2>7. QED
    BY <2>3, <2>4, <2>6 DEF Resembles
<1>7. SecondLookForAReason'
  <2> SUFFICES ASSUME NEW i \in 1..Len(looks'), NEW j \in 1..Len(looks'), i < j,
                      <<looks'[i].text, looks'[j].text>> \in Similar
               PROVE  \/ j - i > MaxHistory
                      \/ ~looks'[i].vector /\ looks'[j].vector
                      \/ ~looks'[j].vector /\ looks'[i].text # looks'[j].text
    BY DEF SecondLookForAReason
  <2>1. i \in 1..Len(looks) /\ looks'[i] = looks[i]
    BY <1>3, <1>4
  <2>2. CASE j = Len(looks) + 1
    <3>1. looks'[j].text = text /\ looks'[j].vector = vector
      BY <1>1, <1>4, <2>2
    <3>2. QED
      BY <1>3, <1>6, <2>1, <2>2, <3>1
  <2>3. CASE j # Len(looks) + 1
    <3>1. j \in 1..Len(looks)
      <4>1. Len(looks') = Len(looks) + 1
        BY <1>4
      <4>2. j \in 1..(Len(looks) + 1) /\ Len(looks) \in Nat
        BY <1>3, <4>1
      <4>3. QED
        BY <2>3, <4>2
    <3>2. looks'[j] = looks[j]
      BY <1>4, <3>1
    <3>3. QED
      BY <2>1, <3>1, <3>2 DEF FilterInv, SecondLookForAReason
  <2>4. QED
    BY <2>2, <2>3
<1>8. QED
  BY <1>5, <1>7 DEF FilterInv

(* Every action of the filter and analysis keeps its invariant. *)
LEMMA FilterStep == FilterInv /\ AnalysisNext => FilterInv'
<1> SUFFICES ASSUME FilterInv, AnalysisNext PROVE FilterInv'
  OBVIOUS
<1>1. ASSUME UNCHANGED <<history, looks>> PROVE FilterInv'
  BY <1>1 DEF FilterInv, FilterShape, HistoryIsTheEnd, SecondLookForAReason
<1>2. ASSUME NEW r \in Request, NEW text \in Text, Analyze(r, text) PROVE FilterInv'
  <2>1. PICK vector \in BOOLEAN :
            Duplicate(r, text, vector) \/ Classified(r, text, vector) \/ LoadFails(r, text, vector)
    BY <1>2 DEF Analyze
  <2>2. CASE Duplicate(r, text, vector)
    BY <1>1, <2>2 DEF Duplicate
  <2>3. CASE Classified(r, text, vector) \/ LoadFails(r, text, vector)
    BY <2>3, RecordedOK DEF Classified, LoadFails
  <2>4. QED
    BY <2>1, <2>2, <2>3
<1>3. ASSUME NEW r \in Request, PostResult(r) \/ AnalyzeAsyncEnds(r) PROVE FilterInv'
  BY <1>1, <1>3 DEF PostResult, AnalyzeAsyncEnds, filterVars
<1>4. CASE ClearHistory
  <2>1. history' = <<>> /\ looks' = <<>>
    BY <1>4 DEF ClearHistory
  <2>2. QED
    BY <2>1, AnalysisAssumption DEF FilterInv, FilterShape, HistoryIsTheEnd, Shorter, SecondLookForAReason
<1>5. QED
  BY <1>2, <1>3, <1>4 DEF AnalysisNext

-----------------------------------------------------------------------------
(* Together. *)

IInv == FilterInv /\ ChannelInv /\ BotInv /\ ClientInv

(* The four parts of the invariant hold throughout. *)
THEOREM InvariantHolds == Spec => []IInv
<1>1. Init => IInv
  BY FilterInitOK, ChannelInitOK, BotInitOK, ClientInitOK DEF Init, IInv
<1>2. IInv /\ [Next]_vars => IInv'
  <2> SUFFICES ASSUME IInv, [Next]_vars PROVE IInv'
    OBVIOUS
  <2>1. UNCHANGED analysisVars => FilterInv'
    BY DEF IInv, FilterInv, FilterShape, HistoryIsTheEnd, SecondLookForAReason, analysisVars, filterVars
  <2>2. UNCHANGED channelVars => ChannelInv'
    BY DEF IInv, ChannelInv, ChannelShape, ConnectedIsAlive, channelVars
  <2>3. UNCHANGED botVars => BotInv'
    BY DEF IInv, BotInv, BotShape, BindingsSurvive, Agrees, Saved, botVars
  <2>4. UNCHANGED clientVars => ClientInv'
    BY DEF IInv, ClientInv, ClientShape, IdsInv, CallsInv, TruthInv, SaidOfItsTask, CreationIsTrue,
           DeletionIsTrue, Skipped, IsThere, IsDeleted, clientVars
  <2>5. CASE UNCHANGED vars
    BY <2>1, <2>2, <2>3, <2>4, <2>5 DEF IInv, vars
  <2>6. CASE Next
    BY <2>1, <2>2, <2>3, <2>4, <2>6, FilterStep, ChannelStep, BotStep, ClientStep DEF IInv, Next
  <2>7. QED
    BY <2>5, <2>6
<1>3. QED
  BY <1>1, <1>2, PTL DEF Spec

(* For any texts and any similarity that is reflexive and symmetric, two    *)
(* texts that resemble each other both pass the duplicate filter only for   *)
(* the reasons named (filter/__init__.py:284-332).                          *)
THEOREM SecondLooksExplained == Spec => []SecondLookForAReason
  BY InvariantHolds, PTL DEF IInv, FilterInv

(* A client that says it is connected has a thread that has not ended, over *)
(* any number of starts, stops and failures (ws_client.py:165-204).         *)
THEOREM ConnectedClientsLive == Spec => []ConnectedIsAlive
  BY InvariantHolds, PTL DEF IInv, ChannelInv

(* The bindings in memory are those users were told of, over any number of  *)
(* crashes, unless the bot started from a file whose last save did not      *)
(* succeed (feishu_bot/__init__.py:72-108).                                 *)
THEOREM BindingsAreKept == Spec => []BindingsSurvive
  BY InvariantHolds, PTL DEF IInv, BotInv

(* Rows say what was said of their own task; a row that was reported made   *)
(* by more than the bridge's test mode goes only by a deletion that found   *)
(* it, and goes if its deletion was reported, for any callers               *)
(* (feishu_bridge.py:46-53, client.py:80-241).                              *)
THEOREM RowsAreTrue == Spec => []RowsTellTheTruth
  BY InvariantHolds, TruthIsTold, PTL DEF IInv, ClientInv
-----------------------------------------------------------------------------
(* The remaining variables: their types, and the bounds of what is counted. *)

(* Handlers still to run for a click.                                       *)
Pending(k, h) == {task \in tasks : task.click = k /\ task.handler = h}

(* A handler runs at most once for each delivery of a click, over any       *)
(* number of starts: what is scheduled either runs or is lost with its      *)
(* loop, and never runs twice.                                              *)
RunsWithinDeliveries ==
    \A k \in ClickId, h \in Handler :
        ran[k][h] + Cardinality(Pending(k, h)) <= click[k].delivered

ClickRecord == [phase : {"none", "pressed", "acknowledged"}, delivered : 0..MaxDeliveries]
TaskRecord ==
    [click : ClickId, handler : Handler, thread : 1..MaxStarts, delivery : 1..MaxDeliveries]

ClicksInv ==
    /\ owner \in {"gateway", "bridge", "async"} /\ Len(thread) <= MaxStarts
    /\ click \in [ClickId -> ClickRecord] /\ tasks \subseteq TaskRecord
    /\ ran \in [ClickId -> [Handler -> Nat]]
    /\ \A k \in ClickId, h \in Handler : IsFiniteSet(Pending(k, h))
    /\ RunsWithinDeliveries

(* Nothing was clicked and nothing ran at first. *)
LEMMA ClicksInitOK == ChannelInit => ClicksInv
<1> SUFFICES ASSUME ChannelInit PROVE ClicksInv
  OBVIOUS
<1>1. /\ thread = <<>> /\ tasks = {} /\ owner \in {"gateway", "bridge", "async"}
      /\ click = [k \in ClickId |-> [phase |-> "none", delivered |-> 0]]
      /\ ran = [k \in ClickId |-> [h \in Handler |-> 0]]
  BY DEF ChannelInit
<1>2. \A k, h : Pending(k, h) = {}
  BY <1>1 DEF Pending
<1>3. Len(thread) <= MaxStarts /\ click \in [ClickId -> ClickRecord]
  BY <1>1, ChannelAssumption DEF ClickRecord
<1>4. ASSUME NEW k \in ClickId, NEW h \in Handler
      PROVE  /\ IsFiniteSet(Pending(k, h))
             /\ ran[k][h] + Cardinality(Pending(k, h)) <= click[k].delivered
  <2>1. ran[k][h] = 0 /\ click[k].delivered = 0
    BY <1>1
  <2>2. IsFiniteSet(Pending(k, h)) /\ Cardinality(Pending(k, h)) = 0
    BY <1>2, FS_EmptySet
  <2>3. QED
    BY <2>1, <2>2
<1>5. ran \in [ClickId -> [Handler -> Nat]]
  BY <1>1
<1>6. QED
  BY <1>1, <1>3, <1>4, <1>5 DEF ClicksInv, RunsWithinDeliveries

(* What changes neither clicks nor tasks. *)
LEMMA ClicksKept ==
    ASSUME ClicksInv, UNCHANGED <<owner, click, tasks, ran>>, Len(thread') <= MaxStarts
    PROVE  ClicksInv'
  BY DEF ClicksInv, RunsWithinDeliveries, Pending

(* A click that is delivered once more gives each handler one more task. *)
LEMMA DeliverOK ==
    ASSUME ClicksInv, ChannelInv, NEW k \in ClickId, NEW n \in DOMAIN thread, Deliver(k, n)
    PROVE  ClicksInv'
<1> DEFINE d == click[k].delivered + 1
           new(h) == [click |-> k, handler |-> h, thread |-> n, delivery |-> d]
           handlers == client[thread[n].client].handlers
<1>1. PICK phase \in {"acknowledged", "pressed"} :
          click' = [click EXCEPT ![k] = [phase |-> phase, delivered |-> click[k].delivered + 1]]
  BY DEF Deliver
<1>2. /\ tasks' = tasks \cup Scheduled(k, n) /\ click[k].delivered < MaxDeliveries
      /\ UNCHANGED <<owner, ran, thread>>
  BY DEF Deliver
<1>3. /\ click[k] \in ClickRecord /\ click[k].delivered \in Nat /\ MaxDeliveries \in Nat
      /\ d \in 1..MaxDeliveries
  BY <1>2, ChannelAssumption DEF ClicksInv, ClickRecord
<1>4. n \in 1..MaxStarts
  BY ChannelAssumption DEF ClicksInv, ChannelInv, ChannelShape
<1>5. Range(handlers) \subseteq Handler
  <2>1. thread[n] \in ThreadRecord
    BY DEF ChannelInv, ChannelShape
  <2>2. handlers \in Seq(Handler)
    BY <2>1 DEF ChannelInv, ChannelShape, ThreadRecord, ClientRecord
  <2>3. QED
    BY <2>2 DEF Range
<1>6. Scheduled(k, n) = {new(h) : h \in Range(handlers)}
  BY DEF Scheduled
<1> HIDE DEF d, handlers
<1>7. tasks' \subseteq TaskRecord
  BY <1>2, <1>3, <1>4, <1>5, <1>6 DEF ClicksInv, TaskRecord
<1>8. click' \in [ClickId -> ClickRecord]
  BY <1>1, <1>3 DEF ClicksInv, ClickRecord, d
<1>9. ASSUME NEW l \in ClickId, NEW h \in Handler
      PROVE  /\ IsFiniteSet(Pending(l, h)')
             /\ ran'[l][h] + Cardinality(Pending(l, h)') <= click'[l].delivered
  <2>1. /\ IsFiniteSet(Pending(l, h)) /\ ran[l][h] \in Nat /\ click[l].delivered \in Nat
        /\ ran[l][h] + Cardinality(Pending(l, h)) <= click[l].delivered
        /\ Cardinality(Pending(l, h)) \in Nat
    BY ChannelAssumption, FS_CardinalityType DEF ClicksInv, RunsWithinDeliveries, ClickRecord
  <2>2. CASE l = k
    <3>1. click'[l].delivered = click[l].delivered + 1 /\ ran' = ran
      BY <1>1, <1>2, <2>2 DEF ClicksInv
    <3>2. CASE h \in Range(handlers)
      <4>1. Pending(l, h)' = Pending(l, h) \cup {new(h)}
        BY <1>2, <1>6, <2>2, <3>2 DEF Pending
      <4>2. ASSUME NEW S, NEW x, IsFiniteSet(S), Cardinality(S) \in Nat
            PROVE  IsFiniteSet(S \cup {x}) /\ Cardinality(S \cup {x}) <= Cardinality(S) + 1
                   /\ Cardinality(S \cup {x}) \in Nat
        <5>1. /\ IsFiniteSet(S \cup {x})
              /\ Cardinality(S \cup {x}) = IF x \in S THEN Cardinality(S) ELSE Cardinality(S) + 1
          BY <4>2, FS_AddElement
        <5>2. QED
          BY <4>2, <5>1
      <4>3. /\ IsFiniteSet(Pending(l, h)') /\ Cardinality(Pending(l, h)') \in Nat
            /\ Cardinality(Pending(l, h)') <= Cardinality(Pending(l, h)) + 1
        BY <2>1, <4>1, <4>2
      <4>4. QED
        BY <2>1, <3>1, <4>3
    <3>3. CASE h \notin Range(handlers)
      <4>1. Pending(l, h)' = Pending(l, h)
        BY <1>2, <1>6, <2>2, <3>3 DEF Pending
      <4>2. QED
        BY <2>1, <3>1, <4>1
    <3>4. QED
      BY <3>2, <3>3
  <2>3. CASE l # k
    <3>1. Pending(l, h)' = Pending(l, h)
      BY <1>2, <1>6, <2>3 DEF Pending
    <3>2. click'[l] = click[l] /\ ran' = ran
      BY <1>1, <1>2, <2>3 DEF ClicksInv
    <3>3. QED
      BY <2>1, <3>1, <3>2
  <2>4. QED
    BY <2>2, <2>3
<1>10. QED
  BY <1>2, <1>7, <1>8, <1>9 DEF ClicksInv, RunsWithinDeliveries

(* A task that ends is no longer pending. *)
LEMMA HandlerEndsOK ==
    ASSUME ClicksInv, NEW task \in tasks, HandlerEnds(task) PROVE ClicksInv'
<1>1. /\ tasks' = tasks \ {task} /\ UNCHANGED <<owner, click, thread>>
      /\ ran' = [ran EXCEPT ![task.click][task.handler] = ran[task.click][task.handler] + 1]
  BY DEF HandlerEnds
<1>2. task.click \in ClickId /\ task.handler \in Handler
  BY DEF ClicksInv, TaskRecord
<1>3. ran[task.click] \in [Handler -> Nat] /\ ran[task.click][task.handler] \in Nat
  BY <1>2 DEF ClicksInv
<1>4. ran' \in [ClickId -> [Handler -> Nat]]
  BY <1>1, <1>2, <1>3 DEF ClicksInv
<1>5. ASSUME NEW l \in ClickId, NEW h \in Handler
      PROVE  /\ IsFiniteSet(Pending(l, h)')
             /\ ran'[l][h] + Cardinality(Pending(l, h)') <= click'[l].delivered
  <2>1. /\ IsFiniteSet(Pending(l, h)) /\ ran[l][h] \in Nat /\ click[l].delivered \in Nat
        /\ ran[l][h] + Cardinality(Pending(l, h)) <= click[l].delivered
        /\ Cardinality(Pending(l, h)) \in Nat
    BY ChannelAssumption, FS_CardinalityType DEF ClicksInv, RunsWithinDeliveries, ClickRecord
  <2>2. Pending(l, h)' = Pending(l, h) \ {task}
    BY <1>1 DEF Pending
  <2>3. CASE l = task.click /\ h = task.handler
    <3>1. task \in Pending(l, h)
      BY <2>3 DEF Pending
    <3>2. ran'[l][h] = ran[l][h] + 1
      BY <1>1, <1>2, <1>3, <2>3 DEF ClicksInv
    <3>3. /\ IsFiniteSet(Pending(l, h)')
          /\ Cardinality(Pending(l, h)') = Cardinality(Pending(l, h)) - 1
      BY <2>1, <2>2, <3>1, FS_RemoveElement
    <3>4. QED
      BY <1>1, <2>1, <3>2, <3>3
  <2>4. CASE ~(l = task.click /\ h = task.handler)
    <3>1. Pending(l, h)' = Pending(l, h)
      BY <2>2, <2>4 DEF Pending
    <3>2. ran'[l][h] = ran[l][h]
      BY <1>1, <1>2, <1>3, <2>4 DEF ClicksInv
    <3>3. QED
      BY <1>1, <2>1, <3>1, <3>2
  <2>5. QED
    BY <2>3, <2>4
<1>6. QED
  BY <1>1, <1>4, <1>5 DEF ClicksInv, RunsWithinDeliveries

(* Every action around the long connection keeps clicks and tasks right. *)
LEMMA ClicksStep == ClicksInv /\ ChannelInv /\ ChannelNext => ClicksInv'
<1> SUFFICES ASSUME ClicksInv, ChannelInv, ChannelNext PROVE ClicksInv'
  OBVIOUS
<1>0. /\ Len(thread) <= MaxStarts /\ Len(thread) \in Nat /\ MaxStarts \in Nat
      /\ thread \in Seq(ThreadRecord)
  BY ChannelAssumption DEF ClicksInv, ChannelInv, ChannelShape
<1>1. ASSUME NEW c, NEW handlers, Start(c, handlers), UNCHANGED <<owner, click, tasks, ran>>
      PROVE  ClicksInv'
  <2>1. Len(thread') = Len(thread) + 1 /\ Len(thread) < MaxStarts
    BY <1>0, <1>1 DEF Start
  <2>2. QED
    BY <1>0, <1>1, <2>1, ClicksKept
<1>2. CASE StartOwned \/ Restart
  BY <1>1, <1>2 DEF StartOwned, Restart
<1>3. CASE Stop \/ \E h \in Handler : OnCardAction(h)
  <2>1. UNCHANGED <<owner, click, tasks, ran, thread>>
    BY <1>3 DEF Stop, OnCardAction
  <2>2. QED
    BY <1>0, <2>1, ClicksKept
<1>4. ASSUME NEW n \in DOMAIN thread, RunClient(n) \/ MarkStopped(n) PROVE ClicksInv'
  <2>1. UNCHANGED <<owner, click, tasks, ran>> /\ Len(thread') = Len(thread)
    BY <1>0, <1>4 DEF RunClient, MarkStopped
  <2>2. QED
    BY <1>0, <2>1, ClicksKept
<1>5. ASSUME NEW n \in DOMAIN thread, ClientRaises(n) PROVE ClicksInv'
  <2>1. /\ tasks' = {task \in tasks : task.thread # n} /\ UNCHANGED <<owner, click, ran>>
        /\ Len(thread') = Len(thread)
    BY <1>0, <1>5 DEF ClientRaises
  <2>2. ASSUME NEW l \in ClickId, NEW h \in Handler
        PROVE  /\ IsFiniteSet(Pending(l, h)')
               /\ ran'[l][h] + Cardinality(Pending(l, h)') <= click'[l].delivered
    <3>1. Pending(l, h)' \in SUBSET Pending(l, h)
      BY <2>1 DEF Pending
    <3>2. /\ IsFiniteSet(Pending(l, h)) /\ ran[l][h] \in Nat /\ click[l].delivered \in Nat
          /\ ran[l][h] + Cardinality(Pending(l, h)) <= click[l].delivered
          /\ Cardinality(Pending(l, h)) \in Nat
      BY ChannelAssumption, FS_CardinalityType DEF ClicksInv, RunsWithinDeliveries, ClickRecord
    <3>3. IsFiniteSet(Pending(l, h)') /\ Cardinality(Pending(l, h)') <= Cardinality(Pending(l, h))
      BY <3>1, <3>2, FS_Subset
    <3>4. Cardinality(Pending(l, h)') \in Nat
      BY <3>3, FS_CardinalityType
    <3>5. QED
      BY <2>1, <3>2, <3>3, <3>4
  <2>3. QED
    BY <1>0, <2>1, <2>2 DEF ClicksInv, RunsWithinDeliveries
<1>6. ASSUME NEW k \in ClickId, Press(k) PROVE ClicksInv'
  <2>1. /\ click' = [click EXCEPT ![k].phase = "pressed"]
        /\ UNCHANGED <<owner, thread, tasks, ran>>
    BY <1>6 DEF Press
  <2>2. /\ click' \in [ClickId -> ClickRecord]
        /\ \A l \in ClickId : click'[l].delivered = click[l].delivered
    BY <2>1 DEF ClicksInv, ClickRecord
  <2>3. QED
    BY <2>1, <2>2 DEF ClicksInv, RunsWithinDeliveries, Pending
<1>7. QED
  BY <1>2, <1>3, <1>4, <1>5, <1>6, DeliverOK, HandlerEndsOK DEF ChannelNext

(* The bot's counters and token.                                            *)
BotCounts ==
    token \in BOOLEAN /\ commands \in 0..MaxCommands /\ crashes \in 0..MaxCrashes

(* The bot counts within its bounds. *)
LEMMA BotCountsKept ==
    /\ BotInit => BotCounts
    /\ BotCounts /\ BotNext => BotCounts'
<1>1. ASSUME BotInit PROVE BotCounts
  <2>1. token = FALSE /\ commands = 0 /\ crashes = 0
    BY <1>1 DEF BotInit
  <2>2. token \in BOOLEAN
    BY <2>1
  <2>3. commands \in 0..MaxCommands /\ crashes \in 0..MaxCrashes
    BY <2>1, BotAssumption
  <2>4. QED
    BY <2>2, <2>3 DEF BotCounts
<1>2. ASSUME BotCounts, BotNext PROVE BotCounts'
  <2> USE BotAssumption DEF BotCounts
  <2>1. ASSUME NEW u \in User, NEW command \in {"bind", "unbind", "status"}, Receive(u, command)
        PROVE  BotCounts'
    BY <1>2, <2>1 DEF Receive
  <2>2. CASE OpenFile \/ WriteFile \/ Reply \/ BotTokenExpires \/ Broadcast \/ SendMessage
    BY <1>2, <2>2 DEF OpenFile, WriteFile, Reply, GetToken, BotTokenExpires, Broadcast, SendMessage
  <2>3. CASE Crash
    <3>1. token' = FALSE /\ commands' = commands /\ crashes' = crashes + 1 /\ crashes < MaxCrashes
      BY <2>3 DEF Crash
    <3>2. token' \in BOOLEAN
      BY <3>1
    <3>3. commands' \in 0..MaxCommands /\ crashes' \in 0..MaxCrashes
      BY <1>2, <3>1
    <3>4. QED
      BY <3>2, <3>3
  <2>4. CASE LoadBoundUsers
    BY <1>2, <2>4 DEF LoadBoundUsers
  <2>5. QED
    BY <1>2, <2>1, <2>2, <2>3, <2>4 DEF BotNext
<1>3. QED
  BY <1>1, <1>2

(* What the client of Feishu's API has besides rows and calls.              *)
ClientRest ==
    /\ channels \subseteq {"user", "webhook", "table", "bridge"} /\ cached \in BOOLEAN
    /\ made <= MaxRows /\ cards \subseteq [sender : Caller, via : {"bot", "webhook"}]

(* No more rows are made than the bound allows; cards have a sender. *)
LEMMA ClientRestKept ==
    /\ ClientInit => ClientRest
    /\ ClientRest /\ ClientInv /\ ClientNext => ClientRest'
<1>1. ASSUME ClientInit PROVE ClientRest
  <2>1. channels \in SUBSET {"user", "webhook", "table", "bridge"} /\ cached = FALSE /\ made = 0 /\ cards = {}
    BY <1>1 DEF ClientInit
  <2>2. cached \in BOOLEAN
    BY <2>1
  <2>3. made <= MaxRows
    BY <2>1, ClientAssumption
  <2>4. QED
    BY <2>1, <2>2, <2>3 DEF ClientRest
<1>2. ASSUME ClientRest, ClientInv, ClientNext PROVE ClientRest'
  <2> USE DEF ClientRest
  <2>0. made \in Nat /\ MaxRows \in Nat
    BY <1>2, ClientAssumption DEF ClientInv, ClientShape
  <2>1. CASE ClientTokenExpires
    BY <1>2, <2>1 DEF ClientTokenExpires
  <2>2. ASSUME NEW c \in Caller, NEW op \in Operation, NEW task \in Task, NEW completed \in BOOLEAN,
               Begin(c, op, task, completed)
        PROVE  ClientRest'
    BY <1>2, <2>2 DEF Begin
  <2>a. ASSUME NEW c \in Caller, SkipRecord(c) PROVE ClientRest'
    BY <1>2, <2>a DEF SkipRecord
  <2>3. ASSUME NEW c \in Caller, CreateRecord(c) PROVE ClientRest'
    <3>1. cached' \in BOOLEAN /\ UNCHANGED <<channels, cards>>
      BY <2>3 DEF CreateRecord, WithToken, NoToken
    <3>2. UNCHANGED made \/ (made < MaxRows /\ made' = made + 1)
      BY <2>3 DEF CreateRecord
    <3>3. made' <= MaxRows
      BY <1>2, <2>0, <3>2
    <3>4. QED
      BY <1>2, <3>1, <3>3
  <2>4. ASSUME NEW c \in Caller, FindRecord(c) \/ GivenRecord(c) PROVE ClientRest'
    BY <1>2, <2>4 DEF FindRecord, GivenRecord, WithToken
  <2>5. ASSUME NEW c \in Caller, ChangeRecord(c) PROVE ClientRest'
    BY <1>2, <2>5 DEF ChangeRecord, WithToken, NoToken
  <2>6. ASSUME NEW c \in Caller, SendCard(c) \/ SendWebhookCard(c) PROVE ClientRest'
    <3>1. cached' \in BOOLEAN /\ UNCHANGED <<channels, made>>
      BY <1>2, <2>6 DEF SendCard, SendPrivateMessage, SendWebhookCard, WithToken
    <3>2. ASSUME NEW via \in {"bot", "webhook"}, NEW answer, Show(c, via, answer)
          PROVE  cards' \subseteq [sender : Caller, via : {"bot", "webhook"}]
      <4>1. [sender |-> c, via |-> via] \in [sender : Caller, via : {"bot", "webhook"}]
        OBVIOUS
      <4>2. QED
        BY <1>2, <3>2, <4>1 DEF Show
    <3>3. cards' = cards \/ \E via \in {"bot", "webhook"}, answer \in BOOLEAN : Show(c, via, answer)
      BY <2>6 DEF SendCard, SendPrivateMessage, SendWebhookCard
    <3>4. QED
      BY <1>2, <3>1, <3>2, <3>3
  <2>7. QED
    BY <1>2, <2>1, <2>2, <2>a, <2>3, <2>4, <2>5, <2>6 DEF ClientNext
<1>3. QED
  BY <1>1, <1>2

RequestRecord ==
    [text : Text \cup {"none"}, outcome : Verdict \cup {"idle", "duplicate", "error"},
     post : {"none", "delivered", "lost"}]

(* What the filter and the analysis have besides the two sequences.         *)
FilterRest ==
    /\ classifier \in {"unset", "rules", "loaded"} /\ loads \in 0..MaxLoads
    /\ encoder \in BOOLEAN /\ cache \subseteq Text /\ request \in [Request -> RequestRecord]
    /\ background \subseteq Request /\ cloudKey \in BOOLEAN

(* A conclusion is one of the outcomes. *)
LEMMA ConcludedOK ==
    ASSUME FilterRest, NEW r \in Request, NEW text \in Text,
           NEW outcome \in Verdict \cup {"idle", "duplicate", "error"}
    PROVE  Concluded(r, text, outcome) \in [Request -> RequestRecord]
<1>1. request[r] \in RequestRecord
  BY DEF FilterRest
<1>2. [request[r] EXCEPT !.text = text, !.outcome = outcome] \in RequestRecord
  BY <1>1 DEF RequestRecord
<1>3. Concluded(r, text, outcome) =
          [request EXCEPT ![r] = [request[r] EXCEPT !.text = text, !.outcome = outcome]]
  BY DEF Concluded, FilterRest
<1>4. QED
  BY <1>2, <1>3 DEF FilterRest

(* Every action of the filter and analysis keeps these types. *)
LEMMA FilterRestKept ==
    /\ AnalysisInit => FilterRest
    /\ FilterRest /\ AnalysisNext => FilterRest'
<1>1. ASSUME AnalysisInit PROVE FilterRest
  <2>1. /\ classifier = "unset" /\ loads = 0 /\ encoder = FALSE /\ cache = {} /\ background = {}
        /\ request = [r \in Request |-> [text |-> "none", outcome |-> "idle", post |-> "none"]]
        /\ cloudKey \in BOOLEAN
    BY <1>1 DEF AnalysisInit
  <2>2. request \in [Request -> RequestRecord]
    BY <2>1 DEF RequestRecord
  <2>3. encoder \in BOOLEAN
    BY <2>1
  <2>4. loads \in 0..MaxLoads
    BY <2>1, AnalysisAssumption
  <2>5. QED
    BY <2>1, <2>2, <2>3, <2>4 DEF FilterRest
<1>2. ASSUME FilterRest, AnalysisNext PROVE FilterRest'
  <2>1. ASSUME NEW r \in Request, NEW text \in Text, Analyze(r, text) PROVE FilterRest'
    <3>1. PICK vector \in BOOLEAN :
              /\ GetEmbedding(text, vector)
              /\ Duplicate(r, text, vector) \/ Classified(r, text, vector) \/ LoadFails(r, text, vector)
      BY <2>1 DEF Analyze
    <3>2. encoder' \in BOOLEAN /\ cache' \subseteq Text /\ UNCHANGED cloudKey
      BY <1>2, <2>1, <3>1 DEF GetEmbedding, FilterRest, Analyze
    <3>3. CASE Duplicate(r, text, vector)
      <4>1. request' \in [Request -> RequestRecord]
        BY <1>2, <3>3, ConcludedOK DEF Duplicate
      <4>2. QED
        BY <1>2, <3>2, <3>3, <4>1 DEF Duplicate, FilterRest
    <3>4. CASE Classified(r, text, vector)
      <4>1. PICK verdict \in Verdict :
                /\ Classify(text, verdict) /\ request' = Concluded(r, text, verdict)
                /\ background' = IF verdict = "task" THEN background \cup {r} ELSE background
        BY <3>4 DEF Classified
      <4>2. request' \in [Request -> RequestRecord]
        BY <1>2, <4>1, ConcludedOK
      <4>3. classifier' \in {"unset", "rules", "loaded"} /\ loads' = loads
        BY <3>4, <4>1 DEF Classified, Classify
      <4>4. QED
        BY <1>2, <3>2, <4>1, <4>2, <4>3 DEF FilterRest
    <3>5. CASE LoadFails(r, text, vector)
      <4>1. request' \in [Request -> RequestRecord]
        BY <1>2, <3>5, ConcludedOK DEF LoadFails
      <4>2. loads' \in 0..MaxLoads
        BY <1>2, <3>5, AnalysisAssumption DEF LoadFails, FilterRest
      <4>3. QED
        BY <1>2, <3>2, <3>5, <4>1, <4>2 DEF LoadFails, FilterRest
    <3>6. QED
      BY <3>1, <3>3, <3>4, <3>5
  <2>2. ASSUME NEW r \in Request, PostResult(r) PROVE FilterRest'
    <3>1. PICK post \in {"delivered", "lost"} : request' = [request EXCEPT ![r].post = post]
      BY <2>2 DEF PostResult
    <3>2. request[r] \in RequestRecord
      BY <1>2 DEF FilterRest
    <3>3. [request[r] EXCEPT !.post = post] \in RequestRecord
      BY <3>2 DEF RequestRecord
    <3>4. request' \in [Request -> RequestRecord]
      BY <1>2, <3>1, <3>3 DEF FilterRest
    <3>5. QED
      BY <1>2, <2>2, <3>4 DEF PostResult, FilterRest, filterVars
  <2>3. ASSUME NEW r \in Request, AnalyzeAsyncEnds(r) PROVE FilterRest'
    BY <1>2, <2>3 DEF AnalyzeAsyncEnds, FilterRest, filterVars
  <2>4. CASE ClearHistory
    BY <1>2, <2>4 DEF ClearHistory, FilterRest
  <2>5. QED
    BY <1>2, <2>1, <2>2, <2>3, <2>4 DEF AnalysisNext
<1>3. QED
  BY <1>1, <1>2

TInv == IInv /\ ClicksInv /\ BotCounts /\ ClientRest /\ FilterRest

(* The types and the counts hold throughout, beside the invariant. *)
THEOREM TypesHold == Spec => []TInv
<1>1. Init => TInv
  BY FilterInitOK, ChannelInitOK, BotInitOK, ClientInitOK, ClicksInitOK, BotCountsKept,
     ClientRestKept, FilterRestKept
     DEF Init, IInv, TInv
<1>2. TInv /\ IInv' /\ [Next]_vars => TInv'
  <2> SUFFICES ASSUME TInv, IInv', [Next]_vars PROVE TInv'
    OBVIOUS
  <2>1. UNCHANGED analysisVars => FilterRest'
    BY DEF TInv, FilterRest, analysisVars, filterVars
  <2>2. UNCHANGED channelVars => ClicksInv'
    BY DEF TInv, ClicksInv, RunsWithinDeliveries, Pending, channelVars
  <2>3. UNCHANGED botVars => BotCounts'
    BY DEF TInv, BotCounts, botVars
  <2>4. UNCHANGED clientVars => ClientRest'
    BY DEF TInv, ClientRest, clientVars
  <2>5. CASE UNCHANGED vars
    BY <2>1, <2>2, <2>3, <2>4, <2>5 DEF TInv, vars
  <2>6. CASE Next
    BY <2>1, <2>2, <2>3, <2>4, <2>6, ClicksStep, BotCountsKept, ClientRestKept, FilterRestKept
       DEF TInv, IInv, Next
  <2>7. QED
    BY <2>5, <2>6
<1>3. QED
  BY <1>1, <1>2, InvariantHolds, PTL DEF Spec

(* Every variable of the four parts has its type and stays within its       *)
(* bound, the history of the filter (filter/__init__.py:86) and the runs    *)
(* of handlers included, for all values of the constants.                   *)
THEOREM ServicesTypeCorrect == Spec => []TypeOK
<1>1. TInv => TypeOK
  <2> SUFFICES ASSUME TInv PROVE TypeOK
    OBVIOUS
  <2>1. AnalysisTypeOK
    <3>1. Len(history) <= MaxHistory
      BY AnalysisAssumption DEF TInv, IInv, FilterInv, FilterShape, HistoryIsTheEnd, Shorter
    <3>2. QED
      BY <3>1 DEF TInv, IInv, FilterInv, FilterShape, FilterRest, RequestRecord, AnalysisTypeOK
  <2>2. ChannelTypeOK
    <3>1. ASSUME NEW k \in ClickId, NEW h \in Handler PROVE ran[k][h] \in 0..MaxDeliveries
      <4>1. /\ ran[k][h] \in Nat /\ click[k].delivered \in 0..MaxDeliveries
            /\ ran[k][h] + Cardinality(Pending(k, h)) <= click[k].delivered
            /\ Cardinality(Pending(k, h)) \in Nat
        BY FS_CardinalityType DEF TInv, ClicksInv, RunsWithinDeliveries, ClickRecord
      <4>2. QED
        BY <4>1, ChannelAssumption
    <3>2. ran \in [ClickId -> [Handler -> 0..MaxDeliveries]]
      BY <3>1 DEF TInv, ClicksInv
    <3>3. QED
      BY <3>2 DEF TInv, IInv, ClicksInv, ClickRecord, TaskRecord, ChannelInv, ChannelShape,
                  ThreadRecord, ClientRecord, ChannelTypeOK
  <2>3. BotTypeOK
    BY DEF TInv, IInv, BotInv, BotShape, BotCounts, BotTypeOK
  <2>4. ClientTypeOK
    <3>1. made \in 0..MaxRows
      BY ClientAssumption DEF TInv, IInv, ClientInv, ClientShape, IdsInv, ClientRest, RowRecord
    <3>2. rows \subseteq [id : 1..made, task : Task, completed : BOOLEAN]
      BY DEF TInv, IInv, ClientInv, ClientShape, IdsInv, RowRecord
    <3>3. ASSUME NEW c \in Caller
          PROVE  call[c] \in [op : Operation \cup {"none"}, task : Task \cup {"none"},
                              phase : {"idle", "begun", "found", "fallback", "returned"}, row : 0..made,
                              completed : BOOLEAN, result : BOOLEAN]
      BY DEF TInv, IInv, ClientInv, ClientShape, CallsInv, CallRecord
    <3>4. QED
      BY <3>1, <3>2, <3>3 DEF TInv, IInv, ClientInv, ClientShape, ClientRest, ClientTypeOK
  <2>5. QED
    BY <2>1, <2>2, <2>3, <2>4 DEF TypeOK
<1>2. QED
  BY <1>1, TypesHold, PTL

(* A handler runs at most once for each delivery of a click, whatever       *)
(* clients are started, stopped and lost meanwhile (ws_client.py:120-152):   *)
(* only Feishu's repetitions repeat it.                                     *)
THEOREM RunsAreDelivered == Spec => []RunsWithinDeliveries
  BY TypesHold, PTL DEF TInv, ClicksInv
=============================================================================
