# TLA+ models of the task automation system

The program turns chat messages into coding tasks. A listener pushes a message
to a gateway; the gateway filters duplicates, creates a task, has it analysed,
asks a person for approval with a card in Feishu, has it executed and recorded.
This directory holds models of the parts where that can go wrong in ways a unit
test hardly reaches, the TLC runs that check them, and proofs about most of
them.

`src/...` below means a file of the repository; its Python package is
`src/src`. `PROJECT.json` lists every component, the source lines each
definition stands for, the hazards, and for each property a mutated definition
that breaks it.

## 1. Inventory

| part | state | operations | talks to |
|---|---|---|---|
| `gateway/core/queue_manager.py` | deque of items, index id → item, current id, counters | enqueue, dequeue, complete_current, cancel, requeue, timeout | called by the router, under a lock |
| `gateway/core/task_manager.py` | dict id → TaskState, counters | create, update_status, set_* results, cleanup | called by routes and router |
| `gateway/core/router.py`, `gateway/routes` | none of their own | one handler per request | store, queue, dispatcher |
| `gateway/dispatcher` | none | one HTTP request (or awaited call) per dispatch, no retry | gateway → workers |
| `workers/filter_analysis` | filter history | analyse, call the gateway back | gateway |
| `workers/decision` | pending confirmations, timers | send card, note a click, forward it | Feishu, gateway |
| `workers/execution` | none | run, report | executors, gateway |
| `executor` | the current execution, its process | execute (three modes, two back ends), cancel from another thread | processes, a server |
| `code_executor` | per call a session and an SDK process; the server | health check, start the server, prompt with two timers, abort | OpenCode server |
| `workers/recording` | none | add a row, report | Feishu, gateway |
| `feishu_recorder/client.py`, `feishu_bridge.py` | access token, a WebSocket client | rows: create, update, delete; cards by bot or webhook | Feishu |
| `gateway/core/message_processor.py` | dedup cache and queue | validate, normalise, deduplicate | called by the listener route |
| `listener_push` | attempts of each call | push with timeout and retries | gateway |
| `wechat_listener` | threads, queue, three duplicate filters | connect, poll or be called, pass on, listen, disconnect | push client |
| `feishu_recorder/ws_client.py` | flag, thread, connection, handlers | start, stop, run, handlers scheduled on its own loop | gateway, bridge |
| `queue` | deque by priority, index id → task, current task, history of ended tasks | enqueue, dequeue, complete, cancel, timeout, requeue, clear; the processing loop | orchestrator, callback server, from two threads |
| `callback_server` | futures by task id | wait for a decision, take a decision from HTTP | queue, the waiting processor |
| `workflow_orchestrator` | the older pipeline's processor | the same life of a task, in one process | queue, managers |
| `decision`, `decision_manager` | pending confirmations, token, reminders | wait with polls and a timeout, receive a decision on another thread, cancel | Feishu, WeChat |
| `filter`, `task_analyzer`, `llm_router` | history of texts, embeddings, classifier, providers | look for duplicates, classify, analyse in the background | filter worker |
| `feishu_bot` | bound users, their file, token | bind, unbind, reply, broadcast, load | Feishu |
| `monitoring`, `config`, `utils`, `app` | counters, settings | pure or I/O | the above |

What is hard here:

- **Independent choices.** The queue picks a task on its own when another one
  is approved; `complete_current` ends whichever task is current.
- **Stale answers.** Clicks, execution results and records arrive after the
  task has ended, was forgotten, or the gateway restarted.
- **Lost requests.** A dispatch that fails is logged and never repeated.
- **Duplicates.** The same message through retries and late requests; the same
  task in the queue several times; the same click twice.
- **Limits.** A full queue, a full store, a full cache, at each of which the
  code drops something silently.
- **Threads.** Decisions, cancellations, polls and listening loops run on
  threads of their own and share a table, a field or a flag without a lock.
- **Half-done work.** A file emptied and not yet written, an id remembered
  before its message is passed on, a prompt sent by a process nobody waits for.
- **Timers.** Confirmation timeouts against clicks, HTTP timeouts against late
  answers.

What makes each part correct: the queue keeps its capacity, order and books;
the store only forgets ended tasks; the router executes nothing that was not
approved, ends tasks for a reason and finally; the push client and the message
processor neither lose nor multiply a message; every decided task ends. A
listener's filter refuses only what was reported; a wait for a confirmation
returns the answer given to it; an execution can be cancelled while it runs and
returns; the filter lets a repeated text pass only for a reason; a connection
taken for alive is alive; bindings survive a crash; a row tells the truth.

## 2. Modules

| module | models |
|---|---|
| `QueueManager` | the queue, one action per method; `Try...` are the same calls with the refusals a caller sees |
| `QueueManagerProofs` | theorems about it |
| `Deques` | the community operators on sequences, under one name, for both queues |
| `SequenceFacts` | lemmas about these operators (first occurrence, removal, insertion), for both proofs |
| `TaskManager` | the store, as operators (its methods run inside handlers, not by themselves) |
| `Gateway` | routes, router, dispatcher and workers over the store and the queue |
| `GatewayProofs` | theorems about both |
| `TaskLifecycle` | abstract: the life of a task as the documents draw it, with the one move of the code they do not draw |
| `MessageProcessor` | validation and deduplication, as operators |
| `Intake` | push client, listener route and message processor |
| `IntakeProofs` | theorems about the intake |
| `TaskQueue` | the older pipeline's queue, as operators |
| `CallbackServer` | the processing loop, waits and decisions over it |
| `DecisionDelivery` | abstract: what that pipeline promises about decisions |
| `CallbackServerProofs` | theorems about both |
| `Listeners` | the four listeners: threads, filters, queue, start and disconnect |
| `Confirmations` | the two decision managers |
| `ExecutorPackage`, `CodeExecutor` | the executor package, and the execution worker's executor |
| `Executors` | a deployment of one of the two, with its fairness and properties |
| `Periphery` | `Listeners`, `Confirmations` and `Executors`, for one run |
| `Analysis` | filter, classifier, background analysis, providers, the worker's post |
| `FeishuChannel` | the WebSocket client and its three owners |
| `FeishuBot` | the bot's bindings, their file, replies and broadcasts |
| `FeishuClient` | rows and cards over Feishu's API |
| `Services` | the four above, for one run |
| `PeripheryProofs`, `ServicesProofs` | theorems about the parts and their compositions |
| `MCQueueManager`, `MCGateway`, `MCIntake`, `MCIntakeCache`, `MCCallbackServer`, `MCPeriphery`, `MCServices` | instances for TLC |

`Periphery` and `Services` exist to share a run: their parts have no state in
common, so a property of one part holds in every interleaving with the others
if it holds in that part alone, and a behaviour is one of one part (`part`).
What the parts exchange with the pipeline appears there as a choice: a
message pushed (`Intake`), a verdict, a click, an outcome (`Gateway`).

### QueueManager

`queue` is `_queue`, `current` is `_current_task_id`, `index` and
`requeueCount` stand for `_task_index`. Two items for one task are different
objects with different creation times; they carry a `stamp`, so that what the
code does by object identity (`remove(item)`, appending the registered item
again) is visible. `placed` is a history variable. Priorities are stored and
never read by this class, and are left out. Every method body holds the lock,
so one action is one call.

### Gateway, TaskManager

A request between two processes is a record in `network`, with the index of the
decision that caused it. A handler is one step: it takes a request, changes
store and queue, and sends the next request. That is faithful because no
handler changes state after it has awaited a dispatch, and handlers run on one
event loop. Requests are served in any order. A request that
fails (`Lose`) is logged at its sender and not repeated; an exception in an
analyzer or a worker's crash before it answers is the same event. The
standalone mode calls the same handlers in the same process (`src/main.py`),
one of the orders the set allows.

`pending` and `TimerExpires` are the decision worker's table and timers;
`cards` are the cards that were delivered (the result of `send_approval_card`
is ignored by the code, so a card may be missing); `rows` the Feishu records.
`Click` is a button of a card, in any number and order; with `PatientUser` the
user decides a task once, and again only after "later". `OperatorPost` is a
decision posted by hand. `Restart` loses store and queue and keeps requests,
workers and cards.

Statuses that a handler sets and replaces before it first awaits (received,
approved) are not visible between steps; analyzing and executing_waiting_input
are set by no code. Task ids hash the message with the time in microseconds and
are taken to be fresh.

`status` and `detail` are what `_tasks` holds. The clean-up takes the older half of
the ended tasks by insertion order, which `born` keeps: tasks are numbered as they
are made, within one life of the process.

`TaskLifecycle` allows the moves of the diagram in the repository's `README.md`
and one more, an action of its own: `RejectionRecorded`, from rejected to failed.
No document draws it, `docs/ARCHITECTURE_V2.md` (5.3) ends a rejection as
completed, and the code makes it; the run `gateway_rejected` shows that
disagreement. `Lifecycle` in `Gateway` is the instance under
`outcome <- detail[t].execution`.

### Intake, MessageProcessor

`cachedAt` is `_dedup_cache`, `dedupQueue` is `_dedup_queue`, `clock` the time
in ticks. `accepted` records every message `process` let through, with the time
and the life of the gateway (number of restarts). A call of `push_message` is
`idle`, `waiting`, in `backoff` between attempts, `pushed` or `failed`. When an
attempt is given up its request stays in `requests` and may be served at any
later time, or never; its answer is dropped. The code answers HTTP 200 for all
outcomes, so any answer ends the call as pushed. The counters of the push
client and the setting that turns deduplication off are left out.

### CallbackServer, TaskQueue

`queue`, `current`, `index` and `completed` are the deque, the slot, the index
and the history of `TaskQueue`; a task stands for its `QueuedTask`, since ids are
fresh. `added` is the counter `total_added`, the only one of `stats` that is
kept; `arrival` is a history variable that notes it for each task. Methods hold
the lock, so each is one
step. `phase` says where `process_async` and its processor stand: `idle` (about
to dequeue), `waiting` for a decision, `executing`, and `returned` or `raised`
just before `complete_task`. `pending` is `_pending_decisions`, and `future` the
future of the present wait, then what the wait returned.

The server runs on a thread of its own (`start_callback_server`), so a decision
is two steps: `Decide` changes the queue, `Deliver` hands the answer to a waiter
if there is one. Between them the wait may time out, the task may end, and
another may start; a wait ends in two steps as well (`TimerFires` cancels the
future, `TimeOut` is the waiter that finds it cancelled). A set future wakes its
waiter, which is what fairness assumes; the code's `set_result` from another
thread does so only at the loop's next wake-up.

The processor is the one `_process_queued_task` is written to be: it asks,
waits, executes an approved task, returns or raises. The orchestrator as
committed is not modelled: its processor raises before every wait (section 5),
which is the disjunct `raised` of `StartTask`. No decision callback is
registered, as in `tests/test_callback_executor.py`; the orchestrator's own
one raises in the handler.

`Delivery` maps `DecisionDelivery` onto this: `asking` is `working` while
`phase` is `waiting`, `executing` is `working` while it is `executing`,
`onTheWay` is `clicks`, and `answer` is `future` when that holds a decision
rather than an outcome of the timer.

### Listeners

`running`, `poller` and `loop` are the flag `_running`, the polling thread and
the listening loop (for the webhook, its HTTP server); `hook` is ntwork's.
`entry` is how the listener is started: `main.py` and the tests connect and then
start in the background, the example connects and listens, and
`start_background` may be called alone. The inherited `start_background` does
nothing while `_running` is set, which `connect` has set; the pollers start
their thread before it, and the thread ends for good when it finds the flag not
set.

Nobody is interrupted by `disconnect`. The listening loop looks at the flag
(`ListenAgain`), then blocks in `queue.get` for up to a second, and reports what
it gets before it looks again (`GetNextMessage`): `late` counts what it took off
the queue after a disconnect. The hook calls from its registration, which comes
before the flag is set, until `ntwork.exit_` has taken effect (`RegisterHook`,
`ExitHook`), and looks at no flag.

`cache` is what the filter remembers, `Key` what it knows a message by (two
messages may have one key) and `Id` the key as the listener forms it. A UI
Automation id ends in a time: the hour and minute the item shows, on the date of
the poll, so that an item still in the window has a new id after midnight
(`day`, `Midnight`); or the time of the poll itself, when the item shows none.
`Pass` puts a message into the queue and calls the callback, or raises before
either; `failed` keeps the keys remembered for nothing. `OnScreen` is what a
picture shows, the last `Visible` messages. ntwork has no filter.

### Confirmations

`pending` is `_pending[task_id]`, with the number of the wait that made it, so
that writing to an entry found earlier can be told from writing to the present
one; a cancelled entry is no longer `listed`, but who has found it keeps it.
`receive_decision` is two steps for the Feishu manager (find, write to what was
found) and three for the WeChat manager, which looks the entry up for each of
its two assignments.

A round of a wait runs on the event loop, a decision comes on the server's
thread, so a round is the steps its statements are. Feishu: `PollFeishu` looks
at the time and then at the entry, `ReadDecision` reads the decision, `Return`
removes the entry; a round that finds nothing reminds, or sleeps. WeChat, after
its sleep: `LookWechat` looks at the entry, `CheckTime` at the time,
`ReadDecision` reads the decision, `Return` removes the entry. A reply may fall
between any two of them: it is then overruled by the timeout though it was
acknowledged, or overtaken by the decision already read (`overtaken`).

`elapsed` and `sleep` count ticks. `Delay` is time that passes while the wait
cannot go on, because another coroutine or a blocking `requests.post` (its
timeout is ten seconds) holds the event loop; `MaxDelay` bounds it between two
looks at the entry. That bound is an assumption about the environment: the code
sets none, and the window of `AnswerInTimeCounts` is as wide as the delay.
`acked` is the answer last acknowledged to the present wait. A click between the
sending of a card and the entry (`RequestConfirmation`, `Register`) is refused.

### ExecutorPackage, CodeExecutor, Executors

Executions run on pool threads; `current` is the one field
`_current_execution`, which `Execute` sets and the end of any execution clears.
`Cancel` compares and `MarkCancelled` writes, two steps. A mode and a back end
are configured once; each execution ends by itself, by its time limit, or by an
exception: `Ending` is its own steps.

A call of `CodeExecutor` checks the server, starts it if it seems down, creates
a session and prompts it through an SDK process. Two timers of the same length
guard the prompt: `InnerTimeout` kills the process, `OuterTimeout` cancels the
coroutine and leaves it, so that its prompt may arrive after the abort. The
server goes down at most `MaxFailures` times and takes its prompts along.

### Analysis

`handle_analyze` never awaits, so one request is one step, in the order of the
code: vector, look for a duplicate, record, load the classifier, classify,
leave the analysis to the background. The post of the result is a step of its
own and may be lost. Whether a text gets a vector, what the model answers and
whether it can be loaded are choices; `Similar` stands for the comparison of
vectors, reflexive and symmetric, not transitive. `looks` is the history of all
recorded texts.

### FeishuChannel, FeishuBot, FeishuClient

`client` says what each `FeishuWSClient` object holds, `thread` has one entry
per start, since `start` may be called again before an older thread has ended.
A click goes to one open connection, whose handlers become tasks of that
thread's loop; it is acknowledged at once, or the acknowledgement is lost and
it is delivered again. The handler the gateway registers only forwards the click
to the decision worker, so it changes neither store nor queue on that thread;
that is the `Click` of `Gateway`.

A change of the bot's bindings is three steps: the command changes the table,
`open` empties the file, `json.dump` fills it. The directory may fail to be made,
which is the one failure that ends the command without a reply. The process may crash between
any two, and starts again with what the file holds. `answered` is what each
user was told last.

A caller of `FeishuClient` makes one call, whose requests are each served or
not and answered in time or not: a call may fail though Feishu did what it
asked. An update or a deletion first looks a row up, in a request of its own.
`channels` says which credentials there are: without its own the bridge reports
a row as written and makes none (`SkipRecord`), its test mode. No worker calls
it: the recording worker uses the client itself.

## 3. Runs

| run | instance | what it shows |
|---|---|---|
| `queue` | 3 tasks, max_size 3, at most 5 appends | the books, the order and the capacity hold for any sequence of calls, with stale and repeated entries |
| `gateway_clicks` | 2 tasks, store of 2, queue of 2, 2 decisions, 1 lost request, 1 restart, impatient user and an operator | what still holds under faults and contradictory clicks |
| `gateway_patient` | 3 tasks, store of 2, queue of 2, 2 decisions, 1 lost request | one row, one count, and the life of a task that `TaskLifecycle` describes |
| `gateway_liveness` | 2 tasks, queue of 1, 3 decisions, no fault, fair | decided tasks end, the slot is freed, messages are classified |
| `intake` | 4 messages to push of which 2 are pushed, 2 ids, 2 attempts each, cache of 1, ttl of 2 ticks, 4 ticks, 1 restart, fair | retries, timeouts and late answers lose nothing |
| `intake_cache` | 5 messages, 3 with one id and 2 with another, 1 attempt each, cache of 2, ttl of 2 ticks, 4 ticks | when an id passes the filter twice |
| `gateway_serial` | as `gateway_patient` with 2 tasks, nothing lost | violated: two tasks are executed at once |
| `gateway_rejected` | the same instance | violated: a rejected task ends as failed |
| `callback` | 3 tasks, one of them urgent, max_size 2, history of 2, 2 decisions, 1 clear | waits match tasks, the order, the slot and the approvals hold across threads, and decisions are delivered as promised |
| `callback_liveness` | 2 tasks, 2 decisions, 1 clear, fair | queued tasks are served |
| `periphery` | each listener started in each way with 3 messages, 2 of one key, one without a time, cache of 2, 2 visible, 1 midnight; each manager with timeout 4, poll 2, delays of 1, 2 waits, 3 replies; each back end and mode with 2 executions and 2 cancels, or 2 calls and 1 failure of the server; fair | filters lose and repeat only for a reason, disconnect silences all but what is under way, answers count, waits and executions end, cancel reaches what runs |
| `services` | 3 requests, 3 texts, history of 1; 2 handlers, 1 click, 3 starts; 2 users, 4 commands, 2 crashes; 3 callers, 2 tasks, 2 rows | repeated texts pass only for a reason, connected means alive, bindings and rows are true |

Why the bounds are enough. *queue*: three tasks and five appends give a task
with two registrations and a requeued copy beside another task, a full queue,
and stale entries on both sides of a live one. *gateway*: two tasks suffice for
one task to take the slot, the entry or the place in the store of another; a
store of two and three tasks make the store forget; a queue of one makes it
full; two decisions are a contradiction, three a contradiction about a task
beside a decision about the other. *intake*: two attempts of two
calls reorder in every way, around an eviction and a restart; four ticks with a
ttl of two reach ages below, at and above it. *intake_cache*: with a cache of
one every acceptance evicts; with two, an id that expired can be queued twice
beside another one, and three acceptances of it and one of the other let its
older entry evict the live one. *periphery*: with a cache of two
the ids of UI Automation, new at midnight or at every poll, push out others
while messages of one key are still known (the webhook's ids, two keys, fit:
its eviction is the same `Remember`); with two of three messages visible one
leaves the picture; a timeout of two polls gives an answer in the last interval
and one before it, a delay of one tick moves that boundary, and three replies over two waits one that is under way from the
first to the second; two executions or calls overlap in every way. *services*:
a history of one and three requests push a text out and look for it again, with
and without vectors; three starts let two threads of one client end in either
order; four commands bind two users and change one of them again around two
crashes; three callers create, find and delete the row of one task while another
row is made. *callback*: two decisions suffice for one that
comes too late beside one that counts, or for a task deferred twice; a third
task and a queue of two fill the queue, and the urgent one overtakes two equals.
The state of
Gateway is bounded by its `Max...` constants in the guards, that of
QueueManager by the constraint `Bounded` (every counter needs an appended
entry to grow).

Deadlock is not checked except for the queue: when nobody sends a message,
presses a button or calls, the system may stop, and the bounds exhaust it.

Fairness. `FairSpec` of Gateway has weak fairness of serving requests (the
servers run, and without `Lose` every request is served; `network` is finite
and each step of `Deliver` shortens what is left to do) and of each timer
(asyncio's sleep ends). No fairness is assumed of messages, clicks or the
operator. `FairSpec` of Intake has weak fairness of each call's own steps: an
attempt has an HTTP timeout and a sleep ends; none of the gateway, which need
not answer. `FairSpec` of CallbackServer has weak fairness of `Progress`, the
loop and its processor: the loop runs, a wait has a timer (three hours by
default) and an execution a time limit. No fairness is assumed of messages or
decisions, delivered or not. `FairSpec` of Periphery has weak fairness of a
wait's own rounds (`asyncio.sleep` wakes the coroutine; delays are bounded) and of each execution's
or call's own steps (`communicate` and requests have time limits, the prompt
has `wait_for`, the start of the server 30 polls). No fairness is assumed of
messages, replies, cancellations, listeners or the OpenCode server.

## 4. Proofs

`QueueManagerProofs` proves, for every set of task ids and every `max_size`
(assumption `QueueAssumption`: a natural number, and None is no task id):

- `TypeCorrect`: `Spec => []TypeOK`.
- `AccountingCorrect`: `[]EntriesAccounted`, that is `CapacityHolds` and
  `EntriesConserved`.
- `SlotCorrect`: `[]SlotAccounted`.
- `FifoCorrect`: `[](NewestRegistered /\ FifoUnlessRequeued)`.
- `NoPreemptionCorrect`, `CancelIsFinalCorrect`: the two action properties.

The invariant is `IInv`: types, capacity, the two accounting invariants,
and `Ordered`. `FifoUnlessRequeued` alone is not inductive: when the current
task is completed its index entry disappears while entries of it stay queued,
and a later registration must still be newer than all of them; so `Ordered`
also bounds every stamp by the number of enqueues so far, and makes the
registered item the newest. Each accounting invariant is linear arithmetic over
the counters and the length of the queue, and each step changes the length by
what `Dequeue`, `Cancel...` and the appends do to it; these lengths are lemmas.
The order is proved once for removals (`OnlyRemoves`: what remains is a
subsequence, by a strictly increasing map of positions) and once for each
append. `CancelIsFinal` follows because an item that was never requeued occurs
at most once (two occurrences would have to be strictly ordered by the same
stamp) and `RemoveFirst` removes one. `RemoveFirst` is a `CHOOSE` over
positions; `FirstOccurrence` shows the position exists, by the
well-foundedness of the order on the naturals. That the invariant holds at first
and is kept by every call are lemmas of their own (`InitOK`, `StepOK`), which
`GatewayProofs` uses again.

`IntakeProofs` proves, for every set of calls and ids, every cache size, ttl and
number of attempts, restarts and ticks (assumptions `ProcessorAssumption` and
`IntakeAssumption`, which only say that these are natural numbers, that there is
at least one attempt and that a call carries an id):

- `TypeCorrect`: `Spec => []TypeOK`. The typing says that no attempt exceeds
  `max_retries`, so it needs that a call that sleeps has one left (`Attempts`).
- `DuplicatesAreHonest`: `[]DuplicateWasAccepted`, from `CachedWasAccepted`: the
  time an id is cached under is one at which it was accepted.
- `PushesAreAccepted`: `[]PushedMeansAccepted`, from `AnswerWasEarned`: the same
  must hold of an answer that is still on its way.
- `CacheIsBounded`: `[]CacheBounded`. Cutting the queue drops exactly the cached
  ids that have no entry left, or more.
- `ReacceptanceExplained`: `[]ReacceptedForAReason`. The property speaks of
  history only; `Reacceptance` links it to the state: the queue holds the ids of
  the last accepted messages of this life (`QueueIsRecent`), and an id accepted
  less than a ttl ago that was not pushed out is cached under that time or a
  later one (`RecentIsCached`). An acceptance pushes out at most the id accepted
  `MaxCache` messages ago (`AcceptShifts`), which is the witness.

`CallbackServerProofs` proves, for every set of tasks, every assignment of
priorities, with priorities enabled or not, and every bound (assumptions
`TaskQueueAssumption` and `CallbackServerAssumption`: the bounds are natural
numbers, None is no task, a priority is one of the code's four):

- `TypeCorrect`: `Spec => []TypeOK`, with `Working`: the loop has a task except
  when it is idle.
- `WaitsAreExact`: `[]PendingIsWaiting`. `Waits` adds that a wait that has been
  answered has no entry left, so that the entry is gone when the wait ends,
  whether the handler or the waiter removed it.
- `ApprovalsAreUsedOnce`: `[]OneExecutionPerApproval`. An approval is
  accounted for wherever it is (`Approvals`): on its way in the handler, held by
  a waiter that has not run yet, or used. Executions alone would not be
  inductive, since `Resume` adds one without looking at any decision.
- `OrderIsKept`: `[]ServedInOrder`. A new task is put before the first one of
  lower rank, so all before it have at least its rank (`PlacedProperties`), and
  it arrived after all of them (`Numbered`, `Unseen`). All behind it have a
  lower rank or were requeued: this follows from the order itself. Requeued
  tasks go to the end and have no claim to a place any more. The length is
  bounded because each append looks first.
- `SlotIsFreed`: `[]SlotFreedUnlessCleared`. Three facts carry it: the slot
  matches what the loop works on (`SlotMatches`); a task that was never requeued
  is not in the queue once it has been taken off (`TakenOnce`); and a task that
  is queued or current but is not in the index, or may lose its place there
  because it is in the history, was requeued (`KnownUnlessRequeued`). That the
  last one survives a rejection needs that removing a task leaves no copy of it,
  which is a consequence of `ServedInOrder` (`OnlyCopy`).
- `PipelineImplementsDelivery`: `Spec => Delivery!Spec`. `DecisionDelivery` knows
  a question, an answer, decisions on their way and an execution, and neither
  queue, index, statuses, timers nor threads. A step of the pipeline is one step
  of it or none. The one that could go wrong is the arrival of a decision: it may
  answer only a question about its own task that has no answer yet, which is what
  `Waits` says of a registered, open future. An approval that arrived is not
  given up, because the timer cannot cancel a future that has a result.

`PeripheryProofs` proves the listeners, the managers and the executors, each for
its own specification, and then the composition.

The listeners, for any messages, keys, sizes of cache and window, and any
confusion of keys by OCR (assumption `ListenersAssumption`):

- `ListenersTypeCorrect`: `[]ListenersTypeOK`, which bounds every cache but that of
  OCR, which the code does not bound.
- `KnownMessagesReported`, `RepeatsExplained`: `[]KnownWasReported` and
  `[]ReportedAgainForAReason`. The second counts reports, and is not inductive: the
  invariant says of every message why it was reported as often as it was
  (`Explained`): a listening loop runs, its key was pushed out, its id is new at
  every poll, or it was reported at most once on each date so far, and no more
  today once today's id is remembered. A poll of a picture handles several
  messages in one step: what it reports is one message for each unknown key
  (`FirstOfKey`, the one at the least position), so that the ids it remembers are
  those of all it has seen.
- `SilenceAfterDisconnect`: `SilentAfterDisconnect`. That the loop takes at most one
  message off the queue after a disconnect follows from where it stands: it
  blocks in `queue.get` only if it has seen the flag set since it last reported.

`Listeners` chooses an order with `SetToSeqs` where one could filter a sequence
with `SelectSeq`: the latter is recursive and no prover here can open it.

The managers, for every timeout, poll interval, reminder setting, delay
and number of waits and replies (assumption `ConfirmationsAssumption`: natural
numbers, of which timeout and poll interval are positive):

- `ConfirmationsTypeCorrect`: `[]ConfirmationsTypeOK`, which says that the clock of a wait is
  at most one poll interval and two delays past the timeout and that it sends at
  most one reminder.
- `AnswersInTimeCount`: `[]AnswerInTimeCounts`.
- `NewestAnswersReturned`: `[]NewestAnswerReturned`.

The last two speak of a wait that has returned; the invariant says what has to
hold while it goes on. An entry belongs to the present wait (`EntryInv`), and
each phase says what the round has seen of it (`PhaseInv`). A Feishu entry is
final just when an answer was acknowledged, and holds the newest (`FeishuInv`); a
WeChat entry that was acknowledged is final and has some answer (`WechatInv`).
The clock with what is left of the sleep and of the delay is bounded in every
phase (`ClockInv`), and an answer acknowledged and not yet seen is no older than
the last look at the entry (`AgeInv`), which gives the windows. What is
acknowledged after the decision has been read does not change what is returned
(`OvertakenInv`), and a reply under way belongs to no later wait than the
present one (`ReplyInv`).

The executors, for every set of executions and calls and every number
of cancels and failures:

- `ExecutorsTypeCorrect`: `[]ExecutorsTypeOK`, in particular only processes of this
  machine are registered.
- `CancelReaches`, `CurrentRuns`: `[]CancelReachesTheRunning` and
  `[]CurrentIsRunning`. They are inductive with one more fact, that what is
  current has begun (`PackageInv`). The second excuses one thing only: `makedirs`
  stands outside the `try` of `_execute_cli`, so an execution it fails in is never
  cleared.
- `WorkExplained`: `[]WorkGoesOnForAReason`. It needs that a call has a process
  and a prompt only from its prompting on, and waits for a running process only
  while it is prompting (`SdkInv`): so every way out of that phase settles what
  becomes of the process.

Together: `PeripheryImplementsParts` shows that a behaviour of `Periphery` is one
of each part, so that all of the above holds in it (`PeripheryTypeCorrect`,
`PeripheryCorrect`).

`ServicesProofs` proves, for all values of the constants of the four parts:

- `SecondLooksExplained`: `[]SecondLookForAReason`. The filter's history is the
  end of all that was recorded (`HistoryIsTheEnd`), so that an earlier text that
  is not in it is at least `MaxHistory` back, and one that is in it was not found
  by the look that let the later one pass.
- `ConnectedClientsLive`: `[]ConnectedIsAlive`. A client is started only while it
  is not running, so that the thread of that start is the one to point to; what
  an older thread of the same client does when it ends is to reset the flag,
  which can only make the claim weaker.
- `BindingsAreKept`: `[]BindingsSurvive`, from `BotInv`: memory agrees with what
  users were told unless a start has lost bindings, so does the file unless the
  last save did not succeed, and the two differ only between a change and its
  save.
- `RowsAreTrue`: `[]RowsTellTheTruth`. Row ids are used once (`IdsInv`), and a
  call that found a row found one of its own task unless it was given the row
  (`CallsInv`), also after that row is gone. What callers were told is kept by
  `TruthInv`, in one part for what rows say, one for rows reported as made
  (`CreationIsTrue`) and one for rows reported as deleted (`DeletionIsTrue`): a row
  that vanishes does so in a call that found it.
- `RunsAreDelivered`: `[]RunsWithinDeliveries`: a handler has run, or is scheduled,
  at most as often as its click was delivered. The tasks still scheduled are
  counted (`Pending`): a delivery adds at most one for each handler, on whatever
  thread, the end of one turns it into a run, and the end of a loop loses them.
- `ServicesTypeCorrect`: `[]TypeOK`, from the invariants above and the counts: the
  bound of `history` follows from `HistoryIsTheEnd`, that of `ran` from
  `RunsWithinDeliveries`.

`GatewayProofs` proves, for every set of tasks, every size of store and queue and
any number of decisions, lost requests and restarts (assumptions
`TaskManagerAssumption`, `QueueAssumption` and `GatewayAssumption`):

- `TypeCorrect`: `[]TypeOK`. An answer's outcome becomes part of the store, so the
  types need the shape of every request in flight (`ShapeInv`).
- `ApprovalsPrecede`: `[]ApprovedBeforeExecuted`, provided nobody posts an approval
  by hand: the code checks a task's existence there and nothing else.
- `EndsExplained`: `[]EndsForAReason`.
- `LateAnswersHarmless`, `ForgetsEnded`: `LateAnswersIgnored`, `ForgetsOnlyEnded`.
- `SlotIsHeldForAReason`: `[]BusyMeansExecuting`.
- `DeferredAreQueued`: `[]DeferredLostForAReason`, provided nobody posts a deferral
  by hand: one for a task that was never queued is lost without any other decision.

Their base is `BaseInv`: whatever a request, a card or an execution mentions has
existed (`MentionInv`), and a request to decide or to execute still carries the
decision that caused it (`CauseInv`). `AnalysedInv` says that what may be or was
approved has been analysed; `ReasonInv` that an outcome on its way to the recorder
has its reason already; `DeferInv` that, as long as everybody only defers, a task
whose card was announced is in the queue. Three case analyses are made once and
used by all: the steps that can change store or queue (`GatewaySteps`), where a
new request comes from (`NewRequests`), and what may happen to one task
(`TaskMoves`).

Three theorems are about the case the documents have in mind, `Patient`: a user
who decides on a card once, or again after "later", nobody posting decisions by
hand, and no restart. Requests may still be lost. With a user who decides twice,
or a decision posted by hand, TLC refutes all three; a restart alone already
refutes the refinement, since a running task is forgotten.

- `OneRow`: `[]OneRowPerTask`.
- `EndsCounted`: `[]CountedOnce`.
- `GatewayImplementsLifecycle`: `Spec => Lifecycle!Spec`, the diagram and the one move
  outside it.

The code orders nothing here: a status may be replaced by any other. What orders
it is that a task has at most one request on its way, of the kind its status asks
for (`WayInv`, with `Awaited`); each handler takes one and sends at most one. A
card that can still be clicked belongs to a task that waits, with no other request
about it. Every step of the refinement follows from `Awaited` of the request that
is served.

Three theorems relate the gateway to its parts and to its liveness.

- `GatewayUsesQueue`: on the queue's variables, every step is one step of
  `QueueManager`, a stutter or a restart, which leaves an empty queue. The
  handlers of `Gateway` use the `Try...` operators and `UNCHANGED` only; the
  theorem says that this suffices, with everything else they do.
- `QueueCorrect`: hence everything proved of the queue alone, for callers that call
  anything in any order, holds of the queue inside the gateway, through restarts
  too. The invariant is the one of `QueueManagerProofs`, instantiated: its lemmas
  `InitOK` and `StepOK` are cited, not proved again.
- `RequestsGoForward`: a step that takes a request off the network takes one and
  puts at most one in its place, about the same task and of a later stage
  (`Stage`). This is the variant behind the fairness of `gateway_liveness`: what a
  message or a click sets off ends after at most nine requests. That requests are
  served at all is fairness, and stays with TLC.

`QueueManagerProofs`, `CallbackServerProofs` and `PeripheryProofs` share `SequenceFacts`: what
`RemoveFirst` and `InsertAt` do to a sequence, the least element of a set of
naturals, and the first occurrence.

Every safety and action property that a passing run checks is proved, and both
refinements. Model-checked only: the liveness properties `DecidedEnds`,
`SlotFreed`, `MessageClassified`, `PushEnds`, `WaitEnds`, `ExecutionReturns` and
`QueuedIsServed` (they need fairness and ENABLED, which are out of the prover's
reach).

## 5. Where code and documents disagree

- Two approved tasks are executed at the same time; the slot is no lock
  (`gateway_serial`).
- A deferred task can be in no queue: the refusal of `requeue_task` is ignored.
  `DeferredLostForAReason` says that it takes a decision other than a deferral,
  perhaps about another task.
- An unanswered card never times out at the gateway: the decision worker's timer
  drops its entry and tells nobody.
- A message id can be accepted again right after it was accepted, because an
  expired queue entry evicts the fresh cache entry. `ReacceptedForAReason`
  states exactly when.
- A rejected task becomes failed, with "Recording failed", once its rejection is
  recorded, where the documents have it completed (`gateway_rejected`); a
  timed-out one likewise. Both are counted twice.
- `clear_completed` can take a queued task out of the index; when its turn comes
  the slot is never freed again. `SlotFreedUnlessCleared` says that this is the
  only way to block it.
- The orchestrator's processor always raises (`decision_manager.config`,
  `Decision.LATER` do not exist), and its decision callback returns a bool that
  is awaited.
- The listener process never starts its listening loop and never awaits its
  push; the alert for consecutive failures counts checks, not failures.
- A decision that comes after a wait's last look at its entry is acknowledged and
  then overruled by the timeout: for Feishu in the last poll interval and whatever
  held the loop up, for WeChat between its look at the entry and the removal. The
  WeChat manager also returns a timeout when it reads an entry that is confirmed
  and has no decision yet. `AnswerInTimeCounts` gives the windows.
- `max_reminders: 3` sends at most one reminder.
- `cancel` of the executors stops no process, its status is overwritten by the
  end of the execution, and of two executions only one can be cancelled
  (`CancelReachesTheRunning`).
- The WebSocket client's `stop` leaves thread and connection as they are; a
  click is acknowledged before its handlers have run; the bridge does not
  replace a client whose connection has died.
- The filter remembers a text before it classifies it: what fails afterwards is
  refused as a duplicate when it is sent again. The analysis by a model is always
  discarded, because the worker's loop is running; and the router's fallback to
  the cloud never happens, because providers answer an error with an empty text.

## 6. Not modelled

Not modelled because nothing is decided there: message texts, prompts,
similarity measures, the recognition of tasks, the layout of cards and rows,
configuration, logging, read-only routes, metadata written by
`/execution/progress`, counters nobody reads. `try_dequeue_next` has no caller.

- `monitoring`: sequential counters and alerts, within reach of a unit test.
- `app`: cannot be imported, and its queue is never dequeued.
- `workflow_orchestrator`: its processor's shape only, for the reason given
  above.
- `wechat_listener/server.py`, `feishu_recorder/server.py`: they forward what
  they get; `parser.py` and the grouping of recognised lines decide what a
  message is, which the models take as given.
- A restart of the decision worker, which loses its table and its timers; the
  gateway accepts clicks with or without an entry, so that `TimerExpires`
  already stands for it.

What could be added: an abstract specification of a decision manager's wait that
both managers implement, and of the push of a message.

The runs are few on purpose: parts that share no state share a run.
