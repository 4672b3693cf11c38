# Codex task monitor: specifications, model checking and proofs

The program (`codex_task_monitor/`) is a local service that watches the tasks of
Codex, shows them in a browser and sends a private Feishu message when a watched
task completes, fails, is interrupted or waits for the user. It learns what
happens from three sources that disagree in timing and detail (polling App
Server, App Server's notifications, the session files on disk), keeps a small
SQLite database, and must neither miss nor repeat a message across races,
configuration changes and crashes. These modules model that behaviour, TLC checks
it on small instances, and TLAPS proves the central parts for every instance.

## 1. Inventory

### Components, their state and their operations

| Component (source) | State | Operations | Correct when |
|---|---|---|---|
| MonitoringService (`monitoring/service.py`) | last status seen per thread and turn | `start_watch`, `stop_watch`, `apply` | only watched turns notify, each event once |
| Delivery (`runtime.py` `_process_snapshot`, `test_notification`, `retry_notification`, `apply_config`, `stop`) | messenger in use, FIFO lock and its waiters | send, retry, test, swap, close | no duplicate, no send on a closed messenger, every row settled, last settings in use |
| Repository, Database (`storage/`) | tables `watches`, `notifications`, `manual_completions`, `task_snapshots` | one transaction per method | each commit atomic; rows survive a crash |
| TaskAggregator (`monitoring/aggregator.py`) | task, time of the latest turn event and orphan mark per thread; titles; lineage | `apply`, `is_stale_turn`, marks, visibility | turns do not move back; an end stays an end; a manual completion holds for its turn |
| RuntimeService (`runtime.py`) | three loops and their local variables | `start`, `refresh_once`, `observe_once`, `handle_notification`, manual completion, watches | what is shown and notified happened |
| App Server mapping (`codex_adapter/mapper.py`) | none | `map_thread`, `map_notification` | states and turns as Codex means them |
| AppServerClient (`codex_adapter/client.py`) | child process, pending futures, notification queue | `start`, `stop`, `request`, readers | every request ends; a response resolves its own request |
| SessionObserver, parser (`session_observer/`) | per file inode, offset, buffer, parser | scan, bootstrap, increment, parse | every complete record is read once and in order |
| Configuration (`config/`) | `config.yaml` | load, save, update | saved atomically; secrets kept |
| FeishuClient (`notifications/feishu.py`) | token and its expiry | `send_text`, `close` | bounded retries, no duplicate but for a lost answer |
| Web API, EventBroker (`web/`) | queues of the subscribers | routes, publish, stream | a slow browser harms nobody |
| Dashboard (`frontend/src/App.vue`) | tasks, connection | load, subscribe, reconnect, actions | converges to the server |
| Command line (`cli.py`) | `runtime.json`, the background process | start, stop, restart | at most one service, no other program signalled, true reports |

### Interaction

```
Codex App Server --responses, notifications--> AppServerClient --> refresh loop, notification loop
session *.jsonl  --file growth--------------> SessionObserver -> observer loop
   loops: is_stale_turn -> manual completion -> TaskAggregator.apply -> _process_snapshot
   _process_snapshot -> MonitoringService.apply -> notifications table -> lock -> FeishuClient
browser -> Web API -> watches, manual completion, retry, test message, configuration
```

Everything runs in one asyncio event loop. A handler is atomic from one await
that really suspends to the next: a request to App Server, the scan (a worker
thread), git (a child process), acquiring a contended lock, a call to Feishu,
closing a client. Publishing to the browser and the database calls do not
suspend. The hard behaviour comes from what happens at those awaits, from the
death of the process between two commits, and from sources that report the same
fact late, twice, incompletely or never. `PROJECT.json` lists the hazards with
their lines and the properties aimed at them.

## 2. Modules

| Module | Models | Extends |
|---|---|---|
| `TaskStatus` | the statuses and their classes (`models.py`, `service.py`) | |
| `Outbox` | abstract: what the notifications table promises | |
| `NotificationPipeline` | MonitoringService, delivery, configuration change, process death | `TaskStatus` |
| `MCPipeline` | instances for TLC | `NotificationPipeline` |
| `NotificationPipelineProofs` | theorems about `NotificationPipeline` | `NotificationPipeline`, `TLAPS` |
| `TaskAggregator` | the aggregator and the manual completion as operators on values | `TaskStatus` |
| `Runtime` | one thread, its sources, the three loops and the user | `NotificationPipeline`, `TaskAggregator` |
| `MCRuntime` | instances for TLC | `Runtime` |
| `RuntimeProofs` | theorems about `Runtime` | `Runtime`, `NotificationPipelineProofs`, `WellFoundedInduction`, `NaturalsInduction`, `TLAPS` |
| `AppServerClient` | the client and its App Server children, the refresh loop as its caller | |
| `AppServerClientProofs` | theorems about `AppServerClient` | `AppServerClient`, `SequenceTheorems`, `TLAPS` |
| `SessionParser` | records of a session file to events; the baseline of a long file, as operators on values | |
| `SessionObserver` | Codex writing one session file and the observer reading it | `SessionParser` |
| `SessionObserverProofs` | theorems about `SessionObserver` and `SessionParser` | `SessionObserver`, `SequenceTheorems`, `NaturalsInduction`, `WellFoundedInduction`, `TLAPS` |
| `CliLifecycle` | the commands start, stop, restart and the background service | |
| `CliLifecycleProofs` | theorems about `CliLifecycle` | `CliLifecycle`, `TLAPS` |
| `FeishuClient` | one message: token, renewal, three tries | |
| `Delivery` | the pipeline composed with the client it sends through | `NotificationPipeline`, `FeishuClient` |
| `MCDelivery` | instances for TLC | `Delivery`, `MCPipeline` |
| `DeliveryProofs` | theorems about `FeishuClient` and `Delivery` | `Delivery`, `NotificationPipelineProofs`, `TLAPS` |
| `Lineage` | continued threads: the pages of a listing, parents, hidden threads and their watches | |
| `MCLineage` | instances for TLC | `Lineage` |
| `LineageProofs` | theorems about `Lineage` | `Lineage`, `TLAPS` |
| `LiveView` | event broker, the list's route, and the page's connection | |
| `LiveViewProofs` | theorems about `LiveView` | `LiveView`, `FiniteSetTheorems`, `SequenceTheorems`, `TLAPS` |

Definitions whose comment starts with "Fault:" are deliberate mistakes, used only
to show that a property notices them.

### `NotificationPipeline`

| Variable | Code |
|---|---|
| `watch` | table `watches`, a record or `None` per thread |
| `note` | table `notifications`: state, and whether a body was saved |
| `saved` | version of the Feishu settings in the file |
| `last` | `MonitoringService._last_statuses` |
| `job`, `lockq` | what each loop or HTTP handler does with `_notifier_lock`; the lock's holder followed by its waiters |
| `notifier`, `closed` | `RuntimeService.notifier`, and which messengers were closed |
| `up` | the process runs |
| `sends`, `retries`, `stranded`, `stops` | history, read by properties and bounds only |

Snapshots are inputs: any of the constant `Observed`, in any order. `Reserve` is
`_process_snapshot` up to its first suspension: `apply`, the insert of the key,
the new state of the watch, the switches. It ends in the queue of the lock, in a
row that is settled as switched off, or, when the configuration does not load, in
an exception after the reservation. `StartSend` and `FinishSend` are the two
sides of `send_text`; `SwapNotifier` and `FinishSwap` those of `apply_config`.
`Crash` loses all memory; `CrashWhileReserving` dies between the commits of
`Reserve`; `Stop` is SIGTERM, which cancels the loops wherever they wait and
closes the messenger. `Restart` is the part of `start` that restores watches.

### `TaskAggregator` and `Runtime`

`TaskAggregator` defines `Apply`, `IsStaleTurn`, `Merge`, `MergedStatus`, the
marks, and `Accept`, the three calls every source makes for an event
(`_prepare_manual_completion`, `apply`, `_apply_manual_completion`).

In `Runtime`, Codex is external: `codex` is the list of what happened to the
thread, fact `n` at time `2n`; what the monitor stamps on receipt gets the odd
time after the latest fact. The loops appear as:

| Action | Code between two awaits |
|---|---|
| `List` | the answer to `thread/list` |
| `TakeRow` | the loop over the rows: orphan timeout, time window, whether details are needed |
| `ReadThread` | the answer to `thread/read`, or its failure, and the stale check |
| `AcceptSnapshot` | after git: manual completion, merge, `_process_snapshot` |
| `HandleNotification` | `handle_notification` as a whole |
| `Scan`, `MergeNext`, `ProcessNext` | `observe_once`: the scan, the merge of the whole batch, the processing of each collected snapshot |
| `Watch`, `Unwatch`, `MarkManualCompletion` | HTTP handlers |
| `Send` | the steps of `NotificationPipeline` under the lock |
| `RCrash`, `Start` | loss of memory; `start()` with App Server reachable or not |

`MergeNext` and `ProcessNext` run without letting anything else in
(`LoopFree`), except while the observer itself waits for the messenger: that
exception is where the stale batch comes from.

### `AppServerClient`

An action is what one asyncio task runs between two awaits. `call` says what a
caller waits for: `create_subprocess_exec`, the handshake's future or a request's
future, which is the entry in `_pending` until the caller goes on. All callers are
the refresh loop in the program as it is (`start`, `thread/list`, `thread/read`), so the
runs have one; the module allows more. `BeginStart`, `Spawn` and `Resume` are the
pieces of `start()`; `Timeout` is `wait_for`; `ReadLine` and `EndRead` are the loop and the
`finally` of `_read_stdout`, one reader per child that was ever started, because
`start()` replaces `_reader_task` without ending the old one. A child is external: it
answers, refuses, tells, asks (its requests carry ids of its own counting, which
the reader takes for responses) and dies; its exit is noticed later than it
happens, before or after the end of its output (`NoticeExit`, `EndRead`). `Stop` and
`FinishStop` are the two sides of `stop()`, after the loops were cancelled.
A future resolved keeps how (`answer`, `error`, or `nothing` by a request of the child's own,
which has no result) and which child wrote the line (`from`).

### `SessionParser` and `SessionObserver`

A record is a meta record of a thread or one of the types that tell a status; an
event is the position of the record it stands for. Sizes are in halves of a
record, so that a file may end, a chunk may stop and a tail may begin inside one.
`Parse` is `SessionParser.parse` on one record; its `boundary` is
`_pending_boundary_lifecycle`, kept only if it starts a turn, since nothing else is
ever replayed. `Baseline` is `_bootstrap`: everything of a short file, or the head's
parser, the tail, and the search from the end.

`Stat` and the read that follows are two actions (the scan runs in a thread, Codex
in another process). `Bootstrap` reads to the file's present end but sets the
cursor to the size seen before, with an empty buffer, as the code does.
`ReadIncrement` reads at most `MaxIncrement`; a record is understood if its first half
is in the buffer or in the chunk. `ReadFails` is an `OSError`.

### `CliLifecycle`

A command is a process of its own without any lock, so each of its system calls is
a step: reading `runtime.json` with the question to `ps` (`Look`, `Find`, `Verify`), the port
(`WaitForPort`), `Popen`, the file, a round of health checks (`WaitForHealth`, whose last
round gives up), the two signals. `cmd` is its program counter with its local `pid` and
child. The repeated probes of one wait are one step that may come out either way, and so are the
two questions of one round of health checks, whether the child has ended and whether it
answers (cli.py:393-400).
`restart` is a stop followed by a start (`EndStop`). `phase` says what a pid is: a service on
its way up, serving, on its way down, a process that is dead but not reaped, another
program. `ps` may fail or time out, which the code takes for a no; a service may
crash, find its port taken (uvicorn binds after the lifespan has started) or hang in
its shutdown, which is a `ShutDown` that does not come. A pid is not given out again
in the moment between a check and the signal it allows (`Reuse`).

### `FeishuClient`

One call at a time, as `_notifier_lock` guarantees (`NotificationPipeline`). `step` is the
await; `Post` is a request with one of the outcomes the code tells apart: taken
(answer heard, lost or malformed), lost or busy, refused, token rejected. `Renew` uses up a
try when it succeeds, as `continue` does in the code, and when its request is lost. The
history variable `wrong` says what went wrong last and at which step, in the server's
terms; whether the client tries again is decided by the actions, and whether it should
have is asked by the properties. A client that is not configured fails at once: which one
it is, is a choice of each call. It has no run of its own and is
checked as a part of `Delivery`.

### `Delivery`

The composition: whoever holds the notifier lock with a send is in exactly one call of
`send_text`. `Call` and `Return` are `StartSend` and `FinishSend` of the pipeline together
with the beginning and the end of the call, and the outcome of the call is what
`FinishSend` records; `CallGoesOn` is a request of the client, `TokenFades` what
the server and time do to the token, `Elsewhere` every action of the pipeline that has no
use for the messenger. `Replaced` (a new configuration) and `Death` bring a new client
without a token, and a process may die with a message on its way, which the server then
takes although nobody hears of it. `taken` and `missed` are history: how many messages of
a key the server took, and of how many of them the answer never came or made no sense.

### `Lineage`

`parents`, `listed` and `internal` are the aggregator's sets; `TakePage`, `EndListing` and
`BreakOff` are the requests of `refresh_once`, between which everything else runs; `Observe`
is the parent a session file names, and `Above` the walk up from a listed thread. The
server's order is abstracted to what is still behind the cursor, and `MoveUp` takes a
thread away from there. `Start` is `start()` with its listing, scan and `restore_watches`.

### `LiveView`

A list of tasks is a version number. `unsaid` is the interval in a handler between its
change and its `_publish_tasks`; `Answer` is the route of the list at any moment of its own;
`queue` has an `asyncio.Queue` per open stream. On the page, `fetch` is the request of
`loadInitial` (`load`) or of the timer (`again`), `timer` is `reconnectTimer`, `current` is
`eventSource`, and `patched` says that `replaceTask` merged an answer into the list since it
was last replaced as a whole. `Break` loses whatever was in the queue or on the way.

## 3. Runs

| Run | Instance | Shows |
|---|---|---|
| `pipeline` | 2 loops, 2 requests, a turn that waits and completes, all switches, 1 retry, 2 configuration changes, 1 death | no duplicate, one owner per pending row, no send on a closed messenger, the last settings win, sent is final, the table implements `Outbox` |
| `delivery` | 1 loop, 1 request, a turn that ends, 2 tries, 1 retry, 1 configuration change, 1 death | a message reaches the user again only where an answer was missed, the table tells what became of it, every pending row settles; duplicates of one call only for lost answers, what a retry may help is retried |
| `runtime_list` | polling and session file, 2 turns, 3 facts, 1 crash | inferred ends are silent, no turn moves back, an ended turn comes back only with a record read under an orphan mark and not beyond the end of the file, the runtime implements the pipeline |
| `runtime_notify` | notifications and session file, 2 turns, 3 facts, waits, 1 crash | manual completions agree with their record; without polling, ends hold against late and lost notifications |
| `client_calls` | 1 caller, 2 children, 3 requests, 2 notifications, 1 request of a child, a queue and a pipe of 1 | answers and refusals belong to requests, calls do not wait for a lost connection, the newest notification is kept, the loop reconnects |
| `session_cursor` | 2 files of up to 4 records, 2 threads, tail of 2 records, search over 3 | nothing new is skipped, repeated or missed; the baseline is the latest state; the observer catches up |
| `cli_commands` | 3 pids, 2 terminals, 3 commands, 1 fault | no stranger is signalled, `runtime.json` names the service, the reports are true |
| `lineage` | 3 threads with any parents, pages of 2, restarts | exactly the unlisted ancestors are hidden, and none of them is watched |
| `live_view` | queue of 3, 2 streams, 3 changes, 3 faults | one connection, the last list is not lost, the page converges |
| `runtime_old_turn`, `runtime_lost_end`, `runtime_idle_row` | polling and session file, the smallest instances | what the code does against its documents and tests, section 6 |

Bounds. The key of a notification names one thread and one turn, and nothing in
the pipeline relates two keys except the lock; one thread, one turn with up to
three snapshots and two loops already produce every pair of tasks on one key and
on the lock. Two configuration changes are what it takes for one to overtake
another; two requests and two loops make a queue of four. In `Runtime`, two turns
are what staleness needs, three facts let a turn end and another run. One crash
suffices because a process starts from durable state alone. In `Delivery`, what two loops
and two requests do to each other is left to `pipeline`: one loop and one request
replace each other's client and retry each other's message, and two tries (the code
has three) already make a first, a last and a message after a renewal. The three sources are checked in pairs, since
all of them together exceed what can be enumerated; the session file is in every
pair because it alone is always read.

In `AppServerClient`, two children are what a late reader needs, three requests let
each child shake hands and one call follow; a queue of one is full after the
first notification. In `CliLifecycle`, two terminals overlap, the third command meets what
two of them left, and three pids hold an old service, a new one and a stranger; the
single fault is a crash, a failed `ps` or an interrupted command. In `Lineage`, three threads
make a chain of ancestors and a page of two leaves one thread behind the cursor. In
`LiveView`, a queue of three with at most two other events between two lists makes both
cases happen, a full queue and a list that is kept. In `SessionObserver`, four records are the thread's meta record,
a replayed one and what surrounds the boundary; a second file shows what the
cursor of the first does to it.

`CHECK_DEADLOCK FALSE` in the runs of `Runtime`, `AppServerClient` and `SessionObserver`: when
the bounded lists of facts, requests or records are used up and everything is
read, the system really has nothing to do. The other runs check for deadlock.
`Symmetry` permutes the loops and the requests of `pipeline` and the threads of
`lineage`, runs without liveness.

Fairness. `DFairSpec` assumes weak fairness of what a task does once it is queued
on the lock, since asyncio wakes the next waiter, and of the client's next step, since httpx
bounds every request with a timeout. That `send_text` ends at all is not assumed: it
follows from the bounded tries. Nothing is assumed of the user, of crashes or of a
restart. `RFairSpec`, which only `runtime_lost_end` uses, assumes that the tasks on the
lock go on, that the observer loop scans again after each pause, which
`_observer_loop` does even after an exception, and that the refresh loop polls on. Both
loops load the configuration outside of their `try` (runtime.py:646, 669): one that does
not load at that moment ends them, which is excluded. `ClientFairSpec` assumes that the
refresh loop comes back to `start()` (it does after every exception of `start` or
`refresh_once`, with a bounded backoff), that futures and timers wake their tasks, and, strongly, that the command
can be executed when tried again and again; nothing is assumed of the children:
a silent child is left by the timeout. `ObserverFairSpec` assumes the next scan, and,
strongly, that a file that is tried again and again can be read.
`BSpec` assumes that requests are answered or fail, timers fire and handlers publish
what they changed, and that while App Server answers, the refresh loop publishes
after every pause (`refresh_once` ends with `_publish_tasks`). That the page comes to read a
list is strong fairness: the oldest events of its queue may be dropped over and over, but
refreshes are seconds apart and a page that reads at all reads between them. `Converges`
holds on condition that App Server answers from some time on, since nothing is
published for the sake of a page that subscribed too late.

## 4. Proofs

`NotificationPipelineProofs` proves, for any sets of threads, turns, requests,
loops and clients, any observed snapshots and any bounds:

- `TypeCorrect`: `Spec => []TypeOK`
- `NoDuplicateSend`, `OneOwner`, `MessengerIsOpen`, `ConfigConverges`: the four safety
  invariants of the pipeline's runs
- `SentStays`: `Spec => SentIsFinal`
- `ImplementsOutbox`: `Spec => KeepsPromise`, every step of the pipeline is a step of
  `Outbox` or leaves its variables alone

They follow from one inductive invariant, `IInv`, of four parts that need each
other. None of the properties is inductive by itself: that a key is sent at most
once more than it is retried says nothing of a task that waits for the lock with
a send to its credit. `LockInv` says that the queue holds exactly the tasks that
want the lock, each once, and that only its head runs; `OwnerInv` that a task
with a key owns that pending row alone; `SendInv` that a task still queued has
one send to its credit and that a key not in the table has never been sent;
`ConfigInv` that queued replacements are newer than the messenger in use, queued
in the order they were saved, and that everything closed is older. Each part has
a lemma per group of actions, and `Invariance` combines them.

The assumptions are the named ASSUMEs of `NotificationPipeline`: observed snapshots
and switches are of their types, loops and clients are different tasks, `None` is
no status and no key, the bounds are natural numbers.

`AppServerClientProofs` proves, for any callers, any number of children, requests and
notifications, and any size of the queue, the four safety invariants of
`client_calls`: `ClientTypeCorrect`, `AnswersMatch`, `CallsAreServed` and `NewestStays`. The
inductive invariant `CInv` adds two parts. `IdInv`: whoever owes a reply (the request is in
its inbox or the reply in its pipe) owes it to an id already given, and if a call
still waits under that id, the child is the call's own. This needs `_next_id` to go on
counting across children, which is what makes a late answer harmless. `ServedInv`: a
connection that is initialized is read, a handshake is with the child in use, only
the starter shakes hands, and the service is not stopping while it is up. The
last is what makes `EndRead` fail the calls whenever there is one to fail.
`NewestIsKept` is inductive with the types alone. `ServedStep`, `IdStep` and the like treat
one action each.

The assumptions: the starter is a caller, the bounds are natural numbers, the queue
has room for one, and `None` is neither a number nor a call.

`AnswersItsRequest` is about answers and refusals. The number of a request that a child makes
of its own may be that of any call, and then the call ends with nothing (client.py:194);
that is not proved away, and section 6 tells what it does to a handshake. Neither does `WaitingIsServed` say
that a call is never failed by the reader of a previous child, which happens (section 6).

`CliLifecycleProofs` proves, for any pids, terminals and bounds, `StrangersNeverSignalled` and
what the user may rely on: `FileAlwaysNamesService`, `StartReportsAreTrue`, `StopReportsAreTrue`. For
the first, a verified pid cannot become a stranger's before the signal, which `Reuse` states
of the system; the child of a start that gives up cannot either, because a pid stays taken
until its parent has asked for it, and each child has one parent at most (`OneParent`,
the strengthening that makes the invariant inductive). For the others, `CalmInv` says what a
command that is alone knows at each of its steps (`Sound`): that the pid it works on is the
recorded one up to the signal, that no service is left after it, that nothing else serves
while a start waits for its child. `FileNamesService` by itself says nothing of a command
that runs and is not inductive. `ChildInv` holds with commands at the same time as well: a
start that fails has told its child, whoever interferes.

`DeliveryProofs` proves, for any number of tries and any instance of the pipeline,
`NoNeedlessDuplicate` and `TransientRetried` of one call, and `DeliversOnce` and
`OutcomesAreTrue` of all that happens to a key. As long as a call is in progress every
message that was taken is one whose answer was lost, and the messages posted are the
tries used (`Unfinished`); `Counted` bounds the counters. `TransientRetried` asks of a call
that failed what its last error was. An error that a retry may help (`Transient`: a message or
a renewal lost, a server busy at a message, a token rejected once) then came at the
last try; after a refusal or an answer that cannot be read nothing is tried. What
`Transient` leaves out is what the code does not retry: any error of the first token and a
server busy at a renewal, against the documentation (section 6).

For all calls of a key, `Balanced` says that every message taken was missed but the
one of a row that is sent, of a call that is about to report success, or of a row whose
process died before it could. It needs three
things of the pipeline's `IInv`, which `PipelineStep` keeps across each of the
composition's steps: a key with a call in progress has a pending row, no other task owns
that row, and a row that is sent is never sent again. That a call can only report what
it has heard (`Counted`) closes the argument.

`LiveViewProofs` proves `OneConnectionHolds` and `NewestStaysQueued` for any streams and any
capacity of the queue. A page that is mounted waits for exactly one of three things, its
timer, one request, or the stream it knows of (`OneWay`); each of them only gives way to
the next, which is why two connections never meet. For the queue (`QueueInv`), the newest
list has a position, nothing after it is a list, and there are no more events after it
than were published since; dropping the oldest event moves the position by one and cannot
reach it while these are fewer than the queue holds.

`LineageProofs` proves `HiddenNeverWatched` and `HiddenAlwaysRight` for any finite set of
threads, any parents, cycles included, and any page size. The first is inductive as it
stands, because whatever hides a thread ends its watch in the same step. The second is about
what `_reconcile_internal_threads` computes: `Above` climbs from a thread by recursion, the
property speaks of paths of parents. `ClimbMeets` shows by the smallest counterexample that n
steps of the climb meet the threads at most n parents away, so that `AboveIsReached` can
replace one by the other. The invariant `HiddenInv` adds that a known parent is the one the
session file names: known parents never change while the process runs, so a path that
made a thread an ancestor stays one (`WaysStay`). `StillInv` says that a thread that kept its
place has been listed or is yet to come.

`RuntimeProofs` proves, for any facts, turns and requests, any number of them, any loops
and any switches:

- `RuntimeTypes` and `ManualCompletionAgrees`: the card is marked exactly while the record
  of the manual completion stands, and both name the same turn
- `OnlyRecordsReviveTurns`: with all the sources, a turn that is shown as ended is shown as
  active again only by a record of the session file that is merged under the mark of the
  orphan timeout, and that takes the mark away. The mark may be left over from before an
  end that App Server told: then the step is wrong (section 6). Excluded
  are completions declared while the turn was unknown, which takes four facts to show
- `EndedTurnsStayEnded`: where nothing is polled (`refresh \notin Loops`, as in
  `runtime_notify`) there is never a mark, and a turn that ended is not shown as active again
- `RuntimeImplementsPipeline`: every action of `Runtime` contains an action of
  `NotificationPipeline` or leaves its variables alone. The theorems of the pipeline
  therefore hold of the runtime; `RuntimeNotifiesOnce` draws the first

- `TurnMovesBackOnlyByLateNotification`: with all the sources, the turn shown gives way to
  an earlier one only when the notification of a turn that goes on is handled, which
  is stamped on receipt, however late
- `TurnsOnlyMoveForward` and `FailuresAreNotInferred`: without notifications (`listener \notin Loops`,
  as in `runtime_list`) the turn shown never moves back, and no notification tells of a
  failure that did not happen
- `NotificationsTellTheTruth`: with the session file alone (`Loops = {observer}`) every
  notification names a turn and its own end or request; with polling, `runtime_idle_row`
  shows that the formula is violated

The hypotheses on `Loops` are no convenience: with polling, the orphan mark breaks
`EndedTurnStaysEnded` (section 6) and `runtime_idle_row` refutes `NotificationsAreTrue`. A late notification does show an old turn
again (hazards, aggregator.py:112), and a row of the list carries a status without a turn,
so that it may be told under an older one.

The inductive invariant `RInv` has three parts: the types, `Agree` of card and record, and
that only a thread that exists is polled. Marking, clearing and merging keep `Agree` each by
a lemma about the operators of `TaskAggregator` (`MarkType`, `ClearType`, `AcceptType`), so
that an action is only a composition of them; there is one lemma per action, which shows the
invariant and the pipeline's step together. `Bootstrap` reads a whole file, by recursion
over its records. That such a function exists and that its values are of their type is shown
by the smallest counterexample (`Smallest`, from `WFMin`), since the theorem of induction takes
an operator. The assumptions are those of the pipeline, that every snapshot may be observed,
that the number of facts is bounded, that times are numbers, that `None` is no task and
no record, and that a request has an id that is no status (`RequestNamesAssumption`).

Four more invariants lead to the theorems on turns, failures and truth. `OrderInv`: facts come in
the order of their turns, and what the view shows is not dated before its turn began, so
that an event of an older turn is stale (`OlderIsStale`). `FollowInv`: without notifications
the view has caught up with the records read, and is not dated after the next turn began, so
that only events of older turns are stale (`StaleIsOlder`) and a record without a status
merges into its own turn. `FailInv`: a failure shown that did not happen is an orphan's, and
nobody watches it; one polled, waiting in a batch or reserved did happen. The pipeline's
`OwnerInv` is needed here, since a batch outlives the view it was taken from. `TellInv`
says of ends and requests what `FailInv` says of failures. The facts are a parameter
of all these predicates, so that lemmas say what a step adds to them.

`SessionObserverProofs` proves `ReadingGoesOn` (`ReadsOn`) for any file, any bound on a read
and any number of replacements. Nothing about the contents is needed: `CursorOK` says that the
cursor of the present file stands between the baseline and the end, and that the buffer
holds half a record exactly when the offset is in the middle of one, except at the baseline,
where the code starts with an empty buffer. This exception is why one record, the one being
written at the baseline, is never read, and why `FirstCompleteNext` finds the next record
after what has been read in each of the three cases. `FreshOK` says the same of the records
read. A cursor of an earlier file never becomes one of the present file (`ScanOK`).

The other theorems are about what the records say. `ParseFrom` and
`FindLatestCanonicalLifecycle` are recursive functions; `ParseInduction` and
`SearchInduction` are induction rules for the two, for a set of states per record instead of
an operator, each proved once by the smallest counterexample. `EventsTo` and `Pending`
restate the reference definition `Events` one record at a time (`EventsNext`, `PendingNext`).

- `ObserverTypes`: `ObserverTypeOK`. That every remembered position is one of a record needs
  that a read parses no further than the present file, also where the scan was of
  another one.
- `SearchAlwaysAgrees`: `SearchAgrees`. The invariant of the search (`Looked`) says, of the
  records behind it: `following` is the thread of the next meta record, the candidate
  is the last lifecycle record before it, and no lifecycle record beyond that meta record
  is an event of the thread.
- `BaselineAlwaysLatest`: `BaselineIsLatest`. A parser that knows the thread and the section
  is `Exact`: what it told are the events from where it began, and its boundary is the turn
  that waits for its meta record.
- `NothingIsMissed`: `NothingMissed`, which is far from inductive. The baseline reads to the
  end the file has by then, while the cursor goes back to the size seen before, so the
  next reads parse records the parser is already past; and a tail that begins in an
  ancestor's section is taken for the thread's own. `Follows` says what stays true of such
  a parser: a section of the thread's own is never taken for another's, as of the
  record read or, up to the first meta record, as of the end the baseline reached; every
  event up to there is told; a turn that waits is either told or is the boundary
  of a parser that is in another's section. Guessing the thread's own section is the safe
  side here: it tells too much and never too little.

The last two have the hypotheses `HeadSize >= 2` and `TailSize >= 2`: the head holds the
whole first record and the tail a newline. The code's sizes are 1 MiB and 2 MiB
(observer.py:54) and nothing enforces them; without a meta record in the head the
parser does not know its thread, tells nothing of a long file until a meta record comes,
and takes that one for its own.
The assumptions: `Child` is a thread, `None` is not, meta records have a type of their own,
there is at least one file, and the bounds are natural numbers.

Every safety invariant and every action property of a passing run is a theorem, but for
`FileHasLastWord` (when the session file has been read to its end, no ended turn is shown
as active), which is only model-checked. So are the liveness properties
`PendingSettles`, `Reconnects`, `CatchesUp` and `Converges`, which rest on fairness and are out
of the prover's reach.

## 5. What is not modelled

See "components" in `PROJECT.json`. In short: texts and layout (titles, summaries,
redaction), host checks and headers, the schema files, the installer. Within what is
modelled:

- `Runtime`: one thread, no systemError state of a thread, no disk errors in the database,
  no handler that fails, and time only as an order. Its session file is one, in order and
  there from the start. So `Scan` leaves out the cutoff for old events and the sort of the
  events of several files (runtime.py:256-263); `ProcessNext` leaves out the branch for the
  baseline of a file found later, which notifies nobody and ends the watch of an ended turn
  (runtime.py:284-300); `SessionEvent` leaves out the meta record, an event without news
  (parser.py:101-107) that revives an orphan too: here the next record does. `RCrash` is a
  death between two batches or while a batch waits for the messenger; deaths between the
  commits of one reservation are `CrashWhileReserving` in `NotificationPipeline`, those
  between the other commits of a batch (runtime.py:265-300) are left out.
- `AppServerClient`: the timeout covers the wait for an answer, as in the code; that the
  write before it (client.py:174) may block on a child that reads nothing is left out.
- `SessionObserver`: one file at a time, no discovery. A replaced file has an inode of its own;
  an inode used again, or a file truncated in place that has grown past the old offset, is
  taken for the same file by the code (observer.py:86-90) and left out. `CatchesUp` says that
  the cursor comes to the end and no more. `NothingMissed` and `BaselineIsLatest` say
  what their preconditions leave out: a file found while a record is half written, one that
  could not be read at first, and a tail that begins in an ancestor's section, where the
  code guesses that it is the thread's own (tests/integration/test_session_observer.py:97
  wants it so). The order of a request for input against an older lifecycle record found by
  the search is not stated.
- `CliLifecycle`: one configuration. `ps` tells a service by its command line alone, so the
  service of another configuration under a used-again pid would pass for this one. No
  errors of the disk.
- `Lineage`: what a thread does; the order of the listing is only what lies behind the
  cursor; a thread is listed or not, whatever its recency. An event too old or of a stale
  turn teaches no parent (runtime.py:261, 266): that is a step of `Observe` not taken, and
  nothing forces one.
- `LiveView`: the tasks of a list, the health shown beside it and the user's selection, so
  that a details panel left open with old contents (App.vue:468) is not noticed; one page,
  since subscribers do not affect each other.

## 6. Where the code and its documents disagree

Each is a run that TLC must find violated; `PROJECT.json` quotes the line in "findings".

- `runtime_old_turn`: a polled snapshot that passed the stale check before git was
  asked deletes the manual completion of a newer turn
  (tests/integration/test_runtime.py:424).
- `runtime_lost_end`: polling shows the next turn before the end of the watched one has been
  read; the end is dropped as stale, nobody is told and the watch never ends
  (README.md:4, tests/unit/test_monitoring_service.py:54).
- `runtime_idle_row`: an idle row of the listing is taken for the completion of the turn
  shown, be it one that was interrupted or failed (README.md:4).

Seen while modelling, and not kept as runs:

- The mark of the orphan timeout outlives an end that App Server told, and
  an older record of the session file then shows the turn as running
  (monitoring/aggregator.py:52, 339). The card is right again once the end is read from the
  file (`FileHasLastWord`).
- Snapshots collected before the user ended the turn are still notified
  (tests/integration/test_runtime.py:1119 wants the turn's notifications suppressed).
- `restore_watches` looks at the thread's status only, so the watch of a turn
  that ended while the monitor was down stays active when a newer turn runs (README.md:219
  says only what is still running or waiting is restored).
- A request of the child under the number of the pending handshake is
  taken for its answer, and the handshake counts as done (codex_adapter/client.py:145, 194).
- Network errors, rate limits and server errors at the first token, and
  rate limits and server errors at a renewal, are not retried (README.md:257).
- A manual completion recorded while the turn is unknown covers whatever turn is seen next
  until a start time later than the completion is seen
  (tests/integration/test_runtime.py:1203 wants the later start to end it); meanwhile the
  next turn counts as ended.
- A child whose handshake timed out is left running with its reader; when that reader
  ends, the client declares the connection of the child in use lost and fails its calls
  (codex_adapter/client.py:41, 202).
- The line being written when a session file is found is dropped in two halves; if it is
  an ancestor's meta record, the ancestor's completion becomes the thread's
  (tests/unit/test_session_parser.py:200, tests/integration/test_session_observer.py:352).
- A server error of Feishu whose body is not JSON is final, although README.md:257 says
  server errors are retried.
- `stop` takes a `ps` that fails or times out for a stale record: it removes `runtime.json` and
  leaves the service running, unknown to later commands. `FileNamesService` excludes this
  with `calm`.
- `POST /api/tasks/{id}/watch` answers an ended turn with an internal error, because
  web/api.py:53 expects only the `KeyError` of `start_watch` and not its `ValueError`.

## 7. Plan

1. Disk failures in handlers and loops; several session files and their discovery.
2. The queue of notifications between `AppServerClient` and `Runtime`, so that a request that
   is handled late can be stamped late.
