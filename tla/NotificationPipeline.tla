------------------------ MODULE NotificationPipeline ------------------------
(***************************************************************************)
(* From a task snapshot to a delivered notification.                       *)
(*                                                                         *)
(* MonitoringService decides whether a snapshot is news, the notifications *)
(* table reserves its idempotency key, RuntimeService._process_snapshot    *)
(* applies the notification switches and sends under the FIFO asyncio.Lock *)
(* that guards the messenger, while HTTP handlers retry failed             *)
(* notifications, send a test message, replace the messenger after a       *)
(* configuration change and start or stop watches.                         *)
(*                                                                         *)
(* One asyncio event loop runs everything, so a handler is atomic between  *)
(* two awaits that really suspend: acquiring the lock, sending, closing    *)
(* the old messenger.  The database, the configuration file and the remote *)
(* receiver survive a crash; everything else does not.                     *)
(*                                                                         *)
(* The snapshots are inputs here, any of Observed in any order: what the   *)
(* sources and the aggregator can produce is the subject of Runtime.tla.   *)
(***************************************************************************)
EXTENDS TaskStatus, Naturals, Sequences, FiniteSets

CONSTANTS
  Threads, Turns, Requests,  \* identities
  Loops,                     \* background tasks that process snapshots
  Clients,                   \* HTTP requests being handled
  Observed,                  \* the snapshots the sources may deliver
  Gates,                     \* what the configuration may decide (GateKinds)
  MaxRetries,                \* bound: explicit retries of one key
  MaxSaves,                  \* bound: configuration saves
  MaxStops                   \* bound: process ends (crash or stop)

Snapshots == [thread : Threads, turn : Turns \cup {None},
              status : Statuses, request : Requests \cup {None}]

Modes == {"current_turn", "persistent"}

DedupeKey(s) ==
  <<s.thread, s.turn,
    IF s.status \in Waiting /\ s.request # None THEN s.request ELSE s.status>>

(* The idempotency keys the observed snapshots can ask for. *)
Keys == {DedupeKey(s) : s \in {x \in Observed : x.status \in Waiting \cup Terminal}}

(* send: automatic notifications are on; status_off: this status is        *)
(* switched off; all_off: automatic notifications are off; unreadable: the *)
(* file on disk does not load (it was edited by hand).                     *)
GateKinds == {"send", "status_off", "all_off", "unreadable"}

Procs == Loops \cup Clients

ASSUME ObservedAssumption == Observed \subseteq Snapshots
ASSUME GatesAssumption == Gates \subseteq GateKinds
ASSUME ProcsAssumption == Loops \cap Clients = {}
ASSUME NoneAssumption == None \notin Statuses /\ None \notin Keys
ASSUME BoundsAssumption ==
  MaxRetries \in Nat /\ MaxSaves \in Nat /\ MaxStops \in Nat

VARIABLES
  watch,     \* durable: [Threads -> watch record or None]
  note,      \* durable: [Keys -> [state, text]], text: a body was saved
  saved,     \* durable: version of the messenger settings in the file
  last,      \* memory: last status seen per thread and turn, or None
  job,       \* memory: what each process is doing with the messenger
  lockq,     \* memory: the lock's holder, then its waiters in order
  notifier,  \* memory: the messenger in use, named by its settings' version
  closed,    \* memory: messengers that were closed
  up,        \* the process runs
  sends,     \* history: send_text calls made for a key
  retries,   \* history: explicit retries granted for a key
  stranded,  \* history: keys whose process died or failed before settling
  stops      \* history: process ends so far

vars == <<watch, note, saved, last, job, lockq, notifier, closed, up,
          sends, retries, stranded, stops>>
durable == <<watch, note, saved>>
history == <<sends, retries, stranded, stops>>
messenger == <<notifier, closed>>

----------------------------------------------------------------------------
(* Records *)

Watches == [mode : Modes, turn : Turns \cup {None}, base : Statuses,
            active : BOOLEAN]
Notes == [state : {"absent", "pending", "failed", "sent"}, text : BOOLEAN]
NoNote == [state |-> "absent", text |-> FALSE]

Versions == 0 .. MaxSaves
Jobs == [kind : {"idle", "notify", "retry", "test", "config"},
         phase : {"queued", "running"},
         key : Keys \cup {None}, version : Versions]
Idle == [kind |-> "idle", phase |-> "queued", key |-> None, version |-> 0]
Job(kind, key, version) ==
  [kind |-> kind, phase |-> "queued", key |-> key, version |-> version]

(* The keys the live processes have yet to settle. *)
HeldKeys(P) == {job[p].key : p \in P} \ {None}

----------------------------------------------------------------------------
(* MonitoringService *)

(* The watch admits the snapshot. *)
Watched(s) ==
  LET w == watch[s.thread] IN
  /\ w # None
  /\ w.active
  /\ w.mode = "current_turn" => s.turn = w.turn

(* The status differs from the baseline the watch was saved with, or this  *)
(* process has seen the turn before: then only the key tells news apart.   *)
DiffersFromBaseline(s) ==
  \/ last[<<s.thread, s.turn>>] # None
  \/ s.turn # watch[s.thread].turn
  \/ watch[s.thread].base # s.status

(* Fault: the key is not looked up before it is reserved. *)
IsNewsWithoutLookup(s) ==
  /\ DiffersFromBaseline(s)
  /\ s.status \in Waiting \cup Terminal

IsNews(s) ==
  /\ DiffersFromBaseline(s)
  /\ s.status \in Waiting \cup Terminal
  /\ note[DedupeKey(s)].state = "absent"

Remember(s) == last' = [last EXCEPT ![<<s.thread, s.turn>>] = s.status]

(* Fault: turn and status are swapped in the call to save_watch. *)
WatchAfterSwapped(s) ==
  LET w == watch[s.thread] IN
  IF s.status \in Terminal /\ w.mode = "current_turn"
  THEN [w EXCEPT !.active = FALSE]
  ELSE [w EXCEPT !.turn = s.status, !.base = s.turn]

(* The watch after a reservation: a finished turn ends its watch, any      *)
(* other event becomes the new baseline.                                   *)
WatchAfter(s) ==
  LET w == watch[s.thread] IN
  IF s.status \in Terminal /\ w.mode = "current_turn"
  THEN [w EXCEPT !.active = FALSE]
  ELSE [w EXCEPT !.turn = s.turn, !.base = s.status]

(* Fault: a status that is switched off is skipped without being settled. *)
NoteAfterSkipped(gate) ==
  [state |-> IF gate = "all_off" THEN "failed" ELSE "pending",
   text |-> gate \in {"send", "all_off"}]

(* What _process_snapshot has written when it starts to wait for the lock, *)
(* or has given the notification up.                                       *)
NoteAfter(gate) ==
  [state |-> IF gate \in {"send", "unreadable"} THEN "pending" ELSE "failed",
   text |-> gate \in {"send", "all_off"}]
----------------------------------------------------------------------------
(* Initial state: an empty database, the process just started. *)

Init ==
  /\ watch = [t \in Threads |-> None]
  /\ note = [k \in Keys |-> NoNote]
  /\ saved = 0
  /\ last = [x \in Threads \X (Turns \cup {None}) |-> None]
  /\ job = [p \in Procs |-> Idle]
  /\ lockq = <<>>
  /\ notifier = 0
  /\ closed = {}
  /\ up = TRUE
  /\ sends = [k \in Keys |-> 0]
  /\ retries = [k \in Keys |-> 0]
  /\ stranded = {}
  /\ stops = 0

----------------------------------------------------------------------------
(* Watches chosen by the user, and watches the runtime ends.               *)

StartWatch(s, mode) ==
  /\ up
  /\ s.status \in Active
  /\ s.turn # None
  /\ watch' = [watch EXCEPT ![s.thread] =
                 [mode |-> mode, turn |-> s.turn, base |-> s.status,
                  active |-> TRUE]]
  /\ Remember(s)
  /\ UNCHANGED <<note, saved, job, lockq, messenger, up, history>>

Deactivate(t) ==
  /\ up
  /\ watch[t] # None
  /\ watch' = [watch EXCEPT ![t].active = FALSE]
  /\ UNCHANGED <<note, saved, last, job, lockq, messenger, up, history>>

----------------------------------------------------------------------------
(* A background task hands a snapshot to _process_snapshot.                *)

(* The snapshot is no news: only the last status seen moves. *)
Observe(p, s) ==
  /\ up
  /\ job[p] = Idle
  /\ s.status # "manually_completed"
  /\ Watched(s)
  /\ ~ IsNews(s)
  /\ Remember(s)
  /\ UNCHANGED <<durable, job, lockq, messenger, up, history>>

(* The snapshot is news: its key is reserved, the watch moves on, and the  *)
(* switches decide.  Without a readable configuration the handler raises   *)
(* and nobody settles the key.                                             *)
Reserve(p, s, gate) ==
  /\ up
  /\ job[p] = Idle
  /\ Watched(s)
  /\ IsNews(s)
  /\ LET k == DedupeKey(s) IN
     /\ note' = [note EXCEPT ![k] = NoteAfter(gate)]
     /\ IF gate = "send"
        THEN /\ job' = [job EXCEPT ![p] = Job("notify", k, 0)]
             /\ lockq' = Append(lockq, p)
        ELSE UNCHANGED <<job, lockq>>
     /\ stranded' = IF gate = "unreadable" THEN stranded \cup {k} ELSE stranded
  /\ watch' = [watch EXCEPT ![s.thread] = WatchAfter(s)]
  /\ Remember(s)
  /\ UNCHANGED <<saved, messenger, up, sends, retries, stops>>

----------------------------------------------------------------------------
(* HTTP handlers that need the messenger.                                  *)

Enqueue(p, j) ==
  /\ job[p] = Idle
  /\ job' = [job EXCEPT ![p] = j]
  /\ lockq' = Append(lockq, p)

(* Fault: what was sent may be retried as well. *)
RetryEvenSent(c, k) ==
  /\ up
  /\ note[k].state \in {"failed", "sent"} /\ note[k].text
  /\ retries[k] < MaxRetries
  /\ Enqueue(c, Job("retry", k, 0))
  /\ note' = [note EXCEPT ![k] = [state |-> "pending", text |-> TRUE]]
  /\ retries' = [retries EXCEPT ![k] = @ + 1]
  /\ UNCHANGED <<watch, saved, last, messenger, up, sends, stranded, stops>>

(* POST /api/notifications/{id}/retry: only a failed notification with a   *)
(* saved body becomes pending again.                                       *)
Retry(c, k) ==
  /\ up
  /\ note[k] = [state |-> "failed", text |-> TRUE]
  /\ retries[k] < MaxRetries
  /\ Enqueue(c, Job("retry", k, 0))
  /\ note' = [note EXCEPT ![k] = [state |-> "pending", text |-> TRUE]]
  /\ retries' = [retries EXCEPT ![k] = @ + 1]
  /\ UNCHANGED <<watch, saved, last, messenger, up, sends, stranded, stops>>

(* POST /api/notifications/test *)
SendTest(c) ==
  /\ up
  /\ Enqueue(c, Job("test", None, 0))
  /\ UNCHANGED <<durable, last, messenger, up, history>>

(* Fault: the replacement is built from the file as it was before. *)
SaveConfigLoadsFirst(c) ==
  /\ up
  /\ saved < MaxSaves
  /\ saved' = saved + 1
  /\ Enqueue(c, Job("config", None, saved))
  /\ UNCHANGED <<watch, note, last, messenger, up, history>>

(* PUT /api/config with a feishu section: the file is saved and the        *)
(* replacement built from it before the handler waits for the lock.        *)
SaveConfig(c) ==
  /\ up
  /\ saved < MaxSaves
  /\ saved' = saved + 1
  /\ Enqueue(c, Job("config", None, saved'))
  /\ UNCHANGED <<watch, note, last, messenger, up, history>>

----------------------------------------------------------------------------
(* Under the lock.                                                         *)

HasLock(p) == lockq # <<>> /\ lockq[1] = p

Release(p) ==
  /\ job' = [job EXCEPT ![p] = Idle]
  /\ lockq' = Tail(lockq)

(* The holder calls send_text, or swaps the messenger and starts to close  *)
(* the previous one.                                                       *)
StartSend(p) ==
  /\ up
  /\ HasLock(p)
  /\ job[p].phase = "queued"
  /\ job[p].kind # "config"
  /\ job' = [job EXCEPT ![p].phase = "running"]
  /\ sends' = IF job[p].key = None THEN sends
              ELSE [sends EXCEPT ![job[p].key] = @ + 1]
  /\ UNCHANGED <<durable, last, lockq, messenger, up, retries, stranded, stops>>

SwapNotifier(p) ==
  /\ up
  /\ HasLock(p)
  /\ job[p].phase = "queued"
  /\ job[p].kind = "config"
  /\ notifier' = job[p].version
  /\ job' = [job EXCEPT ![p].phase = "running", ![p].version = notifier]
  /\ UNCHANGED <<durable, last, lockq, closed, up, history>>

(* Fault: a failed notification is deleted. *)
FinishSendDeletes(p, outcome) ==
  /\ up
  /\ HasLock(p)
  /\ job[p].phase = "running"
  /\ job[p].kind # "config"
  /\ note' = IF job[p].key = None THEN note
             ELSE [note EXCEPT ![job[p].key] =
                     IF outcome = "failed" THEN NoNote ELSE [@ EXCEPT !.state = outcome]]
  /\ Release(p)
  /\ UNCHANGED <<watch, saved, last, messenger, up, history>>

(* send_text returned or raised; the lock is released and the outcome      *)
(* recorded without another suspension.                                    *)
FinishSend(p, outcome) ==
  /\ up
  /\ HasLock(p)
  /\ job[p].phase = "running"
  /\ job[p].kind # "config"
  /\ note' = IF job[p].key = None THEN note
             ELSE [note EXCEPT ![job[p].key].state = outcome]
  /\ Release(p)
  /\ UNCHANGED <<watch, saved, last, messenger, up, history>>

(* Fault: the new messenger is closed instead of the previous one. *)
FinishSwapClosesNew(p) ==
  /\ up
  /\ HasLock(p)
  /\ job[p].phase = "running"
  /\ job[p].kind = "config"
  /\ closed' = closed \cup {notifier}
  /\ Release(p)
  /\ UNCHANGED <<durable, last, notifier, up, history>>

FinishSwap(p) ==
  /\ up
  /\ HasLock(p)
  /\ job[p].phase = "running"
  /\ job[p].kind = "config"
  /\ closed' = closed \cup {job[p].version}
  /\ Release(p)
  /\ UNCHANGED <<durable, last, notifier, up, history>>

----------------------------------------------------------------------------
(* The process ends, and a new one starts.                                 *)

Die ==
  /\ up
  /\ stops < MaxStops
  /\ up' = FALSE
  /\ stops' = stops + 1
  /\ last' = [x \in DOMAIN last |-> None]
  /\ job' = [p \in Procs |-> Idle]
  /\ lockq' = <<>>

Crash ==
  /\ Die
  /\ stranded' = stranded \cup HeldKeys(Procs)
  /\ UNCHANGED <<durable, messenger, sends, retries>>

(* SIGKILL between two commits of _process_snapshot: the key is reserved,  *)
(* the watch may not have moved and the body may not be there.             *)
CrashWhileReserving(p, s) ==
  /\ Die
  /\ job[p] = Idle
  /\ Watched(s)
  /\ IsNews(s)
  /\ \E watchSaved, textSaved \in BOOLEAN :
       /\ textSaved => watchSaved
       /\ note' = [note EXCEPT ![DedupeKey(s)] =
                     [state |-> "pending", text |-> textSaved]]
       /\ watch' = IF watchSaved
                   THEN [watch EXCEPT ![s.thread] = WatchAfter(s)]
                   ELSE watch
  /\ stranded' = stranded \cup HeldKeys(Procs) \cup {DedupeKey(s)}
  /\ UNCHANGED <<saved, messenger, sends, retries>>

(* SIGTERM: the server finishes its HTTP requests, then cancels the loops  *)
(* wherever they are suspended and closes the messenger.                   *)
Stop ==
  /\ Die
  /\ \A c \in Clients : job[c] = Idle
  /\ stranded' = stranded \cup HeldKeys(Procs)
  /\ closed' = closed \cup {notifier}
  /\ UNCHANGED <<durable, notifier, sends, retries>>

(* The watches whose thread is still active in what the sources report at  *)
(* start, or was manually completed under a persistent watch.              *)
Resumable(t, status) ==
  \/ status \in Active
  \/ status = "manually_completed" /\ watch[t].mode = "persistent"

Restart(status) ==
  /\ ~ up
  /\ up' = TRUE
  /\ watch' = [t \in Threads |->
                 IF watch[t] # None /\ ~ Resumable(t, status[t])
                 THEN [watch[t] EXCEPT !.active = FALSE]
                 ELSE watch[t]]
  /\ notifier' = saved
  /\ closed' = {}
  /\ UNCHANGED <<note, saved, last, job, lockq, history>>

----------------------------------------------------------------------------

Next ==
  \/ \E s \in Observed, mode \in Modes : StartWatch(s, mode)
  \/ \E t \in Threads : Deactivate(t)
  \/ \E p \in Loops, s \in Observed : Observe(p, s)
  \/ \E p \in Loops, s \in Observed, gate \in Gates : Reserve(p, s, gate)
  \/ \E c \in Clients, k \in Keys : Retry(c, k)
  \/ \E c \in Clients : SendTest(c)
  \/ \E c \in Clients : SaveConfig(c)
  \/ \E p \in Procs : StartSend(p)
  \/ \E p \in Procs : SwapNotifier(p)
  \/ \E p \in Procs, outcome \in {"sent", "failed"} : FinishSend(p, outcome)
  \/ \E p \in Procs : FinishSwap(p)
  \/ Crash
  \/ \E p \in Loops, s \in Observed : CrashWhileReserving(p, s)
  \/ Stop
  \/ \E status \in [Threads -> Statuses \cup {None}] : Restart(status)

Spec == Init /\ [][Next]_vars

----------------------------------------------------------------------------
(* Properties                                                              *)

TypeOK ==
  /\ watch \in [Threads -> Watches \cup {None}]
  /\ note \in [Keys -> Notes]
  /\ saved \in Versions
  /\ last \in [Threads \X (Turns \cup {None}) -> Statuses \cup {None}]
  /\ job \in [Procs -> Jobs]
  /\ lockq \in Seq(Procs)
  /\ notifier \in Versions
  /\ closed \subseteq Versions
  /\ up \in BOOLEAN
  /\ sends \in [Keys -> Nat]
  /\ retries \in [Keys -> Nat]
  /\ stranded \subseteq Keys
  /\ stops \in Nat

(* A key is handed to the messenger once, and once more for every retry    *)
(* the user asked for: no interleaving of the three loops, of a crash and  *)
(* of the retry handler sends a notification a second time by itself       *)
(* (reserve_notification and prepare_notification_retry are what prevents  *)
(* it).                                                                    *)
SentAtMostOncePerRequest == \A k \in Keys : sends[k] <= 1 + retries[k]

(* A pending notification is the business of exactly one task, or its task *)
(* died: two tasks never work on the same row, and nothing is left pending *)
(* by a path that forgot to settle it.                                     *)
PendingHasOneOwner ==
  /\ \A k \in Keys : note[k].state = "pending" =>
       \/ k \in stranded
       \/ \E p \in Procs : job[p].key = k
  /\ \A p \in Procs : job[p].key # None =>
       /\ note[job[p].key] = [state |-> "pending", text |-> TRUE]
       /\ job[p].key \notin stranded
       /\ \A q \in Procs : job[q].key = job[p].key => q = p

(* The messenger that a task is sending with is open: the swap and the     *)
(* close of a configuration change wait for the send in progress, and      *)
(* later senders get the new one.                                          *)
NoSendOnClosedMessenger == up => notifier \notin closed

(* "Saved switches take effect without a restart": once no configuration   *)
(* change waits for the lock, the messenger in use is the last one saved,  *)
(* however the changes were interleaved.                                   *)
LastSavedWins ==
  up => \/ notifier = saved
        \/ \E p \in Procs : job[p].kind = "config" /\ job[p].version = saved

(* A notification recorded as sent is never reopened, failed or sent again.*)
SentIsFinal ==
  [][\A k \in Keys : note[k].state = "sent" =>
       note'[k].state = "sent" /\ sends'[k] = sends[k]]_vars

(* The lock never wedges: a pending notification is settled unless its     *)
(* process dies first.                                                     *)
PendingSettles ==
  \A k \in Keys : note[k].state = "pending" ~>
                    (note[k].state # "pending" \/ k \in stranded)

Promise == INSTANCE Outbox WITH state <- [k \in Keys |-> note[k].state]

(* The table keeps the promise of Outbox.tla. *)
KeepsPromise == Promise!Spec

----------------------------------------------------------------------------
(* The inductive invariant behind the safety properties.                   *)

(* The queue holds every task that wants the lock once; only its head runs.*)
LockInv ==
  /\ \A i, j \in 1 .. Len(lockq) : lockq[i] = lockq[j] => i = j
  /\ \A i \in 1 .. Len(lockq) : job[lockq[i]].kind # "idle"
  /\ \A p \in Procs : job[p].kind # "idle" => \E i \in 1 .. Len(lockq) : lockq[i] = p
  /\ \A p \in Procs : job[p].phase = "running" => lockq # <<>> /\ lockq[1] = p
  /\ \A p \in Procs : job[p].kind = "idle" => job[p] = Idle
  /\ ~ up => \A p \in Procs : job[p] = Idle

(* A task holds a key exactly when it sends a notification; what is        *)
(* stranded is pending.                                                    *)
OwnerInv ==
  /\ \A p \in Procs : job[p].key # None <=> job[p].kind \in {"notify", "retry"}
  /\ PendingHasOneOwner
  /\ \A k \in stranded : note[k].state = "pending"

(* A key whose task still waits for the lock has one send to its credit.   *)
SendInv ==
  /\ \A k \in Keys : note[k].state = "absent" => sends[k] = 0 /\ retries[k] = 0
  /\ \A p \in Procs : job[p].key # None =>
       IF job[p].phase = "queued" THEN sends[job[p].key] <= retries[job[p].key]
                                  ELSE sends[job[p].key] > 0
  /\ SentAtMostOncePerRequest

(* Queued replacements are newer than the messenger in use and queue up in *)
(* the order they were saved; a messenger closed or being closed is older. *)
ConfigInv ==
  up =>
  /\ notifier <= saved
  /\ \A v \in closed : v < notifier
  /\ \A p \in Procs : job[p].kind = "config" =>
       IF job[p].phase = "running" THEN job[p].version < notifier
       ELSE notifier < job[p].version /\ job[p].version <= saved
  /\ \A i, j \in 1 .. Len(lockq) :
       /\ i < j
       /\ job[lockq[i]].kind = "config" /\ job[lockq[i]].phase = "queued"
       /\ job[lockq[j]].kind = "config"
       => job[lockq[i]].version < job[lockq[j]].version
  /\ \/ notifier = saved
     \/ \E p \in Procs : job[p].kind = "config" /\ job[p].phase = "queued"
                           /\ job[p].version = saved

IInv == TypeOK /\ LockInv /\ OwnerInv /\ SendInv /\ ConfigInv
=============================================================================
