------------------------------- MODULE Runtime -------------------------------
(***************************************************************************)
(* One Codex thread, its three sources, and the runtime that follows it.   *)
(*                                                                         *)
(* RuntimeService merges what thread/list and thread/read answer (the      *)
(* refresh loop), what App Server notifies (the notification loop) and     *)
(* what the session file records (the observer loop) into one view of the  *)
(* task, and hands each merged snapshot to NotificationPipeline, whose     *)
(* actions the actions below contain.                                      *)
(*                                                                         *)
(* The three loops and the HTTP handlers share one event loop: an action   *)
(* is what runs between two awaits that really suspend (a request to App   *)
(* Server, git, the messenger's lock and call).  Work on other threads     *)
(* shows as the time that passes between two steps of a loop.              *)
(*                                                                         *)
(* Codex itself is external: codex lists what really happened to the       *)
(* thread, the fact numbered n at time 2n.  What is stamped on receipt     *)
(* gets the odd time after the last fact.                                  *)
(***************************************************************************)
EXTENDS NotificationPipeline, TaskAggregator, SequencesExt

CONSTANTS
  Thread,                       \* the thread
  refresh, observer, listener,  \* the loops; without App Server only the observer runs
  Happenings,                   \* what may happen to a turn once it runs
  RequestOf,                    \* the request that a fact makes, by its number
  MaxTurns,                     \* bound: turns of the thread
  MaxFacts                      \* bound: facts about the thread

ASSUME ThreadAssumption == Threads = {Thread}
ASSUME LoopsAssumption ==
  observer \in Loops /\ Loops \subseteq {refresh, observer, listener}
ASSUME TurnsAssumption == Turns = 1 .. MaxTurns /\ None \notin Nat
ASSUME RequestsAssumption == RequestOf \in [1 .. MaxFacts -> Requests]
(* A request is named by the id of its call or message, never by a status. *)
ASSUME RequestNamesAssumption == Requests \cap (Statuses \cup {None}) = {}
ASSUME FactsAssumption == MaxFacts \in Nat
ASSUME ObservedIsAnything == Observed = Snapshots
ASSUME HappeningsAssumption == Happenings \subseteq Active \cup Terminal

VARIABLES
  codex,   \* external: the facts, in order
  view,    \* memory: the aggregator's view of the thread
  manual,  \* durable: the manual completion, or None
  scanned, \* memory: the facts the observer has taken from the file
  read,    \* memory: how many of them it has merged
  heard,   \* memory: the last App Server notification handled or lost
  poll,    \* memory: what the refresh loop is waiting for
  batch    \* memory: merged snapshots the observer has yet to process

rvars == <<vars, codex, view, manual, scanned, read, heard, poll, batch>>
sources == <<scanned, read, heard, poll, batch>>

Now == 2 * Len(codex) + 1
NoPoll == [phase |-> "idle"]

Snapshot(v) == [thread |-> Thread, turn |-> v.task.turn,
                status |-> v.task.status, request |-> v.task.request]

(* Between two snapshots of a batch the observer does not suspend, unless  *)
(* it notifies: then nothing else runs.                                    *)
LoopFree == (read = scanned /\ batch = <<>>) \/ job[observer] # Idle

RInit ==
  /\ Init
  /\ codex = <<>>
  /\ view = NoView
  /\ manual = None
  /\ scanned = 0
  /\ read = 0
  /\ heard = 0
  /\ poll = NoPoll
  /\ batch = <<>>

----------------------------------------------------------------------------
(* Codex.                                                                  *)

TurnEnded(facts) == facts = <<>> \/ Last(facts).status \in Terminal

StartOf(turn) == 2 * CHOOSE n \in DOMAIN codex :
  codex[n].turn = turn /\ \A m \in DOMAIN codex : codex[m].turn = turn => n <= m

(* A turn starts, is continued after a wait, asks for something, or ends.  *)
Happen ==
  /\ LoopFree
  /\ Len(codex) < MaxFacts
  /\ \E turn \in Turns, status \in Happenings :
       /\ IF TurnEnded(codex)
          THEN turn = (IF codex = <<>> THEN 1 ELSE Last(codex).turn + 1)
               /\ status = "running"
          ELSE turn = Last(codex).turn /\ status # Last(codex).status
       /\ codex' = Append(codex,
            [turn |-> turn, status |-> status,
             request |-> IF status \in Waiting THEN RequestOf[Len(codex) + 1] ELSE None])
  /\ UNCHANGED <<vars, view, manual, sources>>

(* A record of the session file: the start of a turn, an agent message     *)
(* after a wait, a request or the end.                                     *)
SessionEvent(n) ==
  LET fact == codex[n]
      isStart == 2 * n = StartOf(fact.turn)
  IN [source |-> "session", turn |-> fact.turn,
      status |-> IF fact.status = "running" /\ ~ isStart THEN None ELSE fact.status,
      started |-> IF isStart \/ fact.status = "completed"
                  THEN StartOf(fact.turn) ELSE None,
      at |-> 2 * n, updated |-> 2 * n, request |-> fact.request,
      auth |-> fact.status \in Terminal]

ThreadStatus(fact) == IF fact.status \in Terminal THEN "completed" ELSE fact.status

(* thread/status/changed: the thread became active, waiting or idle.       *)
StatusChanged(n) ==
  [source |-> "app_server", turn |-> None, status |-> ThreadStatus(codex[n]),
   started |-> None, at |-> Now, updated |-> Now, request |-> None, auth |-> FALSE]

(* turn/started, turn/completed, */requestApproval, item/tool/request...   *)
TurnNotification(n) ==
  LET fact == codex[n]
      lifecycle == fact.status \notin Waiting
  IN [source |-> "app_server", turn |-> fact.turn, status |-> fact.status,
      started |-> IF lifecycle THEN StartOf(fact.turn) ELSE None,
      at |-> IF fact.status \in Terminal THEN 2 * n ELSE Now,
      updated |-> Now, request |-> fact.request,
      auth |-> fact.status # "running"]

Told(n) == codex[n].status = "running" => 2 * n = StartOf(codex[n].turn)

(* A row of thread/list: no turn, only the state of the thread, or not     *)
(* even that when this App Server has not loaded it.                       *)
Row(loaded) ==
  [source |-> "app_server", turn |-> None,
   status |-> IF loaded THEN ThreadStatus(Last(codex)) ELSE "unknown",
   started |-> None, at |-> 2 * Len(codex), updated |-> 2 * Len(codex),
   request |-> None, auth |-> loaded /\ Last(codex).status \in Terminal]

(* thread/read answers with the turns: the last one's end, or else the     *)
(* state of the thread.                                                    *)
Details ==
  [source |-> "app_server", turn |-> Last(codex).turn, status |-> Last(codex).status,
   started |-> StartOf(Last(codex).turn),
   at |-> 2 * Len(codex), updated |-> 2 * Len(codex), request |-> None,
   auth |-> Last(codex).status \in Terminal]

----------------------------------------------------------------------------
(* _process_snapshot: a manually completed task is saved and no more.      *)

Process(p, s) ==
  IF s.status # "manually_completed" /\ Watched(s)
  THEN Observe(p, s) \/ \E gate \in Gates : Reserve(p, s, gate)
  ELSE UNCHANGED vars

Receive(e) ==
  LET next == Accept(view, manual, e)
  IN view' = next.view /\ manual' = next.manual

----------------------------------------------------------------------------
(* The refresh loop.                                                       *)

Polling(phase) ==
  /\ up /\ LoopFree
  /\ refresh \in Loops /\ job[refresh] = Idle
  /\ poll.phase = phase

(* thread/list is answered. *)
List ==
  /\ Polling("idle")
  /\ codex # <<>>
  /\ \E loaded \in BOOLEAN :
       poll' = [phase |-> "listed", row |-> Row(loaded), at |-> Now,
               quiet |-> FALSE]
  /\ UNCHANGED <<vars, codex, view, manual, scanned, read, heard, batch>>

(* No App Server that runs here knows the thread, and its last sign of     *)
(* life in the session file is too old.                                    *)
IsOrphan ==
  /\ poll.row.status = "unknown"
  /\ view.task # None
  /\ view.task.source \in {"session", "merged"}
  /\ view.task.status \in Active
  /\ view.task.updated < poll.at

(* Fault: the orphan's watch is left alone. *)
KeepWatch == UNCHANGED vars

(* Fault: the orphan's watch is deleted. *)
DeleteWatch ==
  /\ up
  /\ watch' = [watch EXCEPT ![Thread] = None]
  /\ UNCHANGED <<note, saved, last, job, lockq, messenger, up, history>>

EndWatch == IF watch[Thread] = None THEN UNCHANGED vars ELSE Deactivate(Thread)

(* The row's turn comes: an orphan is taken for interrupted, quietly; then *)
(* an ended task may be too old to be shown, an active one is asked for    *)
(* details, any other goes on to git.                                      *)
TakeRow ==
  /\ Polling("listed")
  /\ \E orphan \in {FALSE, IsOrphan} :  \* whether the timeout has passed
       LET phase == IF poll.row.status \in Active THEN "reading" ELSE "resolving" IN
       /\ IF orphan
          THEN view' = MarkOrphaned(view, poll.at) /\ EndWatch
          ELSE UNCHANGED <<vars, view>>
       /\ \/ poll' = [poll EXCEPT !.phase = phase, !.quiet = orphan]
          \/ phase = "resolving" /\ poll' = NoPoll
  /\ UNCHANGED <<codex, manual, scanned, read, heard, batch>>

(* thread/read is answered, or fails; an older turn is dropped here.       *)
ReadThread ==
  /\ Polling("reading")
  /\ \E e \in {Details, poll.row} :
       poll' = IF IsStaleTurn(view, e) THEN NoPoll
               ELSE [poll EXCEPT !.phase = "resolving", !.row = e]
  /\ UNCHANGED <<vars, codex, view, manual, scanned, read, heard, batch>>

(* git has answered: the snapshot is merged and processed.                 *)
AcceptSnapshot ==
  /\ Polling("resolving")
  /\ Receive(poll.row)
  /\ IF poll.quiet THEN UNCHANGED vars ELSE Process(refresh, Snapshot(view'))
  /\ poll' = NoPoll
  /\ UNCHANGED <<codex, scanned, read, heard, batch>>

----------------------------------------------------------------------------
(* The notification loop: notification 2n - 1 is the change of state that  *)
(* came with fact n, 2n what the turn told.  Those skipped were lost with  *)
(* the connection or pushed out of the bounded queue.                      *)

(* Fault: the notification is merged past the manual completion. *)
HandleNotificationRaw(n) ==
  /\ up /\ LoopFree
  /\ listener \in Loops /\ job[listener] = Idle
  /\ heard < n /\ n <= 2 * Len(codex)
  /\ n % 2 = 0 => Told(n \div 2)
  /\ heard' = n
  /\ LET fact == (n + 1) \div 2
         e == IF n % 2 = 1 THEN StatusChanged(fact) ELSE TurnNotification(fact)
     IN /\ view' = Apply(view, e)
        /\ Process(listener, Snapshot(view'))
  /\ UNCHANGED <<codex, manual, scanned, read, poll, batch>>

HandleNotification(n) ==
  /\ up /\ LoopFree
  /\ listener \in Loops /\ job[listener] = Idle
  /\ heard < n /\ n <= 2 * Len(codex)
  /\ n % 2 = 0 => Told(n \div 2)
  /\ heard' = n
  /\ LET fact == (n + 1) \div 2
         e == IF n % 2 = 1 THEN StatusChanged(fact) ELSE TurnNotification(fact)
     IN IF IsStaleTurn(view, e)
        THEN UNCHANGED <<vars, view, manual>>
        ELSE Receive(e) /\ Process(listener, Snapshot(view'))
  /\ UNCHANGED <<codex, scanned, read, poll, batch>>

----------------------------------------------------------------------------
(* The observer loop.                                                      *)

(* The events of a scan are merged one after the other before the first    *)
(* snapshot is processed.  The file is there from the start, in order and  *)
(* not older than what is still shown.                                     *)
Scan ==
  /\ up /\ LoopFree
  /\ job[observer] = Idle
  /\ scanned' \in read + 1 .. Len(codex)
  /\ UNCHANGED <<vars, codex, view, manual, read, heard, poll, batch>>

MergeNext ==
  /\ up
  /\ read < scanned
  /\ read' = read + 1
  /\ LET e == SessionEvent(read') IN
     IF IsStaleTurn(view, e)
     THEN UNCHANGED <<view, manual, batch>>
     ELSE Receive(e) /\ batch' = Append(batch, Snapshot(view'))
  /\ UNCHANGED <<vars, codex, scanned, heard, poll>>

ProcessNext ==
  /\ up
  /\ read = scanned /\ batch # <<>>
  /\ job[observer] = Idle
  /\ Process(observer, Head(batch))
  /\ batch' = Tail(batch)
  /\ UNCHANGED <<codex, view, manual, scanned, read, heard, poll>>

----------------------------------------------------------------------------
(* The user.                                                               *)

Watch(mode) ==
  /\ LoopFree
  /\ view.task # None
  /\ StartWatch(Snapshot(view), mode)
  /\ UNCHANGED <<codex, view, manual, sources>>

Unwatch ==
  /\ LoopFree
  /\ Deactivate(Thread)
  /\ UNCHANGED <<codex, view, manual, sources>>

MarkManualCompletion ==
  /\ up /\ LoopFree
  /\ view.task # None
  /\ view.task.status \in Active
  /\ manual' = [turn |-> view.task.turn, at |-> Now]
  /\ view' = MarkManual(view, Now)
  /\ LET w == watch[Thread] IN
     IF w # None /\ w.active /\ w.mode = "current_turn"
     THEN Deactivate(Thread) ELSE UNCHANGED vars
  /\ UNCHANGED <<codex, sources>>

----------------------------------------------------------------------------
(* The messenger, crashes and restarts.                                    *)

Send(p) ==
  /\ LoopFree
  /\ StartSend(p) \/ \E outcome \in {"sent", "failed"} : FinishSend(p, outcome)
  /\ UNCHANGED <<codex, view, manual, sources>>

RCrash ==
  /\ LoopFree
  /\ Crash
  /\ view' = NoView
  /\ scanned' = 0
  /\ read' = 0
  /\ heard' = 2 * Len(codex)
  /\ poll' = NoPoll
  /\ batch' = <<>>
  /\ UNCHANGED <<codex, manual>>

(* The session file, from its first record to the last. *)
Bootstrap(v, m) ==
  LET upTo[n \in 0 .. Len(codex)] ==
        IF n = 0 THEN [view |-> v, manual |-> m]
        ELSE LET sofar == upTo[n - 1] IN
             IF IsStaleTurn(sofar.view, SessionEvent(n)) THEN sofar
             ELSE Accept(sofar.view, sofar.manual, SessionEvent(n))
  IN upTo[Len(codex)]

(* start(): the sources are read once before any loop runs and nobody is   *)
(* notified of what they say; then the watches are restored.  App Server   *)
(* may be out of reach.                                                    *)
Start ==
  /\ \E e \in IF refresh \in Loops /\ codex # <<>>
             THEN {None, Row(TRUE), Row(FALSE), Details} ELSE {None} :
       LET listed == IF e = None THEN [view |-> view, manual |-> manual]
                     ELSE Accept(view, manual, e)
           next == Bootstrap(listed.view, listed.manual)
       IN /\ view' = next.view
          /\ manual' = next.manual
          /\ Restart([t \in Threads |-> IF next.view.task = None THEN None
                                        ELSE next.view.task.status])
  /\ scanned' = Len(codex)
  /\ read' = scanned'
  /\ heard' = 2 * Len(codex)
  /\ UNCHANGED <<codex, poll, batch>>

----------------------------------------------------------------------------

RNext ==
  \/ Happen
  \/ List \/ TakeRow \/ ReadThread \/ AcceptSnapshot
  \/ \E n \in 1 .. 2 * MaxFacts : HandleNotification(n)
  \/ Scan \/ MergeNext \/ ProcessNext
  \/ \E mode \in Modes : Watch(mode)
  \/ Unwatch
  \/ MarkManualCompletion
  \/ \E p \in Loops : Send(p)
  \/ RCrash
  \/ Start

RSpec == RInit /\ [][RNext]_rvars

(* The observer and the refresh loop come back after each pause, asyncio   *)
(* resumes a task whose lock was handed over, and the timeouts of requests *)
(* and of httpx end every call.                                            *)
RFairSpec ==
  /\ RSpec
  /\ WF_rvars(Scan) /\ WF_rvars(MergeNext) /\ WF_rvars(ProcessNext)
  /\ WF_rvars(List \/ TakeRow \/ ReadThread \/ AcceptSnapshot)
  /\ \A p \in Loops : WF_rvars(Send(p))

----------------------------------------------------------------------------
(* Properties                                                              *)

Times == 0 .. 2 * MaxFacts + 1
Events ==
  [source : {"app_server"}, turn : Turns \cup {None},
   status : Statuses \ {"manually_completed"},
   started : Times \cup {None}, at : Times, updated : Times,
   request : Requests \cup {None}, auth : BOOLEAN]
Facts == [turn : Turns, status : Active \cup Terminal, request : Requests \cup {None}]
Tasks ==
  [turn : Turns \cup {None}, status : Statuses,
   source : {"session", "app_server", "merged"},
   started : Times \cup {None}, updated : Times, request : Requests \cup {None}]
Records == [turn : Turns \cup {None}, at : Times]

(* None is neither a task nor a manual completion. *)
ASSUME NoRecordAssumption == None \notin Tasks \cup Records

RTypeOK ==
  /\ TypeOK
  /\ codex \in Seq(Facts) /\ Len(codex) <= MaxFacts
  /\ view \in [task : Tasks \cup {None}, turnAt : Times \cup {None}, orphaned : BOOLEAN]
  /\ manual \in Records \cup {None}
  /\ scanned \in 0 .. Len(codex)
  /\ read \in 0 .. scanned
  /\ heard \in 0 .. 2 * Len(codex)
  /\ \/ poll = NoPoll
     \/ poll \in [phase : {"listed", "reading", "resolving"}, row : Events,
                  at : Times, quiet : BOOLEAN]
  /\ batch \in Seq(Snapshots)

Reserved(k) == note[k].state # "absent"
Happened(turn, status) ==
  \E n \in DOMAIN codex : codex[n].turn = turn /\ codex[n].status = status

(* The card says "manually completed" exactly while the durable record     *)
(* stands, whatever the three sources, the orphan timeout and restarts do  *)
(* in between.                                                             *)
ManualAgrees ==
  up /\ view.task # None =>
    (manual # None <=> view.task.status = "manually_completed")

(* "Orphaned ... is interrupted without notification": nobody is told that *)
(* a turn failed or was interrupted unless it was.                         *)
NoInferredFailure ==
  \A k \in Keys, status \in {"failed", "interrupted"} :
    Reserved(k) /\ k[3] = status => Happened(k[2], status)

(* An interruption that is shown without having happened: the orphan       *)
(* timeout made it up.                                                     *)
EndIsInferred ==
  view.task.status = "interrupted" /\ ~ Happened(view.task.turn, "interrupted")

(* A turn shown as ended is shown as active in the next state. *)
Reopened ==
  /\ up /\ up'
  /\ view.task # None
  /\ view.task.status \in Ended
  /\ manual # None => manual.turn # None
  /\ view'.task.turn = view.task.turn
  /\ view'.task.status \in Active

(* "Terminal protection" (aggregator.py:339): a turn that ended is not     *)
(* shown as active again, except when its end was inferred, or declared by *)
(* the user when the turn was not known.  An orphan mark that outlives the *)
(* end App Server told breaks it (aggregator.py:52-65); without polling    *)
(* there is no mark.                                                       *)
EndedTurnStaysEnded == [][~ (Reopened /\ ~ EndIsInferred)]_rvars

(* Nothing but a record of the session file shows an ended turn as active  *)
(* again, and it does so under the mark of the orphan timeout, once: stale *)
(* polls, a crash and manual completions never do (aggregator.py:52-65,    *)
(* 346-361).                                                               *)
OnlyRecordsRevive ==
  [][Reopened => view.orphaned /\ ~ view'.orphaned /\ read' = read + 1]_rvars

(* When the session file is read to its end, the turn it ends with is      *)
(* shown, and if that turn is over, not as active: what the mark revives   *)
(* and what stale polls say does not outlive the file.                     *)
FileHasLastWord ==
  up /\ codex # <<>> /\ read = Len(codex) =>
    /\ view.task.turn = Last(codex).turn
    /\ TurnEnded(codex) => view.task.status \notin Active

(* Merging, polling and restarting do to watches and notifications only    *)
(* what NotificationPipeline allows.                                       *)
ImplementsPipeline == Spec

(* The turns shown follow the thread's own order.                          *)
TurnsMoveForward ==
  [][up /\ up' /\ view.task # None /\ view.task.turn # None
     => view'.task.turn \geq view.task.turn]_rvars

(* Every notification tells what happened to the turn it names.  So it is  *)
(* with the session file; an idle row of App Server, which names no turn,  *)
(* is told as the completion of the turn that is shown (mapper.py:167).    *)
NotificationsAreTrue ==
  \A k \in Keys : Reserved(k) =>
    \E n \in DOMAIN codex :
      codex[n].turn = k[2] /\ k[3] \in {codex[n].status, codex[n].request}

(* A watch of the current turn is over soon after the turn                 *)
(* (service.py:73-75, 98-100).  It is where the session file tells; polling *)
(* may show the next turn first, and then the end is dropped as stale      *)
(* (aggregator.py:50).                                                     *)
WatchEndsWithTurn ==
  \A turn \in Turns :
    LET watched == /\ watch[Thread] # None /\ watch[Thread].active
                   /\ watch[Thread].mode = "current_turn"
                   /\ watch[Thread].turn = turn
    IN (up /\ watched /\ \E status \in Terminal : Happened(turn, status))
         ~> (~ up \/ ~ watched)

(* "An older turn of no source may clear the current manual completion":   *)
(* the record goes when a newer turn is shown.                             *)
OldTurnKeepsManual ==
  [][manual # None /\ manual.turn # None /\ manual' = None
     => view'.task.turn > manual.turn]_rvars
=============================================================================
