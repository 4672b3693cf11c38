--------------------------- MODULE TaskAggregator ---------------------------
(***************************************************************************)
(* How the aggregator folds the events of several sources into one view of *)
(* a thread (monitoring/aggregator.py), and how the runtime keeps a manual *)
(* completion on top of it.  Operators on values: a view is what the       *)
(* aggregator holds for one thread,                                        *)
(*   [task, turnAt, orphaned],                                             *)
(* task being None or the fields of TaskSnapshot that decide anything, and *)
(* turnAt the time of the latest event that carried a turn.                *)
(*                                                                         *)
(* An event is [source, turn, status, started, at, updated, request, auth] *)
(* where at is completed_at, or updated_at when there is none.             *)
(***************************************************************************)
EXTENDS TaskStatus, Naturals

Ended == Terminal \cup {"manually_completed"}

NoView == [task |-> None, turnAt |-> None, orphaned |-> FALSE]

Or(x, y) == IF x # None THEN x ELSE y
Later(x, y) == IF x > y THEN x ELSE y

(* Fault: only the end of an older turn is recognised as stale. *)
IsStaleEnd(view, e) ==
  LET task == view.task IN
  /\ task # None
  /\ None \notin {task.turn, e.turn}
  /\ task.turn # e.turn
  /\ e.status \in Terminal
  /\ IF None \notin {task.started, e.started} /\ task.started # e.started
     THEN e.started < task.started
     ELSE view.turnAt # None /\ e.at < view.turnAt

(* Is the event of an older turn than the one shown?  Start times decide   *)
(* when both are known, the latest turn event otherwise.                   *)
IsStaleTurn(view, e) ==
  LET task == view.task IN
  /\ task # None
  /\ None \notin {task.turn, e.turn}
  /\ task.turn # e.turn
  /\ IF None \notin {task.started, e.started} /\ task.started # e.started
     THEN e.started < task.started
     ELSE view.turnAt # None /\ e.at < view.turnAt

NewTask(e) ==
  [turn |-> e.turn, status |-> Or(e.status, "unknown"), source |-> e.source,
   started |-> e.started, updated |-> e.updated, request |-> e.request]

OtherTurn(task, e) == None \notin {e.turn, task.turn} /\ e.turn # task.turn

(* Fault: the latest event wins over a terminal status. *)
LatestStatus(task, e) ==
  IF \/ e.status \in {None, "unknown", "source_error"}
     \/ ~ OtherTurn(task, e) /\ task.status = "manually_completed"
  THEN task.status ELSE e.status

(* A manual completion holds for its turn; a terminal status gives way to  *)
(* another authoritative one only; no news is no change.                   *)
MergedStatus(task, e) ==
  LET sameTurn == ~ OtherTurn(task, e)
      keeps ==
        \/ e.status \in {None, "unknown", "source_error"}
        \/ sameTurn /\ task.status = "manually_completed"
        \/ /\ sameTurn
           /\ task.status \in Terminal
           /\ ~ (e.status \in Ended /\ e.auth)
  IN IF keeps THEN task.status ELSE e.status

Merge(task, e) ==
  [turn |-> Or(e.turn, task.turn),
   status |-> MergedStatus(task, e),
   source |-> IF e.source = task.source THEN task.source ELSE "merged",
   started |-> IF OtherTurn(task, e) THEN e.started ELSE Or(e.started, task.started),
   updated |-> Later(task.updated, e.updated),
   request |-> Or(e.request, task.request)]

(* Fault: the mark outlives the event that refutes it. *)
RevivedAgain(view, e) ==
  IF view.task # None /\ view.orphaned /\ e.source = "session"
  THEN [view EXCEPT !.task.status = "running", !.task.request = None]
  ELSE view

(* A session event shows that a turn taken for orphaned lives after all.   *)
Revived(view, e) ==
  IF view.task # None /\ view.orphaned /\ e.source = "session"
  THEN [view EXCEPT !.orphaned = FALSE,
                    !.task.status = "running", !.task.request = None]
  ELSE view

(* The refresh of a task without a turn is no progress of the turn.        *)
TurnAt(view, e) ==
  IF e.turn = None \/ e.status \in {"unknown", "source_error"} THEN view.turnAt
  ELSE IF view.task = None \/ view.turnAt = None THEN e.at
  ELSE IF e.turn # view.task.turn THEN e.at
  ELSE Later(view.turnAt, e.at)

Apply(view, e) ==
  LET old == Revived(view, e) IN
  IF IsStaleTurn(view, e) THEN view
  ELSE [old EXCEPT
          !.task = IF old.task = None THEN NewTask(e) ELSE Merge(old.task, e),
          !.turnAt = TurnAt(old, e)]

MarkOrphaned(view, at) ==
  [view EXCEPT !.orphaned = TRUE,
               !.task.status = "interrupted", !.task.request = None,
               !.task.updated = Later(@, at)]

MarkManual(view, at) ==
  IF view.task = None THEN view
  ELSE [view EXCEPT !.task.status = "manually_completed", !.task.request = None,
                    !.task.updated = Later(@, at)]

(* Fault: the status is cleared to nothing instead of unknown. *)
ClearStatus(view) ==
  IF view.task = None \/ view.task.status # "manually_completed" THEN view
  ELSE [view EXCEPT !.task.status = None, !.task.request = None]

ClearManual(view) ==
  IF view.task = None \/ view.task.status # "manually_completed" THEN view
  ELSE [view EXCEPT !.task.status = "unknown", !.task.request = None]

----------------------------------------------------------------------------
(* A manual completion [turn, at] and the next event of any source.        *)

IsNewGeneration(record, e) ==
  IF None \notin {record.turn, e.turn} THEN record.turn # e.turn
  ELSE record.turn = None /\ e.started # None /\ e.started > record.at

(* The view and the record after one event: a record of another turn is    *)
(* dropped first, a record that still holds is laid over the outcome.      *)
Accept(view, manual, e) ==
  IF manual = None
  THEN [view |-> Apply(view, e), manual |-> None]
  ELSE IF IsNewGeneration(manual, e)
  THEN [view |-> Apply(ClearManual(view), e), manual |-> None]
  ELSE [view |-> MarkManual(Apply(view, e), manual.at), manual |-> manual]
=============================================================================
