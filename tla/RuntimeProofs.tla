----------------------------- MODULE RuntimeProofs -----------------------------
(***************************************************************************)
(* What Runtime guarantees for any number of facts, turns and requests,    *)
(* whichever loops run.                                                    *)
(*                                                                         *)
(* First the operators of TaskAggregator: an event keeps the types of the  *)
(* view, and the card and the durable record of a manual completion in     *)
(* agreement.  Then reading a whole session file at the start, by the      *)
(* smallest counterexample.  Then one lemma per action: it keeps the       *)
(* invariant and is a step of NotificationPipeline, whose theorems         *)
(* therefore hold of the runtime.                                          *)
(*                                                                         *)
(* Then what the turn shown has to do with what happened to the thread:    *)
(* the turns move forward but for late notifications, no failure is told   *)
(* that only the orphan timeout inferred, and what is told without App     *)
(* Server happened.                                                        *)
(***************************************************************************)
EXTENDS Runtime, NotificationPipelineProofs, WellFoundedInduction, NaturalsInduction, TLAPS

Views == [task : Tasks \cup {None}, turnAt : Times \cup {None}, orphaned : BOOLEAN]
SourceEvents ==
  [source : {"session", "app_server"}, turn : Turns \cup {None},
   status : (Statuses \ {"manually_completed"}) \cup {None},
   started : Times \cup {None}, at : Times, updated : Times,
   request : Requests \cup {None}, auth : BOOLEAN]

(* The card is marked exactly while there is a record. *)
Marked(v, m) == v.task # None => (m # None <=> v.task.status = "manually_completed")

(* The record names the turn of the card, if both know one. *)
OfItsTurn(v, m) ==
  v.task # None /\ m # None /\ m.turn # None => v.task.turn \in {None, m.turn}

Agree(v, m) == Marked(v, m) /\ OfItsTurn(v, m)

Outcomes == {r \in [view : Views, manual : Records \cup {None}] : Agree(r.view, r.manual)}

(* Times are numbers, and None is no time. *)
LEMMA TimesAreNumbers == Times \subseteq Nat /\ None \notin Times
BY FactsAssumption, TurnsAssumption DEF Times

(* The later of two times is a time. *)
LEMMA LaterIsTime == ASSUME NEW x \in Times, NEW y \in Times PROVE Later(x, y) \in Times
BY DEF Later

----------------------------------------------------------------------------
(* The first event of a thread makes a task. *)
LEMMA NewTaskType == ASSUME NEW e \in SourceEvents
  PROVE NewTask(e) \in Tasks /\ NewTask(e).status # "manually_completed"
BY NoneAssumption DEF NewTask, Or, SourceEvents, Tasks, Statuses

(* Merging finds a status, and none declares a turn completed but the      *)
(* user.                                                                   *)
LEMMA MergedStatusType ==
  ASSUME NEW t \in Tasks, NEW e \in SourceEvents
  PROVE  /\ MergedStatus(t, e) \in Statuses
         /\ t.status # "manually_completed" => MergedStatus(t, e) # "manually_completed"
BY DEF MergedStatus, SourceEvents, Tasks

(* An event merged into a task gives a task. *)
LEMMA MergeType ==
  ASSUME NEW t \in Tasks, NEW e \in SourceEvents
  PROVE  /\ Merge(t, e) \in Tasks
         /\ t.status # "manually_completed" => Merge(t, e).status # "manually_completed"
<1>1. MergedStatus(t, e) \in Statuses
  BY MergedStatusType
<1>2. Later(t.updated, e.updated) \in Times
  BY LaterIsTime DEF Tasks, SourceEvents
<1>3. Or(e.turn, t.turn) \in Turns \cup {None} /\ Or(e.request, t.request) \in Requests \cup {None}
  BY DEF Or, Tasks, SourceEvents
<1>4. (IF OtherTurn(t, e) THEN e.started ELSE Or(e.started, t.started)) \in Times \cup {None}
  BY DEF Or, Tasks, SourceEvents
<1>5. (IF e.source = t.source THEN t.source ELSE "merged") \in {"session", "app_server", "merged"}
  BY DEF Tasks
<1>6. Merge(t, e) \in Tasks
  BY <1>1, <1>2, <1>3, <1>4, <1>5 DEF Merge, Tasks
<1>7. Merge(t, e).status = MergedStatus(t, e)
  BY DEF Merge
<1> QED BY <1>6, <1>7, MergedStatusType

(* Reviving an orphan keeps its turn. *)
LEMMA RevivedType ==
  ASSUME NEW v \in Views, NEW e
  PROVE  /\ Revived(v, e) \in Views
         /\ v.task = None \/ ~ v.orphaned => Revived(v, e) = v
         /\ v.task # None => Revived(v, e).task.turn = v.task.turn
         /\ v.task # None /\ v.task.status # "manually_completed"
              => Revived(v, e).task.status # "manually_completed"
<1>1. CASE v.task # None /\ v.orphaned /\ e.source = "session"
  <2>1. v.task \in Tasks
    BY <1>1 DEF Views
  <2> DEFINE t == [v.task EXCEPT !.status = "running", !.request = None]
  <2>2. t \in Tasks /\ t.status = "running" /\ t.turn = v.task.turn
    BY <2>1 DEF Tasks, Statuses, Active
  <2>3. Revived(v, e) = [v EXCEPT !.orphaned = FALSE, !.task = t]
    BY <1>1, <2>1 DEF Revived, Views, Tasks
  <2> HIDE DEF t
  <2>4. Revived(v, e) \in Views /\ Revived(v, e).task = t
    BY <2>2, <2>3 DEF Views
  <2> QED BY <1>1, <2>2, <2>4
<1>2. CASE ~(v.task # None /\ v.orphaned /\ e.source = "session")
  BY <1>2 DEF Revived
<1> QED BY <1>1, <1>2

(* The time of the latest turn event is a time. *)
LEMMA TurnAtType ==
  ASSUME NEW v \in Views, NEW e \in SourceEvents
  PROVE  TurnAt(v, e) \in Times \cup {None}
BY LaterIsTime DEF TurnAt, Views, SourceEvents

(* An event applied to a view gives the view of a task, of the turn that   *)
(* is told or else the turn known.                                         *)
LEMMA ApplyType ==
  ASSUME NEW v \in Views, NEW e \in SourceEvents
  PROVE  /\ Apply(v, e) \in Views
         /\ Apply(v, e).task \in Tasks
         /\ Agree(v, None) => Agree(Apply(v, e), None)
         /\ \/ Apply(v, e) = v
            \/ Apply(v, e).task.turn = e.turn
            \/ e.turn = None /\ v.task # None /\ Apply(v, e).task.turn = v.task.turn
<1>1. CASE IsStaleTurn(v, e)
  <2>1. Apply(v, e) = v /\ v.task # None
    BY <1>1 DEF Apply, IsStaleTurn
  <2> QED BY <2>1 DEF Views
<1>2. CASE ~ IsStaleTurn(v, e)
  <2> DEFINE old == Revived(v, e)
             t == IF old.task = None THEN NewTask(e) ELSE Merge(old.task, e)
  <2>1. old \in Views
    BY RevivedType
  <2>2. TurnAt(old, e) \in Times \cup {None}
    BY <2>1, TurnAtType
  <2>3. t \in Tasks
    <3>1. CASE old.task = None
      BY <3>1, NewTaskType
    <3>2. CASE old.task # None
      <4>1. old.task \in Tasks
        BY <2>1, <3>2 DEF Views
      <4> QED BY <3>2, <4>1, MergeType
    <3> QED BY <3>1, <3>2
  <2>4. Agree(v, None) => t.status # "manually_completed"
    <3>1. CASE old.task = None
      BY <3>1, NewTaskType
    <3>2. CASE old.task # None
      <4>1. old.task \in Tasks
        BY <2>1, <3>2 DEF Views
      <4>2. v.task # None
        BY <3>2, RevivedType
      <4>3. Agree(v, None) => old.task.status # "manually_completed"
        BY <4>2, RevivedType DEF Agree, Marked, OfItsTurn
      <4> QED BY <3>2, <4>1, <4>3, MergeType
    <3> QED BY <3>1, <3>2
  <2>5. Apply(v, e) = [old EXCEPT !.task = t, !.turnAt = TurnAt(old, e)]
    BY <1>2 DEF Apply
  <2> HIDE DEF old, t
  <2>6. Apply(v, e) \in Views /\ Apply(v, e).task = t
    BY <2>1, <2>2, <2>3, <2>5 DEF Views
  <2>7. \/ t.turn = e.turn
        \/ e.turn = None /\ v.task # None /\ t.turn = v.task.turn
    <3>1. CASE old.task = None
      BY <3>1 DEF t, NewTask
    <3>2. CASE old.task # None
      <4>1. v.task # None /\ old.task.turn = v.task.turn
        BY <3>2, RevivedType DEF old
      <4>2. t.turn = Or(e.turn, old.task.turn)
        BY <3>2 DEF t, Merge
      <4> QED BY <4>1, <4>2 DEF Or
    <3> QED BY <3>1, <3>2
  <2> QED BY <2>3, <2>4, <2>6, <2>7 DEF Agree, Marked, OfItsTurn
<1> QED BY <1>1, <1>2

(* Marking a card keeps its turn. *)
LEMMA MarkType ==
  ASSUME NEW v \in Views, NEW at \in Times, NEW m, m # None
  PROVE  /\ MarkManual(v, at) \in Views
         /\ v.task \in Tasks => MarkManual(v, at).task \in Tasks
         /\ Marked(MarkManual(v, at), m)
         /\ v.task # None => MarkManual(v, at).task.turn = v.task.turn
<1>1. CASE v.task = None
  BY <1>1 DEF MarkManual, Agree, Marked, OfItsTurn
<1>2. CASE v.task # None
  <2>1. v.task \in Tasks
    BY <1>2 DEF Views
  <2> DEFINE t == [v.task EXCEPT !.status = "manually_completed", !.request = None,
                                 !.updated = Later(@, at)]
  <2>2. t \in Tasks /\ t.status = "manually_completed" /\ t.turn = v.task.turn
    <3>1. Later(v.task.updated, at) \in Times
      BY <2>1, LaterIsTime DEF Tasks
    <3> QED BY <2>1, <3>1 DEF Tasks, Statuses
  <2>3. MarkManual(v, at) = [v EXCEPT !.task = t]
    BY <1>2, <2>1 DEF MarkManual, Views, Tasks
  <2> HIDE DEF t
  <2>4. MarkManual(v, at) \in Views /\ MarkManual(v, at).task = t
    BY <2>2, <2>3 DEF Views
  <2> QED BY <2>2, <2>4 DEF Agree, Marked, OfItsTurn
<1> QED BY <1>1, <1>2

(* A cleared card is not marked. *)
LEMMA ClearType ==
  ASSUME NEW v \in Views
  PROVE  ClearManual(v) \in Views /\ Agree(ClearManual(v), None)
<1>1. CASE v.task = None \/ v.task.status # "manually_completed"
  BY <1>1 DEF ClearManual, Agree, Marked, OfItsTurn
<1>2. CASE ~(v.task = None \/ v.task.status # "manually_completed")
  <2>1. v.task \in Tasks
    BY <1>2 DEF Views
  <2> DEFINE t == [v.task EXCEPT !.status = "unknown", !.request = None]
  <2>2. t \in Tasks /\ t.status = "unknown"
    BY <2>1 DEF Tasks, Statuses
  <2>3. ClearManual(v) = [v EXCEPT !.task = t]
    BY <1>2, <2>1 DEF ClearManual, Views, Tasks
  <2> HIDE DEF t
  <2>4. ClearManual(v) \in Views /\ ClearManual(v).task = t
    BY <2>2, <2>3 DEF Views
  <2> QED BY <2>2, <2>4 DEF Agree, Marked, OfItsTurn
<1> QED BY <1>1, <1>2

(* An event leaves card and record in agreement. *)
LEMMA AcceptType ==
  ASSUME NEW v \in Views, NEW m \in Records \cup {None}, Agree(v, m),
         NEW e \in SourceEvents
  PROVE  Accept(v, m, e) \in Outcomes /\ Accept(v, m, e).view.task \in Tasks
<1>1. CASE m = None
  <2>1. Apply(v, e) \in Views /\ Agree(Apply(v, e), None)
    BY <1>1, ApplyType
  <2>t. Apply(v, e).task \in Tasks
    BY ApplyType
  <2>2. Accept(v, m, e) = [view |-> Apply(v, e), manual |-> None]
    BY <1>1 DEF Accept
  <2> QED BY <2>1, <2>2, <2>t DEF Outcomes
<1>2. CASE m # None /\ IsNewGeneration(m, e)
  <2>1. Apply(ClearManual(v), e) \in Views /\ Agree(Apply(ClearManual(v), e), None)
    BY ClearType, ApplyType
  <2>t. Apply(ClearManual(v), e).task \in Tasks
    BY ClearType, ApplyType
  <2>2. Accept(v, m, e) = [view |-> Apply(ClearManual(v), e), manual |-> None]
    BY <1>2 DEF Accept
  <2> QED BY <2>1, <2>2, <2>t DEF Outcomes
<1>3. CASE m # None /\ ~ IsNewGeneration(m, e)
  <2>1. Apply(v, e) \in Views /\ m.at \in Times
    BY <1>3, ApplyType DEF Records
  <2>2. /\ MarkManual(Apply(v, e), m.at) \in Views
        /\ Marked(MarkManual(Apply(v, e), m.at), m)
    BY <1>3, <2>1, MarkType
  <2>4. OfItsTurn(MarkManual(Apply(v, e), m.at), m)
    <3> SUFFICES ASSUME m.turn # None
                 PROVE  MarkManual(Apply(v, e), m.at).task.turn \in {None, m.turn}
      BY DEF OfItsTurn
    <3>1. e.turn \in {None, m.turn}
      BY <1>3 DEF IsNewGeneration
    <3>2. Apply(v, e).task # None
      BY ApplyType, NoRecordAssumption
    <3>3. MarkManual(Apply(v, e), m.at).task.turn = Apply(v, e).task.turn
      BY <1>3, <2>1, <3>2, MarkType
    <3>4. Apply(v, e).task.turn \in {None, m.turn}
      BY <1>3, <3>1, <3>2, ApplyType DEF Agree, OfItsTurn
    <3> QED BY <3>3, <3>4
  <2>t. MarkManual(Apply(v, e), m.at).task \in Tasks
    BY <1>3, <2>1, ApplyType, MarkType
  <2>3. Accept(v, m, e) = [view |-> MarkManual(Apply(v, e), m.at), manual |-> m]
    BY <1>3 DEF Accept
  <2> QED BY <2>2, <2>3, <2>4, <2>t DEF Outcomes, Agree
<1> QED BY <1>1, <1>2, <1>3

----------------------------------------------------------------------------
(* The smallest number of a set, from which recursion is justified. *)

Less == {ss \in Nat \X Nat : ss[1] < ss[2]}

(* There is no infinite descent among the numbers. *)
LEMMA LessIsWellFounded == IsWellFoundedOn(Less, Nat)
<1>1. Less = OpToRel(<, Nat)
  BY Zenon DEF Less, OpToRel
<1>2. IsWellFoundedOn(OpToRel(<, Nat), Nat)
  BY NatLessThanWellFounded, Zenon
<1> QED BY <1>1, <1>2, Zenon

(* Every set of numbers has a smallest member. *)
LEMMA Smallest ==
  ASSUME NEW T \in SUBSET Nat, T # {}
  PROVE  \E x \in T : \A y \in T : x <= y
<1>1. \E x \in T : \A y \in T : <<y, x>> \notin Less
  BY WFMin, LessIsWellFounded, Zenon
<1>2. PICK x \in T : \A y \in T : <<y, x>> \notin Less
  BY <1>1
<1>3. ASSUME NEW y \in T PROVE x <= y
  <2>1. <<y, x>> \notin Less
    BY <1>2
  <2>2. y \in Nat /\ x \in Nat
    OBVIOUS
  <2> QED BY <2>1, <2>2 DEF Less
<1> QED BY <1>3

(* A function on 0 .. N given by its first value and its steps. *)
Steps(N, R) == [(1 .. N) \X R -> R]
Courses(N, R) == [0 .. N -> R]
Recurs(g, N, a, step) == g[0] = a /\ \A n \in 1 .. N : g[n] = step[<<n, g[n - 1]>>]

(* Such a function exists, by extending it one number at a time. *)
LEMMA RecursionExists ==
  ASSUME NEW N \in Nat, NEW R, NEW a \in R, NEW step \in Steps(N, R)
  PROVE  \E g \in Courses(N, R) : Recurs(g, N, a, step)
<1> USE DEF Steps
<1> DEFINE Solves(g, k) == \A n \in 0 .. k : g[n] = IF n = 0 THEN a ELSE step[<<n, g[n - 1]>>]
           Missing == {k \in 0 .. N : ~ \E g \in [0 .. k -> R] : Solves(g, k)}
<1>1. ASSUME Missing # {} PROVE FALSE
  <2>s. Missing \in SUBSET (0 .. N) /\ 0 .. N \subseteq Nat
    OBVIOUS
  <2>1. PICK k \in Missing : \A j \in Missing : k <= j
    <3> HIDE DEF Missing
    <3> QED BY <1>1, <2>s, Smallest
  <2>2. CASE k = 0
    <3> DEFINE g == [n \in 0 .. k |-> a]
    <3>1. g \in [0 .. k -> R] /\ Solves(g, k)
      BY <2>2
    <3> QED BY <3>1
  <2>3. CASE k # 0
    <3>1. k - 1 \in 0 .. N /\ k - 1 \notin Missing
      <4> HIDE DEF Missing
      <4> QED BY <2>s, <2>1, <2>3
    <3>2. PICK f \in [0 .. k - 1 -> R] : Solves(f, k - 1)
      BY <3>1
    <3> DEFINE b == step[<<k, f[k - 1]>>]
               g == [n \in 0 .. k |-> IF n = k THEN b ELSE f[n]]
    <3>3. b \in R
      <4>1. k \in 1 .. N /\ f[k - 1] \in R
        BY <2>3, <3>1
      <4> QED BY <4>1
    <3>4. g \in [0 .. k -> R]
      BY <3>3, <2>3
    <3>5. ASSUME NEW n \in 0 .. k PROVE g[n] = IF n = 0 THEN a ELSE step[<<n, g[n - 1]>>]
      <4>1. CASE n = k
        <5>1. g[n] = b /\ n - 1 \in 0 .. k /\ n - 1 # k
          BY <4>1, <2>3
        <5>2. g[n - 1] = f[k - 1]
          BY <5>1, <4>1
        <5> QED BY <4>1, <2>3, <5>1, <5>2
      <4>2. CASE n # k
        <5>1. n \in 0 .. k - 1
          BY <4>2
        <5>2. g[n] = f[n] /\ (n # 0 => g[n - 1] = f[n - 1])
          BY <5>1
        <5> QED BY <3>2, <5>1, <5>2
      <4> QED BY <4>1, <4>2
    <3> QED BY <3>4, <3>5
  <2> QED BY <2>2, <2>3
<1>2. PICK g \in [0 .. N -> R] : Solves(g, N)
  BY <1>1
<1>3. g[0] = a /\ \A n \in 1 .. N : g[n] = step[<<n, g[n - 1]>>]
  <2> HIDE DEF Missing
  <2>1. 0 \in 0 .. N /\ \A n \in 1 .. N : n \in 0 .. N /\ n # 0
    OBVIOUS
  <2> QED BY <1>2, <2>1
<1> QED BY <1>2, <1>3 DEF Recurs, Courses

----------------------------------------------------------------------------
(* What the sources tell is an event. *)

CodexOK == codex \in Seq(Facts) /\ Len(codex) <= MaxFacts

(* An orphan is not marked as completed by the user. *)
LEMMA OrphanType ==
  ASSUME NEW v \in Views, v.task # None, NEW at \in Times
  PROVE  MarkOrphaned(v, at) \in Views /\ Agree(MarkOrphaned(v, at), None)
<1>1. v.task \in Tasks
  BY DEF Views
<1> DEFINE t == [v.task EXCEPT !.status = "interrupted", !.request = None,
                               !.updated = Later(@, at)]
<1>2. t \in Tasks /\ t.status = "interrupted"
  <2>1. Later(v.task.updated, at) \in Times
    BY <1>1, LaterIsTime DEF Tasks
  <2> QED BY <1>1, <2>1 DEF Tasks, Statuses, Terminal
<1>3. MarkOrphaned(v, at) = [v EXCEPT !.orphaned = TRUE, !.task = t]
  BY <1>1 DEF MarkOrphaned, Views, Tasks
<1> HIDE DEF t
<1>4. MarkOrphaned(v, at) \in Views /\ MarkOrphaned(v, at).task = t
  BY <1>2, <1>3 DEF Views
<1> QED BY <1>2, <1>4 DEF Agree, Marked, OfItsTurn

(* Facts have their times. *)
LEMMA FactTime ==
  ASSUME CodexOK, NEW n \in 1 .. Len(codex)
  PROVE  /\ 2 * n \in Times /\ 2 * Len(codex) \in Times /\ Now \in Times
         /\ codex[n] \in Facts
BY FactsAssumption DEF CodexOK, Times, Now

(* A turn that is known has a first fact. *)
LEMMA StartTime ==
  ASSUME CodexOK, NEW n \in 1 .. Len(codex)
  PROVE  StartOf(codex[n].turn) \in Times
<1> DEFINE T == {m \in 1 .. Len(codex) : codex[m].turn = codex[n].turn}
           Starts(x) == codex[x].turn = codex[n].turn
                        /\ \A m \in DOMAIN codex : codex[m].turn = codex[n].turn => x <= m
<1>1. Len(codex) \in Nat /\ DOMAIN codex = 1 .. Len(codex)
  BY DEF CodexOK
<1>2. T \in SUBSET Nat /\ n \in T
  BY <1>1
<1>3. PICK x \in T : \A y \in T : x <= y
  <2> HIDE DEF T
  <2> QED BY <1>2, Smallest
<1>4. x \in DOMAIN codex /\ Starts(x)
  BY <1>1, <1>3
<1>5. (CHOOSE y \in DOMAIN codex : Starts(y)) \in DOMAIN codex
  <2> HIDE DEF Starts
  <2> QED BY <1>4
<1>6. StartOf(codex[n].turn) = 2 * (CHOOSE y \in DOMAIN codex : Starts(y))
  BY DEF StartOf
<1> HIDE DEF Starts
<1> QED BY <1>1, <1>5, <1>6, FactTime

(* Records of the session file are events. *)
LEMMA SessionEventType ==
  ASSUME CodexOK, NEW n \in 1 .. Len(codex)
  PROVE  SessionEvent(n) \in SourceEvents
<1>1. 2 * n \in Times /\ codex[n] \in Facts /\ StartOf(codex[n].turn) \in Times
  BY FactTime, StartTime
<1>2. codex[n].status \in Statuses \ {"manually_completed"}
  BY <1>1 DEF Facts, Statuses, Active, Waiting, Terminal
<1> QED BY <1>1, <1>2 DEF SessionEvent, SourceEvents, Facts

(* What App Server answers is an event. *)
LEMMA EventsAreSourceEvents == Events \subseteq SourceEvents
BY DEF Events, SourceEvents

(* Notifications are events. *)
LEMMA NotificationType ==
  ASSUME CodexOK, NEW n \in 1 .. Len(codex)
  PROVE  StatusChanged(n) \in Events /\ TurnNotification(n) \in Events
<1>1. /\ 2 * n \in Times /\ codex[n] \in Facts /\ StartOf(codex[n].turn) \in Times
      /\ Now \in Times
  BY FactTime, StartTime
<1>2. codex[n].status \in Statuses \ {"manually_completed"}
  BY <1>1 DEF Facts, Statuses, Active, Waiting, Terminal
<1>3. "completed" \in Statuses \ {"manually_completed"}
  BY DEF Statuses, Terminal
<1>4. ThreadStatus(codex[n]) \in Statuses \ {"manually_completed"}
  BY <1>2, <1>3 DEF ThreadStatus
<1>5. StatusChanged(n) \in Events
  BY <1>1, <1>4 DEF StatusChanged, Events
<1>6. TurnNotification(n) \in Events
  BY <1>1, <1>2 DEF TurnNotification, Events, Facts
<1> QED BY <1>5, <1>6

(* thread/list and thread/read answer with events of a thread that         *)
(* exists.                                                                 *)
LEMMA AnswerType ==
  ASSUME CodexOK, codex # <<>>, NEW loaded \in BOOLEAN
  PROVE  Row(loaded) \in Events /\ Details \in Events
<1>0. Len(codex) \in 1 .. Len(codex) /\ Last(codex) = codex[Len(codex)]
  BY DEF CodexOK, Last
<1>1. /\ 2 * Len(codex) \in Times /\ Last(codex) \in Facts
      /\ StartOf(Last(codex).turn) \in Times
  BY <1>0, FactTime, StartTime
<1>2. Last(codex).status \in Statuses \ {"manually_completed"}
  BY <1>1 DEF Facts, Statuses, Active, Waiting, Terminal
<1>3. {"completed", "unknown"} \subseteq Statuses \ {"manually_completed"}
  BY DEF Statuses, Terminal
<1>4. ThreadStatus(Last(codex)) \in Statuses \ {"manually_completed"}
  BY <1>2, <1>3 DEF ThreadStatus
<1>5. Row(loaded) \in Events
  BY <1>1, <1>3, <1>4 DEF Row, Events
<1>6. Details \in Events
  BY <1>1, <1>2 DEF Details, Events, Facts
<1> QED BY <1>5, <1>6

----------------------------------------------------------------------------
(* One record of the session file is read. *)
ReadRecord(n, r) ==
  IF IsStaleTurn(r.view, SessionEvent(n)) THEN r
  ELSE Accept(r.view, r.manual, SessionEvent(n))

(* A record read leaves an outcome. *)
LEMMA ReadRecordType ==
  ASSUME CodexOK, NEW n \in 1 .. Len(codex), NEW r \in Outcomes
  PROVE  ReadRecord(n, r) \in Outcomes
<1>1. r.view \in Views /\ r.manual \in Records \cup {None} /\ Agree(r.view, r.manual)
  BY DEF Outcomes
<1>2. SessionEvent(n) \in SourceEvents
  BY SessionEventType
<1>3. Accept(r.view, r.manual, SessionEvent(n)) \in Outcomes
  BY <1>1, <1>2, AcceptType
<1> QED BY <1>3 DEF ReadRecord

(* What holds of the view before the first record, and is handed on from   *)
(* each record to the next, holds after the last.                          *)
LEMMA BootstrapInduction ==
  ASSUME CodexOK, NEW v \in Views, NEW m \in Records \cup {None}, Agree(v, m),
         NEW G \in [0 .. Len(codex) -> SUBSET Outcomes],
         [view |-> v, manual |-> m] \in G[0],
         \A n \in 1 .. Len(codex) : \A r \in G[n - 1] : ReadRecord(n, r) \in G[n]
  PROVE  Bootstrap(v, m) \in G[Len(codex)]
<1> DEFINE N == Len(codex)
           a == [view |-> v, manual |-> m]
           step == [x \in (1 .. N) \X Outcomes |-> ReadRecord(x[1], x[2])]
           Solution(g) == g = [n \in 0 .. N |-> IF n = 0 THEN a ELSE ReadRecord(n, g[n - 1])]
           upTo == CHOOSE g : Solution(g)
<1>0. N \in Nat
  BY DEF CodexOK
<1>1. a \in Outcomes
  BY DEF Outcomes
<1>3. step \in [(1 .. N) \X Outcomes -> Outcomes]
  <2>1. ASSUME NEW n \in 1 .. N, NEW r \in Outcomes PROVE ReadRecord(n, r) \in Outcomes
    BY ReadRecordType
  <2> HIDE DEF N
  <2> QED BY <2>1
<1>4. \E g : Solution(g)
  <2>0. PICK g \in Courses(N, Outcomes) : Recurs(g, N, a, step)
    <3> HIDE DEF step, N, a
    <3>1. step \in Steps(N, Outcomes)
      BY <1>3 DEF Steps
    <3> QED BY <1>0, <1>1, <3>1, RecursionExists, Zenon
  <2>1. /\ g \in [0 .. N -> Outcomes]
        /\ g[0] = a /\ \A n \in 1 .. N : g[n] = step[<<n, g[n - 1]>>]
    <3> HIDE DEF step, N, a
    <3> QED BY <2>0 DEF Courses, Recurs
  <2>2. ASSUME NEW n \in 0 .. N PROVE g[n] = IF n = 0 THEN a ELSE ReadRecord(n, g[n - 1])
    <3> HIDE DEF N, a
    <3>1. CASE n = 0
      BY <2>1, <3>1
    <3>2. CASE n # 0
      <4>1. n \in 1 .. N /\ n - 1 \in 0 .. N
        BY <1>0, <3>2
      <4>2. g[n - 1] \in Outcomes
        BY <2>1, <4>1
      <4>3. step[<<n, g[n - 1]>>] = ReadRecord(n, g[n - 1])
        BY <4>1, <4>2
      <4> QED BY <2>1, <3>2, <4>1, <4>3
    <3> QED BY <3>1, <3>2
  <2>3. Solution(g)
    <3> HIDE DEF step, N, a
    <3> QED BY <2>1, <2>2
  <2> QED BY <2>3
<1>5. Solution(upTo)
  <2> HIDE DEF Solution
  <2> QED BY <1>4
<1> DEFINE Bad == {n \in 0 .. N : upTo[n] \notin G[n]}
<1>6. Bad = {}
  <2> SUFFICES ASSUME Bad # {} PROVE FALSE
    OBVIOUS
  <2>1. Bad \in SUBSET Nat
    BY <1>0
  <2>2. PICK n \in Bad : \A j \in Bad : n <= j
    <3> HIDE DEF Bad
    <3> QED BY <2>1, Smallest
  <2>3. n \in 0 .. N /\ upTo[n] \notin G[n]
    OBVIOUS
  <2>4. upTo[n] = IF n = 0 THEN a ELSE ReadRecord(n, upTo[n - 1])
    <3> HIDE DEF upTo, a, N
    <3> QED BY <1>5, <2>3
  <2>5. CASE n = 0
    BY <2>3, <2>4, <2>5
  <2>6. CASE n # 0
    <3>1. n \in 1 .. N /\ n - 1 \in 0 .. N /\ n - 1 \notin Bad
      <4> HIDE DEF Bad, N
      <4> QED BY <1>0, <2>2, <2>3, <2>6
    <3>2. upTo[n - 1] \in G[n - 1]
      BY <3>1
    <3> HIDE DEF upTo
    <3> QED BY <2>3, <2>4, <2>6, <3>1, <3>2
  <2> QED BY <2>5, <2>6
<1>7. upTo[N] \in G[N]
  <2>1. N \in 0 .. N
    BY <1>0
  <2> QED BY <1>6, <2>1
<1>8. Bootstrap(v, m) = upTo[N]
  BY DEF Bootstrap, ReadRecord
<1> QED BY <1>7, <1>8

(* Reading the session file from its first record on leaves an outcome. *)
LEMMA BootstrapType ==
  ASSUME CodexOK, NEW v \in Views, NEW m \in Records \cup {None}, Agree(v, m)
  PROVE  Bootstrap(v, m) \in Outcomes
<1> DEFINE G == [n \in 0 .. Len(codex) |-> Outcomes]
<1>0. Len(codex) \in Nat
  BY DEF CodexOK
<1>1. [view |-> v, manual |-> m] \in Outcomes
  BY DEF Outcomes
<1>2. ASSUME NEW n \in 1 .. Len(codex), NEW r \in G[n - 1] PROVE ReadRecord(n, r) \in G[n]
  <2>1. r \in Outcomes /\ n \in 0 .. Len(codex)
    BY <1>0
  <2> QED BY <2>1, ReadRecordType
<1>3. G \in [0 .. Len(codex) -> SUBSET Outcomes] /\ G[0] = Outcomes /\ G[Len(codex)] = Outcomes
  BY <1>0
<1> HIDE DEF G
<1> QED BY <1>1, <1>2, <1>3, BootstrapInduction, Zenon

----------------------------------------------------------------------------
(* The steps. *)

(* Only a thread that exists is polled. *)
PollIsOfThread == poll # NoPoll => codex # <<>>

(* The inductive invariant. *)
RInv == RTypeOK /\ Agree(view, manual) /\ PollIsOfThread

Polls == [phase : {"listed", "reading", "resolving"}, row : Events,
          at : Times, quiet : BOOLEAN]
(* The invariant without the pipeline's part. *)
MemoryOK ==
  /\ CodexOK
  /\ view \in Views
  /\ manual \in Records \cup {None}
  /\ Agree(view, manual)
  /\ PollIsOfThread
  /\ scanned \in 0 .. Len(codex)
  /\ read \in 0 .. scanned
  /\ heard \in 0 .. 2 * Len(codex)
  /\ poll = NoPoll \/ poll \in Polls
  /\ batch \in Seq(Snapshots)

(* The two parts of the invariant. *)
LEMMA InvIsMemory == RInv <=> TypeOK /\ MemoryOK
BY DEF RInv, RTypeOK, MemoryOK, CodexOK, Views, Records, Polls

(* The snapshot of a task is one the pipeline knows. *)
LEMMA SnapshotIsObserved ==
  ASSUME NEW v, v.task \in Tasks
  PROVE  Snapshot(v) \in Snapshots /\ Snapshot(v) \in Observed
BY ThreadAssumption, ObservedIsAnything DEF Snapshot, Snapshots, Tasks

(* Processing a snapshot is a step of the pipeline. *)
LEMMA ProcessIsPipeline ==
  ASSUME NEW p \in Loops, NEW s \in Observed, Process(p, s)
  PROVE  [Next]_vars
BY DEF Process, Next

(* An event received keeps card and record in agreement. *)
LEMMA ReceiveKeeps ==
  ASSUME MemoryOK, NEW e \in SourceEvents, Receive(e)
  PROVE  /\ view' \in Views /\ manual' \in Records \cup {None}
         /\ Agree(view', manual')
         /\ view'.task \in Tasks
<1>1. Accept(view, manual, e) \in Outcomes /\ Accept(view, manual, e).view.task \in Tasks
  BY AcceptType DEF MemoryOK
<1>2. view' = Accept(view, manual, e).view /\ manual' = Accept(view, manual, e).manual
  BY DEF Receive
<1> QED BY <1>1, <1>2 DEF Outcomes

(* A poll that is not idle has a row. *)
LEMMA PollingIsRow ==
  ASSUME MemoryOK, poll.phase # "idle"
  PROVE  poll \in Polls
BY DEF MemoryOK, NoPoll

(* Codex goes on. *)
LEMMA HappenStep == ASSUME MemoryOK, Happen PROVE MemoryOK' /\ [Next]_vars
<1>1. PICK turn \in Turns, status \in Happenings \cup {"running"} :
        codex' = Append(codex,
            [turn |-> turn, status |-> status,
             request |-> IF status \in Waiting THEN RequestOf[Len(codex) + 1] ELSE None])
  BY DEF Happen
<1>2. Len(codex) \in Nat /\ Len(codex) < MaxFacts
  BY DEF Happen, MemoryOK, CodexOK
<1>3. RequestOf[Len(codex) + 1] \in Requests
  BY <1>2, FactsAssumption, RequestsAssumption
<1>4. status \in Active \cup Terminal
  BY HappeningsAssumption DEF Active
<1> DEFINE f == [turn |-> turn, status |-> status,
                 request |-> IF status \in Waiting THEN RequestOf[Len(codex) + 1] ELSE None]
<1>5. f \in Facts
  BY <1>3, <1>4 DEF Facts
<1> HIDE DEF f
<1>6. codex' = Append(codex, f)
  BY <1>1 DEF f
<1>7. codex' \in Seq(Facts) /\ Len(codex') = Len(codex) + 1
  BY <1>5, <1>6 DEF MemoryOK, CodexOK
<1>8. CodexOK'
  BY <1>2, <1>7, FactsAssumption DEF CodexOK
<1>9. UNCHANGED <<vars, view, manual, sources>>
  BY DEF Happen
<1>11. PollIsOfThread'
  BY <1>7, <1>2 DEF PollIsOfThread
<1>10. 0 .. Len(codex) \subseteq 0 .. Len(codex') /\ 0 .. 2 * Len(codex) \subseteq 0 .. 2 * Len(codex')
  BY <1>2, <1>7
<1> QED BY <1>8, <1>9, <1>10, <1>11 DEF MemoryOK, sources

(* thread/list is answered. *)
LEMMA ListStep == ASSUME MemoryOK, List PROVE MemoryOK' /\ [Next]_vars
<1>1. PICK loaded \in BOOLEAN :
        poll' = [phase |-> "listed", row |-> Row(loaded), at |-> Now, quiet |-> FALSE]
  BY DEF List
<1>2. Len(codex) \in 1 .. Len(codex)
  BY DEF List, MemoryOK, CodexOK
<1>3. Row(loaded) \in Events /\ Now \in Times
  BY <1>2, AnswerType, FactTime DEF List, MemoryOK
<1>4. poll' \in Polls
  BY <1>1, <1>3 DEF Polls
<1> QED BY <1>4 DEF List, MemoryOK, CodexOK, PollIsOfThread

(* A row is taken up, its task perhaps as an orphan. *)
LEMMA TakeRowStep == ASSUME MemoryOK, TakeRow PROVE MemoryOK' /\ [Next]_vars
<1>1. poll \in Polls
  BY PollingIsRow DEF TakeRow, Polling
<1>2. PICK orphan \in {FALSE, IsOrphan} :
       LET phase == IF poll.row.status \in Active THEN "reading" ELSE "resolving" IN
       /\ IF orphan
          THEN view' = MarkOrphaned(view, poll.at) /\ EndWatch
          ELSE UNCHANGED <<vars, view>>
       /\ \/ poll' = [poll EXCEPT !.phase = phase, !.quiet = orphan]
          \/ phase = "resolving" /\ poll' = NoPoll
  BY DEF TakeRow
<1>3. orphan \in BOOLEAN
  BY DEF IsOrphan
<1>4. poll' = NoPoll \/ poll' \in Polls
  BY <1>1, <1>2, <1>3 DEF Polls
<1>5. UNCHANGED <<codex, manual, scanned, read, heard, batch>>
  BY DEF TakeRow
<1>8. codex # <<>>
  BY DEF TakeRow, Polling, MemoryOK, PollIsOfThread, NoPoll
<1>6. CASE orphan
  <2>1. view.task # None /\ view.task.status \in Active /\ IsOrphan
    BY <1>2, <1>6 DEF IsOrphan
  <2>2. manual = None
    BY <2>1 DEF MemoryOK, Agree, Marked, OfItsTurn, Active, Waiting
  <2>3. view' \in Views /\ Agree(view', manual')
    BY <1>1, <1>2, <1>5, <1>6, <2>1, <2>2, OrphanType DEF MemoryOK, Polls
  <2>4. [Next]_vars
    BY <1>2, <1>6, ThreadAssumption DEF EndWatch, Next
  <2> QED BY <1>4, <1>5, <1>8, <2>3, <2>4 DEF MemoryOK, CodexOK, PollIsOfThread
<1>7. CASE ~ orphan
  <2>1. UNCHANGED <<vars, view>>
    BY <1>2, <1>7
  <2> QED BY <1>4, <1>5, <1>8, <2>1 DEF MemoryOK, CodexOK, PollIsOfThread
<1> QED BY <1>6, <1>7

(* thread/read is answered. *)
LEMMA ReadThreadStep == ASSUME MemoryOK, ReadThread PROVE MemoryOK' /\ [Next]_vars
<1>1. poll \in Polls
  BY PollingIsRow DEF ReadThread, Polling
<1>2. PICK e \in {Details, poll.row} :
       poll' = IF IsStaleTurn(view, e) THEN NoPoll
               ELSE [poll EXCEPT !.phase = "resolving", !.row = e]
  BY DEF ReadThread
<1>3. codex # <<>>
  BY DEF ReadThread, Polling, MemoryOK, PollIsOfThread, NoPoll
<1>4. e \in Events
  BY <1>1, <1>2, <1>3, AnswerType DEF MemoryOK, Polls
<1>5. poll' = NoPoll \/ poll' \in Polls
  BY <1>1, <1>2, <1>4 DEF Polls
<1> QED BY <1>3, <1>5 DEF ReadThread, MemoryOK, CodexOK, PollIsOfThread

(* A polled snapshot is merged and processed. *)
LEMMA AcceptSnapshotStep == ASSUME MemoryOK, AcceptSnapshot PROVE MemoryOK' /\ [Next]_vars
<1>1. poll \in Polls /\ poll.row \in SourceEvents
  <2>1. poll \in Polls
    BY PollingIsRow DEF AcceptSnapshot, Polling
  <2> QED BY <2>1, EventsAreSourceEvents DEF Polls
<1>2. /\ view' \in Views /\ manual' \in Records \cup {None}
      /\ Agree(view', manual')
      /\ view'.task \in Tasks
  BY <1>1, ReceiveKeeps DEF AcceptSnapshot
<1>3. [Next]_vars
  <2>1. Snapshot(view') \in Observed
    BY <1>2, SnapshotIsObserved
  <2>2. refresh \in Loops
    BY DEF AcceptSnapshot, Polling
  <2> QED BY <2>1, <2>2, ProcessIsPipeline DEF AcceptSnapshot
<1> QED BY <1>2, <1>3 DEF AcceptSnapshot, MemoryOK, CodexOK, PollIsOfThread

(* A notification is merged as an event of the thread, or dropped. *)
LEMMA NotifiedIsEvent ==
  ASSUME MemoryOK, NEW n \in 1 .. 2 * MaxFacts, HandleNotification(n)
  PROVE  \E e \in Events :
           \/ UNCHANGED <<vars, view, manual>>
           \/ Receive(e) /\ Process(listener, Snapshot(view'))
<1> DEFINE fact == (n + 1) \div 2
           e == IF n % 2 = 1 THEN StatusChanged(fact) ELSE TurnNotification(fact)
<1>1. fact \in 1 .. Len(codex)
  BY FactsAssumption DEF HandleNotification, MemoryOK, CodexOK
<1>2. e \in Events
  BY <1>1, NotificationType DEF MemoryOK
<1>3. IF IsStaleTurn(view, e) THEN UNCHANGED <<vars, view, manual>>
      ELSE Receive(e) /\ Process(listener, Snapshot(view'))
  BY DEF HandleNotification
<1> HIDE DEF e, fact
<1> QED BY <1>2, <1>3

(* A notification is merged and processed. *)
LEMMA HandleNotificationStep ==
  ASSUME MemoryOK, NEW n \in 1 .. 2 * MaxFacts, HandleNotification(n)
  PROVE  MemoryOK' /\ [Next]_vars
<1>1. heard' \in 0 .. 2 * Len(codex)
  BY FactsAssumption DEF HandleNotification, MemoryOK, CodexOK
<1>2. listener \in Loops /\ UNCHANGED <<codex, scanned, read, poll, batch>>
  BY DEF HandleNotification
<1>3. PICK e \in SourceEvents :
        \/ UNCHANGED <<vars, view, manual>>
        \/ Receive(e) /\ Process(listener, Snapshot(view'))
  BY NotifiedIsEvent, EventsAreSourceEvents
<1>4. CASE UNCHANGED <<vars, view, manual>>
  BY <1>1, <1>2, <1>4 DEF MemoryOK, CodexOK, PollIsOfThread
<1>5. CASE Receive(e) /\ Process(listener, Snapshot(view'))
  <2>1. /\ view' \in Views /\ manual' \in Records \cup {None}
        /\ Agree(view', manual')
        /\ view'.task \in Tasks
    BY <1>5, ReceiveKeeps
  <2>2. [Next]_vars
    BY <1>2, <1>5, <2>1, SnapshotIsObserved, ProcessIsPipeline
  <2> QED BY <1>1, <1>2, <2>1, <2>2 DEF MemoryOK, CodexOK, PollIsOfThread
<1> QED BY <1>3, <1>4, <1>5

(* The session file is scanned. *)
LEMMA ScanStep == ASSUME MemoryOK, Scan PROVE MemoryOK' /\ [Next]_vars
BY DEF Scan, MemoryOK, CodexOK, PollIsOfThread

(* A record is merged. *)
LEMMA MergeNextStep == ASSUME MemoryOK, MergeNext PROVE MemoryOK' /\ [Next]_vars
<1>1. read' \in 1 .. Len(codex) /\ read' \in 0 .. scanned
  BY DEF MergeNext, MemoryOK, CodexOK
<1> DEFINE e == SessionEvent(read')
<1>2. e \in SourceEvents
  BY <1>1, SessionEventType DEF MemoryOK
<1>3. UNCHANGED <<vars, codex, scanned, heard, poll>>
  BY DEF MergeNext
<1>4. IF IsStaleTurn(view, e) THEN UNCHANGED <<view, manual, batch>>
      ELSE Receive(e) /\ batch' = Append(batch, Snapshot(view'))
  BY DEF MergeNext
<1> HIDE DEF e
<1>5. CASE IsStaleTurn(view, e)
  BY <1>1, <1>3, <1>4, <1>5 DEF MemoryOK, CodexOK, PollIsOfThread
<1>6. CASE ~ IsStaleTurn(view, e)
  <2>1. /\ view' \in Views /\ manual' \in Records \cup {None}
        /\ Agree(view', manual')
        /\ view'.task \in Tasks
    BY <1>2, <1>4, <1>6, ReceiveKeeps
  <2>2. batch' \in Seq(Snapshots)
    BY <1>4, <1>6, <2>1, SnapshotIsObserved DEF MemoryOK
  <2> QED BY <1>1, <1>3, <2>1, <2>2 DEF MemoryOK, CodexOK, PollIsOfThread
<1> QED BY <1>5, <1>6

(* A snapshot of the batch is processed. *)
LEMMA ProcessNextStep == ASSUME MemoryOK, ProcessNext PROVE MemoryOK' /\ [Next]_vars
<1>1. Head(batch) \in Snapshots /\ Tail(batch) \in Seq(Snapshots)
  BY DEF ProcessNext, MemoryOK
<1>2. [Next]_vars
  BY <1>1, LoopsAssumption, ObservedIsAnything, ProcessIsPipeline DEF ProcessNext
<1> QED BY <1>1, <1>2 DEF ProcessNext, MemoryOK, CodexOK, PollIsOfThread

(* Watches change, messages are sent. *)
LEMMA UserStep ==
  ASSUME MemoryOK,
         \/ \E mode \in Modes : Watch(mode)
         \/ Unwatch
         \/ \E p \in Loops : Send(p)
  PROVE  MemoryOK' /\ [Next]_vars
<1>1. UNCHANGED <<codex, view, manual, sources>>
  BY DEF Watch, Unwatch, Send
<1>2. MemoryOK'
  BY <1>1 DEF MemoryOK, CodexOK, PollIsOfThread, sources
<1>3. ASSUME NEW mode \in Modes, Watch(mode) PROVE Next
  <2>1. view.task \in Tasks
    BY <1>3 DEF Watch, MemoryOK, Views
  <2> QED BY <1>3, <2>1, SnapshotIsObserved DEF Watch, Next
<1>4. ASSUME Unwatch PROVE Next
  BY <1>4, ThreadAssumption DEF Unwatch, Next
<1>5. ASSUME NEW p \in Loops, Send(p) PROVE Next
  BY <1>5 DEF Send, Next, Procs
<1> QED BY <1>2, <1>3, <1>4, <1>5

(* The user ends the turn. *)
LEMMA MarkManualStep ==
  ASSUME MemoryOK, MarkManualCompletion PROVE MemoryOK' /\ [Next]_vars
<1>1. Now \in Times
  BY FactsAssumption DEF MemoryOK, CodexOK, Now, Times
<1>2. view.task \in Tasks
  BY DEF MarkManualCompletion, MemoryOK, Views
<1>3. manual' \in Records /\ manual' # None
  <2>1. manual' = [turn |-> view.task.turn, at |-> Now]
    BY DEF MarkManualCompletion
  <2> QED BY <1>1, <1>2, <2>1, NoRecordAssumption DEF Records, Tasks
<1>4. view' \in Views /\ Agree(view', manual')
  <2>1. view' = MarkManual(view, Now) /\ view.task # None
    BY DEF MarkManualCompletion
  <2>2. manual'.turn = view.task.turn
    BY DEF MarkManualCompletion
  <2>3. view' \in Views /\ Marked(view', manual') /\ view'.task.turn = view.task.turn
    BY <1>1, <1>3, <2>1, MarkType DEF MemoryOK
  <2> QED BY <2>2, <2>3 DEF Agree, OfItsTurn
<1>5. [Next]_vars
  BY ThreadAssumption DEF MarkManualCompletion, Next
<1> QED BY <1>3, <1>4, <1>5 DEF MarkManualCompletion, MemoryOK, CodexOK, PollIsOfThread, sources

(* There is nothing to mark on no card. *)
LEMMA NoViewType == NoView \in Views /\ \A m : Agree(NoView, m)
BY DEF NoView, Views, Agree, Marked, OfItsTurn

(* The process ends. *)
LEMMA RCrashStep == ASSUME MemoryOK, RCrash PROVE MemoryOK' /\ [Next]_vars
<1>1. Len(codex) \in Nat
  BY DEF MemoryOK, CodexOK
<1>2. [Next]_vars
  BY DEF RCrash, Next
<1>3. <<>> \in Seq(Snapshots)
  OBVIOUS
<1> QED BY <1>1, <1>2, <1>3, NoViewType DEF RCrash, MemoryOK, CodexOK, PollIsOfThread

(* A process starts, reads its sources and restores its watches. *)
LEMMA StartStep == ASSUME MemoryOK, Start PROVE MemoryOK' /\ [Next]_vars
<1>1. PICK e \in IF refresh \in Loops /\ codex # <<>>
             THEN {None, Row(TRUE), Row(FALSE), Details} ELSE {None} :
       LET listed == IF e = None THEN [view |-> view, manual |-> manual]
                     ELSE Accept(view, manual, e)
           next == Bootstrap(listed.view, listed.manual)
       IN /\ view' = next.view
          /\ manual' = next.manual
          /\ Restart([t \in Threads |-> IF next.view.task = None THEN None
                                        ELSE next.view.task.status])
  BY DEF Start
<1> DEFINE listed == IF e = None THEN [view |-> view, manual |-> manual]
                     ELSE Accept(view, manual, e)
           next == Bootstrap(listed.view, listed.manual)
           status == [t \in Threads |-> IF next.view.task = None THEN None
                                        ELSE next.view.task.status]
<1>2. listed \in Outcomes
  <2>1. CASE e = None
    BY <2>1 DEF MemoryOK, Outcomes
  <2>2. CASE e # None
    <3>1. e \in Events
      BY <1>1, <2>2, AnswerType DEF MemoryOK
    <3>2. Accept(view, manual, e) \in Outcomes
      BY <3>1, EventsAreSourceEvents, AcceptType DEF MemoryOK
    <3> QED BY <2>2, <3>2
  <2> QED BY <2>1, <2>2
<1> HIDE DEF listed
<1>3. next \in Outcomes
  <2>1. listed.view \in Views /\ listed.manual \in Records \cup {None}
        /\ Agree(listed.view, listed.manual)
    BY <1>2 DEF Outcomes
  <2> QED BY <2>1, BootstrapType DEF MemoryOK
<1>4. view' = next.view /\ manual' = next.manual /\ Restart(status)
  BY <1>1 DEF listed
<1> HIDE DEF next
<1>5. view' \in Views /\ manual' \in Records \cup {None} /\ Agree(view', manual')
  BY <1>3, <1>4 DEF Outcomes
<1>6. status \in [Threads -> Statuses \cup {None}]
  <2>1. next.view.task \in Tasks \cup {None}
    BY <1>3 DEF Outcomes, Views
  <2>2. (IF next.view.task = None THEN None ELSE next.view.task.status) \in Statuses \cup {None}
    BY <2>1 DEF Tasks
  <2> QED BY <2>2
<1> HIDE DEF status
<1>7. [Next]_vars
  BY <1>4, <1>6 DEF Next
<1>8. UNCHANGED <<codex, poll, batch>> /\ scanned' = Len(codex) /\ read' = Len(codex)
      /\ heard' = 2 * Len(codex)
  BY DEF Start
<1>9. Len(codex) \in Nat
  BY DEF MemoryOK, CodexOK
<1> QED BY <1>5, <1>7, <1>8, <1>9 DEF MemoryOK, CodexOK, PollIsOfThread

(* Every step keeps the invariant and is a step of the pipeline. *)
LEMMA RuntimeStep == RInv /\ [RNext]_rvars => RInv' /\ [Next]_vars
<1> SUFFICES ASSUME RInv, [RNext]_rvars PROVE RInv' /\ [Next]_vars
  OBVIOUS
<1>1. TypeOK /\ MemoryOK
  BY InvIsMemory
<1>2. MemoryOK' /\ [Next]_vars
  <2>1. CASE UNCHANGED rvars
    BY <1>1, <2>1 DEF rvars, MemoryOK, CodexOK, PollIsOfThread
  <2>2. CASE RNext
    BY <1>1, <2>2, HappenStep, ListStep, TakeRowStep, ReadThreadStep, AcceptSnapshotStep,
       HandleNotificationStep, ScanStep, MergeNextStep, ProcessNextStep, UserStep,
       MarkManualStep, RCrashStep, StartStep DEF RNext
  <2> QED BY <2>1, <2>2
<1>3. TypeOK'
  BY <1>1, <1>2, TypeStep
<1>4. (TypeOK /\ MemoryOK <=> RInv)'
  BY InvIsMemory, PTL
<1> QED BY <1>2, <1>3, <1>4

(* The invariant holds at the start. *)
LEMMA RuntimeInit == RInit => RInv /\ Init
<1> SUFFICES ASSUME RInit PROVE RInv
  BY DEF RInit
<1>1. TypeOK
  BY InitType DEF RInit
<1>2. MemoryOK
  BY NoViewType, FactsAssumption DEF RInit, MemoryOK, CodexOK, PollIsOfThread
<1> QED BY <1>1, <1>2, InvIsMemory

(* The invariant holds in every behaviour. *)
THEOREM RuntimeInvariance == RSpec => []RInv
<1>1. RInv /\ [RNext]_rvars => RInv'
  BY RuntimeStep
<1> QED BY <1>1, RuntimeInit, PTL DEF RSpec

(* Merging an event of the same turn leaves its end an end. *)
LEMMA MergeKeepsEnd ==
  ASSUME NEW t \in Tasks, NEW e \in SourceEvents,
         t.status \in Terminal, Merge(t, e).turn = t.turn
  PROVE  Merge(t, e).status \notin Active
<1>1. ~ OtherTurn(t, e)
  BY DEF Merge, Or, OtherTurn
<1>2. MergedStatus(t, e) \in Ended
  BY <1>1 DEF MergedStatus, Ended
<1> QED BY <1>2 DEF Merge, Ended, Terminal, Active, Waiting

(* An event leaves a turn that ended so, unless it is a record of the      *)
(* session file under an orphan mark.                                      *)
LEMMA AcceptKeepsEnd ==
  ASSUME NEW v \in Views, NEW m \in Records \cup {None}, Agree(v, m),
         NEW e \in SourceEvents, ~ v.orphaned \/ e.source # "session",
         v.task # None, v.task.status \in Ended,
         m # None => m.turn # None,
         Accept(v, m, e).view.task.turn = v.task.turn
  PROVE  Accept(v, m, e).view.task.status \notin Active
<1>0. v.task \in Tasks
  BY DEF Views
<1>d. "manually_completed" \notin Active /\ "unknown" \notin Active /\ Ended \cap Active = {}
  BY DEF Active, Waiting, Ended, Terminal
<1>1. CASE m = None
  <2>1. v.task.status \in Terminal
    BY <1>1 DEF Agree, Marked, Ended
  <2>2. Accept(v, m, e).view = Apply(v, e)
    BY <1>1 DEF Accept
  <2>3. CASE IsStaleTurn(v, e)
    BY <1>d, <2>2, <2>3 DEF Apply
  <2>4. CASE ~ IsStaleTurn(v, e)
    <3>1. Revived(v, e) = v
      BY DEF Revived
    <3>2. Apply(v, e) = [v EXCEPT !.task = Merge(v.task, e), !.turnAt = TurnAt(v, e)]
      BY <2>4, <3>1 DEF Apply
    <3>3. Apply(v, e).task = Merge(v.task, e)
      BY <3>2 DEF Views
    <3> QED BY <1>0, <2>1, <2>2, <3>3, MergeKeepsEnd
  <2> QED BY <2>3, <2>4
<1>2. CASE m # None /\ IsNewGeneration(m, e)
  <2>1. v.task.status = "manually_completed" /\ v.task.turn \in {None, m.turn}
    BY <1>2 DEF Agree, Marked, OfItsTurn
  <2>2. e.turn \notin {None, m.turn}
    BY <1>2 DEF IsNewGeneration
  <2>3. Accept(v, m, e).view = Apply(ClearManual(v), e)
    BY <1>2 DEF Accept
  <2>4. Apply(ClearManual(v), e) = ClearManual(v)
    BY <2>1, <2>2, <2>3, ClearType, ApplyType
  <2>5. ClearManual(v).task.status = "unknown"
    <3> DEFINE t == [v.task EXCEPT !.status = "unknown", !.request = None]
    <3>1. ClearManual(v) = [v EXCEPT !.task = t]
      BY <1>0, <2>1 DEF ClearManual, Views, Tasks
    <3>2. t.status = "unknown"
      BY <1>0 DEF Tasks
    <3> HIDE DEF t
    <3> QED BY <3>1, <3>2 DEF Views
  <2> QED BY <1>d, <2>3, <2>4, <2>5
<1>3. CASE m # None /\ ~ IsNewGeneration(m, e)
  <2>1. Accept(v, m, e) \in Outcomes /\ Accept(v, m, e).view.task \in Tasks
        /\ Accept(v, m, e).manual = m
    BY <1>3, AcceptType DEF Accept
  <2>2. Accept(v, m, e).view.task # None
    BY <2>1, NoRecordAssumption
  <2>3. Accept(v, m, e).view.task.status = "manually_completed"
    BY <1>3, <2>1, <2>2 DEF Outcomes, Agree, Marked
  <2> QED BY <1>d, <2>3
<1> QED BY <1>1, <1>2, <1>3

(* The variables keep their types, for any facts, turns and requests and   *)
(* any interleaving of the loops.                                          *)
THEOREM RuntimeTypes == RSpec => []RTypeOK
<1>1. RInv => RTypeOK
  BY DEF RInv
<1> QED BY <1>1, RuntimeInvariance, PTL

(* The card says "manually completed" exactly while the durable record     *)
(* stands.                                                                 *)
THEOREM ManualCompletionAgrees == RSpec => []ManualAgrees
<1>1. RInv => ManualAgrees
  BY DEF RInv, Agree, Marked, OfItsTurn, ManualAgrees
<1> QED BY <1>1, RuntimeInvariance, PTL

(* The runtime does to watches and notifications only what the pipeline    *)
(* allows.                                                                 *)
THEOREM RuntimeImplementsPipeline == RSpec => ImplementsPipeline
<1>1. RInv /\ [RNext]_rvars => [Next]_vars
  BY RuntimeStep
<1> QED BY <1>1, RuntimeInit, RuntimeInvariance, PTL DEF RSpec, ImplementsPipeline, Spec

(* The pipeline's guarantee carries over: merging, polling and restarting  *)
(* never send a notification twice by themselves.                          *)
THEOREM RuntimeNotifiesOnce == RSpec => []SentAtMostOncePerRequest
BY RuntimeImplementsPipeline, NoDuplicateSend, PTL DEF ImplementsPipeline

----------------------------------------------------------------------------
(* The fields that tell the turns of two views apart are the same. *)
SameTurn(v, w) ==
  /\ v.task = None <=> w.task = None
  /\ v.task # None => w.task.turn = v.task.turn /\ w.task.started = v.task.started
  /\ w.turnAt = v.turnAt
  /\ w.orphaned = v.orphaned

(* What applying news to v does to those fields. *)
TurnAfter(v, e) == IF v.task = None \/ e.turn # None THEN e.turn ELSE v.task.turn
StartedAfter(v, e) ==
  IF \/ v.task = None
     \/ None \notin {e.turn, v.task.turn} /\ e.turn # v.task.turn
     \/ e.started # None
  THEN e.started ELSE v.task.started
OrphanedAfter(v, e) == IF v.task # None /\ e.source = "session" THEN FALSE ELSE v.orphaned
Moved(v, e, w) ==
  /\ w.task # None
  /\ w.task.turn = TurnAfter(v, e)
  /\ w.task.started = StartedAfter(v, e)
  /\ w.turnAt = TurnAt(v, e)
  /\ w.orphaned = OrphanedAfter(v, e)

(* A task is something. *)
LEMMA TaskIsSomething == None \notin Tasks
BY NoRecordAssumption

(* Clearing a card keeps its turn. *)
LEMMA ClearTurn ==
  ASSUME NEW v \in Views
  PROVE  /\ SameTurn(v, ClearManual(v))
         /\ v.task # None =>
              ClearManual(v).task.status =
                IF v.task.status = "manually_completed" THEN "unknown" ELSE v.task.status
<1>1. CASE v.task = None \/ v.task.status # "manually_completed"
  BY <1>1 DEF ClearManual, SameTurn
<1>2. CASE ~(v.task = None \/ v.task.status # "manually_completed")
  <2>1. v.task \in Tasks
    BY <1>2 DEF Views
  <2> DEFINE t == [v.task EXCEPT !.status = "unknown", !.request = None]
  <2>2. t \in Tasks /\ t.status = "unknown" /\ t.turn = v.task.turn /\ t.started = v.task.started
    BY <2>1 DEF Tasks, Statuses
  <2>3. ClearManual(v) = [v EXCEPT !.task = t]
    BY <1>2, <2>1 DEF ClearManual, Views, Tasks
  <2> HIDE DEF t
  <2>4. /\ ClearManual(v).task = t /\ ClearManual(v).turnAt = v.turnAt
        /\ ClearManual(v).orphaned = v.orphaned
    BY <2>3 DEF Views
  <2> QED BY <1>2, <2>2, <2>4, TaskIsSomething DEF SameTurn
<1> QED BY <1>1, <1>2

(* Marking a card keeps its turn. *)
LEMMA MarkTurn ==
  ASSUME NEW v \in Views, NEW at \in Times
  PROVE  /\ SameTurn(v, MarkManual(v, at))
         /\ v.task # None => MarkManual(v, at).task.status = "manually_completed"
<1>1. CASE v.task = None
  BY <1>1 DEF MarkManual, SameTurn
<1>2. CASE v.task # None
  <2>1. v.task \in Tasks
    BY <1>2 DEF Views
  <2> DEFINE t == [v.task EXCEPT !.status = "manually_completed", !.request = None,
                                 !.updated = Later(@, at)]
  <2>2. /\ t \in Tasks /\ t.status = "manually_completed"
        /\ t.turn = v.task.turn /\ t.started = v.task.started
    <3>1. Later(v.task.updated, at) \in Times
      BY <2>1, LaterIsTime DEF Tasks
    <3> QED BY <2>1, <3>1 DEF Tasks, Statuses
  <2>3. MarkManual(v, at) = [v EXCEPT !.task = t]
    BY <1>2, <2>1 DEF MarkManual, Views, Tasks
  <2> HIDE DEF t
  <2>4. /\ MarkManual(v, at).task = t /\ MarkManual(v, at).turnAt = v.turnAt
        /\ MarkManual(v, at).orphaned = v.orphaned
    BY <2>3 DEF Views
  <2> QED BY <1>2, <2>2, <2>4, TaskIsSomething DEF SameTurn
<1> QED BY <1>1, <1>2

(* An orphan keeps its turn. *)
LEMMA OrphanTurn ==
  ASSUME NEW v \in Views, v.task # None, NEW at \in Times
  PROVE  LET w == MarkOrphaned(v, at) IN
         /\ w.task # None /\ w.task.turn = v.task.turn /\ w.task.started = v.task.started
         /\ w.turnAt = v.turnAt /\ w.orphaned
<1>1. v.task \in Tasks
  BY DEF Views
<1> DEFINE t == [v.task EXCEPT !.status = "interrupted", !.request = None,
                               !.updated = Later(@, at)]
<1>2. t \in Tasks /\ t.turn = v.task.turn /\ t.started = v.task.started
  <2>1. Later(v.task.updated, at) \in Times
    BY <1>1, LaterIsTime DEF Tasks
  <2> QED BY <1>1, <2>1 DEF Tasks, Statuses, Terminal
<1>3. MarkOrphaned(v, at) = [v EXCEPT !.orphaned = TRUE, !.task = t]
  BY <1>1 DEF MarkOrphaned, Views, Tasks
<1> HIDE DEF t
<1>4. MarkOrphaned(v, at).task = t /\ MarkOrphaned(v, at).turnAt = v.turnAt
      /\ MarkOrphaned(v, at).orphaned
  BY <1>3 DEF Views
<1> QED BY <1>2, <1>4, TaskIsSomething

(* Whether an event is stale depends on the turn alone. *)
LEMMA StaleByTurn ==
  ASSUME NEW v, NEW w, NEW e, SameTurn(v, w)
  PROVE  IsStaleTurn(v, e) <=> IsStaleTurn(w, e)
BY DEF SameTurn, IsStaleTurn

(* So does the turn shown afterwards. *)
LEMMA MovedBySameTurn ==
  ASSUME NEW v, NEW w, NEW e, NEW x, NEW y, SameTurn(v, w), Moved(w, e, x), SameTurn(x, y)
  PROVE  Moved(v, e, y)
<1>1. TurnAfter(v, e) = TurnAfter(w, e)
  BY DEF SameTurn, TurnAfter
<1>2. StartedAfter(v, e) = StartedAfter(w, e)
  BY DEF SameTurn, StartedAfter
<1>3. TurnAt(v, e) = TurnAt(w, e)
  BY DEF SameTurn, TurnAt
<1>4. OrphanedAfter(v, e) = OrphanedAfter(w, e)
  BY DEF SameTurn, OrphanedAfter
<1> QED BY <1>1, <1>2, <1>3, <1>4 DEF Moved, SameTurn

(* The status and the request after news: of the view before, unless a     *)
(* session event revives it.                                               *)
Revives(v, e) == v.task # None /\ v.orphaned /\ e.source = "session"

(* News moves the view. *)
LEMMA ApplyNews ==
  ASSUME NEW v \in Views, NEW e \in SourceEvents, ~ IsStaleTurn(v, e)
  PROVE  LET w == Apply(v, e) IN
         /\ Moved(v, e, w)
         /\ v.task = None =>
              w.task.status = Or(e.status, "unknown") /\ w.task.request = e.request
         /\ v.task # None /\ ~ Revives(v, e) =>
              w.task.status = MergedStatus(v.task, e) /\ w.task.request = Or(e.request, v.task.request)
         /\ Revives(v, e) =>
              /\ w.task.status = MergedStatus(Revived(v, e).task, e)
              /\ Revived(v, e).task.status = "running"
              /\ Revived(v, e).task.turn = v.task.turn
              /\ w.task.request = e.request
<1> DEFINE old == Revived(v, e)
           t == IF old.task = None THEN NewTask(e) ELSE Merge(old.task, e)
<1>1. old \in Views
  BY RevivedType
<1>2. /\ v.task = None <=> old.task = None
      /\ v.task # None => old.task.turn = v.task.turn /\ old.task.started = v.task.started
      /\ old.turnAt = v.turnAt
      /\ old.orphaned = OrphanedAfter(v, e)
      /\ ~ Revives(v, e) => old = v
      /\ Revives(v, e) => old.task.status = "running" /\ old.task.request = None
  <2>1. CASE Revives(v, e)
    <3>1. v.task \in Tasks
      BY <2>1 DEF Views, Revives
    <3> DEFINE r == [v.task EXCEPT !.status = "running", !.request = None]
    <3>2. /\ r \in Tasks /\ r.status = "running" /\ r.request = None
          /\ r.turn = v.task.turn /\ r.started = v.task.started
      BY <3>1 DEF Tasks, Statuses, Active
    <3>3. old = [v EXCEPT !.orphaned = FALSE, !.task = r]
      BY <2>1, <3>1 DEF Revived, Revives, Views, Tasks
    <3> HIDE DEF r, old
    <3>4. old.task = r /\ old.turnAt = v.turnAt /\ old.orphaned = FALSE
      BY <3>3 DEF Views
    <3> QED BY <2>1, <3>2, <3>4, TaskIsSomething DEF OrphanedAfter, Revives
  <2>2. CASE ~ Revives(v, e)
    <3>1. old = v
      BY <2>2 DEF Revived, Revives
    <3> HIDE DEF old
    <3>2. v.task # None /\ e.source = "session" => v.orphaned = FALSE
      BY <2>2 DEF Revives, Views
    <3> QED BY <2>2, <3>1, <3>2 DEF OrphanedAfter
  <2> QED BY <2>1, <2>2
<1>3. Apply(v, e) = [old EXCEPT !.task = t, !.turnAt = TurnAt(old, e)]
  BY DEF Apply
<1>4. TurnAt(old, e) = TurnAt(v, e)
  <2> HIDE DEF old
  <2> QED BY <1>2 DEF TurnAt
<1>5. t \in Tasks
  <2> HIDE DEF old
  <2> QED BY <1>1, NewTaskType, MergeType DEF Views
<1>6. t.turn = TurnAfter(v, e) /\ t.started = StartedAfter(v, e)
  <2> HIDE DEF old
  <2>1. CASE v.task = None
    BY <1>2, <2>1 DEF NewTask, TurnAfter, StartedAfter
  <2>2. CASE v.task # None
    BY <1>2, <2>2 DEF Merge, OtherTurn, Or, TurnAfter, StartedAfter
  <2> QED BY <2>1, <2>2
<1>7. /\ v.task = None => t.status = Or(e.status, "unknown") /\ t.request = e.request
      /\ v.task # None => t.status = MergedStatus(old.task, e) /\ t.request = Or(e.request, old.task.request)
  <2> HIDE DEF old
  <2> QED BY <1>2 DEF NewTask, Merge
<1>8. Or(e.request, None) = e.request
  BY DEF Or
<1> HIDE DEF t
<1>9. /\ Apply(v, e).task = t /\ Apply(v, e).turnAt = TurnAt(v, e)
      /\ Apply(v, e).orphaned = old.orphaned
  <2> HIDE DEF old
  <2> QED BY <1>1, <1>3, <1>4 DEF Views
<1>10. Moved(v, e, Apply(v, e))
  BY <1>2, <1>5, <1>6, <1>9, TaskIsSomething DEF Moved
<1>11. Revives(v, e) => v.task # None
  BY DEF Revives
<1> QED BY <1>2, <1>7, <1>8, <1>9, <1>10, <1>11

(* What an event of any source does to the turn shown. *)
LEMMA AcceptTurn ==
  ASSUME NEW v \in Views, NEW m \in Records \cup {None}, NEW e \in SourceEvents
  PROVE  IF IsStaleTurn(v, e) THEN SameTurn(v, Accept(v, m, e).view)
         ELSE Moved(v, e, Accept(v, m, e).view)
<1>w. PICK w : w = Accept(v, m, e).view
  OBVIOUS
<1> SUFFICES IF IsStaleTurn(v, e) THEN SameTurn(v, w) ELSE Moved(v, e, w)
  BY <1>w
<1>1. ASSUME NEW x \in Views, SameTurn(v, x)
      PROVE  IF IsStaleTurn(v, e) THEN SameTurn(v, Apply(x, e)) ELSE Moved(v, e, Apply(x, e))
  <2>1. CASE IsStaleTurn(v, e)
    <3>1. Apply(x, e) = x
      BY <1>1, <2>1, StaleByTurn DEF Apply
    <3> QED BY <1>1, <2>1, <3>1
  <2>2. CASE ~ IsStaleTurn(v, e)
    <3>1. Moved(x, e, Apply(x, e))
      BY <1>1, <2>2, StaleByTurn, ApplyNews
    <3>2. SameTurn(Apply(x, e), Apply(x, e))
      BY DEF SameTurn
    <3> QED BY <1>1, <2>2, <3>1, <3>2, MovedBySameTurn
  <2> QED BY <2>1, <2>2
<1>2. SameTurn(v, v) /\ SameTurn(v, ClearManual(v)) /\ ClearManual(v) \in Views
  BY ClearTurn, ClearType DEF SameTurn
<1>3. CASE m = None
  BY <1>w, <1>1, <1>2, <1>3 DEF Accept
<1>4. CASE m # None /\ IsNewGeneration(m, e)
  <2>1. w = Apply(ClearManual(v), e)
    BY <1>w, <1>4 DEF Accept
  <2> QED BY <1>1, <1>2, <2>1
<1>5. CASE m # None /\ ~ IsNewGeneration(m, e)
  <2>1. w = MarkManual(Apply(v, e), m.at)
    BY <1>w, <1>5 DEF Accept
  <2>2. SameTurn(Apply(v, e), w)
    <3>1. m.at \in Times /\ Apply(v, e) \in Views
      BY <1>5, ApplyType DEF Records
    <3> QED BY <2>1, <3>1, MarkTurn
  <2>3. CASE IsStaleTurn(v, e)
    <3>1. Apply(v, e) = v
      BY <2>3 DEF Apply
    <3> QED BY <2>2, <2>3, <3>1
  <2>4. CASE ~ IsStaleTurn(v, e)
    <3>1. Moved(v, e, Apply(v, e))
      BY <2>4, ApplyNews
    <3> QED BY <1>2, <2>2, <2>4, <3>1, MovedBySameTurn
  <2> QED BY <2>3, <2>4
<1> QED BY <1>3, <1>4, <1>5

(* An event that is stale for a view leaves its status, or ends or clears  *)
(* a manual completion.                                                    *)
LEMMA AcceptStale ==
  ASSUME NEW v \in Views, NEW m \in Records \cup {None}, Agree(v, m),
         NEW e \in SourceEvents, IsStaleTurn(v, e)
  PROVE  \/ Accept(v, m, e).view = v
         \/ Accept(v, m, e).view.task.status \in {"manually_completed", "unknown"}
<1>0. v.task # None
  BY DEF IsStaleTurn
<1>1. CASE m = None
  BY <1>1 DEF Accept, Apply
<1>2. CASE m # None /\ IsNewGeneration(m, e)
  <2>1. Accept(v, m, e).view = ClearManual(v)
    <3>1. IsStaleTurn(ClearManual(v), e)
      BY ClearTurn, StaleByTurn
    <3> QED BY <1>2, <3>1 DEF Accept, Apply
  <2>2. ClearManual(v).task.status = "unknown"
    BY <1>0, <1>2, ClearTurn DEF Agree, Marked
  <2> QED BY <2>1, <2>2
<1>3. CASE m # None /\ ~ IsNewGeneration(m, e)
  <2>1. Accept(v, m, e).view = MarkManual(v, m.at)
    BY <1>3 DEF Accept, Apply
  <2>2. m.at \in Times
    BY <1>3 DEF Records
  <2> QED BY <1>0, <2>1, <2>2, MarkTurn
<1> QED BY <1>1, <1>2, <1>3

(* Any other event brings its status, or the status of the view is kept:   *)
(* of another turn only by an event that has none.                         *)
NoNews == {None, "unknown", "source_error"}
LEMMA AcceptStatus ==
  ASSUME NEW v \in Views, NEW m \in Records \cup {None}, Agree(v, m),
         NEW e \in SourceEvents, ~ IsStaleTurn(v, e)
  PROVE  LET t == Accept(v, m, e).view.task IN
         \/ t.status \in {"manually_completed", "unknown", "running"}
         \/ t.status = e.status /\ (e.request # None => t.request = e.request)
         \/ /\ v.task # None /\ ~ Revives(v, e)
            /\ t.status = v.task.status
            /\ t.request = Or(e.request, v.task.request)
            /\ OtherTurn(v.task, e) => e.status \in NoNews
<1>m. \A t : \/ MergedStatus(t, e) = e.status
             \/ MergedStatus(t, e) = t.status /\ (OtherTurn(t, e) => e.status \in NoNews)
  BY DEF MergedStatus, NoNews
<1>o. /\ \A x : e.request # None => Or(e.request, x) = e.request
      /\ Or(e.status, "unknown") \in {e.status, "unknown"}
  BY DEF Or
<1>1. CASE m = None
  <2>0. Accept(v, m, e).view = Apply(v, e)
    BY <1>1 DEF Accept
  <2>1. CASE v.task = None
    BY <1>o, <2>0, <2>1, ApplyNews
  <2>2. CASE Revives(v, e)
    <3>1. /\ Apply(v, e).task.status = MergedStatus(Revived(v, e).task, e)
          /\ Revived(v, e).task.status = "running"
          /\ Apply(v, e).task.request = e.request
      BY <2>2, ApplyNews
    <3> QED BY <1>m, <2>0, <3>1
  <2>3. CASE v.task # None /\ ~ Revives(v, e)
    <3>1. /\ Apply(v, e).task.status = MergedStatus(v.task, e)
          /\ Apply(v, e).task.request = Or(e.request, v.task.request)
      BY <2>3, ApplyNews
    <3> QED BY <1>m, <1>o, <2>0, <2>3, <3>1
  <2> QED BY <2>1, <2>2, <2>3
<1>2. CASE m # None /\ IsNewGeneration(m, e)
  <2>0. Accept(v, m, e).view = Apply(ClearManual(v), e)
    BY <1>2 DEF Accept
  <2>c. /\ ClearManual(v) \in Views /\ SameTurn(v, ClearManual(v))
        /\ ~ IsStaleTurn(ClearManual(v), e)
    BY ClearTurn, ClearType, StaleByTurn
  <2>1. CASE v.task = None
    BY <1>o, <2>0, <2>c, <2>1, ApplyNews DEF SameTurn
  <2>2. CASE v.task # None
    <3>1. ClearManual(v).task.status = "unknown" /\ ClearManual(v).task # None
      BY <1>2, <2>2, ClearTurn DEF Agree, Marked, SameTurn
    <3>2. CASE Revives(ClearManual(v), e)
      <4>1. /\ Apply(ClearManual(v), e).task.status = MergedStatus(Revived(ClearManual(v), e).task, e)
            /\ Revived(ClearManual(v), e).task.status = "running"
            /\ Apply(ClearManual(v), e).task.request = e.request
        BY <2>c, <3>2, ApplyNews
      <4> QED BY <1>m, <2>0, <4>1
    <3>3. CASE ~ Revives(ClearManual(v), e)
      <4>1. /\ Apply(ClearManual(v), e).task.status = MergedStatus(ClearManual(v).task, e)
            /\ Apply(ClearManual(v), e).task.request = Or(e.request, ClearManual(v).task.request)
        BY <2>c, <3>1, <3>3, ApplyNews
      <4> QED BY <1>m, <1>o, <2>0, <3>1, <4>1
    <3> QED BY <3>2, <3>3
  <2> QED BY <2>1, <2>2
<1>3. CASE m # None /\ ~ IsNewGeneration(m, e)
  <2>1. Accept(v, m, e).view = MarkManual(Apply(v, e), m.at)
    BY <1>3 DEF Accept
  <2>2. m.at \in Times /\ Apply(v, e) \in Views /\ Apply(v, e).task # None
    BY <1>3, ApplyType, TaskIsSomething DEF Records
  <2> QED BY <2>1, <2>2, MarkTurn
<1> QED BY <1>1, <1>2, <1>3

----------------------------------------------------------------------------
(* The order of the turns.  The facts are a parameter here, so that what   *)
(* holds of them can be said of the facts before and after a step.         *)

FactsOK(facts) == facts \in Seq(Facts) /\ Len(facts) <= MaxFacts
InOrder(facts) == \A m, n \in 1 .. Len(facts) : m <= n => facts[m].turn <= facts[n].turn
Occurs(facts, turn) == \E n \in 1 .. Len(facts) : facts[n].turn = turn
StartIn(facts, turn) == 2 * CHOOSE n \in DOMAIN facts :
  facts[n].turn = turn /\ \A m \in DOMAIN facts : facts[m].turn = turn => n <= m

(* A time before every fact of a later turn. *)
Before(facts, at, turn) ==
  /\ at <= 2 * Len(facts)
  /\ \A m \in 1 .. Len(facts) : facts[m].turn > turn => at < 2 * m

(* A turn told has happened, and is not told before it started. *)
EventTimely(facts, e) ==
  IF e.turn = None THEN e.started = None
  ELSE /\ Occurs(facts, e.turn)
       /\ e.started \in {None, StartIn(facts, e.turn)}
       /\ e.at >= StartIn(facts, e.turn)
       /\ e.status \notin {"unknown", "source_error"}
EventOrdered(facts, e) == e.turn # None => Before(facts, e.at, e.turn)

(* The same of the turn shown. *)
ViewTimely(facts, v) ==
  v.task # None =>
    IF v.task.turn = None THEN v.task.started = None
    ELSE /\ Occurs(facts, v.task.turn)
         /\ v.task.started \in {None, StartIn(facts, v.task.turn)}
         /\ v.turnAt # None
         /\ v.turnAt >= StartIn(facts, v.task.turn)
ViewOrdered(facts, v) ==
  v.task # None /\ v.task.turn # None => Before(facts, v.turnAt, v.task.turn)

(* The start of a turn is the time of its first fact. *)
LEMMA StartIsFirst ==
  ASSUME NEW facts, FactsOK(facts), NEW turn, Occurs(facts, turn)
  PROVE  \E b \in 1 .. Len(facts) :
           /\ StartIn(facts, turn) = 2 * b
           /\ facts[b].turn = turn
           /\ \A m \in 1 .. Len(facts) : facts[m].turn = turn => b <= m
<1> DEFINE T == {m \in 1 .. Len(facts) : facts[m].turn = turn}
           Starts(x) == facts[x].turn = turn
                        /\ \A m \in DOMAIN facts : facts[m].turn = turn => x <= m
<1>1. Len(facts) \in Nat /\ DOMAIN facts = 1 .. Len(facts)
  BY DEF FactsOK
<1>2. T \in SUBSET Nat /\ T # {}
  BY <1>1 DEF Occurs
<1>3. PICK x \in T : \A y \in T : x <= y
  <2> HIDE DEF T
  <2> QED BY <1>2, Smallest
<1>4. x \in DOMAIN facts /\ Starts(x)
  BY <1>1, <1>3
<1>5. PICK b : b = CHOOSE y \in DOMAIN facts : Starts(y)
  OBVIOUS
<1>6. b \in DOMAIN facts /\ Starts(b)
  <2> HIDE DEF Starts
  <2> QED BY <1>4, <1>5
<1>7. StartIn(facts, turn) = 2 * b
  BY <1>5 DEF StartIn
<1> QED BY <1>1, <1>6, <1>7

(* It is a time. *)
LEMMA StartIsTime ==
  ASSUME NEW facts, FactsOK(facts), NEW turn, Occurs(facts, turn)
  PROVE  StartIn(facts, turn) \in Times
<1>1. PICK b \in 1 .. Len(facts) : StartIn(facts, turn) = 2 * b
  BY StartIsFirst
<1> QED BY <1>1, FactsAssumption DEF FactsOK, Times

(* Facts that follow change neither the starts of the turns ... *)
LEMMA StartStays ==
  ASSUME NEW facts, FactsOK(facts), NEW fact \in Facts, Len(facts) < MaxFacts,
         NEW turn, Occurs(facts, turn)
  PROVE  LET grown == Append(facts, fact) IN
         FactsOK(grown) /\ Occurs(grown, turn) /\ StartIn(grown, turn) = StartIn(facts, turn)
<1> DEFINE grown == Append(facts, fact)
<1>1. /\ Len(facts) \in Nat /\ grown \in Seq(Facts) /\ Len(grown) = Len(facts) + 1
      /\ \A n \in 1 .. Len(facts) : grown[n] = facts[n]
  BY DEF FactsOK
<1>2. FactsOK(grown)
  BY <1>1, FactsAssumption DEF FactsOK
<1>3. \A n \in 1 .. Len(facts) : n \in 1 .. Len(grown)
  BY <1>1
<1> HIDE DEF grown
<1>4. Occurs(grown, turn)
  BY <1>1, <1>3 DEF Occurs
<1>5. PICK b \in 1 .. Len(facts) :
           /\ StartIn(facts, turn) = 2 * b
           /\ facts[b].turn = turn
           /\ \A m \in 1 .. Len(facts) : facts[m].turn = turn => b <= m
  BY StartIsFirst
<1>6. PICK c \in 1 .. Len(grown) :
           /\ StartIn(grown, turn) = 2 * c
           /\ grown[c].turn = turn
           /\ \A m \in 1 .. Len(grown) : grown[m].turn = turn => c <= m
  BY <1>2, <1>4, StartIsFirst
<1>7. c <= b
  BY <1>1, <1>3, <1>5, <1>6
<1>8. c \in 1 .. Len(facts)
  BY <1>1, <1>7
<1>9. b <= c
  BY <1>1, <1>5, <1>6, <1>8
<1>10. b = c
  BY <1>1, <1>7, <1>9
<1> QED BY <1>2, <1>4, <1>5, <1>6, <1>10 DEF grown

(* ... nor what is timely and in order. *)
LEMMA TimelyStays ==
  ASSUME NEW facts, FactsOK(facts), NEW fact \in Facts, Len(facts) < MaxFacts
  PROVE  LET grown == Append(facts, fact) IN
         /\ \A e : EventTimely(facts, e) => EventTimely(grown, e)
         /\ \A v : ViewTimely(facts, v) => ViewTimely(grown, v)
<1> DEFINE grown == Append(facts, fact)
<1>1. \A turn : Occurs(facts, turn) =>
        Occurs(grown, turn) /\ StartIn(grown, turn) = StartIn(facts, turn)
  BY StartStays
<1> HIDE DEF grown
<1>2. \A e : EventTimely(facts, e) => EventTimely(grown, e)
  BY <1>1 DEF EventTimely
<1>3. \A v : ViewTimely(facts, v) => ViewTimely(grown, v)
  BY <1>1 DEF ViewTimely
<1> QED BY <1>2, <1>3 DEF grown

(* A time before later turns stays so when a fact follows. *)
LEMMA BeforeStays ==
  ASSUME NEW facts, FactsOK(facts), NEW fact \in Facts,
         NEW at \in Times, NEW turn, Before(facts, at, turn)
  PROVE  Before(Append(facts, fact), at, turn)
<1> DEFINE grown == Append(facts, fact)
<1>1. /\ Len(facts) \in Nat /\ Len(grown) = Len(facts) + 1
      /\ \A n \in 1 .. Len(facts) : grown[n] = facts[n]
  BY DEF FactsOK
<1> HIDE DEF grown
<1>2. at \in Nat /\ at <= 2 * Len(facts)
  BY TimesAreNumbers DEF Before
<1>3. at <= 2 * Len(grown)
  BY <1>1, <1>2
<1>4. ASSUME NEW m \in 1 .. Len(grown), grown[m].turn > turn PROVE at < 2 * m
  <2>1. CASE m \in 1 .. Len(facts)
    BY <1>1, <1>4, <2>1 DEF Before
  <2>2. CASE m \notin 1 .. Len(facts)
    BY <1>1, <1>2, <2>2
  <2> QED BY <2>1, <2>2
<1> QED BY <1>3, <1>4 DEF Before, grown

(* Views and events that are timely name turns and times. *)
LEMMA TimelyTypes ==
  ASSUME NEW facts, FactsOK(facts), NEW turn, Occurs(facts, turn)
  PROVE  turn \in Nat /\ turn # None /\ turn \in Turns
<1>1. PICK n \in 1 .. Len(facts) : facts[n].turn = turn
  BY DEF Occurs
<1>2. facts[n] \in Facts
  BY DEF FactsOK
<1> QED BY <1>1, <1>2, TurnsAssumption DEF Facts

(* An event of an older turn than the one shown is stale. *)
LEMMA OlderIsStale ==
  ASSUME NEW facts, FactsOK(facts), NEW v \in Views, NEW e \in SourceEvents,
         ViewTimely(facts, v), EventTimely(facts, e), EventOrdered(facts, e),
         v.task # None, None \notin {v.task.turn, e.turn},
         e.turn < v.task.turn
  PROVE  IsStaleTurn(v, e)
<1>1. Occurs(facts, v.task.turn) /\ Occurs(facts, e.turn)
  BY DEF ViewTimely, EventTimely
<1>2. PICK b \in 1 .. Len(facts) :
        StartIn(facts, v.task.turn) = 2 * b /\ facts[b].turn = v.task.turn
  BY <1>1, StartIsFirst
<1>3. v.task.turn \in Nat /\ e.turn \in Nat
  BY <1>1, TimelyTypes
<1>4. e.at < 2 * b
  BY <1>2, <1>3 DEF EventOrdered, Before
<1>5. e.at \in Nat /\ v.turnAt \in Nat /\ b \in Nat
  <2>1. Len(facts) \in Nat
    BY DEF FactsOK
  <2>2. v.turnAt # None
    BY DEF ViewTimely
  <2>3. e.at \in Times /\ v.turnAt \in Times
    BY <2>2 DEF Views, SourceEvents
  <2>4. b \in Nat
    BY <2>1
  <2>5. \A t \in Times : t \in Nat
    BY TimesAreNumbers
  <2> QED BY <2>3, <2>4, <2>5
<1>6. StartIn(facts, e.turn) \in Nat
  BY <1>1, StartIsTime, TimesAreNumbers
<1>7. e.at < v.turnAt
  BY <1>2, <1>4, <1>5 DEF ViewTimely
<1>8. StartIn(facts, e.turn) < 2 * b
  BY <1>4, <1>5, <1>6 DEF EventTimely
<1>9. v.task.started \in {None, 2 * b} /\ e.started \in {None, StartIn(facts, e.turn)}
      /\ v.turnAt # None
  BY <1>2 DEF ViewTimely, EventTimely
<1>10. v.task.turn # e.turn
  BY <1>3
<1> QED BY <1>7, <1>8, <1>9, <1>10 DEF IsStaleTurn

(* Without late news the converse holds too. *)
LEMMA StaleIsOlder ==
  ASSUME NEW facts, FactsOK(facts), NEW v \in Views, NEW e \in SourceEvents,
         ViewTimely(facts, v), ViewOrdered(facts, v), EventTimely(facts, e),
         IsStaleTurn(v, e)
  PROVE  e.turn < v.task.turn
<1>0. v.task # None /\ None \notin {v.task.turn, e.turn} /\ e.turn # v.task.turn
  BY DEF IsStaleTurn
<1>1. Occurs(facts, v.task.turn) /\ Occurs(facts, e.turn)
  BY <1>0 DEF ViewTimely, EventTimely
<1>2. v.task.turn \in Nat /\ e.turn \in Nat
  BY <1>1, TimelyTypes
<1> SUFFICES ASSUME e.turn > v.task.turn PROVE FALSE
  BY <1>0, <1>2
<1>3. PICK b \in 1 .. Len(facts) :
        StartIn(facts, e.turn) = 2 * b /\ facts[b].turn = e.turn
  BY <1>1, StartIsFirst
<1>4. v.turnAt < 2 * b
  BY <1>0, <1>3 DEF ViewOrdered, Before
<1>5. e.at \in Nat /\ v.turnAt \in Nat /\ b \in Nat /\ StartIn(facts, v.task.turn) \in Nat
  <2>1. Len(facts) \in Nat
    BY DEF FactsOK
  <2>2. v.turnAt # None
    BY <1>0 DEF ViewTimely
  <2>3. e.at \in Times /\ v.turnAt \in Times /\ StartIn(facts, v.task.turn) \in Times
    BY <1>1, <2>2, StartIsTime DEF Views, SourceEvents
  <2>4. b \in Nat
    BY <2>1
  <2>5. \A t \in Times : t \in Nat
    BY TimesAreNumbers
  <2> QED BY <2>3, <2>4, <2>5
<1>6. /\ e.at >= 2 * b /\ e.started \in {None, 2 * b}
      /\ v.turnAt >= StartIn(facts, v.task.turn)
      /\ v.task.started \in {None, StartIn(facts, v.task.turn)}
  BY <1>0, <1>3 DEF EventTimely, ViewTimely
<1>7. ~ (e.at < v.turnAt)
  BY <1>4, <1>5, <1>6
<1>8. ~ (2 * b < StartIn(facts, v.task.turn))
  BY <1>4, <1>5, <1>6
<1> QED BY <1>6, <1>7, <1>8 DEF IsStaleTurn

(* Views of the same turn are timely and in order together. *)
LEMMA SameTurnTimely ==
  ASSUME NEW facts, NEW v, NEW w, SameTurn(v, w)
  PROVE  /\ ViewTimely(facts, v) => ViewTimely(facts, w)
         /\ ViewOrdered(facts, v) => ViewOrdered(facts, w)
BY DEF SameTurn, ViewTimely, ViewOrdered

(* News of a timely event leaves a timely view. *)
LEMMA MovedTimely ==
  ASSUME NEW facts, FactsOK(facts), NEW v \in Views, NEW e \in SourceEvents, NEW w,
         ViewTimely(facts, v), EventTimely(facts, e), Moved(v, e, w)
  PROVE  ViewTimely(facts, w)
<1>0. /\ w.task # None /\ w.task.turn = TurnAfter(v, e) /\ w.task.started = StartedAfter(v, e)
      /\ w.turnAt = TurnAt(v, e)
  BY DEF Moved
<1>1. CASE e.turn = None
  <2>1. e.started = None
    BY <1>1 DEF EventTimely
  <2>2. CASE v.task = None
    BY <1>0, <1>1, <2>1, <2>2 DEF TurnAfter, StartedAfter, ViewTimely
  <2>3. CASE v.task # None
    <3>1. w.task.turn = v.task.turn /\ w.task.started = v.task.started /\ w.turnAt = v.turnAt
      BY <1>0, <1>1, <2>1, <2>3 DEF TurnAfter, StartedAfter, TurnAt
    <3> QED BY <1>0, <2>3, <3>1 DEF ViewTimely
  <2> QED BY <2>2, <2>3
<1>2. CASE e.turn # None
  <2>1. /\ Occurs(facts, e.turn) /\ e.started \in {None, StartIn(facts, e.turn)}
        /\ e.at >= StartIn(facts, e.turn) /\ e.status \notin {"unknown", "source_error"}
    BY <1>2 DEF EventTimely
  <2>2. w.task.turn = e.turn
    BY <1>0, <1>2 DEF TurnAfter
  <2>3. w.task.started \in {None, StartIn(facts, e.turn)}
    BY <1>0, <1>2, <2>1 DEF StartedAfter, ViewTimely
  <2>4. /\ StartIn(facts, e.turn) \in Nat /\ e.at \in Nat /\ e.at # None
        /\ v.turnAt # None => v.turnAt \in Nat
    BY <2>1, StartIsTime, TimesAreNumbers DEF SourceEvents, Views
  <2>5. w.turnAt = e.at \/ (v.turnAt # None /\ w.turnAt = Later(v.turnAt, e.at))
    BY <1>0, <1>2, <2>1 DEF TurnAt
  <2>6. w.turnAt # None /\ w.turnAt >= StartIn(facts, e.turn)
    <3>1. CASE w.turnAt = e.at
      BY <2>1, <2>4, <3>1
    <3>2. CASE v.turnAt # None /\ w.turnAt = Later(v.turnAt, e.at)
      <4>1. w.turnAt \in Nat /\ w.turnAt >= e.at
        BY <2>4, <3>2 DEF Later
      <4> QED BY <2>1, <2>4, <4>1, TurnsAssumption
    <3> QED BY <2>5, <3>1, <3>2
  <2> QED BY <1>2, <2>1, <2>2, <2>3, <2>6 DEF ViewTimely
<1> QED BY <1>1, <1>2

(* News that is not late leaves a view in order. *)
LEMMA MovedOrdered ==
  ASSUME NEW facts, NEW v \in Views, NEW e \in SourceEvents, NEW w,
         ViewOrdered(facts, v), EventTimely(facts, e), EventOrdered(facts, e), Moved(v, e, w)
  PROVE  ViewOrdered(facts, w)
<1>0. w.task # None /\ w.task.turn = TurnAfter(v, e) /\ w.turnAt = TurnAt(v, e)
  BY DEF Moved
<1> SUFFICES ASSUME w.task.turn # None PROVE Before(facts, w.turnAt, w.task.turn)
  BY DEF ViewOrdered
<1>1. CASE e.turn = None
  <2>1. v.task # None /\ w.task.turn = v.task.turn /\ w.turnAt = v.turnAt
    BY <1>0, <1>1 DEF TurnAfter, TurnAt
  <2> QED BY <2>1 DEF ViewOrdered
<1>2. CASE e.turn # None
  <2>1. w.task.turn = e.turn /\ Before(facts, e.at, e.turn)
    BY <1>0, <1>2 DEF TurnAfter, EventOrdered
  <2>2. \/ w.turnAt = e.at
        \/ v.task # None /\ e.turn = v.task.turn /\ w.turnAt = Later(v.turnAt, e.at)
    BY <1>0, <1>2 DEF TurnAt, EventTimely
  <2>3. CASE w.turnAt = e.at
    BY <2>1, <2>3
  <2>4. CASE v.task # None /\ e.turn = v.task.turn /\ w.turnAt = Later(v.turnAt, e.at)
    <3>1. Before(facts, v.turnAt, e.turn)
      BY <1>2, <2>4 DEF ViewOrdered
    <3>2. w.turnAt \in {v.turnAt, e.at}
      BY <2>4 DEF Later
    <3> QED BY <2>1, <3>1, <3>2
  <2> QED BY <2>2, <2>3, <2>4
<1> QED BY <1>1, <1>2

(* A timely event accepted leaves a timely view; one that is in order      *)
(* never moves the turn back.                                              *)
LEMMA AcceptTimely ==
  ASSUME NEW facts, FactsOK(facts), NEW v \in Views, NEW m \in Records \cup {None},
         NEW e \in SourceEvents, ViewTimely(facts, v), EventTimely(facts, e)
  PROVE  LET w == Accept(v, m, e).view IN
         /\ ViewTimely(facts, w)
         /\ ViewOrdered(facts, v) /\ EventOrdered(facts, e) => ViewOrdered(facts, w)
         /\ EventOrdered(facts, e) /\ v.task # None /\ v.task.turn # None
              => w.task # None /\ w.task.turn # None /\ w.task.turn >= v.task.turn
<1>w. PICK w : w = Accept(v, m, e).view
  OBVIOUS
<1>1. IF IsStaleTurn(v, e) THEN SameTurn(v, w) ELSE Moved(v, e, w)
  BY <1>w, AcceptTurn
<1>2. ViewTimely(facts, w)
  BY <1>1, SameTurnTimely, MovedTimely
<1>3. ViewOrdered(facts, v) /\ EventOrdered(facts, e) => ViewOrdered(facts, w)
  BY <1>1, SameTurnTimely, MovedOrdered
<1>4. ASSUME EventOrdered(facts, e), v.task # None, v.task.turn # None
      PROVE  w.task # None /\ w.task.turn # None /\ w.task.turn >= v.task.turn
  <2>0. v.task.turn \in Nat
    <3>1. Occurs(facts, v.task.turn)
      BY <1>4 DEF ViewTimely
    <3> QED BY <3>1, TimelyTypes
  <2>1. CASE IsStaleTurn(v, e)
    BY <1>1, <1>4, <2>0, <2>1 DEF SameTurn
  <2>2. CASE ~ IsStaleTurn(v, e)
    <3>1. w.task # None /\ w.task.turn = TurnAfter(v, e)
      BY <1>1, <2>2 DEF Moved
    <3>2. CASE e.turn = None
      BY <1>4, <2>0, <3>1, <3>2 DEF TurnAfter
    <3>3. CASE e.turn # None
      <4>1. e.turn \in Nat
        BY <3>3, TimelyTypes DEF EventTimely
      <4>2. ~ (e.turn < v.task.turn)
        BY <1>4, <2>2, <3>3, OlderIsStale
      <4>3. w.task.turn = e.turn
        BY <3>1, <3>3 DEF TurnAfter
      <4>4. e.turn >= v.task.turn
        BY <2>0, <4>1, <4>2
      <4> QED BY <3>1, <3>3, <4>3, <4>4
    <3> QED BY <3>2, <3>3
  <2> QED BY <2>1, <2>2
<1> QED BY <1>w, <1>2, <1>3, <1>4

(* What the session file and App Server tell is timely and, but for        *)
(* notifications, in order.                                                *)
LEMMA CodexTells ==
  ASSUME CodexOK, InOrder(codex), NEW n \in 1 .. Len(codex)
  PROVE  /\ EventTimely(codex, SessionEvent(n)) /\ EventOrdered(codex, SessionEvent(n))
         /\ EventTimely(codex, StatusChanged(n)) /\ EventTimely(codex, TurnNotification(n))
         /\ codex[n].status \in Terminal => EventOrdered(codex, TurnNotification(n))
<1>0. FactsOK(codex) /\ Len(codex) \in Nat /\ codex[n] \in Facts
  BY DEF CodexOK, FactsOK
<1>1. Occurs(codex, codex[n].turn) /\ codex[n].turn \in Nat /\ codex[n].turn # None
  <2>1. Occurs(codex, codex[n].turn)
    BY DEF Occurs
  <2> QED BY <1>0, <2>1, TimelyTypes
<1>2. PICK b \in 1 .. Len(codex) :
           /\ StartIn(codex, codex[n].turn) = 2 * b
           /\ \A m \in 1 .. Len(codex) : codex[m].turn = codex[n].turn => b <= m
  BY <1>0, <1>1, StartIsFirst
<1>3. 2 * n >= 2 * b /\ Now >= 2 * b
  <2>1. b <= n
    BY <1>2
  <2> QED BY <1>0, <2>1 DEF Now
<1>4. StartOf(codex[n].turn) = StartIn(codex, codex[n].turn)
  BY DEF StartOf, StartIn
<1>5. codex[n].status \notin {"unknown", "source_error", None}
  BY <1>0, NoneAssumption DEF Facts, Active, Waiting, Terminal, Statuses
<1>6. Before(codex, 2 * n, codex[n].turn)
  <2>1. ASSUME NEW m \in 1 .. Len(codex), codex[m].turn > codex[n].turn PROVE n < m
    <3>1. codex[m] \in Facts
      BY <1>0 DEF FactsOK
    <3>2. codex[m].turn \in Nat
      BY <3>1, TurnsAssumption DEF Facts
    <3>3. m <= n => codex[m].turn <= codex[n].turn
      BY DEF InOrder
    <3> QED BY <1>1, <2>1, <3>2, <3>3
  <2>2. 2 * n <= 2 * Len(codex) /\ \A m \in 1 .. Len(codex) : n < m => 2 * n < 2 * m
    BY <1>0
  <2> QED BY <2>1, <2>2 DEF Before
<1>7. EventTimely(codex, SessionEvent(n))
  <2>1. /\ SessionEvent(n).turn = codex[n].turn
        /\ SessionEvent(n).started \in {None, StartIn(codex, codex[n].turn)}
        /\ SessionEvent(n).at = 2 * n
        /\ SessionEvent(n).status \in {None, codex[n].status}
    BY <1>4 DEF SessionEvent
  <2>2. SessionEvent(n).status \notin {"unknown", "source_error"}
    BY <1>5, <2>1, NoneAssumption DEF Statuses
  <2> QED BY <1>1, <1>2, <1>3, <2>1, <2>2 DEF EventTimely
<1>8. EventOrdered(codex, SessionEvent(n))
  BY <1>6 DEF EventOrdered, SessionEvent
<1>9. EventTimely(codex, StatusChanged(n))
  BY DEF EventTimely, StatusChanged
<1>10. EventTimely(codex, TurnNotification(n))
  <2>1. /\ TurnNotification(n).turn = codex[n].turn
        /\ TurnNotification(n).started \in {None, StartIn(codex, codex[n].turn)}
        /\ TurnNotification(n).at \in {2 * n, Now}
        /\ TurnNotification(n).status = codex[n].status
    BY <1>4 DEF TurnNotification
  <2> QED BY <1>1, <1>2, <1>3, <1>5, <2>1 DEF EventTimely
<1>11. ASSUME codex[n].status \in Terminal PROVE EventOrdered(codex, TurnNotification(n))
  BY <1>6, <1>11 DEF EventOrdered, TurnNotification
<1> QED BY <1>7, <1>8, <1>9, <1>10, <1>11

(* So are the answers to polls. *)
LEMMA AnswersTell ==
  ASSUME CodexOK, InOrder(codex), codex # <<>>, NEW loaded \in BOOLEAN
  PROVE  /\ EventTimely(codex, Row(loaded)) /\ EventOrdered(codex, Row(loaded))
         /\ EventTimely(codex, Details) /\ EventOrdered(codex, Details)
<1>0. /\ Len(codex) \in 1 .. Len(codex) /\ Last(codex) = codex[Len(codex)]
      /\ FactsOK(codex) /\ Len(codex) \in Nat
  BY DEF CodexOK, FactsOK, Last
<1>1. PICK n \in 1 .. Len(codex) : n = Len(codex)
  BY <1>0
<1>2. EventTimely(codex, SessionEvent(n)) /\ EventOrdered(codex, SessionEvent(n))
  BY CodexTells
<1>3. /\ SessionEvent(n).turn = Last(codex).turn /\ SessionEvent(n).at = 2 * Len(codex)
      /\ StartOf(Last(codex).turn) = StartIn(codex, Last(codex).turn)
  BY <1>0, <1>1 DEF SessionEvent, StartOf, StartIn
<1>4. Last(codex).status \notin {"unknown", "source_error"} /\ Last(codex).turn # None
  <2>1. Last(codex) \in Facts
    BY <1>0 DEF FactsOK
  <2> QED BY <2>1, TurnsAssumption DEF Facts, Active, Waiting, Terminal
<1>5. EventTimely(codex, Details) /\ EventOrdered(codex, Details)
  BY <1>2, <1>3, <1>4 DEF Details, EventTimely, EventOrdered
<1>6. EventTimely(codex, Row(loaded)) /\ EventOrdered(codex, Row(loaded))
  BY DEF Row, EventTimely, EventOrdered
<1> QED BY <1>5, <1>6

----------------------------------------------------------------------------
(* The turns shown follow the order of the turns.                          *)

(* Facts come in the order of their turns; what the view shows and what    *)
(* the refresh loop waits to merge is timely.                              *)
OrderInv ==
  /\ InOrder(codex)
  /\ ViewTimely(codex, view)
  /\ poll # NoPoll => EventTimely(codex, poll.row) /\ EventOrdered(codex, poll.row)

(* A fact of the last turn or of the next. *)
LEMMA HappenFact ==
  ASSUME MemoryOK, InOrder(codex), Happen
  PROVE  \E fact \in Facts :
           /\ codex' = Append(codex, fact)
           /\ Len(codex) < MaxFacts
           /\ \A m \in 1 .. Len(codex) : codex[m].turn <= fact.turn
           /\ fact.status \in Waiting => fact.request \in Requests
<1>1. PICK turn \in Turns, status \in Happenings :
       /\ IF TurnEnded(codex)
          THEN turn = (IF codex = <<>> THEN 1 ELSE Last(codex).turn + 1)
               /\ status = "running"
          ELSE turn = Last(codex).turn /\ status # Last(codex).status
       /\ codex' = Append(codex,
            [turn |-> turn, status |-> status,
             request |-> IF status \in Waiting THEN RequestOf[Len(codex) + 1] ELSE None])
  BY DEF Happen
<1>2. Len(codex) \in Nat /\ Len(codex) < MaxFacts
  BY DEF Happen, MemoryOK, CodexOK
<1>3. RequestOf[Len(codex) + 1] \in Requests
  BY <1>2, FactsAssumption, RequestsAssumption
<1>4. status \in Active \cup Terminal
  BY HappeningsAssumption
<1> DEFINE f == [turn |-> turn, status |-> status,
                 request |-> IF status \in Waiting THEN RequestOf[Len(codex) + 1] ELSE None]
<1>5. f \in Facts
  BY <1>3, <1>4 DEF Facts
<1>6. ASSUME NEW m \in 1 .. Len(codex) PROVE codex[m].turn <= f.turn
  <2>1. codex # <<>> /\ Len(codex) \in 1 .. Len(codex) /\ Last(codex) = codex[Len(codex)]
    BY <1>2 DEF MemoryOK, CodexOK, Last
  <2>2. codex[m] \in Facts /\ codex[Len(codex)] \in Facts
    BY <2>1 DEF MemoryOK, CodexOK
  <2>3. codex[m].turn \in Nat /\ Last(codex).turn \in Nat
    BY <2>1, <2>2, TurnsAssumption DEF Facts
  <2>4. codex[m].turn <= Last(codex).turn
    BY <1>2, <2>1 DEF InOrder
  <2>5. turn \in {Last(codex).turn, Last(codex).turn + 1}
    BY <1>1, <2>1
  <2> QED BY <2>3, <2>4, <2>5
<1>7. f.status \in Waiting => f.request \in Requests
  BY <1>3
<1>8. codex' = Append(codex, f)
  BY <1>1
<1> HIDE DEF f
<1> QED BY <1>2, <1>5, <1>6, <1>7, <1>8

(* A fact keeps the facts in order. *)
LEMMA OrderGrows ==
  ASSUME CodexOK, InOrder(codex), NEW fact \in Facts,
         \A m \in 1 .. Len(codex) : codex[m].turn <= fact.turn
  PROVE  InOrder(Append(codex, fact))
<1> DEFINE grown == Append(codex, fact)
<1>1. /\ Len(codex) \in Nat /\ Len(grown) = Len(codex) + 1
      /\ \A n \in 1 .. Len(codex) : grown[n] = codex[n]
      /\ grown[Len(codex) + 1] = fact
  BY DEF CodexOK
<1>2. fact.turn \in Nat
  BY TurnsAssumption DEF Facts
<1> HIDE DEF grown
<1>3. ASSUME NEW m \in 1 .. Len(grown), NEW n \in 1 .. Len(grown), m <= n
      PROVE  grown[m].turn <= grown[n].turn
  <2>1. CASE n \in 1 .. Len(codex)
    <3>1. m \in 1 .. Len(codex)
      BY <1>1, <1>3, <2>1
    <3> QED BY <1>1, <1>3, <2>1, <3>1 DEF InOrder
  <2>2. CASE n \notin 1 .. Len(codex)
    <3>1. grown[n] = fact
      BY <1>1, <2>2
    <3>2. CASE m \in 1 .. Len(codex)
      BY <1>1, <3>1, <3>2
    <3>3. CASE m \notin 1 .. Len(codex)
      <4>1. grown[m] = fact
        BY <1>1, <3>3
      <4> QED BY <1>2, <3>1, <4>1
    <3> QED BY <3>2, <3>3
  <2> QED BY <2>1, <2>2
<1> QED BY <1>3 DEF InOrder, grown

(* An event received leaves a timely view. *)
LEMMA ReceiveTimely ==
  ASSUME MemoryOK, NEW e \in SourceEvents, Receive(e),
         ViewTimely(codex, view), EventTimely(codex, e)
  PROVE  /\ ViewTimely(codex, view')
         /\ ViewOrdered(codex, view) /\ EventOrdered(codex, e) => ViewOrdered(codex, view')
         /\ EventOrdered(codex, e) /\ view.task # None /\ view.task.turn # None
              => view'.task # None /\ view'.task.turn # None /\ view'.task.turn >= view.task.turn
<1>1. FactsOK(codex) /\ view \in Views /\ manual \in Records \cup {None}
  BY DEF MemoryOK, CodexOK, FactsOK
<1>2. view' = Accept(view, manual, e).view
  BY DEF Receive
<1> QED BY <1>1, <1>2, AcceptTimely

(* A notification is an event that is timely: in order, unless it is a     *)
(* notification of a turn that goes on, which has no time of its own.      *)
LEMMA NotifiedIsTimely ==
  ASSUME MemoryOK, InOrder(codex), NEW n \in 1 .. 2 * MaxFacts, HandleNotification(n)
  PROVE  \E e \in SourceEvents :
           /\ EventTimely(codex, e)
           /\ EventOrdered(codex, e) \/ (n % 2 = 0 /\ codex[n \div 2].status \in Active)
           /\ UNCHANGED <<vars, view, manual>> \/ Receive(e)
<1> DEFINE fact == (n + 1) \div 2
           e == IF n % 2 = 1 THEN StatusChanged(fact) ELSE TurnNotification(fact)
<1>0. Len(codex) \in Nat /\ n \in Nat /\ n <= 2 * Len(codex)
  BY FactsAssumption DEF HandleNotification, MemoryOK, CodexOK
<1>1. fact \in 1 .. Len(codex) /\ (n % 2 = 1 \/ (n % 2 = 0 /\ fact = n \div 2))
  BY <1>0, FactsAssumption
<1>2. IF IsStaleTurn(view, e) THEN UNCHANGED <<vars, view, manual>>
      ELSE Receive(e) /\ Process(listener, Snapshot(view'))
  BY DEF HandleNotification
<1>3. PICK k \in 1 .. Len(codex) : k = fact
  BY <1>1
<1> HIDE DEF fact
<1>4. /\ EventTimely(codex, StatusChanged(k)) /\ EventTimely(codex, TurnNotification(k))
      /\ codex[k].status \in Terminal => EventOrdered(codex, TurnNotification(k))
      /\ StatusChanged(k) \in SourceEvents /\ TurnNotification(k) \in SourceEvents
  BY CodexTells, NotificationType, EventsAreSourceEvents DEF MemoryOK
<1>5. EventOrdered(codex, StatusChanged(k))
  BY DEF EventOrdered, StatusChanged
<1>6. codex[k].status \in Active \cup Terminal
  <2>1. codex[k] \in Facts
    BY DEF MemoryOK, CodexOK
  <2> QED BY <2>1 DEF Facts
<1>7. PICK x : x = e
  OBVIOUS
<1>8. x = StatusChanged(k) \/ (n % 2 = 0 /\ k = n \div 2 /\ x = TurnNotification(k))
  BY <1>1, <1>3, <1>7
<1>9. UNCHANGED <<vars, view, manual>> \/ Receive(x)
  BY <1>2, <1>7
<1> HIDE DEF e
<1>10. CASE x = StatusChanged(k)
  BY <1>4, <1>5, <1>9, <1>10
<1>11. CASE n % 2 = 0 /\ k = n \div 2 /\ x = TurnNotification(k)
  <2>1. EventOrdered(codex, x) \/ (n % 2 = 0 /\ codex[n \div 2].status \in Active)
    BY <1>4, <1>6, <1>11
  <2> QED BY <1>4, <1>9, <1>11, <2>1
<1> QED BY <1>8, <1>10, <1>11

(* Reading the session file from its first record on leaves a timely view. *)
LEMMA BootstrapTimely ==
  ASSUME CodexOK, InOrder(codex), NEW v \in Views, NEW m \in Records \cup {None},
         Agree(v, m), ViewTimely(codex, v)
  PROVE  ViewTimely(codex, Bootstrap(v, m).view)
<1> DEFINE Good == {r \in Outcomes : ViewTimely(codex, r.view)}
           G == [n \in 0 .. Len(codex) |-> Good]
<1>0. Len(codex) \in Nat /\ FactsOK(codex)
  BY DEF CodexOK, FactsOK
<1>1. [view |-> v, manual |-> m] \in Good
  BY DEF Outcomes
<1>2. ASSUME NEW n \in 1 .. Len(codex), NEW r \in Good PROVE ReadRecord(n, r) \in Good
  <2>1. r \in Outcomes /\ r.view \in Views /\ r.manual \in Records \cup {None}
        /\ ViewTimely(codex, r.view)
    BY DEF Outcomes
  <2>2. SessionEvent(n) \in SourceEvents /\ EventTimely(codex, SessionEvent(n))
    BY SessionEventType, CodexTells
  <2>3. ViewTimely(codex, Accept(r.view, r.manual, SessionEvent(n)).view)
    BY <1>0, <2>1, <2>2, AcceptTimely
  <2>4. ReadRecord(n, r) \in Outcomes
    BY <2>1, ReadRecordType
  <2>5. ViewTimely(codex, ReadRecord(n, r).view)
    BY <2>1, <2>3 DEF ReadRecord
  <2> QED BY <2>4, <2>5
<1>3. /\ G \in [0 .. Len(codex) -> SUBSET Outcomes]
      /\ G[0] = Good /\ G[Len(codex)] = Good
      /\ \A n \in 1 .. Len(codex) : G[n] = Good /\ G[n - 1] = Good
  BY <1>0
<1>4. \A n \in 1 .. Len(codex) : \A r \in G[n - 1] : ReadRecord(n, r) \in G[n]
  <2> HIDE DEF G, Good
  <2> QED BY <1>2, <1>3
<1>5. Bootstrap(v, m) \in G[Len(codex)]
  <2> HIDE DEF G, Good
  <2> QED BY <1>1, <1>3, <1>4, BootstrapInduction, Zenon
<1> QED BY <1>3, <1>5

(* What a start reads first, and then in the session file. *)
LEMMA StartReads ==
  ASSUME MemoryOK, Start
  PROVE  \E e \in SourceEvents \cup {None} :
           LET listed == IF e = None THEN [view |-> view, manual |-> manual]
                         ELSE Accept(view, manual, e) IN
           /\ e # None => /\ codex # <<>>
                          /\ refresh \in Loops
                          /\ e \in {Row(TRUE), Row(FALSE), Details}
           /\ listed \in Outcomes
           /\ view' = Bootstrap(listed.view, listed.manual).view
<1>1. PICK e \in IF refresh \in Loops /\ codex # <<>>
             THEN {None, Row(TRUE), Row(FALSE), Details} ELSE {None} :
       LET listed == IF e = None THEN [view |-> view, manual |-> manual]
                     ELSE Accept(view, manual, e)
       IN view' = Bootstrap(listed.view, listed.manual).view
  BY DEF Start
<1>2. e # None => e \in Events /\ e \in {Row(TRUE), Row(FALSE), Details} /\ codex # <<>> /\ refresh \in Loops
  BY <1>1, AnswerType DEF MemoryOK
<1>3. e # None => e \in SourceEvents
  BY <1>2, EventsAreSourceEvents
<1> DEFINE listed == IF e = None THEN [view |-> view, manual |-> manual]
                     ELSE Accept(view, manual, e)
<1>4. listed \in Outcomes
  <2>1. CASE e = None
    BY <2>1 DEF MemoryOK, Outcomes
  <2>2. CASE e # None
    <3>1. Accept(view, manual, e) \in Outcomes
      BY <1>3, <2>2, AcceptType DEF MemoryOK
    <3> QED BY <2>2, <3>1
  <2> QED BY <2>1, <2>2
<1>5. view' = Bootstrap(listed.view, listed.manual).view
  BY <1>1
<1>6. /\ e \in SourceEvents \cup {None}
      /\ e # None => codex # <<>> /\ refresh \in Loops /\ e \in {Row(TRUE), Row(FALSE), Details}
  BY <1>2, <1>3
<1> QED BY <1>4, <1>5, <1>6

(* Every step keeps the order. *)
LEMMA OrderStep ==
  ASSUME RInv, OrderInv, [RNext]_rvars
  PROVE  OrderInv'
<1>0. MemoryOK /\ CodexOK /\ InOrder(codex) /\ ViewTimely(codex, view) /\ view \in Views
      /\ manual \in Records \cup {None} /\ FactsOK(codex)
  BY InvIsMemory DEF OrderInv, MemoryOK, CodexOK, FactsOK
<1>p. poll.phase # "idle" => poll \in Polls /\ poll # NoPoll
                             /\ EventTimely(codex, poll.row) /\ EventOrdered(codex, poll.row)
  BY <1>0, PollingIsRow DEF OrderInv, NoPoll
<1>u. ASSUME UNCHANGED codex, ViewTimely(codex, view'),
             poll' # NoPoll => EventTimely(codex, poll'.row) /\ EventOrdered(codex, poll'.row)
      PROVE  OrderInv'
  BY <1>0, <1>u DEF OrderInv
<1>v. ASSUME UNCHANGED <<codex, poll>>, ViewTimely(codex, view') PROVE OrderInv'
  BY <1>v, <1>0 DEF OrderInv
<1>1. CASE UNCHANGED <<codex, view, poll>>
  BY <1>0, <1>1, <1>v
<1>2. CASE Happen
  <2>1. PICK fact \in Facts :
           /\ codex' = Append(codex, fact)
           /\ Len(codex) < MaxFacts
           /\ \A m \in 1 .. Len(codex) : codex[m].turn <= fact.turn
    BY <1>0, <1>2, HappenFact
  <2>2. view' = view /\ poll' = poll
    BY <1>2 DEF Happen, sources
  <2>3. InOrder(codex')
    BY <1>0, <2>1, OrderGrows
  <2>4. ViewTimely(codex', view)
    BY <1>0, <2>1, TimelyStays
  <2>5. ASSUME poll # NoPoll PROVE EventTimely(codex', poll.row) /\ EventOrdered(codex', poll.row)
    <3>1. EventTimely(codex, poll.row) /\ EventOrdered(codex, poll.row)
      BY <2>5 DEF OrderInv
    <3>2. EventTimely(codex', poll.row)
      BY <1>0, <2>1, <3>1, TimelyStays
    <3>3. poll.row.at \in Times
      BY <1>0, <2>5 DEF MemoryOK, Polls, Events
    <3>4. EventOrdered(codex', poll.row)
      BY <1>0, <2>1, <3>1, <3>3, BeforeStays DEF EventOrdered
    <3> QED BY <3>2, <3>4
  <2> QED BY <2>2, <2>3, <2>4, <2>5 DEF OrderInv
<1>3. CASE List
  <2>1. PICK loaded \in BOOLEAN :
          poll' = [phase |-> "listed", row |-> Row(loaded), at |-> Now, quiet |-> FALSE]
    BY <1>3 DEF List
  <2>2. EventTimely(codex, Row(loaded)) /\ EventOrdered(codex, Row(loaded))
    BY <1>0, <1>3, AnswersTell DEF List
  <2>3. poll'.row = Row(loaded) /\ UNCHANGED <<codex, view>>
    BY <1>3, <2>1 DEF List
  <2> QED BY <1>0, <1>u, <2>2, <2>3
<1>4. CASE TakeRow
  <2>1. PICK orphan \in {FALSE, IsOrphan} :
       /\ IF orphan THEN view' = MarkOrphaned(view, poll.at) ELSE UNCHANGED view
       /\ poll' = NoPoll \/ \E phase : poll' = [poll EXCEPT !.phase = phase, !.quiet = orphan]
    BY <1>4 DEF TakeRow
  <2>2. poll \in Polls /\ EventTimely(codex, poll.row) /\ EventOrdered(codex, poll.row)
    BY <1>p, <1>4 DEF TakeRow, Polling
  <2>3. poll' # NoPoll => poll'.row = poll.row
    BY <2>1, <2>2 DEF Polls
  <2>4. ViewTimely(codex, view')
    <3>1. CASE orphan
      <4>1. view.task # None /\ poll.at \in Times
        BY <2>1, <2>2, <3>1 DEF IsOrphan, Polls
      <4>2. /\ view'.task # None /\ view'.task.turn = view.task.turn
            /\ view'.task.started = view.task.started /\ view'.turnAt = view.turnAt
        BY <1>0, <2>1, <3>1, <4>1, OrphanTurn
      <4> QED BY <1>0, <4>1, <4>2 DEF ViewTimely
    <3>2. CASE ~ orphan
      BY <1>0, <2>1, <3>2
    <3> QED BY <3>1, <3>2
  <2>5. UNCHANGED codex
    BY <1>4 DEF TakeRow
  <2> QED BY <1>u, <2>2, <2>3, <2>4, <2>5
<1>5. CASE ReadThread
  <2>1. PICK e \in {Details, poll.row} :
       poll' = IF IsStaleTurn(view, e) THEN NoPoll
               ELSE [poll EXCEPT !.phase = "resolving", !.row = e]
    BY <1>5 DEF ReadThread
  <2>2. poll \in Polls /\ EventTimely(codex, poll.row) /\ EventOrdered(codex, poll.row) /\ codex # <<>>
    BY <1>p, <1>0, <1>5 DEF ReadThread, Polling, MemoryOK, PollIsOfThread
  <2>3. EventTimely(codex, e) /\ EventOrdered(codex, e)
    BY <1>0, <2>1, <2>2, AnswersTell
  <2>4. poll' # NoPoll => poll'.row = e
    BY <2>1, <2>2 DEF Polls
  <2>5. UNCHANGED <<codex, view>>
    BY <1>5 DEF ReadThread
  <2> QED BY <1>0, <1>u, <2>3, <2>4, <2>5
<1>6. CASE AcceptSnapshot
  <2>1. Receive(poll.row) /\ poll' = NoPoll /\ UNCHANGED codex
    BY <1>6 DEF AcceptSnapshot
  <2>2. poll.row \in SourceEvents /\ EventTimely(codex, poll.row)
    BY <1>p, <1>6, EventsAreSourceEvents DEF AcceptSnapshot, Polling, Polls
  <2>3. ViewTimely(codex, view')
    BY <1>0, <2>1, <2>2, ReceiveTimely
  <2> QED BY <1>u, <2>1, <2>3
<1>7. ASSUME NEW n \in 1 .. 2 * MaxFacts, HandleNotification(n) PROVE OrderInv'
  <2>1. PICK e \in SourceEvents :
          EventTimely(codex, e) /\ (UNCHANGED view \/ Receive(e))
    BY <1>0, <1>7, NotifiedIsTimely
  <2>2. UNCHANGED <<codex, poll>>
    BY <1>7 DEF HandleNotification
  <2>3. ViewTimely(codex, view')
    BY <1>0, <2>1, ReceiveTimely
  <2> QED BY <1>v, <2>2, <2>3
<1>8. CASE MergeNext
  <2>1. UNCHANGED view \/ Receive(SessionEvent(read'))
    BY <1>8 DEF MergeNext
  <2>2. read' \in 1 .. Len(codex) /\ UNCHANGED <<codex, poll>>
    BY <1>0, <1>8 DEF MergeNext, MemoryOK, CodexOK
  <2>3. PICK n \in 1 .. Len(codex) : n = read'
    BY <2>2
  <2>4. SessionEvent(n) \in SourceEvents /\ EventTimely(codex, SessionEvent(n))
    BY <1>0, SessionEventType, CodexTells
  <2>5. ViewTimely(codex, view')
    BY <1>0, <2>1, <2>3, <2>4, ReceiveTimely
  <2> QED BY <1>v, <2>2, <2>5
<1>9. CASE MarkManualCompletion
  <2>1. view' = MarkManual(view, Now) /\ UNCHANGED <<codex, poll>>
    BY <1>9 DEF MarkManualCompletion, sources
  <2>2. Now \in Times
    BY FactsAssumption, <1>0 DEF CodexOK, Now, Times
  <2>3. ViewTimely(codex, view')
    BY <1>0, <2>1, <2>2, MarkTurn, SameTurnTimely
  <2> QED BY <1>v, <2>1, <2>3
<1>10. CASE RCrash
  <2>1. view' = NoView /\ poll' = NoPoll /\ UNCHANGED codex
    BY <1>10 DEF RCrash
  <2>2. ViewTimely(codex, view')
    BY <2>1 DEF NoView, ViewTimely
  <2> QED BY <1>u, <2>1, <2>2
<1>11. CASE Start
  <2>1. PICK e \in SourceEvents \cup {None} :
           LET listed == IF e = None THEN [view |-> view, manual |-> manual]
                         ELSE Accept(view, manual, e) IN
           /\ e # None => codex # <<>> /\ e \in {Row(TRUE), Row(FALSE), Details}
           /\ listed \in Outcomes
           /\ view' = Bootstrap(listed.view, listed.manual).view
    BY <1>0, <1>11, StartReads
  <2>2. PICK listed \in Outcomes :
          /\ listed = IF e = None THEN [view |-> view, manual |-> manual]
                      ELSE Accept(view, manual, e)
          /\ view' = Bootstrap(listed.view, listed.manual).view
    BY <2>1
  <2>3. ViewTimely(codex, listed.view)
    <3>1. CASE e = None
      BY <1>0, <2>2, <3>1
    <3>2. CASE e # None
      <4>1. EventTimely(codex, e)
        BY <1>0, <2>1, <3>2, AnswersTell
      <4> QED BY <1>0, <2>2, <3>2, <4>1, AcceptTimely
    <3> QED BY <3>1, <3>2
  <2>4. listed.view \in Views /\ listed.manual \in Records \cup {None}
        /\ Agree(listed.view, listed.manual)
    BY DEF Outcomes
  <2>5. ViewTimely(codex, view')
    BY <1>0, <2>2, <2>3, <2>4, BootstrapTimely
  <2>6. UNCHANGED <<codex, poll>>
    BY <1>11 DEF Start
  <2> QED BY <1>v, <2>5, <2>6
<1>12. CASE \/ UNCHANGED rvars \/ Scan \/ ProcessNext
            \/ \E mode \in Modes : Watch(mode)
            \/ Unwatch
            \/ \E p \in Loops : Send(p)
  BY <1>1, <1>12 DEF rvars, Scan, ProcessNext, Watch, Unwatch, Send, sources
<1> QED BY <1>2, <1>3, <1>4, <1>5, <1>6, <1>7, <1>8, <1>9, <1>10, <1>11, <1>12 DEF RNext

(* No step moves the turn back but a late notification. *)
LEMMA TurnStep ==
  ASSUME RInv, OrderInv, [RNext]_rvars, up, up', view.task # None, view.task.turn # None
  PROVE  \/ view'.task.turn >= view.task.turn
         \/ \E n \in 1 .. 2 * MaxFacts :
              n % 2 = 0 /\ codex[n \div 2].status \in Active /\ HandleNotification(n)
<1>0. MemoryOK /\ CodexOK /\ InOrder(codex) /\ ViewTimely(codex, view) /\ view \in Views
      /\ manual \in Records \cup {None} /\ FactsOK(codex)
  BY InvIsMemory DEF OrderInv, MemoryOK, CodexOK, FactsOK
<1>1. view.task.turn \in Nat
  <2>1. Occurs(codex, view.task.turn)
    BY <1>0 DEF ViewTimely
  <2> QED BY <1>0, <2>1, TimelyTypes
<1>2. ASSUME UNCHANGED view PROVE view'.task.turn >= view.task.turn
  BY <1>1, <1>2
<1>3. ASSUME view'.task.turn = view.task.turn PROVE view'.task.turn >= view.task.turn
  BY <1>1, <1>3
<1>4. ASSUME NEW e \in SourceEvents, Receive(e), EventTimely(codex, e), EventOrdered(codex, e)
      PROVE  view'.task.turn >= view.task.turn
  BY <1>0, <1>4, ReceiveTimely
<1>5. CASE TakeRow
  <2>1. PICK orphan \in {FALSE, IsOrphan} :
          IF orphan THEN view' = MarkOrphaned(view, poll.at) ELSE UNCHANGED view
    BY <1>5 DEF TakeRow
  <2>2. poll.at \in Times
    BY <1>0, <1>5, PollingIsRow DEF TakeRow, Polling, Polls
  <2>3. view'.task.turn = view.task.turn
    BY <1>0, <2>1, <2>2, OrphanTurn
  <2> QED BY <1>3, <2>3
<1>6. CASE AcceptSnapshot
  <2>1. Receive(poll.row) /\ poll # NoPoll
    BY <1>6 DEF AcceptSnapshot, Polling, NoPoll
  <2>2. poll.row \in SourceEvents /\ EventTimely(codex, poll.row) /\ EventOrdered(codex, poll.row)
    BY <1>0, <1>6, <2>1, PollingIsRow, EventsAreSourceEvents DEF AcceptSnapshot, Polling, Polls, OrderInv
  <2> QED BY <1>4, <2>1, <2>2
<1>7. ASSUME NEW n \in 1 .. 2 * MaxFacts, HandleNotification(n)
      PROVE  \/ view'.task.turn >= view.task.turn
             \/ n % 2 = 0 /\ codex[n \div 2].status \in Active
  <2>1. PICK e \in SourceEvents :
           /\ EventTimely(codex, e)
           /\ EventOrdered(codex, e) \/ (n % 2 = 0 /\ codex[n \div 2].status \in Active)
           /\ UNCHANGED view \/ Receive(e)
    BY <1>0, <1>7, NotifiedIsTimely
  <2>2. CASE UNCHANGED view
    BY <1>2, <2>2
  <2>3. CASE Receive(e) /\ EventOrdered(codex, e)
    <3>1. view'.task.turn >= view.task.turn
      BY <1>4, <2>1, <2>3
    <3> QED BY <3>1
  <2>4. CASE n % 2 = 0 /\ codex[n \div 2].status \in Active
    BY <2>4
  <2> QED BY <2>1, <2>2, <2>3, <2>4
<1>8. CASE MergeNext
  <2>1. UNCHANGED view \/ Receive(SessionEvent(read'))
    BY <1>8 DEF MergeNext
  <2>2. read' \in 1 .. Len(codex)
    BY <1>0, <1>8 DEF MergeNext, MemoryOK, CodexOK
  <2>3. PICK n \in 1 .. Len(codex) : n = read'
    BY <2>2
  <2>4. /\ SessionEvent(n) \in SourceEvents
        /\ EventTimely(codex, SessionEvent(n)) /\ EventOrdered(codex, SessionEvent(n))
    BY <1>0, SessionEventType, CodexTells
  <2> QED BY <1>2, <1>4, <2>1, <2>3, <2>4
<1>9. CASE MarkManualCompletion
  <2>1. view' = MarkManual(view, Now) /\ Now \in Times
    BY <1>9, <1>0, FactsAssumption DEF MarkManualCompletion, CodexOK, Now, Times
  <2>2. view'.task.turn = view.task.turn
    BY <1>0, <2>1, MarkTurn DEF SameTurn
  <2> QED BY <1>3, <2>2
<1>10. CASE RCrash \/ Start
  BY <1>10 DEF RCrash, Crash, Die, Start, Restart
<1>11. CASE \/ UNCHANGED rvars
            \/ Happen \/ List \/ ReadThread \/ Scan \/ ProcessNext
            \/ \E mode \in Modes : Watch(mode)
            \/ Unwatch
            \/ \E p \in Loops : Send(p)
  BY <1>2, <1>11 DEF rvars, Happen, List, ReadThread, Scan, ProcessNext, Watch, Unwatch, Send
<1> QED BY <1>5, <1>6, <1>7, <1>8, <1>9, <1>10, <1>11 DEF RNext

(* The order holds in every behaviour. *)
LEMMA OrderInvariance == RSpec => []OrderInv
<1>1. RInit => OrderInv
  BY DEF RInit, OrderInv, InOrder, ViewTimely, NoView
<1>2. RInv /\ OrderInv /\ [RNext]_rvars => OrderInv'
  BY OrderStep
<1> QED BY <1>1, <1>2, RuntimeInvariance, PTL DEF RSpec

(* The turn shown moves back only when App Server's notification of a turn *)
(* that goes on is handled: the one event without a time of its own, which *)
(* is stamped on receipt however late it is.                               *)
THEOREM TurnMovesBackOnlyByLateNotification ==
  RSpec => [][up /\ up' /\ view.task # None /\ view.task.turn # None
              => \/ view'.task.turn >= view.task.turn
                 \/ \E n \in 1 .. 2 * MaxFacts :
                      /\ n % 2 = 0
                      /\ codex[n \div 2].status \in Active
                      /\ HandleNotification(n)]_rvars
<1>1. RInv /\ OrderInv /\ [RNext]_rvars =>
        [up /\ up' /\ view.task # None /\ view.task.turn # None
              => \/ view'.task.turn >= view.task.turn
                 \/ \E n \in 1 .. 2 * MaxFacts :
                      /\ n % 2 = 0
                      /\ codex[n \div 2].status \in Active
                      /\ HandleNotification(n)]_rvars
  BY TurnStep
<1> QED BY <1>1, RuntimeInvariance, OrderInvariance, PTL DEF RSpec

(* Where no notification is handled the turns shown follow the thread's    *)
(* own order, whatever polls and records are late.                         *)
THEOREM TurnsOnlyMoveForward ==
  ASSUME listener \notin Loops
  PROVE  RSpec => TurnsMoveForward
<1>1. RInv /\ OrderInv /\ [RNext]_rvars =>
        [up /\ up' /\ view.task # None /\ view.task.turn # None
              => view'.task.turn >= view.task.turn]_rvars
  <2>1. \A n : ~ HandleNotification(n)
    BY DEF HandleNotification
  <2> QED BY <2>1, TurnStep
<1> QED BY <1>1, RuntimeInvariance, OrderInvariance, PTL DEF RSpec, TurnsMoveForward

----------------------------------------------------------------------------
(* Ends hold.  Only the mark of the orphan timeout lets a record of the    *)
(* session file show a turn that ended as active, and it does so once.     *)

(* App Server's events come from App Server. *)
LEMMA EventsAreAppServers == \A e \in Events : e.source = "app_server"
BY DEF Events

(* A step that reopens a turn merges a record under the mark. *)
LEMMA ReopeningStep ==
  ASSUME RInv, [RNext]_rvars, Reopened
  PROVE  view.orphaned /\ ~ view'.orphaned /\ read' = read + 1
<1>0. MemoryOK
  BY InvIsMemory
<1>d. /\ up /\ up'
      /\ view.task # None /\ view.task.status \in Ended
      /\ view'.task.status \in Active
      /\ Ended \cap Active = {}
  BY DEF Reopened, Active, Waiting, Ended, Terminal
<1>1. ~ UNCHANGED view
  BY <1>d
<1>2. ASSUME NEW e \in SourceEvents, Receive(e), ~ view.orphaned \/ e.source # "session"
      PROVE  FALSE
  BY <1>0, <1>2, AcceptKeepsEnd DEF MemoryOK, Receive, Reopened, Ended, Active, Waiting, Terminal
<1>3. ASSUME NEW e \in Events, Receive(e) PROVE FALSE
  <2>1. e \in SourceEvents /\ e.source # "session"
    BY EventsAreSourceEvents, EventsAreAppServers
  <2> QED BY <1>2, <1>3, <2>1
<1>4. ~ TakeRow
  <2> SUFFICES ASSUME TakeRow PROVE FALSE
    OBVIOUS
  <2>1. ~ IsOrphan
    BY <1>d DEF IsOrphan
  <2>2. PICK orphan \in {FALSE, IsOrphan} : ~ orphan => UNCHANGED view
    BY DEF TakeRow
  <2>3. ~ orphan
    BY <2>1, <2>2
  <2> QED BY <1>1, <2>2, <2>3
<1>5. ~ AcceptSnapshot
  <2> SUFFICES ASSUME AcceptSnapshot PROVE FALSE
    OBVIOUS
  <2>1. poll.row \in Events
    BY <1>0, PollingIsRow DEF AcceptSnapshot, Polling, Polls
  <2> QED BY <1>3, <2>1 DEF AcceptSnapshot
<1>6. ASSUME NEW n \in 1 .. 2 * MaxFacts, HandleNotification(n) PROVE FALSE
  <2>1. PICK e \in Events : UNCHANGED view \/ Receive(e)
    BY <1>0, <1>6, NotifiedIsEvent
  <2> QED BY <1>1, <1>3, <2>1
<1>7. CASE MergeNext
  <2>1. SessionEvent(read') \in SourceEvents /\ SessionEvent(read').source = "session"
    <3>1. read' \in 1 .. Len(codex)
      BY <1>0, <1>7 DEF MergeNext, MemoryOK, CodexOK
    <3> QED BY <1>0, <3>1, SessionEventType DEF MemoryOK, SessionEvent
  <2>2. PICK e \in SourceEvents : e = SessionEvent(read') /\ e.source = "session"
    BY <2>1
  <2>3. ~ IsStaleTurn(view, e) /\ Receive(e) /\ read' = read + 1
    BY <1>1, <1>7, <2>2 DEF MergeNext
  <2>4. view.orphaned
    BY <1>2, <2>3
  <2>5. Moved(view, e, view')
    BY <1>0, <2>3, AcceptTurn DEF MemoryOK, Receive
  <2>6. ~ view'.orphaned
    BY <1>d, <2>2, <2>5 DEF Moved, OrphanedAfter
  <2> QED BY <2>3, <2>4, <2>6
<1>8. ~ MarkManualCompletion
  BY <1>d DEF MarkManualCompletion
<1>9. ~ RCrash /\ ~ Start
  BY <1>d DEF RCrash, Crash, Die, Start, Restart
<1>10. ~ (\/ UNCHANGED rvars
          \/ Happen \/ List \/ ReadThread \/ Scan \/ ProcessNext
          \/ \E mode \in Modes : Watch(mode)
          \/ Unwatch
          \/ \E p \in Loops : Send(p))
  BY <1>1 DEF rvars, Happen, List, ReadThread, Scan, ProcessNext, Watch, Unwatch, Send
<1> QED BY <1>4, <1>5, <1>6, <1>7, <1>8, <1>9, <1>10 DEF RNext

(* Whatever the sources tell and in whichever order, nothing but a record  *)
(* of the session file shows an ended turn as active, it does so under the *)
(* mark of the orphan timeout, and takes the mark away.                    *)
THEOREM OnlyRecordsReviveTurns == RSpec => OnlyRecordsRevive
<1>1. RInv /\ [RNext]_rvars =>
        [Reopened => view.orphaned /\ ~ view'.orphaned /\ read' = read + 1]_rvars
  BY ReopeningStep
<1> QED BY <1>1, RuntimeInvariance, PTL DEF RSpec, OnlyRecordsRevive

(* No event marks a view. *)
LEMMA AcceptMarksNothing ==
  ASSUME NEW v \in Views, NEW m \in Records \cup {None}, NEW e \in SourceEvents,
         ~ v.orphaned
  PROVE  ~ Accept(v, m, e).view.orphaned
<1>1. CASE IsStaleTurn(v, e)
  BY <1>1, AcceptTurn DEF SameTurn
<1>2. CASE ~ IsStaleTurn(v, e)
  BY <1>2, AcceptTurn DEF Moved, OrphanedAfter
<1> QED BY <1>1, <1>2

(* Nor does reading the session file from its first record on. *)
LEMMA BootstrapMarksNothing ==
  ASSUME CodexOK, NEW v \in Views, NEW m \in Records \cup {None},
         Agree(v, m), ~ v.orphaned
  PROVE  ~ Bootstrap(v, m).view.orphaned
<1> DEFINE Good == {r \in Outcomes : ~ r.view.orphaned}
           G == [n \in 0 .. Len(codex) |-> Good]
<1>0. Len(codex) \in Nat
  BY DEF CodexOK
<1>1. [view |-> v, manual |-> m] \in Good
  BY DEF Outcomes
<1>2. ASSUME NEW n \in 1 .. Len(codex), NEW r \in Good PROVE ReadRecord(n, r) \in Good
  <2>1. r \in Outcomes /\ r.view \in Views /\ r.manual \in Records \cup {None}
        /\ ~ r.view.orphaned
    BY DEF Outcomes
  <2>2. ~ Accept(r.view, r.manual, SessionEvent(n)).view.orphaned
    BY <2>1, SessionEventType, AcceptMarksNothing
  <2>3. ReadRecord(n, r) \in Outcomes
    BY <2>1, ReadRecordType
  <2>4. ~ ReadRecord(n, r).view.orphaned
    BY <2>1, <2>2 DEF ReadRecord
  <2> QED BY <2>3, <2>4
<1>3. /\ G \in [0 .. Len(codex) -> SUBSET Outcomes]
      /\ G[0] = Good /\ G[Len(codex)] = Good
      /\ \A n \in 1 .. Len(codex) : G[n] = Good /\ G[n - 1] = Good
  BY <1>0
<1>4. \A n \in 1 .. Len(codex) : \A r \in G[n - 1] : ReadRecord(n, r) \in G[n]
  <2> HIDE DEF G, Good
  <2> QED BY <1>2, <1>3
<1>5. Bootstrap(v, m) \in G[Len(codex)]
  <2> HIDE DEF G, Good
  <2> QED BY <1>1, <1>3, <1>4, BootstrapInduction, Zenon
<1> QED BY <1>3, <1>5

(* Only a poll marks a view. *)
LEMMA UnmarkedStep ==
  ASSUME refresh \notin Loops, RInv, ~ view.orphaned, [RNext]_rvars
  PROVE  ~ view'.orphaned
<1>0. MemoryOK
  BY InvIsMemory
<1>1. CASE UNCHANGED view
  BY <1>1
<1>2. ASSUME NEW e \in SourceEvents, Receive(e) PROVE ~ view'.orphaned
  BY <1>0, <1>2, AcceptMarksNothing DEF MemoryOK, Receive
<1>3. ~ TakeRow /\ ~ AcceptSnapshot
  BY DEF TakeRow, AcceptSnapshot, Polling
<1>4. ASSUME NEW n \in 1 .. 2 * MaxFacts, HandleNotification(n)
      PROVE  ~ view'.orphaned
  <2>1. PICK e \in Events : UNCHANGED view \/ Receive(e)
    BY <1>0, <1>4, NotifiedIsEvent
  <2> QED BY <1>1, <1>2, <2>1, EventsAreSourceEvents
<1>5. CASE MergeNext
  <2>1. SessionEvent(read') \in SourceEvents
    <3>1. read' \in 1 .. Len(codex)
      BY <1>0, <1>5 DEF MergeNext, MemoryOK, CodexOK
    <3> QED BY <1>0, <3>1, SessionEventType DEF MemoryOK
  <2> QED BY <1>1, <1>2, <1>5, <2>1 DEF MergeNext
<1>6. CASE MarkManualCompletion
  <2>1. view' = MarkManual(view, Now) /\ Now \in Times
    BY <1>0, <1>6, FactsAssumption DEF MarkManualCompletion, Now, Times, MemoryOK, CodexOK
  <2>2. SameTurn(view, view')
    BY <1>0, <2>1, MarkTurn DEF MemoryOK
  <2> QED BY <2>2 DEF SameTurn
<1>7. CASE RCrash
  BY <1>7 DEF RCrash, NoView
<1>8. CASE Start
  <2>1. PICK e \in SourceEvents \cup {None} :
          LET listed == IF e = None THEN [view |-> view, manual |-> manual]
                        ELSE Accept(view, manual, e) IN
          /\ listed \in Outcomes
          /\ view' = Bootstrap(listed.view, listed.manual).view
    BY <1>0, <1>8, StartReads
  <2>2. PICK listed : listed = IF e = None THEN [view |-> view, manual |-> manual]
                               ELSE Accept(view, manual, e)
    OBVIOUS
  <2>3. listed \in Outcomes /\ view' = Bootstrap(listed.view, listed.manual).view
    BY <2>1, <2>2
  <2>4. ~ listed.view.orphaned
    BY <1>0, <2>2, AcceptMarksNothing DEF MemoryOK
  <2> QED BY <1>0, <2>3, <2>4, BootstrapMarksNothing DEF MemoryOK, Outcomes
<1>9. CASE \/ UNCHANGED rvars
           \/ Happen \/ List \/ ReadThread \/ Scan \/ ProcessNext
           \/ \E mode \in Modes : Watch(mode)
           \/ Unwatch
           \/ \E p \in Loops : Send(p)
  BY <1>1, <1>9 DEF rvars, Happen, List, ReadThread, Scan, ProcessNext, Watch, Unwatch, Send
<1> QED BY <1>3, <1>4, <1>5, <1>6, <1>7, <1>8, <1>9 DEF RNext

(* Where nothing is polled no end is inferred and none is undone: a turn   *)
(* that ended is never shown as active again, by no notification however   *)
(* late, no record, no crash.                                              *)
THEOREM EndedTurnsStayEnded ==
  ASSUME refresh \notin Loops
  PROVE  RSpec => EndedTurnStaysEnded
<1>1. RInit => ~ view.orphaned
  BY DEF RInit, NoView
<1>2. RInv /\ ~ view.orphaned /\ [RNext]_rvars => (~ view.orphaned)'
  BY UnmarkedStep
<1>3. RInv /\ ~ view.orphaned /\ [RNext]_rvars => [~ (Reopened /\ ~ EndIsInferred)]_rvars
  BY ReopeningStep
<1> QED BY <1>1, <1>2, <1>3, RuntimeInvariance, PTL DEF RSpec, EndedTurnStaysEnded

----------------------------------------------------------------------------
(* Failures are not invented.  Where no notification is handled an event   *)
(* is stale exactly when it is of an older turn, and the view has caught   *)
(* up with the records read.                                               *)

Caught(facts, v, n) ==
  n >= 1 => v.task # None /\ v.task.turn # None /\ v.task.turn >= facts[n].turn

FollowInv ==
  /\ ViewOrdered(codex, view)
  /\ Caught(codex, view, read)
  /\ ~ up => view = NoView /\ read = 0

(* What is true of a turn: that it failed. *)
Failures == {"failed", "interrupted"}
Happens(facts, turn, status) ==
  \E n \in 1 .. Len(facts) : facts[n].turn = turn /\ facts[n].status = status
Founded(facts, turn, status) == status \in Failures => Happens(facts, turn, status)
Unfounded(facts, v) == v.task # None /\ ~ Founded(facts, v.task.turn, v.task.status)
Unwatched == watch[Thread] = None \/ ~ watch[Thread].active

(* A failure shown that did not happen is an orphan's, and nobody watches  *)
(* it.                                                                     *)
FailInv ==
  /\ Unfounded(codex, view) => view.orphaned /\ Unwatched
  /\ poll # NoPoll => Founded(codex, poll.row.turn, poll.row.status)
  /\ \A i \in 1 .. Len(batch) : Founded(codex, batch[i].turn, batch[i].status)
  /\ \A k \in Keys : Reserved(k) => Founded(codex, k[2], k[3])

(* A record without a status follows another one of its turn. *)
LEMMA SilentRecordFollows ==
  ASSUME CodexOK, InOrder(codex), NEW n \in 1 .. Len(codex),
         SessionEvent(n).status \in NoNews
  PROVE  n > 1 /\ codex[n - 1].turn = codex[n].turn
<1>0. FactsOK(codex) /\ Len(codex) \in Nat /\ codex[n] \in Facts
  BY DEF CodexOK, FactsOK
<1>1. codex[n].status \notin NoNews
  BY <1>0, NoneAssumption DEF NoNews, Facts, Active, Waiting, Terminal, Statuses
<1>2. 2 * n # StartOf(codex[n].turn)
  BY <1>1 DEF SessionEvent
<1>3. Occurs(codex, codex[n].turn) /\ StartOf(codex[n].turn) = StartIn(codex, codex[n].turn)
  BY DEF Occurs, StartOf, StartIn
<1>4. PICK b \in 1 .. Len(codex) :
        /\ StartIn(codex, codex[n].turn) = 2 * b
        /\ codex[b].turn = codex[n].turn
        /\ \A m \in 1 .. Len(codex) : codex[m].turn = codex[n].turn => b <= m
  BY <1>0, <1>3, StartIsFirst
<1>5. b <= n /\ b # n
  BY <1>2, <1>3, <1>4
<1>6. n > 1 /\ n - 1 \in 1 .. Len(codex) /\ b <= n - 1 /\ n - 1 <= n
  BY <1>0, <1>5
<1>7. codex[b].turn <= codex[n - 1].turn /\ codex[n - 1].turn <= codex[n].turn
  BY <1>6 DEF InOrder
<1>8. codex[n - 1].turn \in Nat /\ codex[n].turn \in Nat
  <2>1. codex[n - 1] \in Facts
    BY <1>6 DEF CodexOK
  <2> QED BY <1>0, <2>1, TurnsAssumption DEF Facts
<1> QED BY <1>4, <1>6, <1>7, <1>8

(* So a view that has caught up takes no status over from another turn. *)
LEMMA RecordsCarryNothing ==
  ASSUME CodexOK, InOrder(codex), NEW n \in 1 .. Len(codex), NEW v \in Views,
         ViewTimely(codex, v), Caught(codex, v, n - 1),
         ~ IsStaleTurn(v, SessionEvent(n)),
         SessionEvent(n).status \in NoNews
  PROVE  v.task # None /\ v.task.turn = codex[n].turn /\ ~ OtherTurn(v.task, SessionEvent(n))
<1> DEFINE e == SessionEvent(n)
<1>0. FactsOK(codex) /\ e \in SourceEvents /\ e.turn = codex[n].turn
      /\ EventTimely(codex, e) /\ EventOrdered(codex, e)
  <2>1. FactsOK(codex) /\ e \in SourceEvents /\ EventTimely(codex, e) /\ EventOrdered(codex, e)
    BY SessionEventType, CodexTells DEF CodexOK, FactsOK
  <2>2. e.turn = codex[n].turn
    BY DEF SessionEvent
  <2> QED BY <2>1, <2>2
<1>1. n > 1 /\ codex[n - 1].turn = codex[n].turn
  BY SilentRecordFollows
<1>2. v.task # None /\ v.task.turn # None /\ v.task.turn >= codex[n].turn
  BY <1>1 DEF Caught
<1>3. Occurs(codex, codex[n].turn) /\ Occurs(codex, v.task.turn)
  BY <1>2 DEF Occurs, ViewTimely
<1>4. codex[n].turn \in Nat /\ v.task.turn \in Nat /\ codex[n].turn # None
  BY <1>0, <1>3, TimelyTypes
<1> HIDE DEF e
<1>5. ~ (e.turn < v.task.turn)
  BY <1>0, <1>2, <1>4, OlderIsStale DEF e
<1>6. v.task.turn = codex[n].turn
  BY <1>0, <1>2, <1>4, <1>5
<1> QED BY <1>0, <1>2, <1>6 DEF OtherTurn, e

(* Records of failures are of failures. *)
LEMMA RecordIsFounded ==
  ASSUME NEW n \in 1 .. Len(codex)
  PROVE  Founded(codex, SessionEvent(n).turn, SessionEvent(n).status)
<1>1. SessionEvent(n).turn = codex[n].turn /\ SessionEvent(n).status \in {None, codex[n].status}
  BY DEF SessionEvent
<1>2. None \notin Failures
  BY NoneAssumption DEF Failures, Statuses, Terminal
<1> QED BY <1>1, <1>2 DEF Founded, Happens

(* A record read catches up with its fact. *)
LEMMA RecordCatchesUp ==
  ASSUME CodexOK, InOrder(codex), NEW n \in 1 .. Len(codex), NEW v \in Views,
         NEW m \in Records \cup {None},
         ViewTimely(codex, v), ViewOrdered(codex, v)
  PROVE  IF IsStaleTurn(v, SessionEvent(n)) THEN Caught(codex, v, n)
         ELSE Caught(codex, Accept(v, m, SessionEvent(n)).view, n)
<1>e. PICK e : e = SessionEvent(n)
  OBVIOUS
<1>w. PICK w : w = Accept(v, m, e).view
  OBVIOUS
<1>0. FactsOK(codex) /\ e \in SourceEvents /\ e.turn = codex[n].turn
      /\ EventTimely(codex, e) /\ EventOrdered(codex, e)
  <2>1. FactsOK(codex) /\ e \in SourceEvents /\ EventTimely(codex, e) /\ EventOrdered(codex, e)
    BY <1>e, SessionEventType, CodexTells DEF CodexOK, FactsOK
  <2>2. e.turn = codex[n].turn
    BY <1>e DEF SessionEvent
  <2> QED BY <2>1, <2>2
<1>1. Occurs(codex, codex[n].turn)
  BY DEF Occurs
<1>2. codex[n].turn \in Nat /\ codex[n].turn # None
  BY <1>0, <1>1, TimelyTypes
<1>3. CASE IsStaleTurn(v, e)
  <2>1. e.turn < v.task.turn /\ v.task # None /\ v.task.turn # None
    BY <1>0, <1>3, StaleIsOlder DEF IsStaleTurn
  <2>2. Occurs(codex, v.task.turn)
    BY <2>1 DEF ViewTimely
  <2>3. v.task.turn \in Nat
    BY <1>0, <2>2, TimelyTypes
  <2>4. v.task.turn >= codex[n].turn
    BY <1>0, <1>2, <2>1, <2>3
  <2> QED BY <1>e, <1>3, <2>1, <2>4 DEF Caught
<1>4. CASE ~ IsStaleTurn(v, e)
  <2>1. Moved(v, e, w)
    BY <1>0, <1>w, <1>4, AcceptTurn
  <2>2. w.task # None /\ w.task.turn = codex[n].turn
    BY <1>0, <1>2, <2>1 DEF Moved, TurnAfter
  <2>3. Caught(codex, w, n)
    BY <1>2, <2>2 DEF Caught
  <2> QED BY <1>e, <1>w, <1>4, <2>3
<1> QED BY <1>3, <1>4

(* Nothing happens to no turn. *)
LEMMA NoTurnFails ==
  ASSUME NEW facts, FactsOK(facts), NEW status
  PROVE  ~ Happens(facts, None, status)
<1>1. ~ Occurs(facts, None)
  BY TimelyTypes
<1> QED BY <1>1 DEF Happens, Occurs

(* An event that tells the truth, and carries no status to another turn,   *)
(* leaves an unfounded failure only where there was one.                   *)
LEMMA AcceptFounded ==
  ASSUME NEW facts, FactsOK(facts), NEW v \in Views, NEW m \in Records \cup {None},
         Agree(v, m), NEW e \in SourceEvents,
         Founded(facts, e.turn, e.status),
         v.task # None /\ OtherTurn(v.task, e) /\ ~ IsStaleTurn(v, e) => e.status \notin NoNews,
         Unfounded(facts, Accept(v, m, e).view)
  PROVE  Unfounded(facts, v) /\ ~ (Revives(v, e) /\ ~ IsStaleTurn(v, e))
<1>w. PICK w : w = Accept(v, m, e).view
  OBVIOUS
<1>0. w.task # None /\ w.task.status \in Failures /\ ~ Happens(facts, w.task.turn, w.task.status)
  BY <1>w DEF Unfounded, Founded
<1>1. w.task.status \notin {"manually_completed", "unknown", "running"}
  BY <1>0 DEF Failures
<1>2. CASE IsStaleTurn(v, e)
  <2>1. w = v
    BY <1>w, <1>1, <1>2, AcceptStale
  <2> QED BY <1>w, <1>2, <2>1
<1>3. CASE ~ IsStaleTurn(v, e)
  <2>1. Moved(v, e, w)
    BY <1>w, <1>3, AcceptTurn
  <2>2. w.task.turn = TurnAfter(v, e)
    BY <2>1 DEF Moved
  <2>3. w.task.status # e.status
    <3> SUFFICES ASSUME w.task.status = e.status PROVE FALSE
      OBVIOUS
    <3>1. Happens(facts, e.turn, e.status)
      BY <1>0 DEF Founded
    <3>2. e.turn # None
      BY <3>1, NoTurnFails
    <3>3. w.task.turn = e.turn
      BY <2>2, <3>2 DEF TurnAfter
    <3> QED BY <1>0, <3>1, <3>3
  <2>4. /\ v.task # None /\ ~ Revives(v, e) /\ w.task.status = v.task.status
        /\ OtherTurn(v.task, e) => e.status \in NoNews
    BY <1>w, <1>1, <1>3, <2>3, AcceptStatus
  <2>5. ~ OtherTurn(v.task, e)
    BY <1>3, <2>4
  <2>6. w.task.turn = v.task.turn \/ v.task.turn = None
    BY <2>2, <2>4, <2>5 DEF TurnAfter, OtherTurn
  <2>7. ~ Happens(facts, v.task.turn, v.task.status)
    BY <1>0, <2>4, <2>6, NoTurnFails
  <2> QED BY <1>0, <2>4, <2>7 DEF Unfounded, Founded
<1> QED BY <1>2, <1>3

(* A fact that follows unfounds nothing. *)
LEMMA FoundedStays ==
  ASSUME NEW facts, FactsOK(facts), NEW fact \in Facts
  PROVE  LET grown == Append(facts, fact) IN
         /\ \A turn, status : Happens(facts, turn, status) => Happens(grown, turn, status)
         /\ \A n \in 1 .. Len(facts) : grown[n] = facts[n]
<1> DEFINE grown == Append(facts, fact)
<1>1. /\ Len(facts) \in Nat /\ Len(grown) = Len(facts) + 1
      /\ \A n \in 1 .. Len(facts) : grown[n] = facts[n]
  BY DEF FactsOK
<1>2. \A n \in 1 .. Len(facts) : n \in 1 .. Len(grown)
  BY <1>1
<1> HIDE DEF grown
<1>3. \A turn, status : Happens(facts, turn, status) => Happens(grown, turn, status)
  BY <1>1, <1>2 DEF Happens
<1> QED BY <1>1, <1>3 DEF grown

(* Reading the session file from its first record on leaves a view that    *)
(* has caught up and shows no failure that did not happen.                 *)
LEMMA BootstrapFollows ==
  ASSUME CodexOK, InOrder(codex), NEW v \in Views, NEW m \in Records \cup {None},
         Agree(v, m), ViewTimely(codex, v), ViewOrdered(codex, v), ~ Unfounded(codex, v)
  PROVE  LET w == Bootstrap(v, m).view IN
         ViewOrdered(codex, w) /\ Caught(codex, w, Len(codex)) /\ ~ Unfounded(codex, w)
<1> DEFINE Good(n) == {r \in Outcomes : /\ ViewTimely(codex, r.view) /\ ViewOrdered(codex, r.view)
                                        /\ Caught(codex, r.view, n)
                                        /\ ~ Unfounded(codex, r.view)}
           G == [n \in 0 .. Len(codex) |-> Good(n)]
<1>0. Len(codex) \in Nat /\ FactsOK(codex)
  BY DEF CodexOK, FactsOK
<1>1. [view |-> v, manual |-> m] \in Good(0)
  BY DEF Outcomes, Caught
<1>2. ASSUME NEW n \in 1 .. Len(codex), NEW r \in Good(n - 1) PROVE ReadRecord(n, r) \in Good(n)
  <2>1. r \in Outcomes /\ r.view \in Views /\ r.manual \in Records \cup {None}
        /\ Agree(r.view, r.manual)
        /\ ViewTimely(codex, r.view) /\ ViewOrdered(codex, r.view)
        /\ Caught(codex, r.view, n - 1) /\ ~ Unfounded(codex, r.view)
    BY DEF Outcomes
  <2>e. PICK e : e = SessionEvent(n)
    OBVIOUS
  <2>2. e \in SourceEvents /\ EventTimely(codex, e) /\ EventOrdered(codex, e)
    BY <2>e, SessionEventType, CodexTells
  <2>3. ReadRecord(n, r) \in Outcomes
    BY <2>1, ReadRecordType
  <2>4. CASE IsStaleTurn(r.view, e)
    <3>1. Caught(codex, r.view, n)
      BY <2>e, <2>1, <2>4, RecordCatchesUp
    <3>2. ReadRecord(n, r) = r
      BY <2>e, <2>4 DEF ReadRecord
    <3> QED BY <2>1, <3>1, <3>2
  <2>5. CASE ~ IsStaleTurn(r.view, e)
    <3>w. PICK w : w = Accept(r.view, r.manual, e).view
      OBVIOUS
    <3>1. ViewTimely(codex, w) /\ ViewOrdered(codex, w)
      BY <1>0, <2>1, <2>2, <3>w, AcceptTimely
    <3>2. Caught(codex, w, n)
      BY <2>e, <2>1, <2>5, <3>w, RecordCatchesUp
    <3>3. Founded(codex, e.turn, e.status)
      BY <2>e, RecordIsFounded
    <3>4. r.view.task # None /\ OtherTurn(r.view.task, e) => e.status \notin NoNews
      BY <2>e, <2>1, <2>5, RecordsCarryNothing
    <3>5. ~ Unfounded(codex, w)
      BY <1>0, <2>1, <2>2, <3>w, <3>3, <3>4, AcceptFounded
    <3>6. ReadRecord(n, r).view = w
      BY <2>e, <2>5, <3>w DEF ReadRecord
    <3> QED BY <2>3, <3>1, <3>2, <3>5, <3>6
  <2> QED BY <2>4, <2>5
<1>3. /\ G \in [0 .. Len(codex) -> SUBSET Outcomes]
      /\ G[0] = Good(0) /\ G[Len(codex)] = Good(Len(codex))
      /\ \A n \in 1 .. Len(codex) : G[n] = Good(n) /\ G[n - 1] = Good(n - 1)
  BY <1>0
<1>4. \A n \in 1 .. Len(codex) : \A r \in G[n - 1] : ReadRecord(n, r) \in G[n]
  <2> HIDE DEF G, Good
  <2> QED BY <1>2, <1>3
<1>5. Bootstrap(v, m) \in G[Len(codex)]
  <2> HIDE DEF G, Good
  <2> QED BY <1>1, <1>3, <1>4, BootstrapInduction, Zenon
<1> QED BY <1>3, <1>5

(* What App Server answers of a failure is true: rows of the list tell of  *)
(* none, and details know the turn.                                        *)
LEMMA AnswerIsFounded ==
  ASSUME CodexOK, codex # <<>>, NEW e, e \in {Row(TRUE), Row(FALSE), Details}
  PROVE  Founded(codex, e.turn, e.status)
<1>0. Len(codex) \in 1 .. Len(codex) /\ Last(codex) = codex[Len(codex)]
  BY DEF CodexOK, Last
<1>1. CASE e = Details
  <2>1. e.turn = codex[Len(codex)].turn /\ e.status = codex[Len(codex)].status
    BY <1>0, <1>1 DEF Details
  <2> QED BY <1>0, <2>1 DEF Founded, Happens
<1>2. ASSUME NEW loaded \in BOOLEAN PROVE Row(loaded).status \notin Failures
  <2>1. Row(loaded).status \in {"unknown", ThreadStatus(Last(codex))}
    BY DEF Row
  <2>2. ThreadStatus(Last(codex)) \notin Failures
    BY DEF ThreadStatus, Failures, Terminal
  <2>3. "unknown" \notin Failures
    BY DEF Failures
  <2> QED BY <2>1, <2>2, <2>3
<1> QED BY <1>1, <1>2 DEF Founded

(* The process ends and starts in its own steps only. *)
LEMMA UpStays ==
  ASSUME [RNext]_rvars, ~ RCrash, ~ Start
  PROVE  up' = up
<1>1. ASSUME NEW p, NEW s, Process(p, s) PROVE up' = up
  BY <1>1 DEF Process, Observe, Reserve, vars
<1>2. CASE TakeRow
  BY <1>2 DEF TakeRow, EndWatch, Deactivate, vars
<1>3. CASE AcceptSnapshot
  BY <1>1, <1>3 DEF AcceptSnapshot, vars
<1>4. ASSUME NEW n \in 1 .. 2 * MaxFacts, HandleNotification(n) PROVE up' = up
  <2>1. UNCHANGED vars \/ Process(listener, Snapshot(view'))
    BY <1>4 DEF HandleNotification
  <2> QED BY <1>1, <2>1 DEF vars
<1>5. CASE ProcessNext
  BY <1>1, <1>5 DEF ProcessNext
<1>6. CASE \/ UNCHANGED rvars
           \/ Happen \/ List \/ ReadThread \/ Scan \/ MergeNext
  BY <1>6 DEF rvars, Happen, List, ReadThread, Scan, MergeNext, vars
<1>7. CASE (\E mode \in Modes : Watch(mode)) \/ Unwatch \/ MarkManualCompletion
  BY <1>7 DEF Watch, Unwatch, MarkManualCompletion, StartWatch, Deactivate, vars
<1>8. ASSUME NEW p \in Loops, Send(p) PROVE up' = up
  BY <1>8 DEF Send, StartSend, FinishSend
<1> QED BY <1>2, <1>3, <1>4, <1>5, <1>6, <1>7, <1>8 DEF RNext

(* An event received keeps up with the records read. *)
LEMMA ReceiveFollows ==
  ASSUME MemoryOK, NEW e \in SourceEvents, Receive(e),
         ViewTimely(codex, view), ViewOrdered(codex, view), Caught(codex, view, read),
         EventTimely(codex, e), EventOrdered(codex, e)
  PROVE  ViewOrdered(codex, view') /\ Caught(codex, view', read)
<1>1. ViewTimely(codex, view') /\ ViewOrdered(codex, view')
      /\ (view.task # None /\ view.task.turn # None
           => view'.task # None /\ view'.task.turn # None /\ view'.task.turn >= view.task.turn)
  BY ReceiveTimely
<1>2. ASSUME read >= 1
      PROVE  view'.task # None /\ view'.task.turn # None /\ view'.task.turn >= codex[read].turn
  <2>1. /\ view.task # None /\ view.task.turn # None /\ view.task.turn >= codex[read].turn
        /\ view'.task # None /\ view'.task.turn # None /\ view'.task.turn >= view.task.turn
    BY <1>1, <1>2 DEF Caught
  <2>2. FactsOK(codex) /\ read \in 1 .. Len(codex)
    BY <1>2 DEF MemoryOK, CodexOK, FactsOK
  <2>3. Occurs(codex, view.task.turn) /\ Occurs(codex, view'.task.turn) /\ Occurs(codex, codex[read].turn)
    BY <1>1, <2>1, <2>2 DEF ViewTimely, Occurs
  <2>4. view.task.turn \in Nat /\ view'.task.turn \in Nat /\ codex[read].turn \in Nat
    BY <2>2, <2>3, TimelyTypes
  <2> QED BY <2>1, <2>4
<1> QED BY <1>1, <1>2 DEF Caught

(* What a start reads before the session file is timely, in order and      *)
(* founded.                                                                *)
LEMMA StartFollows ==
  ASSUME MemoryOK, OrderInv, FollowInv, Start
  PROVE  ViewOrdered(codex, view') /\ Caught(codex, view', Len(codex)) /\ ~ Unfounded(codex, view')
<1>0. /\ CodexOK /\ InOrder(codex) /\ FactsOK(codex)
      /\ view = NoView /\ view \in Views /\ manual \in Records \cup {None} /\ Agree(view, manual)
      /\ ViewTimely(codex, view) /\ ViewOrdered(codex, view)
  BY DEF MemoryOK, CodexOK, FactsOK, OrderInv, FollowInv, Start, Restart
<1>1. PICK e \in SourceEvents \cup {None} :
           LET listed == IF e = None THEN [view |-> view, manual |-> manual]
                         ELSE Accept(view, manual, e) IN
           /\ e # None => codex # <<>> /\ e \in {Row(TRUE), Row(FALSE), Details}
           /\ listed \in Outcomes
           /\ view' = Bootstrap(listed.view, listed.manual).view
  BY StartReads
<1>2. PICK listed \in Outcomes :
        /\ listed = IF e = None THEN [view |-> view, manual |-> manual]
                    ELSE Accept(view, manual, e)
        /\ view' = Bootstrap(listed.view, listed.manual).view
  BY <1>1
<1>3. listed.view \in Views /\ listed.manual \in Records \cup {None}
      /\ Agree(listed.view, listed.manual)
  BY DEF Outcomes
<1>4. ViewTimely(codex, listed.view) /\ ViewOrdered(codex, listed.view)
      /\ ~ Unfounded(codex, listed.view)
  <2>n. view.task = None /\ ~ Unfounded(codex, view)
    BY <1>0 DEF NoView, Unfounded
  <2>1. CASE e = None
    BY <1>0, <1>2, <2>1, <2>n
  <2>2. CASE e # None
    <3>1. codex # <<>> /\ e \in {Row(TRUE), Row(FALSE), Details}
      BY <1>1, <2>2
    <3>2. EventTimely(codex, e) /\ EventOrdered(codex, e)
      BY <1>0, <3>1, AnswersTell
    <3>3. Founded(codex, e.turn, e.status)
      BY <1>0, <3>1, AnswerIsFounded
    <3>4. listed.view = Accept(view, manual, e).view /\ e \in SourceEvents
      BY <1>2, <2>2
    <3>5. ~ Unfounded(codex, listed.view)
      BY <1>0, <2>n, <3>3, <3>4, AcceptFounded
    <3> QED BY <1>0, <3>2, <3>4, <3>5, AcceptTimely
  <2> QED BY <2>1, <2>2
<1> QED BY <1>0, <1>2, <1>3, <1>4, BootstrapFollows

(* Every step keeps the view in order and up with the records. *)
LEMMA FollowStep ==
  ASSUME listener \notin Loops, RInv, OrderInv, FollowInv, [RNext]_rvars
  PROVE  FollowInv'
<1>0. MemoryOK /\ CodexOK /\ InOrder(codex) /\ ViewTimely(codex, view) /\ view \in Views
      /\ manual \in Records \cup {None} /\ FactsOK(codex)
      /\ ViewOrdered(codex, view) /\ Caught(codex, view, read)
  BY InvIsMemory DEF OrderInv, FollowInv, MemoryOK, CodexOK, FactsOK
<1>u. ~ RCrash /\ ~ Start => up' = up
  BY UpStays
<1>1. CASE UNCHANGED <<codex, view, read>>
  <2>1. ~ up' => view' = NoView /\ read' = 0
    <3>1. CASE RCrash
      BY <3>1 DEF RCrash
    <3>2. CASE Start
      BY <3>2 DEF Start, Restart
    <3>3. CASE ~ RCrash /\ ~ Start
      BY <1>u, <1>1, <3>3 DEF FollowInv
    <3> QED BY <3>1, <3>2, <3>3
  <2> QED BY <1>0, <1>1, <2>1 DEF FollowInv
<1>v. ASSUME UNCHANGED codex, ViewOrdered(codex, view'), Caught(codex, view', read'), up, ~ RCrash, ~ Start
      PROVE  FollowInv'
  BY <1>u, <1>v DEF FollowInv
<1>2. CASE Happen
  <2>1. PICK fact \in Facts : codex' = Append(codex, fact)
    BY <1>0, <1>2, HappenFact
  <2>2. UNCHANGED <<vars, view, read>>
    BY <1>2 DEF Happen, sources
  <2>3. ASSUME view.task # None, view.task.turn # None PROVE Before(codex', view.turnAt, view.task.turn)
    <3>1. view.turnAt \in Times
      BY <1>0, <2>3 DEF ViewTimely, Views
    <3> QED BY <1>0, <2>1, <2>3, <3>1, BeforeStays DEF ViewOrdered
  <2>4. read >= 1 => codex'[read] = codex[read]
    BY <1>0, <2>1 DEF MemoryOK, CodexOK
  <2>5. ViewOrdered(codex', view) /\ Caught(codex', view, read)
    BY <1>0, <2>3, <2>4 DEF ViewOrdered, Caught
  <2> QED BY <2>2, <2>5 DEF FollowInv, vars
<1>3. CASE TakeRow
  <2>1. PICK orphan \in {FALSE, IsOrphan} :
          IF orphan THEN view' = MarkOrphaned(view, poll.at) ELSE UNCHANGED view
    BY <1>3 DEF TakeRow
  <2>2. UNCHANGED <<codex, read>> /\ up
    BY <1>3 DEF TakeRow, Polling
  <2>3. CASE orphan
    <3>1. view.task # None /\ poll.at \in Times
      BY <1>0, <1>3, <2>1, <2>3, PollingIsRow DEF IsOrphan, TakeRow, Polling, Polls
    <3>2. view'.task # None /\ view'.task.turn = view.task.turn /\ view'.turnAt = view.turnAt
      BY <1>0, <2>1, <2>3, <3>1, OrphanTurn
    <3>3. ViewOrdered(codex, view') /\ Caught(codex, view', read)
      BY <1>0, <3>1, <3>2 DEF ViewOrdered, Caught
    <3>4. ~ RCrash /\ ~ Start
      BY <2>2, <3>2 DEF RCrash, NoView, Start, Restart
    <3> QED BY <1>v, <2>2, <3>3, <3>4
  <2>4. CASE ~ orphan
    BY <1>1, <2>1, <2>2, <2>4
  <2> QED BY <2>3, <2>4
<1>4. CASE AcceptSnapshot
  <2>1. Receive(poll.row) /\ UNCHANGED <<codex, read>> /\ up /\ poll # NoPoll
    BY <1>4 DEF AcceptSnapshot, Polling, NoPoll
  <2>2. poll.row \in SourceEvents /\ EventTimely(codex, poll.row) /\ EventOrdered(codex, poll.row)
    BY <1>0, <1>4, <2>1, PollingIsRow, EventsAreSourceEvents DEF AcceptSnapshot, Polling, Polls, OrderInv
  <2>3. ViewOrdered(codex, view') /\ Caught(codex, view', read)
    BY <1>0, <2>1, <2>2, ReceiveFollows
  <2>4. view' # NoView
    <3>1. view'.task \in Tasks
      BY <1>0, <2>1, <2>2, ReceiveKeeps
    <3> QED BY <3>1, TaskIsSomething DEF NoView
  <2>5. ~ RCrash /\ ~ Start
    BY <2>1, <2>4 DEF RCrash, Start, Restart
  <2> QED BY <1>v, <2>1, <2>3, <2>5
<1>5. CASE MergeNext
  <2>1. /\ up /\ read' = read + 1 /\ UNCHANGED codex
        /\ IF IsStaleTurn(view, SessionEvent(read')) THEN UNCHANGED view
           ELSE Receive(SessionEvent(read'))
    BY <1>5 DEF MergeNext
  <2>2. read' \in 1 .. Len(codex) /\ read' # 0 /\ ~ RCrash /\ ~ Start
    BY <1>0, <1>5, <2>1 DEF MergeNext, MemoryOK, CodexOK, RCrash, Start, Restart
  <2>3. PICK n \in 1 .. Len(codex) : n = read'
    BY <2>2
  <2>4. /\ SessionEvent(n) \in SourceEvents
        /\ EventTimely(codex, SessionEvent(n)) /\ EventOrdered(codex, SessionEvent(n))
    BY <1>0, SessionEventType, CodexTells
  <2>5. ViewOrdered(codex, view')
    BY <1>0, <2>1, <2>3, <2>4, ReceiveTimely
  <2>6. Caught(codex, view', n)
    <3>1. CASE IsStaleTurn(view, SessionEvent(n))
      BY <1>0, <2>1, <2>3, <3>1, RecordCatchesUp
    <3>2. CASE ~ IsStaleTurn(view, SessionEvent(n))
      BY <1>0, <2>1, <2>3, <3>2, RecordCatchesUp DEF Receive
    <3> QED BY <3>1, <3>2
  <2> QED BY <1>v, <2>1, <2>2, <2>3, <2>5, <2>6
<1>6. CASE MarkManualCompletion
  <2>1. view' = MarkManual(view, Now) /\ UNCHANGED <<codex, read>> /\ up /\ view.task # None
    BY <1>6 DEF MarkManualCompletion, sources
  <2>2. Now \in Times
    BY FactsAssumption, <1>0 DEF CodexOK, Now, Times
  <2>3. SameTurn(view, view')
    BY <1>0, <2>1, <2>2, MarkTurn
  <2>4. ViewOrdered(codex, view') /\ Caught(codex, view', read)
    BY <1>0, <2>3, SameTurnTimely DEF Caught, SameTurn
  <2>5. ~ RCrash /\ ~ Start
    BY <2>1, <2>3 DEF RCrash, NoView, SameTurn, Start, Restart
  <2> QED BY <1>v, <2>1, <2>4, <2>5
<1>7. CASE RCrash
  <2>1. view' = NoView /\ read' = 0 /\ UNCHANGED codex
    BY <1>7 DEF RCrash
  <2> QED BY <2>1 DEF FollowInv, ViewOrdered, Caught, NoView
<1>8. CASE Start
  <2>1. ViewOrdered(codex, view') /\ Caught(codex, view', Len(codex))
    BY <1>0, <1>8, StartFollows
  <2>2. up' /\ UNCHANGED codex /\ read' = Len(codex)
    BY <1>8 DEF Start, Restart
  <2> QED BY <2>1, <2>2 DEF FollowInv
<1>9. CASE \/ UNCHANGED rvars
           \/ List \/ ReadThread \/ Scan \/ ProcessNext
           \/ \E mode \in Modes : Watch(mode)
           \/ Unwatch
           \/ \E p \in Loops : Send(p)
  BY <1>1, <1>9 DEF rvars, List, ReadThread, Scan, ProcessNext, Watch, Unwatch, Send, sources
<1>10. ASSUME NEW n \in 1 .. 2 * MaxFacts, HandleNotification(n) PROVE FALSE
  BY <1>10 DEF HandleNotification
<1> QED BY <1>2, <1>3, <1>4, <1>5, <1>6, <1>7, <1>8, <1>9, <1>10 DEF RNext

(* A snapshot nobody watches is dropped; of any other the key may be       *)
(* reserved.                                                               *)
LEMMA ProcessReserves ==
  ASSUME TypeOK, NEW p \in Loops, NEW s \in Observed, Process(p, s)
  PROVE  /\ Unwatched => UNCHANGED vars
         /\ \A k \in Keys : note'[k].state # "absent" =>
              \/ note[k].state # "absent"
              \/ k = DedupeKey(s) /\ s.status \in Waiting \cup Terminal
<1>1. s.thread = Thread
  BY ThreadAssumption, SnapshotFields
<1>2. Unwatched => ~ Watched(s)
  BY <1>1 DEF Unwatched, Watched
<1>3. Unwatched => UNCHANGED vars
  BY <1>2 DEF Process
<1>4. ASSUME NEW k \in Keys, note'[k].state # "absent"
      PROVE  note[k].state # "absent" \/ (k = DedupeKey(s) /\ s.status \in Waiting \cup Terminal)
  <2>1. CASE UNCHANGED vars
    BY <1>4, <2>1 DEF vars
  <2>2. CASE Observe(p, s)
    BY <1>4, <2>2 DEF Observe, durable
  <2>3. ASSUME NEW gate \in Gates, Reserve(p, s, gate)
        PROVE  note[k].state # "absent" \/ (k = DedupeKey(s) /\ s.status \in Waiting \cup Terminal)
    <3>1. s.status \in Waiting \cup Terminal
      BY <2>3 DEF Reserve, IsNews
    <3>2. note' = [note EXCEPT ![DedupeKey(s)] = NoteAfter(gate)]
      BY <2>3 DEF Reserve
    <3>3. k # DedupeKey(s) => note'[k] = note[k]
      BY <3>2 DEF TypeOK
    <3> QED BY <1>4, <3>1, <3>3
  <2> QED BY <2>1, <2>2, <2>3 DEF Process
<1> QED BY <1>3, <1>4

(* The key of a snapshot that is founded is founded. *)
LEMMA KeyIsFounded ==
  ASSUME NEW facts, NEW s \in Observed, Founded(facts, s.turn, s.status)
  PROVE  Founded(facts, DedupeKey(s)[2], DedupeKey(s)[3])
<1>1. DedupeKey(s)[2] = s.turn
  BY DEF DedupeKey
<1>2. CASE s.status \in Waiting /\ s.request # None
  <2>1. s.request \in Requests
    BY <1>2, ObservedAssumption DEF Snapshots
  <2>2. s.request \notin Failures
    BY <2>1, RequestNamesAssumption DEF Failures, Statuses, Terminal
  <2>3. DedupeKey(s)[3] = s.request
    BY <1>2 DEF DedupeKey
  <2> QED BY <2>2, <2>3 DEF Founded
<1>3. CASE ~ (s.status \in Waiting /\ s.request # None)
  <2>1. DedupeKey(s)[3] = s.status
    BY <1>3 DEF DedupeKey
  <2> QED BY <1>1, <2>1
<1> QED BY <1>2, <1>3

(* Sending reserves nothing. *)
LEMMA SendReserves ==
  ASSUME TypeOK, OwnerInv, NEW p \in Loops, Send(p), NEW k \in Keys, note'[k].state # "absent"
  PROVE  note[k].state # "absent" /\ watch' = watch
<1>1. CASE StartSend(p)
  BY <1>1 DEF StartSend, durable
<1>2. ASSUME NEW outcome \in {"sent", "failed"}, FinishSend(p, outcome)
      PROVE  note[k].state # "absent" /\ watch' = watch
  <2>1. watch' = watch /\ p \in Procs
    BY <1>2 DEF FinishSend, Procs
  <2>2. CASE job[p].key = None
    BY <1>2, <2>1, <2>2 DEF FinishSend
  <2>3. CASE job[p].key # None
    <3>1. note[job[p].key].state = "pending"
      BY <2>1, <2>3 DEF OwnerInv, PendingHasOneOwner
    <3>2. note' = [note EXCEPT ![job[p].key].state = outcome]
      BY <1>2, <2>3 DEF FinishSend
    <3>3. k # job[p].key => note'[k] = note[k]
      BY <3>2 DEF TypeOK
    <3> QED BY <2>1, <3>1, <3>3
  <2> QED BY <2>2, <2>3
<1> QED BY <1>1, <1>2 DEF Send

(* Every step keeps failures founded. *)
LEMMA FailStep ==
  ASSUME listener \notin Loops, RInv, OwnerInv, OrderInv, FollowInv, FailInv, [RNext]_rvars
  PROVE  FailInv'
<1>0. MemoryOK /\ CodexOK /\ InOrder(codex) /\ ViewTimely(codex, view) /\ view \in Views
      /\ manual \in Records \cup {None} /\ Agree(view, manual) /\ FactsOK(codex) /\ TypeOK
      /\ ViewOrdered(codex, view) /\ Caught(codex, view, read)
  BY InvIsMemory DEF OrderInv, FollowInv, MemoryOK, CodexOK, FactsOK
<1>k. \A k \in Keys : note[k].state # "absent" => Founded(codex, k[2], k[3])
  BY DEF FailInv, Reserved
<1>d. Failures \cap Active = {} /\ Failures \cap {"manually_completed"} = {}
  BY DEF Failures, Active, Waiting
<1>p. poll.phase # "idle" => poll \in Polls /\ poll # NoPoll /\ Founded(codex, poll.row.turn, poll.row.status)
  BY <1>0, PollingIsRow DEF FailInv, NoPoll
<1>g. ASSUME UNCHANGED codex,
             Unfounded(codex, view') => view'.orphaned /\ Unwatched',
             poll' # NoPoll => Founded(codex, poll'.row.turn, poll'.row.status),
             batch' = batch,
             \A k \in Keys : note'[k].state # "absent" =>
               note[k].state # "absent" \/ Founded(codex, k[2], k[3])
      PROVE  FailInv'
  BY <1>g, <1>k DEF FailInv, Reserved
<1>1. CASE UNCHANGED <<codex, view, poll, batch, watch, note>>
  BY <1>1 DEF FailInv, Unwatched, Reserved
<1>2. CASE Happen
  <2>1. PICK fact \in Facts : codex' = Append(codex, fact)
    BY <1>0, <1>2, HappenFact
  <2>2. UNCHANGED <<view, poll, batch, watch, note>>
    BY <1>2 DEF Happen, sources, vars
  <2>3. \A turn, status : Founded(codex, turn, status) => Founded(codex', turn, status)
    BY <1>0, <2>1, FoundedStays DEF Founded
  <2>4. Unfounded(codex', view) => Unfounded(codex, view)
    BY <2>3 DEF Unfounded
  <2> QED BY <2>2, <2>3, <2>4 DEF FailInv, Unwatched, Reserved
<1>3. CASE List
  <2>1. PICK loaded \in BOOLEAN :
          poll' = [phase |-> "listed", row |-> Row(loaded), at |-> Now, quiet |-> FALSE]
    BY <1>3 DEF List
  <2>2. Founded(codex, Row(loaded).turn, Row(loaded).status)
    BY <1>0, <1>3, AnswerIsFounded DEF List
  <2>3. poll'.row = Row(loaded) /\ UNCHANGED <<codex, view, batch, watch, note>>
    BY <1>3, <2>1 DEF List, vars
  <2>4. Unfounded(codex, view') => view'.orphaned /\ Unwatched'
    BY <2>3 DEF FailInv, Unwatched
  <2> QED BY <1>g, <2>2, <2>3, <2>4
<1>4. CASE TakeRow
  <2>1. PICK orphan \in {FALSE, IsOrphan} :
       /\ IF orphan THEN view' = MarkOrphaned(view, poll.at) /\ EndWatch ELSE UNCHANGED <<vars, view>>
       /\ poll' = NoPoll \/ \E phase : poll' = [poll EXCEPT !.phase = phase, !.quiet = orphan]
    BY <1>4 DEF TakeRow
  <2>2. poll \in Polls /\ Founded(codex, poll.row.turn, poll.row.status)
        /\ UNCHANGED <<codex, batch>>
    BY <1>p, <1>4 DEF TakeRow, Polling
  <2>3. poll' # NoPoll => poll'.row = poll.row
    BY <2>1, <2>2 DEF Polls
  <2>4. CASE orphan
    <3>1. view'.orphaned
      <4>1. view.task # None /\ poll.at \in Times
        BY <2>1, <2>2, <2>4 DEF IsOrphan, Polls
      <4> QED BY <1>0, <2>1, <2>4, <4>1, OrphanTurn
    <3>2. Unwatched' /\ note' = note
      <4>1. EndWatch
        BY <2>1, <2>4
      <4>2. CASE watch[Thread] = None
        BY <4>1, <4>2 DEF EndWatch, vars, Unwatched
      <4>3. CASE watch[Thread] # None
        <5>1. note' = note /\ watch' = [watch EXCEPT ![Thread].active = FALSE]
          BY <4>1, <4>3 DEF EndWatch, Deactivate
        <5>2. watch[Thread] \in Watches /\ Thread \in DOMAIN watch
          BY <1>0, <4>3, ThreadAssumption DEF TypeOK
        <5>3. watch'[Thread] = [watch[Thread] EXCEPT !.active = FALSE]
          BY <5>1, <5>2
        <5>4. ~ watch'[Thread].active
          BY <5>2, <5>3 DEF Watches
        <5> QED BY <5>1, <5>4 DEF Unwatched
      <4> QED BY <4>2, <4>3
    <3> QED BY <1>g, <2>2, <2>3, <3>1, <3>2
  <2>5. CASE ~ orphan
    <3>1. UNCHANGED <<view, watch, note>>
      BY <2>1, <2>5 DEF vars
    <3>2. Unfounded(codex, view') => view'.orphaned /\ Unwatched'
      BY <3>1 DEF FailInv, Unwatched
    <3> QED BY <1>g, <2>2, <2>3, <3>1, <3>2
  <2> QED BY <2>4, <2>5
<1>5. CASE ReadThread
  <2>1. PICK e \in {Details, poll.row} :
       poll' = IF IsStaleTurn(view, e) THEN NoPoll
               ELSE [poll EXCEPT !.phase = "resolving", !.row = e]
    BY <1>5 DEF ReadThread
  <2>2. poll \in Polls /\ Founded(codex, poll.row.turn, poll.row.status) /\ codex # <<>>
    BY <1>p, <1>0, <1>5 DEF ReadThread, Polling, MemoryOK, PollIsOfThread
  <2>3. Founded(codex, e.turn, e.status)
    BY <1>0, <2>1, <2>2, AnswerIsFounded
  <2>4. poll' # NoPoll => poll'.row = e
    BY <2>1, <2>2 DEF Polls
  <2>5. UNCHANGED <<codex, view, batch, watch, note>>
    BY <1>5 DEF ReadThread, vars
  <2>6. Unfounded(codex, view') => view'.orphaned /\ Unwatched'
    BY <2>5 DEF FailInv, Unwatched
  <2> QED BY <1>g, <2>3, <2>4, <2>5, <2>6
<1>6. CASE AcceptSnapshot
  <2>1. /\ Receive(poll.row) /\ poll' = NoPoll /\ UNCHANGED <<codex, batch>>
        /\ refresh \in Loops
        /\ UNCHANGED vars \/ Process(refresh, Snapshot(view'))
    BY <1>6 DEF AcceptSnapshot, Polling
  <2>2. /\ poll.row \in Events /\ poll.row \in SourceEvents
        /\ Founded(codex, poll.row.turn, poll.row.status)
        /\ EventTimely(codex, poll.row)
    BY <1>p, <1>6, EventsAreSourceEvents DEF AcceptSnapshot, Polling, Polls, OrderInv
  <2>3. poll.row.turn # None => poll.row.status \notin NoNews
    BY <2>2, NoneAssumption DEF EventTimely, NoNews, Events
  <2>4. view'.task \in Tasks /\ view' = Accept(view, manual, poll.row).view
    BY <1>0, <2>1, <2>2, ReceiveKeeps DEF Receive
  <2>5. Unfounded(codex, view') => Unfounded(codex, view)
    BY <1>0, <2>2, <2>3, <2>4, AcceptFounded DEF OtherTurn
  <2>s. PICK s : s = Snapshot(view')
    OBVIOUS
  <2>6. s \in Observed /\ s.turn = view'.task.turn /\ s.status = view'.task.status
    BY <2>s, <2>4, SnapshotIsObserved DEF Snapshot
  <2>7. CASE Unfounded(codex, view')
    <3>1. view.orphaned /\ Unwatched /\ view.task # None
      BY <2>5, <2>7 DEF FailInv, Unfounded
    <3>2. UNCHANGED vars
      BY <1>0, <2>1, <2>s, <2>6, <3>1, ProcessReserves
    <3>3. view'.orphaned
      <4>1. IF IsStaleTurn(view, poll.row) THEN SameTurn(view, view') ELSE Moved(view, poll.row, view')
        BY <1>0, <2>2, <2>4, AcceptTurn
      <4>2. poll.row.source # "session"
        BY <2>2 DEF Events
      <4> QED BY <3>1, <4>1, <4>2 DEF SameTurn, Moved, OrphanedAfter
    <3>4. Unwatched' /\ note' = note
      BY <3>1, <3>2 DEF Unwatched, vars
    <3> QED BY <1>g, <2>1, <3>3, <3>4
  <2>8. CASE ~ Unfounded(codex, view')
    <3>1. Founded(codex, s.turn, s.status)
      BY <2>4, <2>6, <2>8, TaskIsSomething DEF Unfounded
    <3>2. ASSUME NEW k \in Keys, note'[k].state # "absent"
          PROVE  note[k].state # "absent" \/ Founded(codex, k[2], k[3])
      <4>1. CASE UNCHANGED vars
        BY <3>2, <4>1 DEF vars
      <4>2. CASE Process(refresh, s)
        <5>1. note[k].state # "absent" \/ k = DedupeKey(s)
          BY <1>0, <2>1, <2>6, <3>2, <4>2, ProcessReserves
        <5> QED BY <2>6, <3>1, <5>1, KeyIsFounded
      <4> QED BY <2>1, <2>s, <4>1, <4>2
    <3> QED BY <1>g, <2>1, <2>8, <3>2
  <2> QED BY <2>7, <2>8
<1>7. CASE MergeNext
  <2>1. /\ read' = read + 1 /\ UNCHANGED <<codex, poll, watch, note>>
        /\ IF IsStaleTurn(view, SessionEvent(read')) THEN UNCHANGED <<view, batch>>
           ELSE Receive(SessionEvent(read')) /\ batch' = Append(batch, Snapshot(view'))
    BY <1>7 DEF MergeNext, vars
  <2>2. read' \in 1 .. Len(codex) /\ read' - 1 = read
    BY <1>0, <1>7, <2>1 DEF MergeNext, MemoryOK, CodexOK
  <2>3. PICK n \in 1 .. Len(codex) : n = read'
    BY <2>2
  <2>e. PICK e : e = SessionEvent(n)
    OBVIOUS
  <2>4. /\ e \in SourceEvents /\ EventTimely(codex, e) /\ EventOrdered(codex, e)
        /\ Founded(codex, e.turn, e.status) /\ e.source = "session"
    <3>1. e.source = "session"
      BY <2>e DEF SessionEvent
    <3> QED BY <1>0, <2>e, <3>1, SessionEventType, CodexTells, RecordIsFounded
  <2>5. CASE IsStaleTurn(view, e)
    BY <1>1, <2>1, <2>3, <2>e, <2>5
  <2>6. CASE ~ IsStaleTurn(view, e)
    <3>1. /\ view' = Accept(view, manual, e).view /\ view'.task \in Tasks
          /\ batch' = Append(batch, Snapshot(view'))
      BY <1>0, <2>1, <2>3, <2>e, <2>4, <2>6, ReceiveKeeps DEF Receive
    <3>2. view.task # None /\ OtherTurn(view.task, e) => e.status \notin NoNews
      BY <1>0, <2>2, <2>3, <2>e, <2>6, RecordsCarryNothing
    <3>3. ~ Unfounded(codex, view')
      <4> SUFFICES ASSUME Unfounded(codex, view') PROVE FALSE
        OBVIOUS
      <4>1. Unfounded(codex, view) /\ ~ Revives(view, e)
        BY <1>0, <2>4, <2>6, <3>1, <3>2, AcceptFounded
      <4>2. view.orphaned /\ view.task # None
        BY <4>1 DEF FailInv, Unfounded
      <4> QED BY <2>4, <4>1, <4>2 DEF Revives
    <3>4. Founded(codex, Snapshot(view').turn, Snapshot(view').status)
      BY <3>1, <3>3, TaskIsSomething DEF Unfounded, Snapshot
    <3>5. \A i \in 1 .. Len(batch') : Founded(codex, batch'[i].turn, batch'[i].status)
      <4>1. PICK s : s = Snapshot(view')
        OBVIOUS
      <4>2. batch \in Seq(Snapshots) /\ batch' = Append(batch, s)
        BY <1>0, <3>1, <4>1 DEF MemoryOK
      <4>3. \A i \in 1 .. Len(batch') : batch'[i] = s \/ (i \in 1 .. Len(batch) /\ batch'[i] = batch[i])
        BY <4>2
      <4> QED BY <3>4, <4>1, <4>3 DEF FailInv
    <3> QED BY <2>1, <3>3, <3>5 DEF FailInv, Reserved
  <2> QED BY <2>5, <2>6
<1>8. CASE ProcessNext
  <2>1. /\ batch # <<>> /\ Process(observer, Head(batch)) /\ batch' = Tail(batch)
        /\ UNCHANGED <<codex, view, poll>>
    BY <1>8 DEF ProcessNext
  <2>s. PICK s : s = Head(batch)
    OBVIOUS
  <2>2. /\ s \in Observed /\ observer \in Loops
        /\ Founded(codex, s.turn, s.status)
        /\ \A i \in 1 .. Len(batch') : Founded(codex, batch'[i].turn, batch'[i].status)
    <3>1. batch \in Seq(Snapshots) /\ s = batch[1] /\ 1 \in 1 .. Len(batch) /\ s \in Snapshots
      BY <1>0, <2>1, <2>s DEF MemoryOK
    <3>2. \A i \in 1 .. Len(batch') : i + 1 \in 1 .. Len(batch) /\ batch'[i] = batch[i + 1]
      BY <2>1, <3>1
    <3> QED BY <3>1, <3>2, LoopsAssumption, ObservedIsAnything DEF FailInv
  <2>3. Unfounded(codex, view') => view'.orphaned /\ Unwatched'
    <3> SUFFICES ASSUME Unfounded(codex, view) PROVE view.orphaned /\ Unwatched'
      BY <2>1
    <3>1. view.orphaned /\ Unwatched
      BY DEF FailInv
    <3>2. UNCHANGED vars
      BY <1>0, <2>1, <2>s, <2>2, <3>1, ProcessReserves
    <3> QED BY <3>1, <3>2 DEF Unwatched, vars
  <2>4. \A k \in Keys : note'[k].state # "absent" => Founded(codex, k[2], k[3])
    <3> SUFFICES ASSUME NEW k \in Keys, note'[k].state # "absent" PROVE Founded(codex, k[2], k[3])
      OBVIOUS
    <3>1. note[k].state # "absent" \/ k = DedupeKey(s)
      BY <1>0, <2>1, <2>s, <2>2, ProcessReserves
    <3> QED BY <1>k, <2>2, <3>1, KeyIsFounded
  <2> QED BY <2>1, <2>2, <2>3, <2>4 DEF FailInv, Reserved
<1>9. ASSUME NEW mode \in Modes, Watch(mode) PROVE FailInv'
  <2>1. view.task.status \in Active /\ UNCHANGED <<codex, view, poll, batch, note>>
    BY <1>9 DEF Watch, StartWatch, Snapshot, sources, vars
  <2>2. ~ Unfounded(codex, view')
    BY <1>d, <2>1 DEF Unfounded, Founded
  <2>3. poll' # NoPoll => Founded(codex, poll'.row.turn, poll'.row.status)
    BY <2>1 DEF FailInv
  <2> QED BY <1>g, <2>1, <2>2, <2>3
<1>10. CASE Unwatch
  <2>1. UNCHANGED <<codex, view, poll, batch, note>> /\ watch[Thread] # None
        /\ watch' = [watch EXCEPT ![Thread].active = FALSE]
    BY <1>10 DEF Unwatch, Deactivate, sources
  <2>2. watch[Thread] \in Watches /\ Thread \in DOMAIN watch
    BY <1>0, <2>1, ThreadAssumption DEF TypeOK
  <2>3. watch'[Thread] = [watch[Thread] EXCEPT !.active = FALSE]
    BY <2>1, <2>2
  <2>4. Unwatched'
    BY <2>2, <2>3 DEF Watches, Unwatched
  <2>5. Unfounded(codex, view') => view'.orphaned /\ Unwatched'
    BY <2>1, <2>4 DEF FailInv
  <2>6. poll' # NoPoll => Founded(codex, poll'.row.turn, poll'.row.status)
    BY <2>1 DEF FailInv
  <2> QED BY <1>g, <2>1, <2>5, <2>6
<1>11. CASE MarkManualCompletion
  <2>1. /\ view' = MarkManual(view, Now) /\ view.task # None
        /\ UNCHANGED <<codex, poll, batch, note>>
    BY <1>11 DEF MarkManualCompletion, sources, Deactivate, vars
  <2>2. Now \in Times
    BY FactsAssumption, <1>0 DEF CodexOK, Now, Times
  <2>3. view'.task.status = "manually_completed"
    BY <1>0, <2>1, <2>2, MarkTurn
  <2>4. ~ Unfounded(codex, view')
    BY <1>d, <2>3 DEF Unfounded, Founded
  <2>5. poll' # NoPoll => Founded(codex, poll'.row.turn, poll'.row.status)
    BY <2>1 DEF FailInv
  <2> QED BY <1>g, <2>1, <2>4, <2>5
<1>12. ASSUME NEW p \in Loops, Send(p) PROVE FailInv'
  <2>1. UNCHANGED <<codex, view, poll, batch>>
    BY <1>12 DEF Send, sources
  <2>2. watch' = watch
    BY <1>12 DEF Send, StartSend, FinishSend, durable
  <2>3. \A k \in Keys : note'[k].state # "absent" => note[k].state # "absent"
    BY <1>0, <1>12, SendReserves
  <2>4. Unfounded(codex, view') => view'.orphaned /\ Unwatched'
    BY <2>1, <2>2 DEF FailInv, Unwatched
  <2>5. poll' # NoPoll => Founded(codex, poll'.row.turn, poll'.row.status)
    BY <2>1 DEF FailInv
  <2> QED BY <1>g, <2>1, <2>3, <2>4, <2>5
<1>13. CASE RCrash
  <2>1. view' = NoView /\ poll' = NoPoll /\ batch' = <<>> /\ UNCHANGED <<codex, note>>
    BY <1>13 DEF RCrash, Crash, durable
  <2>2. ~ Unfounded(codex, view') /\ Len(batch') = 0
    BY <2>1 DEF Unfounded, NoView
  <2> QED BY <2>1, <2>2, <1>k DEF FailInv, Reserved
<1>14. CASE Start
  <2>1. ~ Unfounded(codex, view')
    BY <1>0, <1>14, StartFollows
  <2>2. UNCHANGED <<codex, poll, batch, note>>
    BY <1>14 DEF Start, Restart
  <2>3. poll' # NoPoll => Founded(codex, poll'.row.turn, poll'.row.status)
    BY <2>2 DEF FailInv
  <2> QED BY <1>g, <2>1, <2>2, <2>3
<1>15. CASE UNCHANGED rvars \/ Scan
  BY <1>1, <1>15 DEF rvars, Scan, vars
<1>16. ASSUME NEW n \in 1 .. 2 * MaxFacts, HandleNotification(n) PROVE FALSE
  BY <1>16 DEF HandleNotification
<1> QED BY <1>2, <1>3, <1>4, <1>5, <1>6, <1>7, <1>8, <1>9, <1>10, <1>11, <1>12, <1>13,
           <1>14, <1>15, <1>16 DEF RNext

(* The pipeline's owners of keys. *)
LEMMA RuntimeOwners == RSpec => []OwnerInv
<1>1. IInv => OwnerInv
  BY DEF IInv
<1> QED BY <1>1, RuntimeImplementsPipeline, Invariance, PTL DEF ImplementsPipeline

(* View, records and failures hold together in every behaviour. *)
LEMMA FailInvariance ==
  ASSUME listener \notin Loops
  PROVE  RSpec => [](FollowInv /\ FailInv)
<1>1. RInit => FollowInv /\ FailInv
  <2> SUFFICES ASSUME RInit PROVE FollowInv /\ FailInv
    OBVIOUS
  <2>1. view = NoView /\ read = 0 /\ poll = NoPoll /\ batch = <<>> /\ up
        /\ note = [k \in Keys |-> NoNote]
    BY DEF RInit, Init
  <2>2. Len(batch) = 0 /\ \A k \in Keys : note[k].state = "absent"
    BY <2>1 DEF NoNote
  <2> QED BY <2>1, <2>2 DEF FollowInv, FailInv, ViewOrdered, Caught, Unfounded, NoView, Reserved
<1>2. RInv /\ OwnerInv /\ OrderInv /\ FollowInv /\ FailInv /\ [RNext]_rvars => FollowInv' /\ FailInv'
  BY FollowStep, FailStep
<1> QED BY <1>1, <1>2, RuntimeInvariance, RuntimeOwners, OrderInvariance, PTL DEF RSpec

(* Nobody is told that a turn failed or was interrupted unless it was:     *)
(* what the orphan timeout infers is shown, but reserves no notification,  *)
(* and no record or answer hands a failure to another turn.                *)
THEOREM FailuresAreNotInferred ==
  ASSUME listener \notin Loops
  PROVE  RSpec => []NoInferredFailure
<1>1. RInv /\ FailInv => NoInferredFailure
  <2> SUFFICES ASSUME RInv, FailInv, NEW k \in Keys, NEW status \in {"failed", "interrupted"},
                      Reserved(k), k[3] = status
               PROVE  Happened(k[2], status)
    BY DEF NoInferredFailure
  <2>1. Happens(codex, k[2], status)
    BY DEF FailInv, Founded, Failures
  <2>2. DOMAIN codex = 1 .. Len(codex)
    BY DEF RInv, RTypeOK
  <2> QED BY <2>1, <2>2 DEF Happens, Happened
<1> QED BY <1>1, RuntimeInvariance, FailInvariance, PTL

----------------------------------------------------------------------------
(* Notifications are true.  Where the session file is the only source, the *)
(* end or the request shown, in a batch or in a key is one of the turn     *)
(* named with it.                                                          *)

Asks(facts, turn, request) ==
  \E n \in 1 .. Len(facts) : facts[n].turn = turn /\ facts[n].request = request
Vouched(facts, s) ==
  /\ s.status \in Terminal => Happens(facts, s.turn, s.status)
  /\ s.status \in Waiting => s.request # None /\ Asks(facts, s.turn, s.request)
TrueKey(facts, k) ==
  \E n \in 1 .. Len(facts) : facts[n].turn = k[2] /\ k[3] \in {facts[n].status, facts[n].request}

TellInv ==
  /\ \A n \in 1 .. Len(codex) : codex[n].status \in Waiting => codex[n].request # None
  /\ view.task # None => Vouched(codex, view.task)
  /\ \A i \in 1 .. Len(batch) : Vouched(codex, batch[i])
  /\ \A k \in Keys : Reserved(k) => TrueKey(codex, k)

(* Waiting and ended are apart, and from what a view without news shows.   *)
LEMMA KindsOfStatus ==
  /\ Waiting \cap {"manually_completed", "unknown", "running", None} = {}
  /\ Terminal \cap {"manually_completed", "unknown", "running", None} = {}
BY NoneAssumption DEF Waiting, Terminal, Statuses, Active

(* A record of the session file vouches for what it says. *)
LEMMA RecordIsVouched ==
  ASSUME NEW n \in 1 .. Len(codex), codex[n].status \in Waiting => codex[n].request # None
  PROVE  LET e == SessionEvent(n) IN
         /\ Vouched(codex, e)
         /\ Asks(codex, e.turn, e.request)
<1>e. PICK e : e = SessionEvent(n)
  OBVIOUS
<1>1. e.turn = codex[n].turn /\ e.status \in {None, codex[n].status} /\ e.request = codex[n].request
  BY <1>e DEF SessionEvent
<1>2. Asks(codex, e.turn, e.request)
  BY <1>1 DEF Asks
<1>3. e.status # None => Happens(codex, e.turn, e.status)
  BY <1>1 DEF Happens
<1>4. None \notin Terminal /\ None \notin Waiting
  BY KindsOfStatus
<1>5. Vouched(codex, e)
  BY <1>1, <1>2, <1>3, <1>4 DEF Vouched
<1> QED BY <1>e, <1>2, <1>5

(* What no turn did is vouched for by nothing. *)
LEMMA NoTurnIsVouched ==
  ASSUME NEW facts, FactsOK(facts), NEW s, Vouched(facts, s), s.status \in Waiting \cup Terminal
  PROVE  s.turn # None
<1>1. ~ Occurs(facts, None)
  BY TimelyTypes
<1> QED BY <1>1 DEF Vouched, Happens, Asks, Occurs

(* A record that is vouched for, and carries no status to another turn,    *)
(* leaves a view that is vouched for.                                      *)
LEMMA AcceptVouched ==
  ASSUME NEW facts, FactsOK(facts), NEW v \in Views, NEW m \in Records \cup {None},
         Agree(v, m), NEW e \in SourceEvents, e.turn # None,
         Vouched(facts, e), Asks(facts, e.turn, e.request),
         v.task # None /\ OtherTurn(v.task, e) /\ ~ IsStaleTurn(v, e) => e.status \notin NoNews,
         v.task # None => Vouched(facts, v.task)
  PROVE  Vouched(facts, Accept(v, m, e).view.task)
<1>w. PICK w : w = Accept(v, m, e).view
  OBVIOUS
<1>k. ASSUME w.task.status \in {"manually_completed", "unknown", "running"}
      PROVE  Vouched(facts, w.task)
  BY <1>k, KindsOfStatus DEF Vouched
<1>1. CASE IsStaleTurn(v, e)
  <2>1. w = v \/ w.task.status \in {"manually_completed", "unknown"}
    BY <1>w, <1>1, AcceptStale
  <2>2. v.task # None
    BY <1>1 DEF IsStaleTurn
  <2>3. Vouched(facts, w.task)
    BY <1>k, <2>1, <2>2
  <2> QED BY <1>w, <2>3
<1>2. CASE ~ IsStaleTurn(v, e)
  <2>1. Moved(v, e, w)
    BY <1>w, <1>2, AcceptTurn
  <2>2. w.task.turn = e.turn
    BY <2>1 DEF Moved, TurnAfter
  <2>3. \/ w.task.status \in {"manually_completed", "unknown", "running"}
        \/ w.task.status = e.status /\ (e.request # None => w.task.request = e.request)
        \/ /\ v.task # None
           /\ w.task.status = v.task.status
           /\ w.task.request = Or(e.request, v.task.request)
           /\ OtherTurn(v.task, e) => e.status \in NoNews
    BY <1>w, <1>2, AcceptStatus
  <2>4. CASE w.task.status = e.status /\ (e.request # None => w.task.request = e.request)
    <3>1. Vouched(facts, w.task)
      BY <2>2, <2>4 DEF Vouched
    <3> QED BY <1>w, <3>1
  <2>5. CASE /\ v.task # None
             /\ w.task.status = v.task.status
             /\ w.task.request = Or(e.request, v.task.request)
             /\ OtherTurn(v.task, e) => e.status \in NoNews
    <3>1. ~ OtherTurn(v.task, e)
      BY <1>2, <2>5
    <3>2. ASSUME w.task.status \in Waiting \cup Terminal PROVE v.task.turn = e.turn
      <4>1. v.task.turn # None
        BY <2>5, <3>2, NoTurnIsVouched
      <4> QED BY <3>1, <4>1 DEF OtherTurn
    <3>3. ASSUME w.task.status \in Waiting
          PROVE  w.task.request # None /\ Asks(facts, e.turn, w.task.request)
      <4>1. v.task.request # None /\ Asks(facts, e.turn, v.task.request)
        BY <2>5, <3>2, <3>3 DEF Vouched
      <4> QED BY <2>5, <4>1 DEF Or
    <3>4. Vouched(facts, w.task)
      BY <2>2, <2>5, <3>2, <3>3 DEF Vouched
    <3> QED BY <1>w, <3>4
  <2> QED BY <1>w, <1>k, <2>3, <2>4, <2>5
<1> QED BY <1>1, <1>2

(* So a record read leaves a view that is vouched for. *)
LEMMA ReadVouched ==
  ASSUME CodexOK, InOrder(codex), NEW n \in 1 .. Len(codex), NEW v \in Views,
         NEW m \in Records \cup {None}, Agree(v, m),
         codex[n].status \in Waiting => codex[n].request # None,
         ViewTimely(codex, v), Caught(codex, v, n - 1),
         v.task # None => Vouched(codex, v.task)
  PROVE  Vouched(codex, Accept(v, m, SessionEvent(n)).view.task)
<1>e. PICK e : e = SessionEvent(n)
  OBVIOUS
<1>1. e \in SourceEvents
  BY <1>e, SessionEventType
<1>2. FactsOK(codex) /\ e.turn # None
  <2>1. Occurs(codex, codex[n].turn) /\ FactsOK(codex)
    BY DEF Occurs, CodexOK, FactsOK
  <2>2. e.turn = codex[n].turn
    BY <1>e DEF SessionEvent
  <2> QED BY <2>1, <2>2, TimelyTypes
<1>3. Vouched(codex, e) /\ Asks(codex, e.turn, e.request)
  BY <1>e, RecordIsVouched
<1>4. v.task # None /\ OtherTurn(v.task, e) /\ ~ IsStaleTurn(v, e) => e.status \notin NoNews
  BY <1>e, RecordsCarryNothing
<1>5. Vouched(codex, Accept(v, m, e).view.task)
  BY <1>1, <1>2, <1>3, <1>4, AcceptVouched
<1> QED BY <1>e, <1>5

(* And so does the whole file. *)
LEMMA BootstrapVouched ==
  ASSUME CodexOK, InOrder(codex), NEW v \in Views, NEW m \in Records \cup {None},
         Agree(v, m), ViewTimely(codex, v), ViewOrdered(codex, v),
         \A n \in 1 .. Len(codex) : codex[n].status \in Waiting => codex[n].request # None,
         v.task # None => Vouched(codex, v.task)
  PROVE  Bootstrap(v, m).view.task # None => Vouched(codex, Bootstrap(v, m).view.task)
<1> DEFINE Good(n) == {r \in Outcomes : /\ ViewTimely(codex, r.view) /\ ViewOrdered(codex, r.view)
                                        /\ Caught(codex, r.view, n)
                                        /\ r.view.task # None => Vouched(codex, r.view.task)}
           G == [n \in 0 .. Len(codex) |-> Good(n)]
<1>0. Len(codex) \in Nat /\ FactsOK(codex)
  BY DEF CodexOK, FactsOK
<1>1. [view |-> v, manual |-> m] \in Good(0)
  BY DEF Outcomes, Caught
<1>2. ASSUME NEW n \in 1 .. Len(codex), NEW r \in Good(n - 1) PROVE ReadRecord(n, r) \in Good(n)
  <2>1. r \in Outcomes /\ r.view \in Views /\ r.manual \in Records \cup {None}
        /\ Agree(r.view, r.manual)
        /\ ViewTimely(codex, r.view) /\ ViewOrdered(codex, r.view)
        /\ Caught(codex, r.view, n - 1)
        /\ (r.view.task # None => Vouched(codex, r.view.task))
    BY DEF Outcomes
  <2>e. PICK e : e = SessionEvent(n)
    OBVIOUS
  <2>2. e \in SourceEvents /\ EventTimely(codex, e) /\ EventOrdered(codex, e)
    BY <2>e, SessionEventType, CodexTells
  <2>3. ReadRecord(n, r) \in Outcomes
    BY <2>1, ReadRecordType
  <2>4. CASE IsStaleTurn(r.view, e)
    <3>1. Caught(codex, r.view, n)
      BY <2>e, <2>1, <2>4, RecordCatchesUp
    <3>2. ReadRecord(n, r) = r
      BY <2>e, <2>4 DEF ReadRecord
    <3> QED BY <2>1, <3>1, <3>2
  <2>5. CASE ~ IsStaleTurn(r.view, e)
    <3>w. PICK w : w = Accept(r.view, r.manual, e).view
      OBVIOUS
    <3>1. ViewTimely(codex, w) /\ ViewOrdered(codex, w)
      BY <1>0, <2>1, <2>2, <3>w, AcceptTimely
    <3>2. Caught(codex, w, n)
      BY <2>e, <2>1, <2>5, <3>w, RecordCatchesUp
    <3>3. Vouched(codex, w.task)
      BY <2>e, <2>1, <3>w, ReadVouched
    <3>4. ReadRecord(n, r).view = w
      BY <2>e, <2>5, <3>w DEF ReadRecord
    <3> QED BY <2>3, <3>1, <3>2, <3>3, <3>4
  <2> QED BY <2>4, <2>5
<1>3. /\ G \in [0 .. Len(codex) -> SUBSET Outcomes]
      /\ G[0] = Good(0) /\ G[Len(codex)] = Good(Len(codex))
      /\ \A n \in 1 .. Len(codex) : G[n] = Good(n) /\ G[n - 1] = Good(n - 1)
  <2>1. \A n : Good(n) \in SUBSET Outcomes
    OBVIOUS
  <2> HIDE DEF Good
  <2> QED BY <1>0, <2>1
<1>4. \A n \in 1 .. Len(codex) : \A r \in G[n - 1] : ReadRecord(n, r) \in G[n]
  <2> HIDE DEF G, Good
  <2> QED BY <1>2, <1>3
<1>5. Bootstrap(v, m) \in G[Len(codex)]
  <2> HIDE DEF G, Good
  <2> QED BY <1>1, <1>3, <1>4, BootstrapInduction, Zenon
<1> QED BY <1>3, <1>5

(* The key of a snapshot that is vouched for is true. *)
LEMMA KeyIsTrue ==
  ASSUME NEW facts, NEW s, Vouched(facts, s), s.status \in Waiting \cup Terminal
  PROVE  TrueKey(facts, DedupeKey(s))
<1>1. DedupeKey(s)[2] = s.turn
  BY DEF DedupeKey
<1>2. CASE s.status \in Waiting
  <2>1. DedupeKey(s)[3] = s.request
    BY <1>2 DEF DedupeKey, Vouched
  <2> QED BY <1>1, <1>2, <2>1 DEF Vouched, Asks, TrueKey
<1>3. CASE s.status \in Terminal
  <2>1. s.status \notin Waiting
    BY <1>3 DEF Waiting, Terminal
  <2>2. DedupeKey(s)[3] = s.status
    BY <2>1 DEF DedupeKey
  <2> QED BY <1>1, <1>3, <2>2 DEF Vouched, Happens, TrueKey
<1> QED BY <1>2, <1>3

(* A fact that follows makes nothing untrue. *)
LEMMA VouchedStays ==
  ASSUME NEW facts, FactsOK(facts), NEW fact \in Facts
  PROVE  LET grown == Append(facts, fact) IN
         /\ \A s : Vouched(facts, s) => Vouched(grown, s)
         /\ \A k : TrueKey(facts, k) => TrueKey(grown, k)
<1>g. PICK grown : grown = Append(facts, fact)
  OBVIOUS
<1>1. /\ Len(facts) \in Nat /\ Len(grown) = Len(facts) + 1
      /\ \A n \in 1 .. Len(facts) : grown[n] = facts[n]
  BY <1>g DEF FactsOK
<1>2. \A n \in 1 .. Len(facts) : n \in 1 .. Len(grown)
  BY <1>1
<1>3. \A turn, status : Happens(facts, turn, status) => Happens(grown, turn, status)
  BY <1>1, <1>2 DEF Happens
<1>4. \A turn, request : Asks(facts, turn, request) => Asks(grown, turn, request)
  BY <1>1, <1>2 DEF Asks
<1>5. \A k : TrueKey(facts, k) => TrueKey(grown, k)
  BY <1>1, <1>2 DEF TrueKey
<1>6. \A s : Vouched(facts, s) => Vouched(grown, s)
  BY <1>3, <1>4 DEF Vouched
<1> QED BY <1>g, <1>5, <1>6

(* Every step keeps notifications true. *)
LEMMA TellStep ==
  ASSUME refresh \notin Loops, listener \notin Loops,
         RInv, OwnerInv, OrderInv, FollowInv, TellInv, [RNext]_rvars
  PROVE  TellInv'
<1>0. MemoryOK /\ CodexOK /\ InOrder(codex) /\ ViewTimely(codex, view) /\ view \in Views
      /\ manual \in Records \cup {None} /\ Agree(view, manual) /\ FactsOK(codex) /\ TypeOK
      /\ ViewOrdered(codex, view) /\ Caught(codex, view, read)
  BY InvIsMemory DEF OrderInv, FollowInv, MemoryOK, CodexOK, FactsOK
<1>k. \A k \in Keys : note[k].state # "absent" => TrueKey(codex, k)
  BY DEF TellInv, Reserved
<1>g. ASSUME UNCHANGED codex,
             view'.task # None => Vouched(codex, view'.task),
             \A i \in 1 .. Len(batch') : Vouched(codex, batch'[i]),
             \A k \in Keys : note'[k].state # "absent" =>
               note[k].state # "absent" \/ TrueKey(codex, k)
      PROVE  TellInv'
  BY <1>g, <1>k DEF TellInv, Reserved
<1>1. ASSUME UNCHANGED <<codex, view, batch>>,
             \A k \in Keys : note'[k].state # "absent" => note[k].state # "absent"
      PROVE  TellInv'
  BY <1>1, <1>k DEF TellInv, Reserved
<1>2. CASE Happen
  <2>1. PICK fact \in Facts :
          /\ codex' = Append(codex, fact)
          /\ fact.status \in Waiting => fact.request \in Requests
    BY <1>0, <1>2, HappenFact
  <2>2. UNCHANGED <<view, batch, note>>
    BY <1>2 DEF Happen, sources, vars
  <2>3. \A n \in 1 .. Len(codex') : codex'[n].status \in Waiting => codex'[n].request # None
    <3>1. None \notin Requests
      BY RequestNamesAssumption
    <3>2. \A n \in 1 .. Len(codex') :
            codex'[n] = fact \/ (n \in 1 .. Len(codex) /\ codex'[n] = codex[n])
      BY <1>0, <2>1 DEF FactsOK
    <3> QED BY <2>1, <3>1, <3>2 DEF TellInv
  <2>4. /\ \A s : Vouched(codex, s) => Vouched(codex', s)
        /\ \A k : TrueKey(codex, k) => TrueKey(codex', k)
    BY <1>0, <2>1, VouchedStays
  <2> QED BY <2>2, <2>3, <2>4 DEF TellInv, Reserved
<1>3. CASE List \/ TakeRow \/ ReadThread \/ AcceptSnapshot
  BY <1>3 DEF List, TakeRow, ReadThread, AcceptSnapshot, Polling
<1>4. CASE MergeNext
  <2>1. /\ read' = read + 1 /\ UNCHANGED <<codex, note>>
        /\ IF IsStaleTurn(view, SessionEvent(read')) THEN UNCHANGED <<view, batch>>
           ELSE Receive(SessionEvent(read')) /\ batch' = Append(batch, Snapshot(view'))
    BY <1>4 DEF MergeNext, vars
  <2>2. read' \in 1 .. Len(codex) /\ read' - 1 = read
    BY <1>0, <1>4, <2>1 DEF MergeNext, MemoryOK, CodexOK
  <2>3. PICK n \in 1 .. Len(codex) : n = read'
    BY <2>2
  <2>e. PICK e : e = SessionEvent(n)
    OBVIOUS
  <2>4. e \in SourceEvents
    BY <1>0, <2>e, SessionEventType
  <2>5. CASE IsStaleTurn(view, e)
    BY <1>1, <2>1, <2>3, <2>e, <2>5
  <2>6. CASE ~ IsStaleTurn(view, e)
    <3>1. /\ view' = Accept(view, manual, e).view /\ view'.task \in Tasks
          /\ batch' = Append(batch, Snapshot(view'))
      BY <1>0, <2>1, <2>3, <2>e, <2>4, <2>6, ReceiveKeeps DEF Receive
    <3>2. Vouched(codex, view'.task)
      <4>1. codex[n].status \in Waiting => codex[n].request # None
        BY DEF TellInv
      <4>2. (view.task # None => Vouched(codex, view.task)) /\ Caught(codex, view, n - 1)
        BY <1>0, <2>2, <2>3 DEF TellInv
      <4> QED BY <1>0, <2>e, <3>1, <4>1, <4>2, ReadVouched
    <3>s. PICK s : s = Snapshot(view')
      OBVIOUS
    <3>3. Vouched(codex, s)
      <4>1. s.turn = view'.task.turn /\ s.status = view'.task.status /\ s.request = view'.task.request
        BY <3>s DEF Snapshot
      <4> QED BY <3>2, <4>1 DEF Vouched
    <3>4. \A i \in 1 .. Len(batch') : Vouched(codex, batch'[i])
      <4>1. batch \in Seq(Snapshots) /\ batch' = Append(batch, s)
        BY <1>0, <3>1, <3>s DEF MemoryOK
      <4>2. \A i \in 1 .. Len(batch') : batch'[i] = s \/ (i \in 1 .. Len(batch) /\ batch'[i] = batch[i])
        BY <4>1
      <4> QED BY <3>3, <4>2 DEF TellInv
    <3> QED BY <1>g, <2>1, <3>2, <3>4
  <2> QED BY <2>5, <2>6
<1>5. CASE ProcessNext
  <2>1. /\ batch # <<>> /\ Process(observer, Head(batch)) /\ batch' = Tail(batch)
        /\ UNCHANGED <<codex, view>>
    BY <1>5 DEF ProcessNext
  <2>s. PICK s : s = Head(batch)
    OBVIOUS
  <2>2. /\ s \in Observed /\ observer \in Loops
        /\ Vouched(codex, s)
        /\ \A i \in 1 .. Len(batch') : Vouched(codex, batch'[i])
    <3>1. batch \in Seq(Snapshots) /\ s = batch[1] /\ 1 \in 1 .. Len(batch) /\ s \in Snapshots
      BY <1>0, <2>1, <2>s DEF MemoryOK
    <3>2. \A i \in 1 .. Len(batch') : i + 1 \in 1 .. Len(batch) /\ batch'[i] = batch[i + 1]
      BY <2>1, <3>1
    <3> QED BY <3>1, <3>2, LoopsAssumption, ObservedIsAnything DEF TellInv
  <2>3. \A k \in Keys : note'[k].state # "absent" => note[k].state # "absent" \/ TrueKey(codex, k)
    <3> SUFFICES ASSUME NEW k \in Keys, note'[k].state # "absent"
                 PROVE  note[k].state # "absent" \/ TrueKey(codex, k)
      OBVIOUS
    <3>1. note[k].state # "absent" \/ (k = DedupeKey(s) /\ s.status \in Waiting \cup Terminal)
      BY <1>0, <2>1, <2>s, <2>2, ProcessReserves
    <3> QED BY <2>2, <3>1, KeyIsTrue
  <2>4. view'.task # None => Vouched(codex, view'.task)
    BY <2>1 DEF TellInv
  <2> QED BY <1>g, <2>1, <2>2, <2>3, <2>4
<1>6. CASE (\E mode \in Modes : Watch(mode)) \/ Unwatch
  BY <1>1, <1>6 DEF Watch, Unwatch, StartWatch, Deactivate, sources, vars
<1>7. CASE MarkManualCompletion
  <2>1. /\ view' = MarkManual(view, Now) /\ view.task # None
        /\ UNCHANGED <<codex, batch, note>>
    BY <1>7 DEF MarkManualCompletion, sources, Deactivate, vars
  <2>2. Now \in Times
    BY FactsAssumption, <1>0 DEF CodexOK, Now, Times
  <2>3. view'.task.status = "manually_completed"
    BY <1>0, <2>1, <2>2, MarkTurn
  <2>4. Vouched(codex, view'.task)
    BY <2>3, KindsOfStatus DEF Vouched
  <2>5. \A i \in 1 .. Len(batch') : Vouched(codex, batch'[i])
    BY <2>1 DEF TellInv
  <2> QED BY <1>g, <2>1, <2>4, <2>5
<1>8. ASSUME NEW p \in Loops, Send(p) PROVE TellInv'
  <2>1. UNCHANGED <<codex, view, batch>>
    BY <1>8 DEF Send, sources
  <2>2. \A k \in Keys : note'[k].state # "absent" => note[k].state # "absent"
    BY <1>0, <1>8, SendReserves
  <2> QED BY <1>1, <2>1, <2>2
<1>9. CASE RCrash
  <2>1. view' = NoView /\ batch' = <<>> /\ UNCHANGED <<codex, note>>
    BY <1>9 DEF RCrash, Crash, durable
  <2>2. view'.task = None /\ Len(batch') = 0
    BY <2>1 DEF NoView
  <2> QED BY <1>g, <2>1, <2>2
<1>10. CASE Start
  <2>1. PICK e \in SourceEvents \cup {None} :
           LET listed == IF e = None THEN [view |-> view, manual |-> manual]
                         ELSE Accept(view, manual, e) IN
           /\ e # None => refresh \in Loops
           /\ view' = Bootstrap(listed.view, listed.manual).view
    BY <1>0, <1>10, StartReads
  <2>2. view' = Bootstrap(view, manual).view
    BY <2>1
  <2>3. view.task # None => Vouched(codex, view.task)
    BY DEF TellInv
  <2>4. \A n \in 1 .. Len(codex) : codex[n].status \in Waiting => codex[n].request # None
    BY DEF TellInv
  <2>5. view'.task # None => Vouched(codex, view'.task)
    BY <1>0, <2>2, <2>3, <2>4, BootstrapVouched
  <2>6. UNCHANGED <<codex, batch, note>>
    BY <1>10 DEF Start, Restart
  <2>7. \A i \in 1 .. Len(batch') : Vouched(codex, batch'[i])
    BY <2>6 DEF TellInv
  <2> QED BY <1>g, <2>5, <2>6, <2>7
<1>11. CASE UNCHANGED rvars \/ Scan
  BY <1>1, <1>11 DEF rvars, Scan, vars
<1>12. ASSUME NEW n \in 1 .. 2 * MaxFacts, HandleNotification(n) PROVE FALSE
  BY <1>12 DEF HandleNotification
<1> QED BY <1>2, <1>3, <1>4, <1>5, <1>6, <1>7, <1>8, <1>9, <1>10, <1>11, <1>12 DEF RNext

(* What is told and what happened hold together in every behaviour. *)
LEMMA TellInvariance ==
  ASSUME refresh \notin Loops, listener \notin Loops
  PROVE  RSpec => []TellInv
<1>1. RInit => TellInv
  <2> SUFFICES ASSUME RInit PROVE TellInv
    OBVIOUS
  <2>1. view = NoView /\ codex = <<>> /\ batch = <<>> /\ note = [k \in Keys |-> NoNote]
    BY DEF RInit, Init
  <2>2. Len(batch) = 0 /\ Len(codex) = 0 /\ \A k \in Keys : note[k].state = "absent"
    BY <2>1 DEF NoNote
  <2> QED BY <2>1, <2>2 DEF TellInv, NoView, Reserved
<1>2. RInv /\ OwnerInv /\ OrderInv /\ FollowInv /\ TellInv /\ [RNext]_rvars => TellInv'
  BY TellStep
<1>3. RSpec => []FollowInv
  BY FailInvariance, PTL
<1> QED BY <1>1, <1>2, <1>3, RuntimeInvariance, RuntimeOwners, OrderInvariance, PTL DEF RSpec

(* Without App Server every notification, however long it waited in a      *)
(* batch and whatever crash came between, names a turn and the end or the  *)
(* request of that turn.                                                   *)
THEOREM NotificationsTellTheTruth ==
  ASSUME refresh \notin Loops, listener \notin Loops
  PROVE  RSpec => []NotificationsAreTrue
<1>1. RInv /\ TellInv => NotificationsAreTrue
  <2>1. RInv => DOMAIN codex = 1 .. Len(codex)
    BY DEF RInv, RTypeOK
  <2> QED BY <2>1 DEF TellInv, TrueKey, NotificationsAreTrue
<1> QED BY <1>1, RuntimeInvariance, TellInvariance, PTL
=============================================================================
