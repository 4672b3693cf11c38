------------------------------- MODULE Lineage -------------------------------
(***************************************************************************)
(* Which threads the dashboard shows, and what becomes of the watches of   *)
(* those it hides (monitoring/aggregator.py, runtime.py).                  *)
(*                                                                         *)
(* Codex goes on with a thread in a new one that names its parent.  App    *)
(* Server lists the threads of its sidebar page by page; an ancestor of a  *)
(* listed thread that is not listed itself is an internal one: its card is *)
(* hidden and its watch ended.  Parents are learnt from session files at   *)
(* any time, also between two pages, and everything but the watches is     *)
(* forgotten when the process ends.                                        *)
(*                                                                         *)
(* What a thread does is Runtime's subject: here each has a card that can  *)
(* be watched, and a watch may end at any time for its own reasons.        *)
(***************************************************************************)
EXTENDS Naturals, FiniteSets

CONSTANTS
  None,     \* no parent
  Threads,
  PageSize  \* threads on a page of the listing, 100 in the code

(* Cards live in a dictionary: there are finitely many of them.            *)
ASSUME ThreadsAssumption == None \notin Threads /\ IsFiniteSet(Threads)
ASSUME PageAssumption == PageSize \in Nat \ {0}

VARIABLES
  forked,    \* external: [Threads -> the parent its session file names, or None]
  sidebar,   \* external: the threads App Server would list
  parents,   \* _parent_thread_ids: [Threads -> Threads or None]
  listed,    \* _app_server_thread_ids
  internal,  \* _internal_thread_ids
  watched,   \* threads with an active watch (database)
  listing,   \* refresh_once between two pages
  settled,   \* history: threads nothing happened to during the last listing
  up         \* the process runs

aggregator == <<parents, listed, internal>>
nvars == <<forked, sidebar, aggregator, watched, listing, settled, up>>

(* seen: app_server_thread_ids.  rest: what the server has yet to give out *)
(* behind the cursor.  still: history, threads in the sidebar all along    *)
(* that did not move.                                                      *)
NoListing == [open |-> FALSE, seen |-> {}, rest |-> {}, still |-> {}]

(* The threads met on the way up from t, up to one met before. *)
Above(up_, t) ==
  LET climb[n \in 0 .. Cardinality(Threads)] ==
        IF n = 0 THEN {t}
        ELSE climb[n - 1] \cup {up_[s] : s \in {r \in climb[n - 1] : up_[r] # None}}
  IN climb[Cardinality(Threads)] \ {t}

(* Fault: only the direct parent is hidden. *)
ReconcileParents(up_, shown, before) ==
  before \cup ({up_[t] : t \in {s \in shown : up_[s] # None}} \ shown)

Reconcile(up_, shown, before) ==
  before \cup ((UNION {Above(up_, t) : t \in shown}) \ shown)

IsHidden(t) == t \in internal /\ t \notin listed

NInit ==
  /\ forked \in [Threads -> Threads \cup {None}]
  /\ sidebar \in SUBSET Threads
  /\ parents = [t \in Threads |-> None]
  /\ listed = {}
  /\ internal = {}
  /\ watched = {}
  /\ listing = NoListing
  /\ settled = {}
  /\ up = TRUE

----------------------------------------------------------------------------
(* The process. *)

(* Watches of hidden threads end in the same step in which they are hidden. *)
DeactivateInternalWatches == watched' = watched \ (internal' \ listed')

(* A page: the first of a listing, or what follows the cursor. *)
TakePage ==
  /\ up
  /\ listing.open => listing.rest # {}
  /\ LET left == IF listing.open THEN listing.rest ELSE sidebar
     IN \E page \in SUBSET left :
          /\ Cardinality(page) <= PageSize
          /\ page = left \/ Cardinality(page) = PageSize
          /\ listing' = [open |-> TRUE, seen |-> listing.seen \cup page, rest |-> left \ page,
                         still |-> IF listing.open THEN listing.still ELSE sidebar]
  /\ UNCHANGED <<forked, sidebar, aggregator, watched, settled, up>>

(* The last page had no cursor: the listing counts as complete. *)
EndListing ==
  /\ up /\ listing.open /\ listing.rest = {}
  /\ listed' = listing.seen
  /\ internal' = Reconcile(parents, listed', internal)
  /\ DeactivateInternalWatches
  /\ settled' = listing.still
  /\ listing' = NoListing
  /\ UNCHANGED <<forked, sidebar, parents, up>>

(* A request fails or an answer has no rows: nothing is learnt from it. *)
BreakOff ==
  /\ up /\ listing.open
  /\ listing' = NoListing
  /\ UNCHANGED <<forked, sidebar, aggregator, watched, settled, up>>

(* What _parent_thread_ids becomes when the files of some threads are read. *)
Learn(known, files) ==
  [t \in Threads |-> IF t \in files /\ forked[t] \notin {None, t} THEN forked[t] ELSE known[t]]

(* Fault: only a listing ends the watches of hidden threads. *)
ObserveKeeps(t) ==
  /\ up
  /\ parents' = Learn(parents, {t})
  /\ internal' = Reconcile(parents', listed, internal)
  /\ UNCHANGED <<forked, sidebar, listed, watched, listing, settled, up>>

(* A scan reads a session file, whose events all name the thread's parent. *)
(* One of several files is several of these: nothing runs between them.    *)
(* From events that are too old or stale nothing is learnt: the step is    *)
(* not taken.                                                              *)
Observe(t) ==
  /\ up
  /\ parents' = Learn(parents, {t})
  /\ internal' = Reconcile(parents', listed, internal)
  /\ UNCHANGED <<forked, sidebar, listed, listing, settled, up>>
  /\ DeactivateInternalWatches

(* The user watches a thread that get() finds, which is one not hidden. *)
Watch(t) ==
  /\ up /\ ~IsHidden(t)
  /\ watched' = watched \cup {t}
  /\ UNCHANGED <<forked, sidebar, aggregator, listing, settled, up>>

(* The user stops watching, or the watched turn ends. *)
EndWatch(t) ==
  /\ up /\ t \in watched
  /\ watched' = watched \ {t}
  /\ UNCHANGED <<forked, sidebar, aggregator, listing, settled, up>>

Crash ==
  /\ up
  /\ up' = FALSE
  /\ parents' = [t \in Threads |-> None]
  /\ listed' = {} /\ internal' = {}
  /\ listing' = NoListing
  /\ settled' = {}
  /\ UNCHANGED <<forked, sidebar, watched>>

(* The start: a listing if App Server answers, then a scan, then the       *)
(* watches of cards that are shown and whose turn still runs.              *)
Start ==
  /\ ~up
  /\ up' = TRUE
  /\ \E shown \in {{}, sidebar}, files \in SUBSET Threads :
       /\ listed' = shown
       /\ settled' = shown
       /\ parents' = Learn(parents, files)
       /\ internal' = Reconcile(parents', shown, internal)
  /\ \E running \in SUBSET watched : watched' = running \ (internal' \ listed')
  /\ UNCHANGED <<forked, sidebar, listing>>

----------------------------------------------------------------------------
(* App Server. *)

Enter(t) ==
  /\ t \notin sidebar
  /\ sidebar' = sidebar \cup {t}
  /\ UNCHANGED <<forked, aggregator, watched, listing, settled, up>>

(* Archived: no longer listed. *)
Leave(t) ==
  /\ t \in sidebar
  /\ sidebar' = sidebar \ {t}
  /\ listing' = [listing EXCEPT !.rest = @ \ {t}, !.still = @ \ {t}]
  /\ settled' = settled \ {t}
  /\ UNCHANGED <<forked, aggregator, watched, up>>

(* The listing is sorted by the time of the last change: a thread that     *)
(* changes moves to the front, past the cursor.                            *)
MoveUp(t) ==
  /\ t \in listing.rest
  /\ listing' = [listing EXCEPT !.rest = @ \ {t}, !.still = @ \ {t}]
  /\ UNCHANGED <<forked, sidebar, aggregator, watched, settled, up>>

NNext ==
  \/ TakePage \/ EndListing \/ BreakOff \/ Crash \/ Start
  \/ \E t \in Threads : Observe(t) \/ Watch(t) \/ EndWatch(t) \/ Enter(t) \/ Leave(t) \/ MoveUp(t)

NSpec == NInit /\ [][NNext]_nvars

----------------------------------------------------------------------------
(* A hidden thread has no active watch, so nothing is ever sent for a card *)
(* the user cannot see and unwatch, whenever parents, listings and watches *)
(* come in between each other (runtime.py:244-247, 279, 337-339, 475-486). *)
HiddenIsUnwatched == up => \A t \in watched : ~IsHidden(t)

(* The reference definition: s is above t if parents lead from t to s. *)
IsAbove(s, t) ==
  s # t /\ \E n \in 1 .. Cardinality(Threads) :
    \E path \in [0 .. n -> Threads] :
      path[0] = t /\ path[n] = s /\ \A i \in 1 .. n : path[i] = parents[path[i - 1]]

(* Hidden are all the threads above a listed one that are not listed, and  *)
(* only threads that others go on with; and a thread that     *)
(* stayed in its place in the sidebar during the last complete listing is  *)
(* shown, whatever was broken off since (aggregator.py:115-121, 294-312,   *)
(* runtime.py:239-246).                                                    *)
HiddenIsRight ==
  /\ \A t \in listed, s \in Threads \ listed : IsAbove(s, t) => IsHidden(s)
  /\ \A s \in internal : \E t \in Threads : IsAbove(s, t)
  /\ \A t \in settled : ~IsHidden(t)
=============================================================================
