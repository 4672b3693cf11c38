---------------------------- MODULE SessionParser ----------------------------
(***************************************************************************)
(* How the records of a session file become events                         *)
(* (session_observer/parser.py) and how the baseline of a long file is     *)
(* found without reading all of it (session_observer/observer.py).         *)
(*                                                                         *)
(* A session file begins with the meta record of its own thread.  A thread *)
(* that continues another one replays its ancestor: a section of records   *)
(* under the ancestor's meta record, which must not pass for its own.      *)
(* A record is known by its position in the file; an event is the position *)
(* of the record that tells a status.  Sizes are counted in halves of a    *)
(* record; the second half ends with the newline.                          *)
(***************************************************************************)
EXTENDS Naturals, Sequences

CONSTANTS
  None,
  Threads,     \* threads whose meta records occur
  Types,       \* types of the other records
  HeadSize,    \* bootstrap_head_bytes
  TailSize,    \* bootstrap_tail_bytes
  ScanSize     \* bootstrap_lifecycle_scan_bytes

ASSUME SizesAssumption == {HeadSize, TailSize, ScanSize} \subseteq Nat
ASSUME ThreadsAssumption == None \notin Threads
ASSUME TypesAssumption == "session_meta" \notin Types

Records == [type : {"session_meta"}, thread : Threads] \cup [type : Types, thread : {None}]

(* The records that tell a status; those of a turn's life (here with one   *)
(* of the ends) can be looked for from the end of the file.                *)
Lifecycle == {"task_started", "task_complete", "approval_requested"}
Telling == Lifecycle \cup {"request_user_input"}

Parsers == [canonical : Threads \cup {None}, section : Threads \cup {None}, boundary : Nat]

NewParser == [canonical |-> None, section |-> None, boundary |-> 0]

InCanonicalSection(p) == p.canonical # None /\ p.section = p.canonical

ResumeCanonicalSection(p) == [p EXCEPT !.section = p.canonical, !.boundary = 0]

----------------------------------------------------------------------------
(* One record.  "boundary" is the position of the last lifecycle record    *)
(* outside the canonical section if it starts a turn: when the canonical   *)
(* meta record follows, that turn is its own.                              *)

SessionMeta(p, r) ==
  [canonical |-> IF p.canonical = None THEN r.thread ELSE p.canonical,
   section |-> r.thread,
   boundary |-> 0]

(* Fault: no boundary record is remembered. *)
RememberNothing(p, r, n) == p

RememberBoundary(p, r, n) ==
  IF r.type \in Lifecycle
  THEN [p EXCEPT !.boundary = IF r.type = "task_started" THEN n ELSE 0]
  ELSE p

(* The parser after record n, and the events so far. *)
Parse(s, r, n) ==
  LET p == s.parser
      q == SessionMeta(p, r) IN
  IF r.type = "session_meta"
  THEN [parser |-> q,
        events |-> IF InCanonicalSection(q) /\ p.boundary # 0
                   THEN Append(s.events, p.boundary) ELSE s.events]
  ELSE IF InCanonicalSection(p)
  THEN [s EXCEPT !.events = IF r.type \in Telling THEN Append(@, n) ELSE @]
  ELSE [s EXCEPT !.parser = RememberBoundary(p, r, n)]

(* Parsing the records from the first to the last position. *)
ParseFrom(p, records, first, last) ==
  LET rest[n \in Nat] ==
        [s \in [parser : Parsers, events : Seq(Nat)] |->
           IF n \in first .. last THEN rest[n + 1][Parse(s, records[n], n)] ELSE s]
  IN rest[first][[parser |-> p, events |-> <<>>]]

(* What a reader of the whole file learns. *)
FullRead(records) == ParseFrom(NewParser, records, 1, Len(records))

----------------------------------------------------------------------------
(* The search for the last lifecycle record of the canonical section.      *)

Searches == [candidate : Nat, following : Threads \cup {None}, found : Nat]

(* Fault: the last lifecycle record of any section. *)
StepBackAnySection(s, r, n, canonical) ==
  IF s.found = 0 /\ r.type \in Lifecycle THEN [s EXCEPT !.found = n] ELSE s

(* One record further back: the record that could be the result, and the   *)
(* thread of the section that follows.                                     *)
StepBack(s, r, n, canonical) ==
  IF s.found # 0 THEN s
  ELSE IF r.type = "session_meta"
  THEN IF s.candidate # 0 /\ r.thread = canonical
       THEN [s EXCEPT !.found = s.candidate]
       ELSE [s EXCEPT !.candidate = 0, !.following = r.thread]
  ELSE IF r.type \in Lifecycle /\ s.candidate = 0
  THEN IF s.following = canonical /\ r.type = "task_started"
       THEN [s EXCEPT !.found = n]
       ELSE [s EXCEPT !.candidate = n]
  ELSE s

(* 0 if there is none, or its section begins before the part searched.  The *)
(* line the search would begin in is only complete at the file's beginning. *)
FindLatestCanonicalLifecycle(records, canonical, size) ==
  LET bottom == IF size > ScanSize THEN size - ScanSize ELSE 0
      InReach(n) == bottom = 0 \/ bottom < 2 * (n - 1)
      last == IF size \div 2 < Len(records) THEN size \div 2 ELSE Len(records)
      back[n \in Nat] ==
        [s \in Searches |->
           IF n \in 1 .. last /\ InReach(n)
           THEN back[n - 1][StepBack(s, records[n], n, canonical)] ELSE s.found]
  IN IF canonical = None THEN 0
     ELSE back[last][[candidate |-> 0, following |-> None, found |-> 0]]

----------------------------------------------------------------------------
(* The baseline of a file that had the given size when it was found; it is *)
(* read to its present end.                                                *)

HasLifecycle(records, events) ==
  \E i \in DOMAIN events : records[events[i]].type \in Lifecycle

(* The tail begins after its first newline. *)
FirstOfTail(size) == (size - TailSize) \div 2 + 2

HeadParser(records) ==
  LET inHead == HeadSize \div 2 IN
  ParseFrom(NewParser, records, 1,
            IF inHead < Len(records) THEN inHead ELSE Len(records)).parser

TailRead(records, size) ==
  ParseFrom(ResumeCanonicalSection(HeadParser(records)), records,
            FirstOfTail(size), Len(records))

(* Fault: no search. *)
BaselineOfTail(records, size) ==
  IF size <= TailSize THEN FullRead(records) ELSE TailRead(records, size)

Baseline(records, size) ==
  IF size <= TailSize THEN FullRead(records)
  ELSE LET tail == TailRead(records, size)
           found == FindLatestCanonicalLifecycle(records, tail.parser.canonical, size)
       IN IF HasLifecycle(records, tail.events) \/ found = 0
          THEN tail
          ELSE [parser |-> ResumeCanonicalSection(tail.parser),
                events |-> Append(tail.events, found)]
=============================================================================
