--------------------------- MODULE SessionObserver ---------------------------
(***************************************************************************)
(* The observer of one session file (session_observer/observer.py).        *)
(*                                                                         *)
(* Codex, external, appends to the file while the observer looks at its    *)
(* size and reads it; the two are apart, and a record may be seen half     *)
(* written.  A file found for the first time gives a baseline, after that  *)
(* only what is new is read, a bounded piece at a time.                    *)
(***************************************************************************)
EXTENDS SessionParser

CONSTANTS
  Child,         \* the thread the file belongs to
  MaxIncrement,  \* max_increment_bytes
  MaxRecords,    \* bound: records of a file
  MaxFiles       \* bound: files under the name, one after the other

ASSUME ObserverAssumption ==
  /\ Child \in Threads
  /\ MaxIncrement \in Nat \ {0}
  /\ MaxRecords \in Nat /\ MaxFiles \in Nat \ {0}

VARIABLES
  text,    \* external: the complete records of the file
  half,    \* external: another record is half written
  inode,   \* external: which file has the name
  cursor,  \* FileCursor of the name, or None; partial: the buffer holds half a record
  scan,    \* what _scan_sync has just learnt from stat, or None
  boot,    \* history: size the baseline was taken at
  clean,   \* history: the baseline could be read, and the file ended in a whole record
  fresh,   \* history: records read since the baseline, in order
  told     \* history: records of this file that became events

file == <<text, half, inode>>
ovars == <<file, cursor, scan, boot, clean, fresh, told>>

Size == 2 * Len(text) + (IF half THEN 1 ELSE 0)

OInit ==
  /\ text = <<>>
  /\ half = FALSE
  /\ inode = 1
  /\ cursor = None
  /\ scan = None
  /\ boot = 0
  /\ clean = FALSE
  /\ fresh = <<>>
  /\ told = {}

----------------------------------------------------------------------------
(* Codex.                                                                  *)

BeginRecord ==
  /\ ~ half
  /\ Len(text) < MaxRecords
  /\ half' = TRUE
  /\ UNCHANGED <<text, inode, cursor, scan, boot, clean, fresh, told>>

EndRecord(r) ==
  /\ half
  /\ text = <<>> => r = [type |-> "session_meta", thread |-> Child]
  /\ half' = FALSE
  /\ text' = Append(text, r)
  /\ UNCHANGED <<inode, cursor, scan, boot, clean, fresh, told>>

(* Another file takes the name.  Its inode is a new one: that a file       *)
(* system gives the old number to it again is left out.                    *)
Replace ==
  /\ inode < MaxFiles
  /\ inode' = inode + 1
  /\ text' = <<>>
  /\ half' = FALSE
  /\ boot' = 0
  /\ clean' = FALSE
  /\ fresh' = <<>>
  /\ told' = {}
  /\ UNCHANGED <<cursor, scan>>

----------------------------------------------------------------------------
(* The observer.                                                           *)

(* Fault: only a file that became shorter is another one. *)
KnownUnlessShorter(i, size) == cursor # None /\ cursor.offset <= size

(* The cursor is in this file. *)
Known(i, size) == cursor # None /\ cursor.inode = i /\ cursor.offset <= size

Stat ==
  /\ scan = None
  /\ ~ (Known(inode, Size) /\ cursor.offset = Size)
  /\ scan' = [inode |-> inode, size |-> Size]
  /\ UNCHANGED <<file, cursor, boot, clean, fresh, told>>

(* Fault: the newline is counted twice. *)
CursorPastNewline(offset, partial, parser) ==
  [inode |-> scan.inode, offset |-> offset + 1, partial |-> partial, parser |-> parser]

CursorAt(offset, partial, parser) ==
  [inode |-> scan.inode, offset |-> offset, partial |-> partial, parser |-> parser]

(* The cursor stands at the size seen before, whatever has been read since. *)
Bootstrap ==
  /\ scan # None
  /\ ~ Known(scan.inode, scan.size)
  /\ LET baseline == Baseline(text, scan.size) IN
       /\ cursor' = CursorAt(scan.size, FALSE, baseline.parser)
       /\ told' = told \cup {baseline.events[i] : i \in DOMAIN baseline.events}
  /\ boot' = scan.size
  /\ clean' = (scan.inode = inode /\ scan.size % 2 = 0)
  /\ fresh' = <<>>
  /\ scan' = None
  /\ UNCHANGED file

(* How much of the file is read after the offset. *)
Chunk ==
  LET wanted == IF scan.size - cursor.offset < MaxIncrement
                THEN scan.size - cursor.offset ELSE MaxIncrement
      available == IF Size > cursor.offset THEN Size - cursor.offset ELSE 0
  IN IF wanted < available THEN wanted ELSE available

(* Fault: what is left of the last line is not kept. *)
FirstWhole == (cursor.offset + 1) \div 2 + 1

(* A record is understood if its first half was kept or is read now.       *)
FirstComplete ==
  LET kept == cursor.partial /\ cursor.inode = inode IN
  IF cursor.offset % 2 = 1 /\ kept
  THEN (cursor.offset + 1) \div 2
  ELSE (cursor.offset + 1) \div 2 + 1

ReadIncrement ==
  /\ scan # None
  /\ Known(scan.inode, scan.size)
  /\ LET offset == cursor.offset + Chunk
         last == offset \div 2
         read == ParseFrom(cursor.parser, text, FirstComplete, last)
     IN /\ cursor' = CursorAt(offset, IF Chunk = 0 THEN cursor.partial ELSE offset % 2 = 1,
                              read.parser)
        /\ told' = told \cup {read.events[i] : i \in DOMAIN read.events}
        /\ fresh' = fresh \o [i \in 1 .. last + 1 - FirstComplete |-> FirstComplete + i - 1]
  /\ scan' = None
  /\ UNCHANGED <<file, boot, clean>>

(* The file cannot be read.  A new file keeps the cursor it was given. *)
ReadFails ==
  /\ scan # None
  /\ IF Known(scan.inode, scan.size)
     THEN UNCHANGED <<cursor, boot, clean, fresh>>
     ELSE /\ cursor' = CursorAt(scan.size, FALSE, NewParser)
          /\ boot' = scan.size
          /\ clean' = FALSE
          /\ fresh' = <<>>
  /\ scan' = None
  /\ UNCHANGED <<file, told>>

----------------------------------------------------------------------------

Read == Bootstrap \/ ReadIncrement

ONext ==
  \/ BeginRecord
  \/ \E r \in Records : EndRecord(r)
  \/ Replace
  \/ Stat
  \/ Read
  \/ ReadFails

ObserverSpec == OInit /\ [][ONext]_ovars

(* The loop scans again after each pause, and reading works again and      *)
(* again.                                                                  *)
ObserverFairSpec == ObserverSpec /\ WF_ovars(Stat) /\ SF_ovars(Read)

----------------------------------------------------------------------------
(* Properties                                                              *)


ObserverTypeOK ==
  /\ text \in Seq(Records) /\ Len(text) <= MaxRecords
  /\ half \in BOOLEAN
  /\ inode \in 1 .. MaxFiles
  /\ cursor \in [inode : 1 .. MaxFiles, offset : 0 .. 2 * MaxRecords,
                 partial : BOOLEAN, parser : Parsers] \cup {None}
  /\ scan \in [inode : 1 .. MaxFiles, size : 0 .. 2 * MaxRecords] \cup {None}
  /\ boot \in 0 .. 2 * MaxRecords
  /\ clean \in BOOLEAN
  /\ fresh \in Seq(1 .. MaxRecords)
  /\ told \subseteq 1 .. MaxRecords

(* The cursor is in the file that has the name now. *)
AtFile == cursor # None /\ cursor.inode = inode

(* The record that was being written when the baseline was taken, or the   *)
(* last one before it.                                                     *)
BootRecord == (boot + 1) \div 2

(* However a record is written and a file grows or is replaced, reading on *)
(* from the cursor takes every later record once and in order              *)
(* (_read_increment: offset, buffer and the bound on a read).              *)
ReadsOn ==
  AtFile =>
    /\ {fresh[i] : i \in DOMAIN fresh} =
         {n \in 1 .. MaxRecords : BootRecord < n /\ 2 * n <= cursor.offset}
    /\ \A i \in DOMAIN fresh : fresh[i] = BootRecord + i

(* What a file tells about its own thread: the records of the sections     *)
(* under its own meta record, and a turn started right before such a one.  *)
IsMeta(r) == r.type = "session_meta"
IsOwnMeta(r) == IsMeta(r) /\ r.thread = Child
Between(i, j) == i + 1 .. j - 1

Events(records) ==
  {n \in DOMAIN records :
     /\ records[n].type \in Telling
     /\ \/ \E m \in 1 .. n - 1 :
             /\ IsOwnMeta(records[m])
             /\ \A k \in Between(m, n) : ~ IsMeta(records[k])
        \/ /\ records[n].type = "task_started"
           /\ \E m \in n + 1 .. Len(records) :
                /\ IsOwnMeta(records[m])
                /\ \A k \in Between(n, m) :
                     ~ IsMeta(records[k]) /\ records[k].type \notin Lifecycle}

LatestOf(records, events) ==
  LET life == {n \in events : records[n].type \in Lifecycle}
  IN IF life = {} THEN 0 ELSE CHOOSE n \in life : \A m \in life : m <= n

(* What the file tells after the baseline the observer tells as well,      *)
(* although its baseline skips most of a long file (_bootstrap,            *)
(* resume_canonical_section, _remember_boundary_lifecycle).                *)
NothingMissed ==
  clean /\ AtFile =>
    \A n \in Events(SubSeq(text, 1, cursor.offset \div 2)) :
      n > BootRecord => n \in told

(* The search from the end finds the last lifecycle record of the thread   *)
(* or, when it may not look at all of the file, possibly none              *)
(* (_find_latest_canonical_lifecycle).                                     *)
SearchAgrees ==
  text # <<>> =>
    LET found == FindLatestCanonicalLifecycle(text, Child, Size)
        latest == LatestOf(text, Events(text))
    IN /\ found \in {0, latest}
       /\ Size <= ScanSize => found = latest

(* The baseline of a long file gives the thread's latest lifecycle record, *)
(* if its tail begins in the canonical section and the search may look at  *)
(* all of it (_bootstrap).                                                 *)
BaselineIsLatest ==
  LET events == Baseline(text, Size).events
      before == FullRead(SubSeq(text, 1, FirstOfTail(Size) - 1)).parser
  IN TailSize < Size /\ Size <= ScanSize /\ InCanonicalSection(before) =>
       LatestOf(text, {events[i] : i \in DOMAIN events}) = LatestOf(text, Events(text))

(* Once nobody writes any more (every instance allows finitely many        *)
(* writes), the observer's cursor gets to the end of whatever file has the *)
(* name and stays there (_scan_sync); NothingMissed and ReadsOn say what   *)
(* it has told by then.                                                    *)
CatchesUp == <>[](AtFile /\ cursor.offset = Size)
=============================================================================
