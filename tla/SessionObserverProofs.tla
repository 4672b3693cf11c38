------------------------ MODULE SessionObserverProofs ------------------------
(***************************************************************************)
(* What SessionObserver guarantees for any size of a file, any bound on a  *)
(* read and however often the file is replaced.                            *)
(*                                                                         *)
(* First, which records were read: this follows from the cursor and the    *)
(* sizes alone (ReadingGoesOn).  Then, what is learnt from them: what      *)
(* parsing and searching compute is proved by the smallest counterexample  *)
(* (ParseInduction, SearchInduction), with an invariant over the records   *)
(* for each question: Looked for the search, Exact for a parser that knows *)
(* the sections, Follows for one that is ahead of what it parses.          *)
(***************************************************************************)
EXTENDS SessionObserver, SequenceTheorems, NaturalsInduction, WellFoundedInduction, TLAPS

(* The file has a size, and is one of those that have had the name. *)
FileOK ==
  /\ text \in Seq(Records)
  /\ Len(text) <= MaxRecords
  /\ half \in BOOLEAN
  /\ half => Len(text) < MaxRecords
  /\ inode \in Nat
  /\ boot \in Nat

(* What stat told is not beyond the file, if it still has the name. *)
ScanOK ==
  scan # None =>
    /\ scan.inode \in Nat /\ scan.inode <= inode
    /\ scan.size \in Nat
    /\ scan.inode = inode => scan.size <= Size

(* The cursor stands between the baseline and the end of the file, and the *)
(* half of a record before it is kept unless it was there at the baseline. *)
CursorOK ==
  cursor # None =>
    /\ cursor.inode \in Nat /\ cursor.inode <= inode
    /\ cursor.offset \in Nat
    /\ cursor.inode = inode =>
         /\ boot <= cursor.offset /\ cursor.offset <= Size
         /\ cursor.partial = (cursor.offset # boot /\ cursor.offset % 2 = 1)

(* The records from the baseline to the cursor were read, in order.        *)
Whole == cursor.offset \div 2
FreshOK ==
  AtFile =>
    /\ fresh \in Seq(Nat)
    /\ Len(fresh) = IF Whole > BootRecord THEN Whole - BootRecord ELSE 0
    /\ \A i \in 1 .. Len(fresh) : fresh[i] = BootRecord + i

(* The inductive invariant. *)
OInv == FileOK /\ ScanOK /\ CursorOK /\ FreshOK

(* The bounds are numbers. *)
LEMMA Bounds == MaxRecords \in Nat /\ MaxIncrement \in Nat
BY ObserverAssumption

(* The file is no longer than its records. *)
LEMMA SizeBound == ASSUME FileOK PROVE Size \in 0 .. 2 * MaxRecords
BY Bounds DEF FileOK, Size

(* The invariant says that reading goes on where it stopped. *)
LEMMA OInvReadsOn == OInv => ReadsOn
<1> SUFFICES ASSUME OInv, AtFile
             PROVE  /\ {fresh[i] : i \in DOMAIN fresh} =
                         {n \in 1 .. MaxRecords : BootRecord < n /\ 2 * n <= cursor.offset}
                    /\ \A i \in DOMAIN fresh : fresh[i] = BootRecord + i
  BY DEF ReadsOn
<1>1. /\ cursor.offset \in Nat /\ boot \in Nat /\ MaxRecords \in Nat
      /\ cursor.offset <= 2 * MaxRecords
  BY SizeBound, Bounds DEF OInv, FileOK, CursorOK, AtFile, Size
<1>2. /\ DOMAIN fresh = 1 .. Len(fresh) /\ Len(fresh) \in Nat
      /\ Len(fresh) = IF Whole > BootRecord THEN Whole - BootRecord ELSE 0
      /\ \A i \in 1 .. Len(fresh) : fresh[i] = BootRecord + i
  BY DEF OInv, FreshOK
<1>3. BootRecord \in Nat /\ Whole \in Nat /\ Whole <= MaxRecords
      /\ \A n \in Nat : 2 * n <= cursor.offset <=> n <= Whole
  BY <1>1 DEF BootRecord, Whole
<1>4. ASSUME NEW i \in DOMAIN fresh
      PROVE  fresh[i] \in 1 .. MaxRecords /\ BootRecord < fresh[i] /\ 2 * fresh[i] <= cursor.offset
  <2>1. i \in 1 .. Len(fresh) /\ fresh[i] = BootRecord + i
    BY <1>2, <1>4
  <2>2. BootRecord + i <= Whole
    BY <1>2, <1>3, <2>1
  <2>3. fresh[i] \in Nat /\ BootRecord < fresh[i] /\ fresh[i] <= Whole
    BY <1>2, <1>3, <2>1, <2>2
  <2> QED BY <1>1, <1>3, <2>3
<1>5. ASSUME NEW n \in 1 .. MaxRecords, BootRecord < n, 2 * n <= cursor.offset
      PROVE  n - BootRecord \in DOMAIN fresh /\ fresh[n - BootRecord] = n
  <2>1. n <= Whole
    BY <1>1, <1>3, <1>5
  <2>2. n - BootRecord \in 1 .. Len(fresh)
    BY <1>1, <1>2, <1>3, <1>5, <2>1
  <2> QED BY <1>1, <1>2, <1>3, <2>2
<1> QED BY <1>2, <1>4, <1>5

(* At the start there is no cursor. *)
LEMMA OInitInv == OInit => OInv
<1> SUFFICES ASSUME OInit PROVE OInv
  OBVIOUS
<1>1. Len(text) = 0 /\ text \in Seq(Records)
  BY DEF OInit
<1>2. FileOK
  <2>1. Len(text) <= MaxRecords
    BY <1>1, Bounds
  <2> QED BY <1>1, <2>1 DEF OInit, FileOK
<1> QED BY <1>2 DEF OInit, OInv, ScanOK, CursorOK, FreshOK, AtFile

----------------------------------------------------------------------------
(* Codex makes the file longer, or puts another one in its place.          *)

LEMMA BeginRecordStep == ASSUME OInv, BeginRecord PROVE OInv'
<1>1. FileOK'
  BY Bounds DEF OInv, FileOK, BeginRecord
<1>2. Size' = Size + 1 /\ Size \in Nat
  BY DEF OInv, FileOK, BeginRecord, Size
<1>3. ScanOK' /\ CursorOK'
  BY <1>2 DEF OInv, FileOK, ScanOK, CursorOK, BeginRecord
<1>4. FreshOK'
  BY DEF OInv, FreshOK, AtFile, Whole, BootRecord, BeginRecord
<1> QED BY <1>1, <1>3, <1>4 DEF OInv

LEMMA EndRecordStep == ASSUME OInv, NEW r \in Records, EndRecord(r) PROVE OInv'
<1>1. text' \in Seq(Records) /\ Len(text') = Len(text) + 1
  BY DEF OInv, FileOK, EndRecord
<1>2. FileOK'
  <2>1. Len(text) \in Nat /\ Len(text) < MaxRecords
    BY DEF OInv, FileOK, EndRecord
  <2>2. Len(text') <= MaxRecords
    BY <1>1, <2>1, Bounds
  <2> QED BY <1>1, <2>2 DEF OInv, FileOK, EndRecord
<1>3. Size' = Size + 1 /\ Size \in Nat
  BY <1>1 DEF OInv, FileOK, EndRecord, Size
<1>4. ScanOK' /\ CursorOK'
  BY <1>3 DEF OInv, FileOK, ScanOK, CursorOK, EndRecord
<1>5. FreshOK'
  BY DEF OInv, FreshOK, AtFile, Whole, BootRecord, EndRecord
<1> QED BY <1>2, <1>4, <1>5 DEF OInv

(* No cursor and no scan is in a file that is new. *)
LEMMA ReplaceStep == ASSUME OInv, Replace PROVE OInv'
<1>1. text' \in Seq(Records) /\ Len(text') = 0
  BY DEF Replace
<1>2. FileOK'
  <2>1. Len(text') <= MaxRecords
    BY <1>1, Bounds
  <2>2. half' = FALSE /\ inode' \in Nat /\ boot' \in Nat
    BY DEF OInv, FileOK, Replace
  <2> QED BY <1>1, <2>1, <2>2 DEF FileOK
<1>3. ScanOK'
  BY DEF OInv, FileOK, ScanOK, Replace
<1>4. CursorOK' /\ ~ AtFile'
  BY DEF OInv, FileOK, CursorOK, AtFile, Replace
<1> QED BY <1>2, <1>3, <1>4 DEF OInv, FreshOK

----------------------------------------------------------------------------
(* The observer.                                                           *)

LEMMA StatStep == ASSUME OInv, Stat PROVE OInv'
<1>1. Size \in Nat
  BY DEF OInv, FileOK, Size
<1>2. Size' = Size
  BY DEF Stat, file, Size
<1>3. FileOK'
  BY DEF OInv, FileOK, Stat, file
<1>4. ScanOK'
  <2>1. scan' = [inode |-> inode, size |-> Size] /\ inode' = inode
    BY DEF Stat, file
  <2> QED BY <1>1, <1>2, <2>1 DEF OInv, FileOK, ScanOK
<1>5. CursorOK' /\ FreshOK'
  BY <1>2 DEF OInv, CursorOK, FreshOK, AtFile, Whole, BootRecord, Stat, file
<1> QED BY <1>3, <1>4, <1>5 DEF OInv

(* A baseline reads nothing on: what it skipped is not read later either.  *)
LEMMA BaselineStep ==
  ASSUME OInv, scan # None, UNCHANGED file, scan' = None, boot' = scan.size, fresh' = <<>>,
         NEW p, cursor' = [inode |-> scan.inode, offset |-> scan.size, partial |-> FALSE, parser |-> p]
  PROVE  OInv'
<1>1. FileOK' /\ ScanOK' /\ Size' = Size
  BY DEF OInv, FileOK, ScanOK, file, Size
<1>2. scan.size \in Nat /\ scan.inode \in Nat /\ scan.inode <= inode
      /\ (scan.inode = inode => scan.size <= Size)
  BY DEF OInv, ScanOK
<1>3. /\ cursor'.inode = scan.inode /\ cursor'.offset = scan.size
      /\ cursor'.partial = FALSE /\ inode' = inode /\ boot' = scan.size
  BY DEF file
<1>4. CursorOK'
  <2>1. cursor'.partial = (cursor'.offset # boot' /\ cursor'.offset % 2 = 1)
    BY <1>3
  <2>2. ASSUME cursor'.inode = inode'
        PROVE  boot' <= cursor'.offset /\ cursor'.offset <= Size'
    <3>1. scan.size <= Size
      BY <1>2, <1>3, <2>2
    <3>2. boot' = cursor'.offset /\ boot' \in Nat
      BY <1>2, <1>3
    <3>3. boot' <= boot'
      BY <3>2
    <3> QED BY <1>1, <1>3, <3>1, <3>2, <3>3
  <2> QED BY <1>1, <1>2, <1>3, <2>1, <2>2 DEF CursorOK
<1>5. Len(fresh') = 0 /\ fresh' \in Seq(Nat)
  OBVIOUS
<1>6. Whole' = scan.size \div 2 /\ BootRecord' = (scan.size + 1) \div 2
  BY <1>3 DEF Whole, BootRecord
<1>7. ~ Whole' > BootRecord'
  BY <1>2, <1>6
<1>8. FreshOK'
  BY <1>5, <1>7 DEF FreshOK
<1> QED BY <1>1, <1>4, <1>8 DEF OInv

LEMMA BootstrapStep == ASSUME OInv, Bootstrap PROVE OInv'
<1>1. PICK p : p = Baseline(text, scan.size).parser
  OBVIOUS
<1>2. cursor' = [inode |-> scan.inode, offset |-> scan.size, partial |-> FALSE, parser |-> p]
  BY <1>1, Zenon DEF Bootstrap, CursorAt
<1> QED BY <1>2, BaselineStep DEF Bootstrap

LEMMA ReadFailsStep == ASSUME OInv, ReadFails PROVE OInv'
<1>1. CASE Known(scan.inode, scan.size)
  BY <1>1 DEF ReadFails, OInv, FileOK, ScanOK, CursorOK, FreshOK, AtFile, Whole, BootRecord,
              file, Size
<1>2. CASE ~ Known(scan.inode, scan.size)
  <2>1. cursor' = [inode |-> scan.inode, offset |-> scan.size, partial |-> FALSE, parser |-> NewParser]
    BY <1>2, Zenon DEF ReadFails, CursorAt
  <2> QED BY <1>2, <2>1, BaselineStep DEF ReadFails
<1> QED BY <1>1, <1>2

(* A read is bounded by what stat told and by what is there. *)
LEMMA ChunkBound ==
  ASSUME OInv, scan # None, Known(scan.inode, scan.size)
  PROVE  Chunk \in Nat /\ (AtFile => cursor.offset + Chunk <= Size)
<1>1. /\ cursor.offset \in Nat /\ scan.size \in Nat /\ cursor.offset <= scan.size
      /\ Size \in Nat /\ MaxIncrement \in Nat
  BY Bounds DEF OInv, FileOK, ScanOK, CursorOK, Known, Size
<1>2. AtFile => cursor.offset <= Size
  BY DEF OInv, CursorOK, AtFile
<1> QED BY <1>1, <1>2 DEF Chunk

(* The first record a read can understand is the one after those read, or  *)
(* after the one that was half there at the baseline.                      *)
LEMMA FirstCompleteNext ==
  ASSUME OInv, AtFile
  PROVE  /\ Whole \in Nat /\ BootRecord \in Nat
         /\ FirstComplete = 1 + (IF Whole > BootRecord THEN Whole ELSE BootRecord)
<1>1. /\ cursor.offset \in Nat /\ boot \in Nat /\ boot <= cursor.offset
      /\ cursor.inode = inode
      /\ cursor.partial = (cursor.offset # boot /\ cursor.offset % 2 = 1)
  BY DEF OInv, FileOK, CursorOK, AtFile
<1>2. Whole \in Nat /\ BootRecord \in Nat
  BY <1>1 DEF Whole, BootRecord
<1>3. CASE cursor.offset % 2 = 1 /\ cursor.offset # boot
  <2>1. FirstComplete = (cursor.offset + 1) \div 2
    BY <1>1, <1>3 DEF FirstComplete
  <2>2. (cursor.offset + 1) \div 2 = Whole + 1 /\ Whole >= BootRecord
    BY <1>1, <1>3 DEF Whole, BootRecord
  <2> QED BY <1>2, <2>1, <2>2
<1>4. CASE cursor.offset % 2 = 1 /\ cursor.offset = boot
  <2>1. FirstComplete = (cursor.offset + 1) \div 2 + 1
    BY <1>1, <1>4 DEF FirstComplete
  <2>2. (cursor.offset + 1) \div 2 = BootRecord /\ Whole <= BootRecord
    BY <1>1, <1>4 DEF Whole, BootRecord
  <2> QED BY <1>2, <2>1, <2>2
<1>5. CASE cursor.offset % 2 # 1
  <2>1. FirstComplete = (cursor.offset + 1) \div 2 + 1
    BY <1>1, <1>5 DEF FirstComplete
  <2>2. (cursor.offset + 1) \div 2 = Whole /\ Whole >= BootRecord
    BY <1>1, <1>5 DEF Whole, BootRecord
  <2> QED BY <1>2, <2>1, <2>2
<1> QED BY <1>3, <1>4, <1>5

(* A run of numbers that is continued is a run. *)
LEMMA RunOfNumbers ==
  ASSUME NEW b \in Nat, NEW s \in Seq(Nat), \A i \in 1 .. Len(s) : s[i] = b + i,
         NEW m, m = b + Len(s), NEW n \in Nat, NEW t, t = [i \in 1 .. n |-> m + i]
  PROVE  /\ s \o t \in Seq(Nat) /\ Len(s \o t) = Len(s) + n
         /\ \A i \in 1 .. Len(s \o t) : (s \o t)[i] = b + i
<1>1. m \in Nat /\ Len(s) \in Nat
  OBVIOUS
<1>2. t \in Seq(Nat) /\ Len(t) = n /\ \A i \in 1 .. n : t[i] = m + i
  BY <1>1
<1>3. s \o t \in Seq(Nat) /\ Len(s \o t) = Len(s) + n
  BY <1>2, ConcatProperties
<1>4. ASSUME NEW i \in 1 .. Len(s \o t) PROVE (s \o t)[i] = b + i
  <2>1. CASE i <= Len(s)
    BY <1>1, <1>2, <1>3, <2>1
  <2>2. CASE ~ i <= Len(s)
    <3>1. i - Len(s) \in 1 .. n
      BY <1>1, <1>3, <2>2
    <3>2. (s \o t)[i] = t[i - Len(s)]
      BY <1>1, <1>2, <1>3, <2>2, <3>1
    <3> QED BY <1>1, <1>2, <3>1, <3>2
  <2> QED BY <2>1, <2>2
<1> QED BY <1>3, <1>4

LEMMA ReadIncrementStep == ASSUME OInv, ReadIncrement PROVE OInv'
<1> DEFINE offset == cursor.offset + Chunk
           last == offset \div 2
           more == [i \in 1 .. last + 1 - FirstComplete |-> FirstComplete + i - 1]
<1>1. /\ scan # None /\ Known(scan.inode, scan.size) /\ scan' = None
      /\ UNCHANGED <<text, half, inode, boot>>
      /\ fresh' = fresh \o more
      /\ cursor'.inode = scan.inode /\ cursor'.offset = offset
      /\ cursor'.partial = (IF Chunk = 0 THEN cursor.partial ELSE offset % 2 = 1)
  <2>1. cursor' = CursorAt(offset, IF Chunk = 0 THEN cursor.partial ELSE offset % 2 = 1,
                           ParseFrom(cursor.parser, text, FirstComplete, last).parser)
    BY DEF ReadIncrement
  <2> QED BY <2>1 DEF ReadIncrement, CursorAt, file
<1>2. Chunk \in Nat /\ (AtFile => offset <= Size)
  BY <1>1, ChunkBound
<1>3. FileOK' /\ ScanOK' /\ Size' = Size
  BY <1>1 DEF OInv, FileOK, ScanOK, Size
<1>4. /\ cursor # None /\ cursor.inode = scan.inode /\ cursor.offset \in Nat
      /\ cursor.inode \in Nat /\ cursor.inode <= inode /\ boot \in Nat
      /\ (AtFile' => AtFile)
  BY <1>1 DEF OInv, FileOK, CursorOK, Known, AtFile
<1>5. CursorOK'
  BY <1>1, <1>2, <1>3, <1>4 DEF OInv, CursorOK, AtFile
<1>6. ASSUME AtFile PROVE FreshOK'
  <2> DEFINE m == IF Whole > BootRecord THEN Whole ELSE BootRecord
  <2>1. /\ m \in Nat /\ BootRecord \in Nat /\ m >= BootRecord /\ FirstComplete = 1 + m
        /\ Whole \in Nat /\ Whole <= m
    BY <1>6, FirstCompleteNext
  <2>2. /\ fresh \in Seq(Nat) /\ Len(fresh) = m - BootRecord
        /\ \A i \in 1 .. Len(fresh) : fresh[i] = BootRecord + i
    BY <1>6, <2>1 DEF OInv, FreshOK
  <2>3. last \in Nat /\ last >= Whole /\ last = Whole'
    BY <1>1, <1>2, <1>4 DEF Whole
  <2> DEFINE n == IF last > m THEN last - m ELSE 0
  <2>4. more = [i \in 1 .. n |-> m + i] /\ n \in Nat
    <3>1. last + 1 - FirstComplete = last - m /\ n \in Nat
      BY <2>1, <2>3
    <3>2. 1 .. last + 1 - FirstComplete = 1 .. n
      BY <2>1, <2>3, <3>1
    <3>3. \A i \in 1 .. n : FirstComplete + i - 1 = m + i
      BY <2>1, <3>1
    <3> QED BY <3>1, <3>2, <3>3
  <2>5. BootRecord' = BootRecord
    BY <1>1 DEF BootRecord
  <2>6. m = BootRecord + Len(fresh)
    BY <2>1, <2>2
  <2> HIDE DEF more, m, last, n
  <2>7. /\ fresh' \in Seq(Nat) /\ Len(fresh') = Len(fresh) + n
        /\ \A i \in 1 .. Len(fresh') : fresh'[i] = BootRecord + i
    <3>1. /\ fresh \in Seq(Nat) /\ BootRecord \in Nat /\ n \in Nat
          /\ \A i \in 1 .. Len(fresh) : fresh[i] = BootRecord + i
      BY <2>1, <2>2, <2>4
    <3>2. /\ fresh \o more \in Seq(Nat) /\ Len(fresh \o more) = Len(fresh) + n
          /\ \A i \in 1 .. Len(fresh \o more) : (fresh \o more)[i] = BootRecord + i
      BY <2>4, <2>6, <3>1, RunOfNumbers
    <3> QED BY <1>1, <3>2
  <2>8. Len(fresh') = IF last > BootRecord THEN last - BootRecord ELSE 0
    <3>1. Len(fresh') = m - BootRecord + n
      BY <2>1, <2>2, <2>4, <2>7
    <3>2. CASE last > m
      <4>1. n = last - m
        BY <3>2 DEF n
      <4>2. last > BootRecord /\ Len(fresh') = last - BootRecord
        BY <2>1, <2>3, <3>1, <3>2, <4>1
      <4> QED BY <4>2
    <3>3. CASE ~ last > m
      <4>1. n = 0
        BY <3>3 DEF n
      <4>2. last > BootRecord => m = last
        BY <2>1, <2>3, <3>3 DEF m
      <4>3. Len(fresh') = m - BootRecord
        BY <2>1, <3>1, <4>1
      <4>4. ~ last > BootRecord => m = BootRecord
        BY <2>1, <2>3, <3>3 DEF m
      <4>5. CASE last > BootRecord
        BY <4>2, <4>3, <4>5
      <4>6. CASE ~ last > BootRecord
        <5>1. Len(fresh') = 0
          BY <2>1, <4>3, <4>4, <4>6
        <5> QED BY <4>6, <5>1
      <4> QED BY <4>5, <4>6
    <3> QED BY <3>2, <3>3
  <2> QED BY <2>3, <2>5, <2>7, <2>8 DEF FreshOK
<1>7. FreshOK'
  BY <1>4, <1>6 DEF FreshOK
<1> QED BY <1>3, <1>5, <1>7 DEF OInv

----------------------------------------------------------------------------

(* Every step keeps the invariant. *)
LEMMA OInvStep == ASSUME OInv, [ONext]_ovars PROVE OInv'
<1>1. CASE UNCHANGED ovars
  BY <1>1 DEF ovars, file, OInv, FileOK, ScanOK, CursorOK, FreshOK, AtFile, Whole, BootRecord, Size
<1>2. CASE ONext
  BY <1>2, BeginRecordStep, EndRecordStep, ReplaceStep, StatStep, BootstrapStep,
     ReadIncrementStep, ReadFailsStep DEF ONext, Read
<1> QED BY <1>1, <1>2

(* However a record is written and a file grows or is replaced, reading on *)
(* takes every later record once and in order, for any size of a file and  *)
(* any bound on a read.                                                    *)
THEOREM ReadingGoesOn == ObserverSpec => []ReadsOn
<1>1. OInit => OInv
  BY OInitInv
<1>2. OInv /\ [ONext]_ovars => OInv'
  BY OInvStep
<1>3. OInv => ReadsOn
  BY OInvReadsOn
<1> QED BY <1>1, <1>2, <1>3, PTL DEF ObserverSpec

----------------------------------------------------------------------------
(* The smallest number of a set, from which recursion is justified. *)

Less == {ss \in Nat \X Nat : ss[1] < ss[2]}

(* There is no infinite descent among the numbers. *)
LEMMA LessIsWellFounded == IsWellFoundedOn(Less, Nat)
<1>1. Less = OpToRel(<, Nat)
  BY Zenon DEF Less, OpToRel
<1>2. IsWellFoundedOn(OpToRel(<, Nat), Nat)
  BY NatLessThanWellFounded, Zenon
<1> QED BY <1>1, <1>2, Zenon

(* Every set of numbers has a smallest member. *)
LEMMA Smallest ==
  ASSUME NEW T \in SUBSET Nat, T # {}
  PROVE  \E x \in T : \A y \in T : x <= y
<1>1. \E x \in T : \A y \in T : <<y, x>> \notin Less
  BY WFMin, LessIsWellFounded, Zenon
<1>2. PICK x \in T : \A y \in T : <<y, x>> \notin Less
  BY <1>1
<1>3. ASSUME NEW y \in T PROVE x <= y
  <2>1. <<y, x>> \notin Less
    BY <1>2
  <2>2. y \in Nat /\ x \in Nat
    OBVIOUS
  <2> QED BY <2>1, <2>2 DEF Less
<1> QED BY <1>3

(* A function on 0 .. N given by its first value and its steps. *)
Steps(N, R) == [(1 .. N) \X R -> R]
Courses(N, R) == [0 .. N -> R]
Recurs(g, N, a, step) == g[0] = a /\ \A n \in 1 .. N : g[n] = step[<<n, g[n - 1]>>]

(* Such a function exists, by extending it one number at a time. *)
LEMMA RecursionExists ==
  ASSUME NEW N \in Nat, NEW R, NEW a \in R, NEW step \in Steps(N, R)
  PROVE  \E g \in Courses(N, R) : Recurs(g, N, a, step)
<1> USE DEF Steps
<1> DEFINE Solves(g, k) == \A n \in 0 .. k : g[n] = IF n = 0 THEN a ELSE step[<<n, g[n - 1]>>]
           Missing == {k \in 0 .. N : ~ \E g \in [0 .. k -> R] : Solves(g, k)}
<1>1. ASSUME Missing # {} PROVE FALSE
  <2>s. Missing \in SUBSET (0 .. N) /\ 0 .. N \subseteq Nat
    OBVIOUS
  <2>1. PICK k \in Missing : \A j \in Missing : k <= j
    <3> HIDE DEF Missing
    <3> QED BY <1>1, <2>s, Smallest
  <2>2. CASE k = 0
    <3> DEFINE g == [n \in 0 .. k |-> a]
    <3>1. g \in [0 .. k -> R] /\ Solves(g, k)
      BY <2>2
    <3> QED BY <3>1
  <2>3. CASE k # 0
    <3>1. k - 1 \in 0 .. N /\ k - 1 \notin Missing
      <4> HIDE DEF Missing
      <4> QED BY <2>s, <2>1, <2>3
    <3>2. PICK f \in [0 .. k - 1 -> R] : Solves(f, k - 1)
      BY <3>1
    <3> DEFINE b == step[<<k, f[k - 1]>>]
               g == [n \in 0 .. k |-> IF n = k THEN b ELSE f[n]]
    <3>3. b \in R
      <4>1. k \in 1 .. N /\ f[k - 1] \in R
        BY <2>3, <3>1
      <4> QED BY <4>1
    <3>4. g \in [0 .. k -> R]
      BY <3>3, <2>3
    <3>5. ASSUME NEW n \in 0 .. k PROVE g[n] = IF n = 0 THEN a ELSE step[<<n, g[n - 1]>>]
      <4>1. CASE n = k
        <5>1. g[n] = b /\ n - 1 \in 0 .. k /\ n - 1 # k
          BY <4>1, <2>3
        <5>2. g[n - 1] = f[k - 1]
          BY <5>1, <4>1
        <5> QED BY <4>1, <2>3, <5>1, <5>2
      <4>2. CASE n # k
        <5>1. n \in 0 .. k - 1
          BY <4>2
        <5>2. g[n] = f[n] /\ (n # 0 => g[n - 1] = f[n - 1])
          BY <5>1
        <5> QED BY <3>2, <5>1, <5>2
      <4> QED BY <4>1, <4>2
    <3> QED BY <3>4, <3>5
  <2> QED BY <2>2, <2>3
<1>2. PICK g \in [0 .. N -> R] : Solves(g, N)
  BY <1>1
<1>3. g[0] = a /\ \A n \in 1 .. N : g[n] = step[<<n, g[n - 1]>>]
  <2> HIDE DEF Missing
  <2>1. 0 \in 0 .. N /\ \A n \in 1 .. N : n \in 0 .. N /\ n # 0
    OBVIOUS
  <2> QED BY <1>2, <2>1
<1> QED BY <1>2, <1>3 DEF Recurs, Courses

----------------------------------------------------------------------------
(* Parsing some records of a file, one after the other. *)

States == [parser : Parsers, events : Seq(Nat)]
StartOn(p) == [parser |-> p, events |-> <<>>]

(* A record takes a parser to a parser and tells at most one event. *)
LEMMA ParseType ==
  ASSUME NEW s \in States, NEW r \in Records, NEW n \in Nat
  PROVE  Parse(s, r, n) \in States
<1>1. CASE r.type = "session_meta"
  <2>1. r.thread \in Threads
    BY <1>1, TypesAssumption DEF Records
  <2>2. SessionMeta(s.parser, r) \in Parsers
    BY <2>1 DEF SessionMeta, States, Parsers
  <2> QED BY <1>1, <2>2 DEF Parse, States, Parsers
<1>2. CASE r.type # "session_meta" /\ InCanonicalSection(s.parser)
  BY <1>2 DEF Parse, States
<1>3. CASE r.type # "session_meta" /\ ~ InCanonicalSection(s.parser)
  <2>1. RememberBoundary(s.parser, r, n) \in Parsers
    BY DEF RememberBoundary, States, Parsers
  <2> QED BY <1>3, <2>1 DEF Parse, States
<1> QED BY <1>1, <1>2, <1>3

(* The function ParseFrom applies. *)
Rests(f, records, first, last) ==
  f = [n \in Nat |->
         [s \in States |->
            IF n \in first .. last THEN f[n + 1][Parse(s, records[n], n)] ELSE s]]

(* It exists: the records left to parse become fewer. *)
LEMMA RestsExist ==
  ASSUME NEW records, NEW first \in Nat \ {0}, NEW last \in Nat,
         \A n \in first .. last : records[n] \in Records
  PROVE  \E f : Rests(f, records, first, last)
<1> DEFINE R == [States -> States]
           At(k) == last + 1 - k
           step == [x \in (1 .. last) \X R |->
                      [s \in States |-> IF At(x[1]) >= first
                                        THEN x[2][Parse(s, records[At(x[1])], At(x[1]))] ELSE s]]
           same == [s \in States |-> s]
<1>1. step \in Steps(last, R)
  <2>1. ASSUME NEW k \in 1 .. last, NEW h \in R, NEW s \in States, At(k) >= first
        PROVE  h[Parse(s, records[At(k)], At(k))] \in States
    <3>1. At(k) \in Nat /\ At(k) \in first .. last
      BY <2>1
    <3>2. Parse(s, records[At(k)], At(k)) \in States
      BY <3>1, ParseType
    <3> QED BY <3>2
  <2> HIDE DEF At
  <2> QED BY <2>1 DEF Steps
<1>2. same \in R
  OBVIOUS
<1>3. PICK g \in Courses(last, R) : Recurs(g, last, same, step)
  <2> HIDE DEF step, same, R
  <2> QED BY <1>1, <1>2, RecursionExists, Zenon
<1>4. /\ g \in [0 .. last -> R] /\ g[0] = same
      /\ \A k \in 1 .. last : g[k] = step[<<k, g[k - 1]>>]
  BY <1>3 DEF Courses, Recurs
<1>5. ASSUME NEW k \in 1 .. last, At(k) >= first, NEW s \in States
      PROVE  g[k][s] = g[k - 1][Parse(s, records[At(k)], At(k))]
  <2>1. k - 1 \in 0 .. last
    OBVIOUS
  <2>2. g[k - 1] \in R
    BY <1>4, <2>1
  <2>3. <<k, g[k - 1]>> \in (1 .. last) \X R
    BY <2>2
  <2>4. step[<<k, g[k - 1]>>] =
          [t \in States |-> IF At(k) >= first
                            THEN g[k - 1][Parse(t, records[At(k)], At(k))] ELSE t]
    <3> HIDE DEF At, R
    <3> QED BY <2>3
  <2>5. g[k] = step[<<k, g[k - 1]>>]
    BY <1>4
  <2> HIDE DEF At, R, step
  <2> QED BY <1>5, <2>4, <2>5
<1> DEFINE f == [n \in Nat |-> IF n \in first .. last THEN g[At(n)] ELSE same]
<1>6. ASSUME NEW n \in Nat
      PROVE  f[n] = [s \in States |->
                       IF n \in first .. last THEN f[n + 1][Parse(s, records[n], n)] ELSE s]
  <2>1. CASE n \notin first .. last
    BY <2>1
  <2>2. CASE n \in first .. last
    <3>1. At(n) \in 1 .. last /\ At(At(n)) = n /\ At(n) >= 0 /\ n >= first
      BY <2>2
    <3>2. f[n] = g[At(n)] /\ g[At(n)] \in R
      BY <1>4, <2>2, <3>1
    <3>3. f[n + 1] = g[At(n) - 1]
      <4>1. CASE n = last
        <5>1. n + 1 \notin first .. last /\ n + 1 \in Nat /\ At(n) - 1 = 0
          BY <4>1
        <5> QED BY <1>4, <5>1
      <4>2. CASE n # last
        <5>1. n + 1 \in first .. last /\ n + 1 \in Nat /\ At(n + 1) = At(n) - 1
          BY <2>2, <4>2
        <5> QED BY <5>1
      <4> QED BY <4>1, <4>2
    <3>4. ASSUME NEW s \in States PROVE f[n][s] = f[n + 1][Parse(s, records[n], n)]
      <4> HIDE DEF f, At
      <4> QED BY <1>5, <3>1, <3>2, <3>3
    <3> HIDE DEF f, At
    <3> QED BY <2>2, <3>2, <3>4
  <2> QED BY <2>1, <2>2
<1>7. f = [n \in Nat |->
             [s \in States |->
                IF n \in first .. last THEN f[n + 1][Parse(s, records[n], n)] ELSE s]]
  <2>1. f = [n \in Nat |-> f[n]]
    OBVIOUS
  <2> HIDE DEF f
  <2> QED BY <1>6, <2>1
<1> HIDE DEF f
<1> QED BY <1>7 DEF Rests

AreRecords(records, first, last) == \A n \in first .. last : records[n] \in Records
ParsesOn(f, records, first, last) ==
  \A n \in Nat, s \in States :
    f[n][s] = IF n \in first .. last THEN f[n + 1][Parse(s, records[n], n)] ELSE s

(* ParseFrom applies such a function. *)
LEMMA ParseFromIs ==
  ASSUME NEW p \in Parsers, NEW records, NEW first \in Nat \ {0}, NEW last \in Nat,
         AreRecords(records, first, last)
  PROVE  \E f : /\ ParseFrom(p, records, first, last) = f[first][StartOn(p)]
                /\ ParsesOn(f, records, first, last)
<1> DEFINE c == CHOOSE f : Rests(f, records, first, last)
<1>1. Rests(c, records, first, last)
  BY RestsExist DEF AreRecords
<1>2. ParseFrom(p, records, first, last) = c[first][StartOn(p)]
  BY DEF ParseFrom, Rests, States, StartOn
<1> HIDE DEF c
<1>3. \A n \in Nat : c[n] = [s \in States |->
                       IF n \in first .. last THEN c[n + 1][Parse(s, records[n], n)] ELSE s]
  BY <1>1 DEF Rests
<1>4. ASSUME NEW n \in Nat, NEW s \in States
      PROVE  c[n][s] = IF n \in first .. last THEN c[n + 1][Parse(s, records[n], n)] ELSE s
  BY <1>3
<1>5. ParsesOn(c, records, first, last)
  BY <1>4 DEF ParsesOn
<1> QED BY <1>2, <1>5

(* A new parser state is one. *)
LEMMA StartOnType == ASSUME NEW p \in Parsers PROVE StartOn(p) \in States
BY DEF StartOn, States

(* Nothing to parse. *)
LEMMA ParseNothing ==
  ASSUME NEW p \in Parsers, NEW records, NEW first \in Nat \ {0}, NEW last \in Nat, first > last
  PROVE  ParseFrom(p, records, first, last) = StartOn(p)
<1>1. AreRecords(records, first, last)
  BY DEF AreRecords
<1>2. PICK f : /\ ParseFrom(p, records, first, last) = f[first][StartOn(p)]
               /\ ParsesOn(f, records, first, last)
  BY <1>1, ParseFromIs, Zenon
<1>3. first \in Nat /\ first \notin first .. last
  OBVIOUS
<1> QED BY <1>2, <1>3, StartOnType DEF ParsesOn

(* What every record keeps holds when the last one has been parsed.        *)
LEMMA ParseInduction ==
  ASSUME NEW p \in Parsers, NEW records, NEW first \in Nat \ {0}, NEW last \in Nat, first <= last + 1,
         AreRecords(records, first, last),
         NEW G \in [Nat -> SUBSET States],
         StartOn(p) \in G[first - 1],
         \A n \in first .. last : \A s \in G[n - 1] : Parse(s, records[n], n) \in G[n]
  PROVE  ParseFrom(p, records, first, last) \in G[last]
<1>1. PICK f : /\ ParseFrom(p, records, first, last) = f[first][StartOn(p)]
               /\ ParsesOn(f, records, first, last)
  BY ParseFromIs, Zenon
<1> DEFINE Off == {k \in 0 .. last + 1 - first : \E s \in G[last - k] : f[last + 1 - k][s] \notin G[last]}
<1>2. ASSUME Off # {} PROVE FALSE
  <2>0. Off \in SUBSET Nat
    OBVIOUS
  <2>1. PICK k \in Off : \A j \in Off : k <= j
    <3> HIDE DEF Off
    <3> QED BY <1>2, <2>0, Smallest
  <2>2. k \in 0 .. last + 1 - first
    OBVIOUS
  <2>3. PICK s \in G[last - k] : f[last + 1 - k][s] \notin G[last]
    OBVIOUS
  <2>4. last - k \in Nat /\ last + 1 - k \in Nat /\ s \in States
    BY <2>2, <2>3
  <2>5. CASE k = 0
    <3>1. last + 1 - k \notin first .. last /\ last - k = last
      BY <2>2, <2>5
    <3> QED BY <1>1, <2>3, <2>4, <3>1 DEF ParsesOn
  <2>6. CASE k # 0
    <3> DEFINE n == last + 1 - k
    <3>1. n \in first .. last /\ n - 1 = last - k /\ n + 1 = last + 1 - (k - 1) /\ n = last - (k - 1)
      BY <2>2, <2>6
    <3>2. k - 1 \in 0 .. last + 1 - first /\ k - 1 \notin Off
      <4> HIDE DEF Off
      <4> QED BY <2>0, <2>1, <2>2, <2>6
    <3>3. Parse(s, records[n], n) \in G[n]
      BY <2>3, <3>1
    <3>4. f[n + 1][Parse(s, records[n], n)] \in G[last]
      BY <3>1, <3>2, <3>3
    <3>5. f[n][s] = f[n + 1][Parse(s, records[n], n)]
      BY <1>1, <2>4, <3>1 DEF ParsesOn
    <3> QED BY <2>3, <3>4, <3>5
  <2> QED BY <2>5, <2>6
<1>3. last + 1 - first \in 0 .. last + 1 - first /\ last + 1 - first \notin Off
  BY <1>2
<1>4. last - (last + 1 - first) = first - 1 /\ last + 1 - (last + 1 - first) = first
  OBVIOUS
<1>5. f[first][StartOn(p)] \in G[last]
  BY <1>3, <1>4
<1> QED BY <1>1, <1>5

----------------------------------------------------------------------------
(* Searching back from the end of a file. *)

Bottom(size) == IF size > ScanSize THEN size - ScanSize ELSE 0
InReachOf(size, n) == Bottom(size) = 0 \/ Bottom(size) < 2 * (n - 1)
LastIn(records, size) == IF size \div 2 < Len(records) THEN size \div 2 ELSE Len(records)
StartBack == [candidate |-> 0, following |-> None, found |-> 0]

(* A record takes a search to a search. *)
LEMMA StepBackType ==
  ASSUME NEW s \in Searches, NEW r \in Records, NEW n \in Nat, NEW canonical
  PROVE  StepBack(s, r, n, canonical) \in Searches
<1>1. r.type = "session_meta" => r.thread \in Threads
  BY TypesAssumption DEF Records
<1> QED BY <1>1 DEF StepBack, Searches

(* The function the search applies. *)
Backs(f, records, canonical, size) ==
  f = [n \in Nat |->
         [s \in Searches |->
            IF n \in 1 .. LastIn(records, size) /\ InReachOf(size, n)
            THEN f[n - 1][StepBack(s, records[n], n, canonical)] ELSE s.found]]
BacksOn(f, records, canonical, size) ==
  \A n \in Nat, s \in Searches :
    f[n][s] = IF n \in 1 .. LastIn(records, size) /\ InReachOf(size, n)
              THEN f[n - 1][StepBack(s, records[n], n, canonical)] ELSE s.found

(* It exists: there are fewer and fewer records above.                     *)
LEMMA BacksExist ==
  ASSUME NEW records \in Seq(Records), NEW canonical, NEW size \in Nat
  PROVE  \E f : Backs(f, records, canonical, size)
<1> DEFINE last == LastIn(records, size)
           R == [Searches -> Nat]
           step == [x \in (1 .. last) \X R |->
                      [s \in Searches |->
                         IF InReachOf(size, x[1])
                         THEN x[2][StepBack(s, records[x[1]], x[1], canonical)] ELSE s.found]]
           none == [s \in Searches |-> s.found]
<1>0. last \in Nat /\ last <= Len(records)
  BY DEF LastIn
<1>t. \A n \in 1 .. last, s \in Searches : StepBack(s, records[n], n, canonical) \in Searches
  BY <1>0, StepBackType
<1>f. \A s \in Searches : s.found \in Nat
  BY DEF Searches
<1> HIDE DEF last
<1>1. step \in Steps(last, R)
  BY <1>t, <1>f DEF Steps
<1>2. none \in R
  BY <1>f
<1>3. PICK g \in Courses(last, R) : Recurs(g, last, none, step)
  <2> HIDE DEF step, none, R
  <2> QED BY <1>0, <1>1, <1>2, RecursionExists, Zenon
<1>4. /\ g \in [0 .. last -> R] /\ g[0] = none
      /\ \A n \in 1 .. last : g[n] = step[<<n, g[n - 1]>>]
  BY <1>3 DEF Courses, Recurs
<1> DEFINE f == [n \in Nat |-> IF n \in 0 .. last THEN g[n] ELSE none]
<1>5. ASSUME NEW n \in Nat
      PROVE  f[n] = [s \in Searches |->
                       IF n \in 1 .. last /\ InReachOf(size, n)
                       THEN f[n - 1][StepBack(s, records[n], n, canonical)] ELSE s.found]
  <2>1. CASE n \notin 1 .. last
    <3>1. f[n] = none
      BY <1>4, <2>1
    <3>2. (n \in 1 .. last /\ InReachOf(size, n)) = FALSE
      BY <2>1
    <3> HIDE DEF f
    <3> QED BY <3>1, <3>2
  <2>2. CASE n \in 1 .. last
    <3>1. n - 1 \in 0 .. last /\ n - 1 \in Nat /\ n \in 0 .. last
      BY <1>0, <2>2
    <3>2. f[n] = g[n] /\ f[n - 1] = g[n - 1] /\ g[n - 1] \in R
      BY <1>4, <3>1
    <3>3. <<n, g[n - 1]>> \in (1 .. last) \X R
      BY <2>2, <3>2
    <3>4. step[<<n, g[n - 1]>>] =
            [s \in Searches |->
               IF InReachOf(size, n)
               THEN g[n - 1][StepBack(s, records[n], n, canonical)] ELSE s.found]
      <4> HIDE DEF R
      <4> QED BY <3>3
    <3>5. g[n] = step[<<n, g[n - 1]>>]
      BY <1>4, <2>2
    <3> HIDE DEF f, step, R
    <3> QED BY <2>2, <3>2, <3>4, <3>5
  <2> QED BY <2>1, <2>2
<1>6. f = [n \in Nat |->
             [s \in Searches |->
                IF n \in 1 .. last /\ InReachOf(size, n)
                THEN f[n - 1][StepBack(s, records[n], n, canonical)] ELSE s.found]]
  <2>1. f = [n \in Nat |-> f[n]]
    OBVIOUS
  <2> HIDE DEF f
  <2> QED BY <1>5, <2>1
<1> HIDE DEF f
<1> QED BY <1>6 DEF Backs, last

(* The search applies such a function. *)
LEMMA SearchIs ==
  ASSUME NEW records \in Seq(Records), NEW canonical, canonical # None, NEW size \in Nat
  PROVE  \E f : /\ FindLatestCanonicalLifecycle(records, canonical, size)
                     = f[LastIn(records, size)][StartBack]
                /\ BacksOn(f, records, canonical, size)
<1> DEFINE c == CHOOSE f : Backs(f, records, canonical, size)
<1>1. Backs(c, records, canonical, size)
  BY BacksExist
<1>2. FindLatestCanonicalLifecycle(records, canonical, size) = c[LastIn(records, size)][StartBack]
  BY DEF FindLatestCanonicalLifecycle, Backs, LastIn, InReachOf, Bottom, StartBack
<1> HIDE DEF c
<1>3. \A n \in Nat : c[n] = [s \in Searches |->
                       IF n \in 1 .. LastIn(records, size) /\ InReachOf(size, n)
                       THEN c[n - 1][StepBack(s, records[n], n, canonical)] ELSE s.found]
  BY <1>1 DEF Backs
<1>4. ASSUME NEW n \in Nat, NEW s \in Searches
      PROVE  c[n][s] = IF n \in 1 .. LastIn(records, size) /\ InReachOf(size, n)
                       THEN c[n - 1][StepBack(s, records[n], n, canonical)] ELSE s.found
  BY <1>3 DEF InReachOf
<1>5. BacksOn(c, records, canonical, size)
  BY <1>4 DEF BacksOn
<1> QED BY <1>2, <1>5

(* What every step back keeps holds where the search stops: at the         *)
(* beginning of the file or at the record it may not look at any more.     *)
LEMMA SearchInduction ==
  ASSUME NEW records \in Seq(Records), NEW canonical, canonical # None, NEW size \in Nat,
         NEW G \in [Nat -> SUBSET Searches],
         StartBack \in G[LastIn(records, size)],
         \A n \in 1 .. LastIn(records, size) : InReachOf(size, n) =>
           \A s \in G[n] : StepBack(s, records[n], n, canonical) \in G[n - 1]
  PROVE  \E n \in 0 .. LastIn(records, size) :
           /\ n = 0 \/ ~ InReachOf(size, n)
           /\ \E s \in G[n] : FindLatestCanonicalLifecycle(records, canonical, size) = s.found
<1> DEFINE last == LastIn(records, size)
           found == FindLatestCanonicalLifecycle(records, canonical, size)
<1>0. last \in Nat
  BY DEF LastIn
<1>1. PICK f : found = f[last][StartBack] /\ BacksOn(f, records, canonical, size)
  BY SearchIs
<1> DEFINE On == {n \in 0 .. last : \E s \in G[n] : f[n][s] = found}
<1>2. last \in On
  BY <1>0, <1>1
<1>3. PICK n \in On : \A m \in On : n <= m
  <2>1. On \in SUBSET Nat
    BY <1>0
  <2> HIDE DEF On
  <2> QED BY <1>2, <2>1, Smallest
<1>4. PICK s \in G[n] : f[n][s] = found
  OBVIOUS
<1>5. n \in 0 .. last /\ n \in Nat /\ s \in Searches
  BY <1>0, <1>4
<1>6. CASE n # 0 /\ InReachOf(size, n)
  <2>1. n \in 1 .. last /\ n - 1 \in 0 .. last
    BY <1>0, <1>5, <1>6
  <2>2. StepBack(s, records[n], n, canonical) \in G[n - 1]
    BY <1>4, <1>6, <2>1
  <2>3. f[n - 1][StepBack(s, records[n], n, canonical)] = found
    <3> HIDE DEF last, found
    <3>1. \A k \in Nat, t \in Searches :
            f[k][t] = IF k \in 1 .. last /\ InReachOf(size, k)
                      THEN f[k - 1][StepBack(t, records[k], k, canonical)] ELSE t.found
      BY <1>1 DEF BacksOn, last
    <3> QED BY <1>4, <1>5, <1>6, <2>1, <3>1
  <2>4. n - 1 \in On
    BY <2>1, <2>2, <2>3
  <2> HIDE DEF On
  <2> QED BY <1>0, <1>3, <1>5, <2>4
<1>7. CASE n = 0 \/ ~ InReachOf(size, n)
  <2>1. found = s.found
    <3> HIDE DEF last, found
    <3>1. \A k \in Nat, t \in Searches :
            f[k][t] = IF k \in 1 .. last /\ InReachOf(size, k)
                      THEN f[k - 1][StepBack(t, records[k], k, canonical)] ELSE t.found
      BY <1>1 DEF BacksOn, last
    <3> QED BY <1>4, <1>5, <1>7, <3>1
  <2> QED BY <1>4, <1>5, <1>7, <2>1
<1> QED BY <1>6, <1>7

----------------------------------------------------------------------------
(* What the search knows of a file that begins with the thread's own meta  *)
(* record.                                                                 *)

OwnFile(records) == records \in Seq(Records) /\ records # <<>> /\ IsOwnMeta(records[1])
Lives(records, k) == records[k].type \in Lifecycle
NoMeta(records, i, j) == \A k \in i .. j : ~ IsMeta(records[k])

(* Following is the thread of the next meta record; the candidate is the   *)
(* last lifecycle record before it; what is further on is no event.        *)
FollowingOK(records, n, s) ==
  /\ \A j \in n + 1 .. Len(records) :
       IsMeta(records[j]) /\ NoMeta(records, n + 1, j - 1) => s.following = records[j].thread
  /\ NoMeta(records, n + 1, Len(records)) => s.following = None
CandidateOK(records, n, s) ==
  IF s.candidate = 0
  THEN \A k \in n + 1 .. Len(records) : Lives(records, k) => ~ NoMeta(records, n + 1, k)
  ELSE /\ s.candidate \in n + 1 .. Len(records)
       /\ Lives(records, s.candidate) /\ NoMeta(records, n + 1, s.candidate)
       /\ \A k \in s.candidate + 1 .. Len(records) : Lives(records, k) => ~ NoMeta(records, n + 1, k)
       /\ s.following = Child => records[s.candidate].type # "task_started"
PassedOK(records, n) ==
  \A k \in n + 1 .. Len(records) :
    Lives(records, k) /\ ~ NoMeta(records, n + 1, k) => k \notin Events(records)

Looked(records, n, s) ==
  IF s.found # 0 THEN s.found = LatestOf(records, Events(records))
  ELSE FollowingOK(records, n, s) /\ CandidateOK(records, n, s) /\ PassedOK(records, n)

(* The latest event is the one after which none comes. *)
LEMMA LatestIs ==
  ASSUME NEW records, NEW E \in SUBSET Nat, NEW c \in E, Lives(records, c),
         \A n \in E : Lives(records, n) => n <= c
  PROVE  LatestOf(records, E) = c
<1> DEFINE life == {n \in E : records[n].type \in Lifecycle}
<1>1. c \in life /\ \A n \in life : n <= c
  BY DEF Lives
<1>2. PICK d : d = CHOOSE n \in life : \A m \in life : m <= n
  OBVIOUS
<1>3. d \in life /\ \A m \in life : m <= d
  BY <1>1, <1>2
<1>4. d = c
  BY <1>1, <1>3
<1> QED BY <1>1, <1>2, <1>4 DEF LatestOf

(* Without such events there is none. *)
LEMMA LatestIsNone ==
  ASSUME NEW records, NEW E, \A n \in E : ~ Lives(records, n)
  PROVE  LatestOf(records, E) = 0
BY DEF LatestOf, Lives

(* Events are records. *)
LEMMA EventsAreRecords ==
  ASSUME NEW records \in Seq(Records)
  PROVE  Events(records) \subseteq 1 .. Len(records)
BY DEF Events

(* Where no meta record comes in between, or the next one is met.          *)
LEMMA NoMetaSplits ==
  ASSUME NEW records, NEW n \in Nat, NEW k \in Nat, n + 1 <= k
  PROVE  NoMeta(records, n, k) <=> ~ IsMeta(records[n]) /\ NoMeta(records, n + 1, k)
<1>1. n .. k = {n} \cup (n + 1 .. k)
  OBVIOUS
<1> QED BY <1>1 DEF NoMeta

(* A lifecycle record is no meta record. *)
LEMMA LivesIsNoMeta ==
  ASSUME NEW records, NEW k, Lives(records, k)
  PROVE  ~ IsMeta(records[k])
BY DEF Lives, IsMeta, Lifecycle

(* The candidate is an event if the section it is in turns out to be the   *)
(* thread's own.                                                           *)
LEMMA FoundAtMeta ==
  ASSUME NEW records \in Seq(Records), NEW n \in 1 .. Len(records), NEW s \in Searches,
         s.found = 0, Looked(records, n, s), IsOwnMeta(records[n]), s.candidate # 0
  PROVE  LatestOf(records, Events(records)) = s.candidate
<1> DEFINE c == s.candidate
<1>1. /\ c \in n + 1 .. Len(records) /\ Lives(records, c) /\ NoMeta(records, n + 1, c)
      /\ \A k \in c + 1 .. Len(records) : Lives(records, k) => ~ NoMeta(records, n + 1, k)
  BY DEF Looked, CandidateOK
<1>2. c \in Events(records)
  <2>1. c \in DOMAIN records /\ n \in 1 .. c - 1 /\ records[c].type \in Telling
    BY <1>1 DEF Lives, Telling
  <2>2. \A k \in Between(n, c) : ~ IsMeta(records[k])
    BY <1>1 DEF Between, NoMeta
  <2> HIDE DEF c
  <2> QED BY <2>1, <2>2 DEF Events
<1>3. ASSUME NEW k \in Events(records), Lives(records, k) PROVE k <= c
  <2>1. k \in 1 .. Len(records)
    BY EventsAreRecords
  <2>2. ASSUME k > c PROVE FALSE
    <3>1. k \in c + 1 .. Len(records) /\ k \in n + 1 .. Len(records)
      BY <1>1, <2>1, <2>2
    <3>2. ~ NoMeta(records, n + 1, k)
      BY <1>1, <1>3, <3>1
    <3> QED BY <1>3, <3>1, <3>2 DEF Looked, PassedOK
  <2> QED BY <1>1, <2>1, <2>2
<1>4. Events(records) \in SUBSET Nat
  BY EventsAreRecords
<1> QED BY <1>1, <1>2, <1>3, <1>4, LatestIs

(* A turn started right before the thread's own meta record is an event.   *)
LEMMA FoundBeforeMeta ==
  ASSUME NEW records \in Seq(Records), NEW n \in 1 .. Len(records), NEW s \in Searches,
         s.found = 0, Looked(records, n, s), s.candidate = 0, s.following = Child,
         records[n].type = "task_started"
  PROVE  LatestOf(records, Events(records)) = n
<1>0. Child # None
  BY ObserverAssumption, ThreadsAssumption
<1>1. FollowingOK(records, n, s) /\ CandidateOK(records, n, s) /\ PassedOK(records, n)
  BY DEF Looked
<1>2. ~ NoMeta(records, n + 1, Len(records))
  BY <1>0, <1>1 DEF FollowingOK
<1>3. PICK j \in n + 1 .. Len(records) : IsMeta(records[j]) /\ NoMeta(records, n + 1, j - 1)
  <2> DEFINE Metas == {k \in n + 1 .. Len(records) : IsMeta(records[k])}
  <2>1. Metas # {} /\ Metas \in SUBSET Nat
    BY <1>2 DEF NoMeta
  <2>2. PICK j \in Metas : \A k \in Metas : j <= k
    <3> HIDE DEF Metas
    <3> QED BY <2>1, Smallest
  <2>3. NoMeta(records, n + 1, j - 1)
    <3> SUFFICES ASSUME NEW k \in n + 1 .. j - 1, IsMeta(records[k]) PROVE FALSE
      BY DEF NoMeta
    <3>1. k \in Metas /\ ~ j <= k
      OBVIOUS
    <3> QED BY <2>2, <3>1
  <2> QED BY <2>2, <2>3
<1>4. records[j].thread = Child
  BY <1>1, <1>3 DEF FollowingOK
<1>5. n \in Events(records)
  <2>1. n \in DOMAIN records /\ records[n].type \in Telling
    BY DEF Telling, Lifecycle
  <2>2. j \in n + 1 .. Len(records) /\ IsOwnMeta(records[j])
    BY <1>3, <1>4 DEF IsOwnMeta
  <2>3. ASSUME NEW k \in Between(n, j) PROVE ~ IsMeta(records[k]) /\ records[k].type \notin Lifecycle
    <3>1. k \in n + 1 .. j - 1 /\ k \in n + 1 .. Len(records)
      BY DEF Between
    <3>2. NoMeta(records, n + 1, k)
      BY <1>3, <3>1 DEF NoMeta
    <3> QED BY <1>1, <1>3, <3>1, <3>2 DEF CandidateOK, Lives, NoMeta
  <2> QED BY <2>1, <2>2, <2>3 DEF Events
<1>6. ASSUME NEW k \in Events(records), Lives(records, k) PROVE k <= n
  <2>1. k \in 1 .. Len(records)
    BY EventsAreRecords
  <2>2. ASSUME k > n PROVE FALSE
    <3>1. k \in n + 1 .. Len(records)
      BY <2>1, <2>2
    <3> QED BY <1>1, <1>6, <3>1 DEF CandidateOK, PassedOK
  <2> QED BY <2>1, <2>2
<1>7. Events(records) \in SUBSET Nat /\ Lives(records, n)
  BY EventsAreRecords DEF Lives, Lifecycle
<1> QED BY <1>5, <1>6, <1>7, LatestIs

(* A record that is no meta record belongs to the section that follows.    *)
LEMMA PastRecord ==
  ASSUME NEW records \in Seq(Records), NEW n \in 1 .. Len(records), ~ IsMeta(records[n]),
         NEW k \in n .. Len(records)
  PROVE  NoMeta(records, n, k) <=> NoMeta(records, n + 1, k)
<1>1. CASE k = n
  BY <1>1 DEF NoMeta
<1>2. CASE k # n
  <2>1. n \in Nat /\ k \in Nat /\ n + 1 <= k
    BY <1>2
  <2> QED BY <2>1, NoMetaSplits
<1> QED BY <1>1, <1>2

(* Looking at a record that is no meta record changes neither what follows *)
(* nor what has been passed.                                               *)
LEMMA PastRecordKeeps ==
  ASSUME NEW records \in Seq(Records), NEW n \in 1 .. Len(records), ~ IsMeta(records[n]),
         NEW s, FollowingOK(records, n, s), PassedOK(records, n),
         NEW t, t.following = s.following
  PROVE  FollowingOK(records, n - 1, t) /\ PassedOK(records, n - 1)
<1>0. (n - 1) + 1 = n /\ Len(records) \in n .. Len(records)
  OBVIOUS
<1>1. ASSUME NEW j \in n .. Len(records), IsMeta(records[j]), NoMeta(records, n, j - 1)
      PROVE  t.following = records[j].thread
  <2>1. j # n /\ j \in n + 1 .. Len(records)
    BY <1>1
  <2>2. NoMeta(records, n + 1, j - 1)
    BY <1>1 DEF NoMeta
  <2> QED BY <1>1, <2>1, <2>2 DEF FollowingOK
<1>2. ASSUME NoMeta(records, n, Len(records)) PROVE t.following = None
  BY <1>0, <1>2, PastRecord DEF FollowingOK
<1>3. ASSUME NEW k \in n .. Len(records), Lives(records, k), ~ NoMeta(records, n, k)
      PROVE  k \notin Events(records)
  <2>1. ~ NoMeta(records, n + 1, k)
    BY <1>3, PastRecord
  <2>2. k # n
    BY <2>1 DEF NoMeta
  <2>3. k \in n + 1 .. Len(records)
    BY <2>2
  <2> QED BY <1>3, <2>1, <2>3 DEF PassedOK
<1> QED BY <1>0, <1>1, <1>2, <1>3 DEF FollowingOK, PassedOK

(* What comes right before another meta record is no event.                *)
LEMMA PassedAtMeta ==
  ASSUME NEW records \in Seq(Records), NEW n \in 1 .. Len(records), NEW s \in Searches,
         IsMeta(records[n]), FollowingOK(records, n, s), CandidateOK(records, n, s),
         PassedOK(records, n), s.candidate = 0 \/ records[n].thread # Child
  PROVE  PassedOK(records, n - 1)
<1>0. (n - 1) + 1 = n
  OBVIOUS
<1> SUFFICES ASSUME NEW k \in n .. Len(records), Lives(records, k), k \in Events(records)
             PROVE  FALSE
  BY <1>0 DEF PassedOK
<1>1. k # n /\ k \in n + 1 .. Len(records)
  BY LivesIsNoMeta
<1>2. NoMeta(records, n + 1, k)
  BY <1>1 DEF PassedOK
<1>3. s.candidate # 0 /\ records[n].thread # Child /\ k <= s.candidate
  <2>1. s.candidate # 0
    BY <1>1, <1>2 DEF CandidateOK
  <2>2. ASSUME k > s.candidate PROVE FALSE
    <3>1. k \in s.candidate + 1 .. Len(records)
      BY <1>1, <2>1, <2>2 DEF CandidateOK
    <3> QED BY <1>2, <2>1, <3>1 DEF CandidateOK
  <2>3. s.candidate \in Nat
    BY DEF Searches
  <2> QED BY <1>1, <2>1, <2>2, <2>3
<1>4. CASE \E m \in 1 .. k - 1 : /\ IsOwnMeta(records[m])
                                 /\ \A i \in Between(m, k) : ~ IsMeta(records[i])
  <2>1. PICK m \in 1 .. k - 1 : /\ IsOwnMeta(records[m])
                                /\ \A i \in Between(m, k) : ~ IsMeta(records[i])
    BY <1>4
  <2>2. m # n
    BY <1>3, <2>1 DEF IsOwnMeta
  <2>3. CASE m < n
    <3>1. n \in Between(m, k)
      BY <1>1, <2>3 DEF Between
    <3> QED BY <2>1, <3>1
  <2>4. CASE m > n
    <3>1. m \in n + 1 .. k
      BY <2>1, <2>4
    <3> QED BY <1>2, <2>1, <3>1 DEF NoMeta, IsOwnMeta
  <2> QED BY <2>2, <2>3, <2>4
<1>5. CASE /\ records[k].type = "task_started"
           /\ \E m \in k + 1 .. Len(records) :
                /\ IsOwnMeta(records[m])
                /\ \A i \in Between(k, m) : ~ IsMeta(records[i]) /\ records[i].type \notin Lifecycle
  <2> DEFINE c == s.candidate
  <2>1. PICK m \in k + 1 .. Len(records) :
               /\ IsOwnMeta(records[m])
               /\ \A i \in Between(k, m) : ~ IsMeta(records[i]) /\ records[i].type \notin Lifecycle
    BY <1>5
  <2>c. /\ c \in n + 1 .. Len(records) /\ Lives(records, c) /\ NoMeta(records, n + 1, c)
        /\ s.following = Child => records[c].type # "task_started"
    BY <1>3 DEF CandidateOK
  <2>2. m > c
    <3>1. ASSUME m <= c PROVE FALSE
      <4>1. m \in n + 1 .. c
        BY <1>1, <2>1, <2>c, <3>1
      <4> QED BY <2>1, <2>c, <4>1 DEF NoMeta, IsOwnMeta
    <3> QED BY <1>1, <2>1, <2>c, <3>1
  <2>3. c = k
    <3>1. ASSUME c # k PROVE FALSE
      <4>1. c \in Between(k, m)
        BY <1>1, <1>3, <2>1, <2>2, <2>c, <3>1 DEF Between
      <4> QED BY <2>1, <2>c, <4>1 DEF Lives
    <3> QED BY <3>1
  <2>4. NoMeta(records, n + 1, m - 1)
    <3> SUFFICES ASSUME NEW i \in n + 1 .. m - 1 PROVE ~ IsMeta(records[i])
      BY DEF NoMeta
    <3>1. CASE i <= k
      BY <1>1, <1>2, <3>1 DEF NoMeta
    <3>2. CASE i > k
      BY <1>1, <2>1, <3>2 DEF Between
    <3> QED BY <1>1, <3>1, <3>2
  <2>5. s.following = Child
    <3>1. m \in n + 1 .. Len(records)
      BY <1>1, <2>1
    <3> QED BY <2>1, <2>4, <3>1 DEF FollowingOK, IsOwnMeta
  <2> QED BY <1>5, <2>3, <2>5, <2>c
<1> QED BY <1>4, <1>5 DEF Events

(* A step back keeps what is known. *)
LEMMA StepBackLooks ==
  ASSUME NEW records \in Seq(Records), NEW n \in 1 .. Len(records), NEW s \in Searches,
         Looked(records, n, s)
  PROVE  Looked(records, n - 1, StepBack(s, records[n], n, Child))
<1> DEFINE r == records[n]
<1>t. PICK t : t = StepBack(s, r, n, Child)
  OBVIOUS
<1>0. (n - 1) + 1 = n /\ n \in n .. Len(records)
  OBVIOUS
<1>1. CASE s.found # 0
  BY <1>1 DEF Looked, StepBack
<1>2. CASE s.found = 0 /\ IsMeta(r)
  <2>0. FollowingOK(records, n, s) /\ CandidateOK(records, n, s) /\ PassedOK(records, n)
    BY <1>2 DEF Looked
  <2>1. CASE s.candidate # 0 /\ r.thread = Child
    <3>1. t = [s EXCEPT !.found = s.candidate]
      BY <1>t, <1>2, <2>1 DEF StepBack, IsMeta
    <3>2. t.found = s.candidate
      BY <3>1 DEF Searches
    <3>3. LatestOf(records, Events(records)) = s.candidate
      BY <1>2, <2>1, FoundAtMeta DEF IsOwnMeta
    <3> QED BY <1>t, <2>1, <3>2, <3>3 DEF Looked
  <2>2. CASE s.candidate = 0 \/ r.thread # Child
    <3>1. t = [s EXCEPT !.candidate = 0, !.following = r.thread]
      BY <1>t, <1>2, <2>2 DEF StepBack, IsMeta
    <3>2. t.candidate = 0 /\ t.following = r.thread /\ t.found = 0
      BY <1>2, <3>1 DEF Searches
    <3>3. PassedOK(records, n - 1)
      BY <1>2, <2>0, <2>2, PassedAtMeta
    <3>4. \A k \in n .. Len(records) : ~ NoMeta(records, n, k)
      BY <1>2 DEF NoMeta
    <3>5. CandidateOK(records, n - 1, t)
      <4> QED BY <1>0, <3>2, <3>4 DEF CandidateOK
    <3>6. FollowingOK(records, n - 1, t)
      <4>1. ASSUME NEW j \in n .. Len(records), NoMeta(records, n, j - 1) PROVE j = n
        <5>1. CASE j > n
          <6>1. n \in n .. j - 1
            BY <5>1
          <6> QED BY <1>2, <4>1, <6>1 DEF NoMeta
        <5> QED BY <5>1
      <4>2. ~ NoMeta(records, n, Len(records))
        BY <3>4
      <4> QED BY <1>0, <3>2, <4>1, <4>2 DEF FollowingOK
    <3> QED BY <1>t, <3>2, <3>3, <3>5, <3>6 DEF Looked
  <2> QED BY <2>1, <2>2
<1>3. CASE s.found = 0 /\ ~ IsMeta(r)
  <2>0. FollowingOK(records, n, s) /\ CandidateOK(records, n, s) /\ PassedOK(records, n)
    BY <1>3 DEF Looked
  <2>n. NoMeta(records, n, n) /\ NoMeta(records, n + 1, n)
    BY <1>3 DEF NoMeta
  <2>1. CASE r.type \in Lifecycle /\ s.candidate = 0 /\ s.following = Child /\ r.type = "task_started"
    <3>1. t.found = n
      BY <1>t, <1>3, <2>1 DEF StepBack, IsMeta, Searches
    <3>2. LatestOf(records, Events(records)) = n
      BY <1>3, <2>1, FoundBeforeMeta
    <3> QED BY <1>t, <3>1, <3>2 DEF Looked
  <2>2. CASE /\ r.type \in Lifecycle /\ s.candidate = 0
             /\ ~ (s.following = Child /\ r.type = "task_started")
    <3>1. t.candidate = n /\ t.following = s.following /\ t.found = 0
      BY <1>t, <1>3, <2>2 DEF StepBack, IsMeta, Searches
    <3>2. FollowingOK(records, n - 1, t) /\ PassedOK(records, n - 1)
      <4> QED BY <1>3, <2>0, <3>1, PastRecordKeeps
    <3>3. CandidateOK(records, n - 1, t)
      <4>1. \A k \in n + 1 .. Len(records) : Lives(records, k) => ~ NoMeta(records, n, k)
        BY <1>3, <2>0, <2>2, PastRecord DEF CandidateOK
      <4> QED BY <1>0, <2>n, <2>2, <3>1, <4>1 DEF CandidateOK, Lives
    <3> QED BY <1>t, <3>1, <3>2, <3>3 DEF Looked
  <2>3. CASE ~ (r.type \in Lifecycle /\ s.candidate = 0)
    <3>1. t = s
      BY <1>t, <1>3, <2>3 DEF StepBack, IsMeta
    <3>2. FollowingOK(records, n - 1, t) /\ PassedOK(records, n - 1)
      <4> QED BY <1>3, <2>0, <3>1, PastRecordKeeps
    <3>3. CandidateOK(records, n - 1, s)
      <4>1. CASE s.candidate = 0
        <5>1. \A k \in n .. Len(records) : Lives(records, k) => ~ NoMeta(records, n, k)
          BY <1>3, <2>0, <2>3, <4>1, PastRecord DEF CandidateOK, Lives
        <5> QED BY <1>0, <4>1, <5>1 DEF CandidateOK
      <4>2. CASE s.candidate # 0
        <5>1. /\ s.candidate \in n + 1 .. Len(records) /\ s.candidate \in n .. Len(records)
              /\ NoMeta(records, n, s.candidate)
          BY <1>3, <2>0, <4>2, PastRecord DEF CandidateOK
        <5>2. \A k \in s.candidate + 1 .. Len(records) : Lives(records, k) => ~ NoMeta(records, n, k)
          BY <1>3, <2>0, <4>2, <5>1, PastRecord DEF CandidateOK
        <5> QED BY <1>0, <2>0, <4>2, <5>1, <5>2 DEF CandidateOK
      <4> QED BY <4>1, <4>2
    <3> QED BY <1>t, <1>3, <3>1, <3>2, <3>3 DEF Looked
  <2> QED BY <2>1, <2>2, <2>3
<1> QED BY <1>1, <1>2, <1>3

(* The search of a file from its end finds the latest lifecycle event, or  *)
(* none where it may not look at all of the file.                          *)
LEMMA SearchFinds ==
  ASSUME NEW records, OwnFile(records), NEW size \in Nat, LastIn(records, size) = Len(records)
  PROVE  /\ FindLatestCanonicalLifecycle(records, Child, size)
              \in {0, LatestOf(records, Events(records))}
         /\ size <= ScanSize => FindLatestCanonicalLifecycle(records, Child, size)
                                  = LatestOf(records, Events(records))
<1> DEFINE found == FindLatestCanonicalLifecycle(records, Child, size)
           latest == LatestOf(records, Events(records))
           G == [n \in Nat |-> {s \in Searches : Looked(records, n, s)}]
<1>0. records \in Seq(Records) /\ Len(records) \in Nat /\ Len(records) > 0 /\ IsOwnMeta(records[1])
  BY DEF OwnFile
<1>c. Child # None
  BY ObserverAssumption, ThreadsAssumption
<1>1. G \in [Nat -> SUBSET Searches]
  OBVIOUS
<1>2. StartBack \in G[Len(records)]
  <2>1. StartBack \in Searches /\ StartBack.found = 0
    BY DEF StartBack, Searches
  <2>2. Looked(records, Len(records), StartBack)
    BY <1>0 DEF Looked, StartBack, FollowingOK, CandidateOK, PassedOK
  <2> QED BY <1>0, <2>1, <2>2
<1>3. ASSUME NEW n \in 1 .. Len(records), NEW s \in G[n]
      PROVE  StepBack(s, records[n], n, Child) \in G[n - 1]
  <2>1. n \in Nat /\ n - 1 \in Nat /\ records[n] \in Records
    BY <1>0
  <2>2. s \in Searches /\ Looked(records, n, s)
    BY <2>1
  <2>3. Looked(records, n - 1, StepBack(s, records[n], n, Child))
    BY <1>0, <2>2, StepBackLooks
  <2>4. StepBack(s, records[n], n, Child) \in Searches
    BY <2>1, <2>2, StepBackType
  <2> QED BY <2>1, <2>3, <2>4
<1>4. PICK n \in 0 .. Len(records) :
        /\ n = 0 \/ ~ InReachOf(size, n)
        /\ \E s \in G[n] : found = s.found
  <2> HIDE DEF G
  <2>1. StartBack \in G[LastIn(records, size)]
    BY <1>2
  <2>2. \A n \in 1 .. LastIn(records, size) : InReachOf(size, n) =>
           \A s \in G[n] : StepBack(s, records[n], n, Child) \in G[n - 1]
    BY <1>3
  <2> QED BY <1>0, <1>1, <1>c, <2>1, <2>2, SearchInduction
<1>5. PICK s \in Searches : Looked(records, n, s) /\ found = s.found
  BY <1>0, <1>4
<1>6. found \in {0, latest}
  BY <1>5 DEF Looked
<1>7. ASSUME size <= ScanSize PROVE found = latest
  <2>1. n = 0
    <3>1. Bottom(size) = 0
      BY <1>7, SizesAssumption DEF Bottom
    <3> QED BY <1>4, <3>1 DEF InReachOf
  <2>2. CASE s.found # 0
    BY <1>5, <2>2 DEF Looked
  <2>3. CASE s.found = 0
    <3>1. ASSUME NEW k \in Events(records) PROVE ~ Lives(records, k)
      <4>1. k \in 1 .. Len(records) /\ 1 \in 1 .. k
        BY <1>0, EventsAreRecords
      <4>2. ~ NoMeta(records, 0 + 1, k)
        BY <1>0, <4>1 DEF NoMeta, IsOwnMeta
      <4> QED BY <1>5, <2>1, <2>3, <3>1, <4>1, <4>2 DEF Looked, PassedOK
    <3> QED BY <1>5, <2>3, <3>1, LatestIsNone
  <2> QED BY <2>2, <2>3
<1> QED BY <1>6, <1>7

(* A file begins with the meta record of its thread. *)
OwnInv == text # <<>> => IsOwnMeta(text[1])

(* Only its first record is at its beginning. *)
LEMMA OwnStep == ASSUME OInv, OwnInv, [ONext]_ovars PROVE OwnInv'
<1>1. CASE UNCHANGED text
  BY <1>1 DEF OwnInv
<1>2. ASSUME NEW r \in Records, EndRecord(r) PROVE OwnInv'
  <2>1. text \in Seq(Records) /\ text' = Append(text, r)
    BY <1>2 DEF OInv, FileOK, EndRecord
  <2>2. CASE text = <<>>
    <3>1. r = [type |-> "session_meta", thread |-> Child] /\ text'[1] = r
      BY <1>2, <2>1, <2>2 DEF EndRecord
    <3> QED BY <3>1 DEF OwnInv, IsOwnMeta, IsMeta
  <2>3. CASE text # <<>>
    <3>1. text'[1] = text[1]
      BY <2>1, <2>3
    <3> QED BY <2>3, <3>1 DEF OwnInv
  <2> QED BY <2>2, <2>3
<1>3. CASE Replace
  BY <1>3 DEF Replace, OwnInv
<1> QED
  BY <1>1, <1>2, <1>3 DEF ONext, BeginRecord, Stat, Read, Bootstrap, ReadIncrement, ReadFails,
                           file, ovars

(* The file always is the thread's own. *)
LEMMA OwnInvariance == ObserverSpec => [](OInv /\ OwnInv)
<1>1. OInit => OwnInv
  BY DEF OInit, OwnInv
<1> QED BY <1>1, OInitInv, OInvStep, OwnStep, PTL DEF ObserverSpec

(* However a file comes about and wherever sections of ancestors are in    *)
(* it, the search from its end finds the thread's latest lifecycle event,  *)
(* or possibly none where the file is longer than it may look at.          *)
THEOREM SearchAlwaysAgrees == ObserverSpec => []SearchAgrees
<1>1. OInv /\ OwnInv => SearchAgrees
  <2> SUFFICES ASSUME OInv, OwnInv, text # <<>>
               PROVE  LET found == FindLatestCanonicalLifecycle(text, Child, Size)
                          latest == LatestOf(text, Events(text))
                      IN /\ found \in {0, latest}
                         /\ Size <= ScanSize => found = latest
    BY DEF SearchAgrees
  <2>1. OwnFile(text)
    BY DEF OInv, FileOK, OwnInv, OwnFile
  <2>2. Size \in Nat /\ LastIn(text, Size) = Len(text)
    BY DEF OInv, FileOK, Size, LastIn
  <2> QED BY <2>1, <2>2, SearchFinds
<1> QED BY <1>1, OwnInvariance, PTL

----------------------------------------------------------------------------
(* The types.  Positions told are those of records a file may have.        *)

Positions == 1 .. MaxRecords
BoundParsers == {p \in Parsers : p.boundary <= MaxRecords}
BoundStates == {s \in States : s.parser \in BoundParsers /\ s.events \in Seq(Positions)}

(* The parser goes on in the canonical section. *)
LEMMA ResumeIs ==
  ASSUME NEW p \in Parsers
  PROVE  /\ ResumeCanonicalSection(p) \in Parsers
         /\ ResumeCanonicalSection(p).canonical = p.canonical
         /\ ResumeCanonicalSection(p).section = p.canonical
         /\ ResumeCanonicalSection(p).boundary = 0
BY DEF ResumeCanonicalSection, Parsers

(* What parsing some records gives, where there are such records.          *)
LEMMA ParseFromType ==
  ASSUME NEW p \in BoundParsers, NEW records \in Seq(Records), Len(records) <= MaxRecords,
         NEW first \in Nat \ {0}, NEW last \in Nat, first <= last => last <= Len(records)
  PROVE  ParseFrom(p, records, first, last) \in BoundStates
<1>0. MaxRecords \in Nat /\ Len(records) \in Nat
  BY Bounds
<1>p. p \in Parsers /\ StartOn(p) \in BoundStates
  <2>1. p \in Parsers
    BY DEF BoundParsers
  <2>2. StartOn(p).parser = p /\ StartOn(p).events = <<>> /\ <<>> \in Seq(Positions)
    BY DEF StartOn
  <2>3. StartOn(p) \in States
    BY <2>1, StartOnType
  <2> QED BY <2>1, <2>2, <2>3 DEF BoundStates
<1>1. CASE first > last
  BY <1>1, <1>p, ParseNothing
<1>2. CASE ~ first > last
  <2> DEFINE G == [n \in Nat |-> BoundStates]
  <2>1. G \in [Nat -> SUBSET States] /\ G[last] = BoundStates /\ G[first - 1] = BoundStates
    BY DEF BoundStates
  <2>2. first <= last /\ last <= Len(records) /\ first <= last + 1
    BY <1>2
  <2>3. AreRecords(records, first, last)
    BY <2>2 DEF AreRecords
  <2>4. ASSUME NEW n \in first .. last, NEW s \in G[n - 1] PROVE Parse(s, records[n], n) \in G[n]
    <3>1. s \in BoundStates /\ n \in Positions /\ records[n] \in Records /\ n \in Nat
      BY <1>0, <2>2 DEF Positions
    <3>2. Parse(s, records[n], n) \in States
      BY <3>1, ParseType DEF BoundStates
    <3>3. Parse(s, records[n], n).parser.boundary \in {0, n, s.parser.boundary}
      BY <3>1 DEF Parse, SessionMeta, RememberBoundary, BoundStates, States, Parsers
    <3>4. Parse(s, records[n], n).parser.boundary <= MaxRecords
      BY <1>0, <3>1, <3>3 DEF BoundStates, BoundParsers, Positions
    <3>5. \/ Parse(s, records[n], n).events = s.events
          \/ Parse(s, records[n], n).events = Append(s.events, n)
          \/ /\ Parse(s, records[n], n).events = Append(s.events, s.parser.boundary)
             /\ s.parser.boundary # 0
      BY <3>1 DEF Parse, BoundStates, States
    <3>6. s.parser.boundary # 0 => s.parser.boundary \in Positions
      BY <1>0, <3>1 DEF BoundStates, BoundParsers, Parsers, Positions
    <3>7. s.events \in Seq(Positions)
      BY <3>1 DEF BoundStates
    <3>8. Parse(s, records[n], n).events \in Seq(Positions)
      <4>1. PICK e : e = Parse(s, records[n], n).events
        OBVIOUS
      <4>2. CASE e = s.events
        BY <3>7, <4>1, <4>2
      <4>3. CASE e = Append(s.events, n)
        BY <3>1, <3>7, <4>1, <4>3
      <4>4. CASE e = Append(s.events, s.parser.boundary) /\ s.parser.boundary # 0
        BY <3>6, <3>7, <4>1, <4>4
      <4> QED BY <3>5, <4>1, <4>2, <4>3, <4>4
    <3>9. Parse(s, records[n], n) \in BoundStates
      <4>1. Parse(s, records[n], n).parser \in Parsers
        BY <3>2 DEF States
      <4> QED BY <3>2, <3>4, <3>8, <4>1 DEF BoundStates, BoundParsers
    <3> QED BY <3>1, <3>9
  <2> HIDE DEF G
  <2>5. ParseFrom(p, records, first, last) \in G[last]
    BY <1>p, <2>1, <2>2, <2>3, <2>4, ParseInduction
  <2> QED BY <2>1, <2>5
<1> QED BY <1>1, <1>2

(* What the search finds is a record. *)
LEMMA SearchType ==
  ASSUME NEW records \in Seq(Records), NEW canonical, NEW size \in Nat
  PROVE  FindLatestCanonicalLifecycle(records, canonical, size) \in 0 .. Len(records)
<1>1. CASE canonical = None
  BY <1>1 DEF FindLatestCanonicalLifecycle
<1>2. CASE canonical # None
  <2> DEFINE S == {s \in Searches : s.candidate <= Len(records) /\ s.found <= Len(records)}
             G == [n \in Nat |-> S]
  <2>0. LastIn(records, size) \in Nat /\ LastIn(records, size) <= Len(records)
    BY DEF LastIn
  <2>1. G \in [Nat -> SUBSET Searches] /\ \A n \in Nat : G[n] = S
    OBVIOUS
  <2>2. StartBack \in S
    BY DEF StartBack, Searches
  <2>3. ASSUME NEW n \in 1 .. LastIn(records, size), NEW s \in S
        PROVE  StepBack(s, records[n], n, canonical) \in S
    <3>1. n \in Nat /\ n <= Len(records) /\ records[n] \in Records /\ s \in Searches
      BY <2>0
    <3>2. StepBack(s, records[n], n, canonical) \in Searches
      BY <3>1, StepBackType
    <3>3. /\ StepBack(s, records[n], n, canonical).candidate \in {0, n, s.candidate}
          /\ StepBack(s, records[n], n, canonical).found \in {n, s.candidate, s.found}
      BY <3>1 DEF StepBack, Searches
    <3>4. /\ StepBack(s, records[n], n, canonical).candidate <= Len(records)
          /\ StepBack(s, records[n], n, canonical).found <= Len(records)
      BY <3>1, <3>3
    <3> QED BY <3>2, <3>4
  <2>4. \A n \in 1 .. LastIn(records, size) : InReachOf(size, n) =>
           \A s \in G[n] : StepBack(s, records[n], n, canonical) \in G[n - 1]
    <3>1. \A n \in 1 .. LastIn(records, size) : n \in Nat /\ n - 1 \in Nat
      BY <2>0
    <3> HIDE DEF S, G
    <3> QED BY <2>1, <2>3, <3>1
  <2>5. StartBack \in G[LastIn(records, size)]
    <3> HIDE DEF S, G
    <3> QED BY <2>0, <2>1, <2>2
  <2>6. PICK n \in 0 .. LastIn(records, size) :
          \E s \in G[n] : FindLatestCanonicalLifecycle(records, canonical, size) = s.found
    <3> HIDE DEF S, G
    <3> QED BY <1>2, <2>1, <2>4, <2>5, SearchInduction
  <2>7. PICK s \in S : FindLatestCanonicalLifecycle(records, canonical, size) = s.found
    <3>1. n \in Nat
      BY <2>0
    <3> HIDE DEF S, G
    <3> QED BY <2>1, <2>6, <3>1
  <2>8. s.found \in Nat /\ s.found <= Len(records)
    BY <2>7 DEF Searches
  <2> QED BY <2>7, <2>8
<1> QED BY <1>1, <1>2

(* What a baseline gives. *)
LEMMA BaselineType ==
  ASSUME NEW records \in Seq(Records), Len(records) <= MaxRecords, NEW size \in Nat
  PROVE  Baseline(records, size) \in BoundStates
<1>0. MaxRecords \in Nat /\ Len(records) \in Nat /\ TailSize \in Nat /\ HeadSize \in Nat
  BY Bounds, SizesAssumption
<1>n. NewParser \in BoundParsers
  BY <1>0 DEF NewParser, BoundParsers, Parsers
<1>1. FullRead(records) \in BoundStates
  BY <1>0, <1>n, ParseFromType DEF FullRead
<1>2. ASSUME size > TailSize PROVE TailRead(records, size) \in BoundStates
  <2>1. HeadParser(records) \in BoundParsers
    <3> DEFINE last == IF HeadSize \div 2 < Len(records) THEN HeadSize \div 2 ELSE Len(records)
    <3>1. last \in Nat /\ last <= Len(records)
      BY <1>0
    <3>2. ParseFrom(NewParser, records, 1, last) \in BoundStates
      BY <1>n, <3>1, ParseFromType
    <3>3. HeadParser(records) = ParseFrom(NewParser, records, 1, last).parser
      BY DEF HeadParser
    <3> QED BY <3>2, <3>3 DEF BoundStates
  <2>2. ResumeCanonicalSection(HeadParser(records)) \in BoundParsers
    BY <1>0, <2>1, ResumeIs DEF BoundParsers
  <2>3. FirstOfTail(size) \in Nat \ {0}
    BY <1>0, <1>2 DEF FirstOfTail
  <2> QED BY <1>0, <2>2, <2>3, ParseFromType DEF TailRead
<1>3. CASE size <= TailSize
  BY <1>1, <1>3 DEF Baseline
<1>4. CASE ~ size <= TailSize
  <2>1. PICK tail : tail = TailRead(records, size)
    OBVIOUS
  <2>2. tail \in BoundStates
    BY <1>0, <1>2, <1>4, <2>1
  <2>3. PICK found : found = FindLatestCanonicalLifecycle(records, tail.parser.canonical, size)
    OBVIOUS
  <2>4. found \in 0 .. Len(records)
    BY <2>3, SearchType
  <2>5. Baseline(records, size) =
          IF HasLifecycle(records, tail.events) \/ found = 0 THEN tail
          ELSE [parser |-> ResumeCanonicalSection(tail.parser), events |-> Append(tail.events, found)]
    BY <1>4, <2>1, <2>3 DEF Baseline
  <2>6. CASE Baseline(records, size) = tail
    BY <2>2, <2>6
  <2>7. CASE /\ Baseline(records, size) =
                  [parser |-> ResumeCanonicalSection(tail.parser), events |-> Append(tail.events, found)]
             /\ found # 0
    <3>1. found \in Positions /\ tail.events \in Seq(Positions)
      BY <1>0, <2>2, <2>4, <2>7 DEF BoundStates, Positions
    <3>2. Append(tail.events, found) \in Seq(Positions) /\ Append(tail.events, found) \in Seq(Nat)
      BY <1>0, <3>1 DEF Positions
    <3>3. ResumeCanonicalSection(tail.parser) \in BoundParsers
      BY <1>0, <2>2, ResumeIs DEF BoundStates, BoundParsers
    <3>4. ResumeCanonicalSection(tail.parser) \in Parsers
      BY <3>3 DEF BoundParsers
    <3>5. PICK q \in BoundParsers, e \in Seq(Positions) :
            Baseline(records, size) = [parser |-> q, events |-> e] /\ e \in Seq(Nat) /\ q \in Parsers
      BY <2>7, <3>2, <3>3, <3>4
    <3> QED BY <3>5 DEF BoundStates, States
  <2> QED BY <2>5, <2>6, <2>7
<1> QED BY <1>3, <1>4

Offsets == 0 .. 2 * MaxRecords
Cursors == [inode : 1 .. MaxFiles, offset : Offsets, partial : BOOLEAN, parser : BoundParsers]
Scans == [inode : 1 .. MaxFiles, size : Offsets]

(* Everything but the file itself, which FileOK is about. *)
TypesOK ==
  /\ inode \in 1 .. MaxFiles
  /\ cursor \in Cursors \cup {None}
  /\ scan \in Scans \cup {None}
  /\ boot \in Offsets
  /\ clean \in BOOLEAN
  /\ fresh \in Seq(Positions)
  /\ told \subseteq Positions

(* The invariants say that the types are right. *)
LEMMA TypesSuffice == OInv /\ TypesOK => ObserverTypeOK
<1>1. BoundParsers \subseteq Parsers
  BY DEF BoundParsers
<1> QED BY <1>1 DEF OInv, FileOK, TypesOK, ObserverTypeOK, Cursors, Scans, Offsets, Positions

(* At the start nothing has been read. *)
LEMMA TypesInit == OInit => TypesOK
<1>1. 1 \in 1 .. MaxFiles /\ 0 \in Offsets
  BY ObserverAssumption DEF Offsets
<1>2. <<>> \in Seq(Positions)
  OBVIOUS
<1> QED BY <1>1, <1>2 DEF OInit, TypesOK

(* Events are positions. *)
LEMMA EventsType ==
  ASSUME NEW s \in BoundStates
  PROVE  s.parser \in BoundParsers /\ {s.events[i] : i \in DOMAIN s.events} \subseteq Positions
BY DEF BoundStates

(* A baseline, or none where the file cannot be read. *)
LEMMA TypesOfBaseline ==
  ASSUME TypesOK, scan # None, NEW p \in BoundParsers,
         cursor' = CursorAt(scan.size, FALSE, p), boot' = scan.size, fresh' = <<>>,
         scan' = None, inode' = inode, clean' \in BOOLEAN, told' \subseteq Positions
  PROVE  TypesOK'
<1>1. scan \in Scans
  BY DEF TypesOK
<1>2. cursor' \in Cursors /\ boot' \in Offsets
  BY <1>1 DEF CursorAt, Cursors, Scans
<1>3. fresh' \in Seq(Positions)
  OBVIOUS
<1> QED BY <1>2, <1>3 DEF TypesOK

(* A record that is read on is one of the file. *)
LEMMA ReadOnType ==
  ASSUME OInv, TypesOK, scan # None, Known(scan.inode, scan.size)
  PROVE  /\ Chunk \in Nat /\ cursor.offset + Chunk \in Offsets
         /\ FirstComplete \in Nat \ {0} /\ (cursor.offset + Chunk) \div 2 \in Nat
         /\ FirstComplete <= (cursor.offset + Chunk) \div 2 =>
              (cursor.offset + Chunk) \div 2 <= Len(text)
<1>1. /\ cursor \in Cursors /\ scan \in Scans /\ cursor.offset <= scan.size
  BY DEF TypesOK, Known
<1>2. /\ cursor.offset \in Nat /\ scan.size \in Nat /\ cursor.offset <= 2 * MaxRecords
      /\ Size \in 0 .. 2 * MaxRecords /\ MaxIncrement \in Nat /\ MaxRecords \in Nat
  BY <1>1, Bounds, SizeBound DEF Cursors, Scans, Offsets, OInv
<1>3. Chunk \in Nat /\ (Chunk # 0 => cursor.offset + Chunk <= Size)
  BY <1>1, <1>2 DEF Chunk
<1>4. cursor.offset + Chunk \in Offsets
  BY <1>2, <1>3 DEF Offsets
<1>5. FirstComplete \in Nat \ {0} /\ FirstComplete > cursor.offset \div 2
  <2>1. CASE cursor.offset % 2 = 1
    <3>1. (cursor.offset + 1) \div 2 = cursor.offset \div 2 + 1
      BY <1>2, <2>1
    <3>2. FirstComplete \in {(cursor.offset + 1) \div 2, (cursor.offset + 1) \div 2 + 1}
      BY DEF FirstComplete
    <3> QED BY <1>2, <3>1, <3>2
  <2>2. CASE cursor.offset % 2 # 1
    <3>1. FirstComplete = (cursor.offset + 1) \div 2 + 1
      BY <2>2 DEF FirstComplete
    <3> QED BY <1>2, <3>1
  <2> QED BY <2>1, <2>2
<1>6. ASSUME FirstComplete <= (cursor.offset + Chunk) \div 2
      PROVE  (cursor.offset + Chunk) \div 2 <= Len(text)
  <2>1. Chunk # 0
    BY <1>2, <1>5, <1>6
  <2>2. cursor.offset + Chunk <= Size
    BY <1>3, <2>1
  <2>3. Len(text) \in Nat /\ Size <= 2 * Len(text) + 1
    BY DEF OInv, FileOK, Size
  <2> QED BY <1>2, <1>3, <2>2, <2>3
<1>7. (cursor.offset + Chunk) \div 2 \in Nat
  BY <1>2, <1>3
<1> QED BY <1>3, <1>4, <1>5, <1>6, <1>7

(* Reading on. *)
LEMMA TypesReadIncrement == ASSUME OInv, TypesOK, ReadIncrement PROVE TypesOK'
<1> DEFINE offset == cursor.offset + Chunk
           last == offset \div 2
           more == [i \in 1 .. last + 1 - FirstComplete |-> FirstComplete + i - 1]
<1>1. /\ scan # None /\ Known(scan.inode, scan.size) /\ scan' = None
      /\ inode' = inode /\ boot' = boot /\ clean' = clean
  BY DEF ReadIncrement, file
<1>2. cursor \in Cursors /\ scan \in Scans
  BY <1>1 DEF TypesOK, Known
<1>3. /\ Chunk \in Nat /\ offset \in Offsets /\ FirstComplete \in Nat \ {0} /\ last \in Nat
      /\ FirstComplete <= last => last <= Len(text)
  BY <1>1, ReadOnType
<1>4. text \in Seq(Records) /\ Len(text) <= MaxRecords /\ Len(text) \in Nat
  BY DEF OInv, FileOK
<1>5. PICK read : read = ParseFrom(cursor.parser, text, FirstComplete, last)
  OBVIOUS
<1>6. read \in BoundStates
  <2>1. cursor.parser \in BoundParsers
    BY <1>2 DEF Cursors
  <2> HIDE DEF last
  <2> QED BY <1>3, <1>4, <1>5, <2>1, ParseFromType
<1>7. /\ cursor' = CursorAt(offset, IF Chunk = 0 THEN cursor.partial ELSE offset % 2 = 1, read.parser)
      /\ told' = told \cup {read.events[i] : i \in DOMAIN read.events}
      /\ fresh' = fresh \o more
  BY <1>5 DEF ReadIncrement
<1>8. cursor' \in Cursors
  <2>1. (IF Chunk = 0 THEN cursor.partial ELSE offset % 2 = 1) \in BOOLEAN
    BY <1>2 DEF Cursors
  <2>2. PICK b \in BOOLEAN : cursor' = CursorAt(offset, b, read.parser)
    BY <1>7, <2>1
  <2> HIDE DEF offset
  <2> QED BY <1>2, <1>3, <1>6, <2>2, EventsType DEF CursorAt, Cursors, Scans
<1>9. told' \subseteq Positions
  BY <1>6, <1>7, EventsType DEF TypesOK
<1>10. fresh' \in Seq(Positions)
  <2>1. more \in Seq(Positions)
    <3>1. CASE FirstComplete <= last
      <4>1. last + 1 - FirstComplete \in Nat
        BY <1>3, <3>1
      <4>2. ASSUME NEW i \in 1 .. last + 1 - FirstComplete PROVE FirstComplete + i - 1 \in Positions
        <5>1. last <= MaxRecords
          BY <1>3, <1>4, <3>1, Bounds
        <5> HIDE DEF last
        <5> QED BY <1>3, <5>1, Bounds DEF Positions
      <4> HIDE DEF last
      <4> QED BY <4>1, <4>2
    <3>2. CASE ~ FirstComplete <= last
      <4>1. 1 .. last + 1 - FirstComplete = {}
        BY <1>3, <3>2
      <4>2. more = <<>>
        BY <4>1
      <4> HIDE DEF more
      <4> QED BY <4>2
    <3> QED BY <3>1, <3>2
  <2> HIDE DEF more
  <2> QED BY <1>7, <2>1 DEF TypesOK
<1> QED BY <1>1, <1>8, <1>9, <1>10 DEF TypesOK

(* Every step keeps the types. *)
LEMMA TypesStep == ASSUME OInv, TypesOK, [ONext]_ovars PROVE TypesOK'
<1>f. text \in Seq(Records) /\ Len(text) <= MaxRecords
  BY DEF OInv, FileOK
<1>1. CASE UNCHANGED ovars
  BY <1>1 DEF ovars, file, TypesOK
<1>2. CASE BeginRecord \/ \E r \in Records : EndRecord(r)
  BY <1>2 DEF BeginRecord, EndRecord, TypesOK
<1>3. CASE Replace
  <2>1. inode' \in 1 .. MaxFiles
    BY <1>3, ObserverAssumption DEF Replace, TypesOK
  <2>2. 0 \in Offsets /\ <<>> \in Seq(Positions)
    BY Bounds DEF Offsets
  <2> QED BY <1>3, <2>1, <2>2 DEF Replace, TypesOK
<1>4. CASE Stat
  <2>1. scan' \in Scans
    BY <1>4, SizeBound DEF Stat, TypesOK, Scans, Offsets, OInv
  <2> QED BY <1>4, <2>1 DEF Stat, TypesOK, file
<1>5. CASE Bootstrap
  <2>1. scan # None /\ scan \in Scans
    BY <1>5 DEF Bootstrap, TypesOK
  <2>2. scan.size \in Nat
    BY <2>1 DEF Scans, Offsets
  <2>3. PICK baseline : baseline = Baseline(text, scan.size)
    OBVIOUS
  <2>4. baseline \in BoundStates
    BY <1>f, <2>2, <2>3, BaselineType
  <2>5. /\ cursor' = CursorAt(scan.size, FALSE, baseline.parser)
        /\ told' = told \cup {baseline.events[i] : i \in DOMAIN baseline.events}
        /\ boot' = scan.size /\ fresh' = <<>> /\ scan' = None /\ inode' = inode
        /\ clean' \in BOOLEAN
    BY <1>5, <2>3 DEF Bootstrap, file
  <2>6. baseline.parser \in BoundParsers /\ told' \subseteq Positions
    BY <2>4, <2>5, EventsType DEF TypesOK
  <2> QED BY <2>1, <2>5, <2>6, TypesOfBaseline
<1>6. CASE ReadIncrement
  BY <1>6, TypesReadIncrement
<1>7. CASE ReadFails
  <2>1. CASE Known(scan.inode, scan.size)
    BY <1>7, <2>1 DEF ReadFails, TypesOK, file
  <2>2. CASE ~ Known(scan.inode, scan.size)
    <3>1. NewParser \in BoundParsers
      BY Bounds DEF NewParser, BoundParsers, Parsers
    <3>2. /\ scan # None /\ cursor' = CursorAt(scan.size, FALSE, NewParser)
          /\ boot' = scan.size /\ fresh' = <<>> /\ scan' = None /\ inode' = inode
          /\ clean' = FALSE /\ told' = told
      BY <1>7, <2>2 DEF ReadFails, file
    <3>3. clean' \in BOOLEAN /\ told' \subseteq Positions
      BY <3>2 DEF TypesOK
    <3> QED BY <3>1, <3>2, <3>3, TypesOfBaseline
  <2> QED BY <2>1, <2>2
<1> QED BY <1>1, <1>2, <1>3, <1>4, <1>5, <1>6, <1>7 DEF ONext, Read

(* With files and reads of any size, every position told or remembered is  *)
(* that of a record the file may have, also where a file was replaced      *)
(* between stat and read.                                                  *)
THEOREM ObserverTypes == ObserverSpec => []ObserverTypeOK
BY OInitInv, OInvStep, TypesInit, TypesStep, TypesSuffice, PTL DEF ObserverSpec

----------------------------------------------------------------------------
(* What a file tells up to a record: the reference definition of events,   *)
(* one record at a time.                                                   *)

(* The record after the first k is in a section of the thread's own.       *)
InOwn(records, k) == \E m \in 1 .. k : IsOwnMeta(records[m]) /\ NoMeta(records, m + 1, k)
Quiet(records, i, j) == \A k \in i .. j : ~ IsMeta(records[k]) /\ ~ Lives(records, k)

(* A turn that is the thread's own if its meta record comes next. *)
Pending(records, k, e) ==
  /\ e \in 1 .. k
  /\ records[e].type = "task_started"
  /\ ~ InOwn(records, e - 1)
  /\ Quiet(records, e + 1, k)

EventsTo(records, k) ==
  {e \in 1 .. k :
     /\ records[e].type \in Telling
     /\ \/ InOwn(records, e - 1)
        \/ /\ records[e].type = "task_started"
           /\ \E m \in e + 1 .. k : IsOwnMeta(records[m]) /\ Quiet(records, e + 1, m - 1)}

(* The section a record leaves behind. *)
LEMMA InOwnNext ==
  ASSUME NEW records, NEW n \in Nat \ {0}
  PROVE  InOwn(records, n) <=> \/ IsOwnMeta(records[n])
                               \/ ~ IsMeta(records[n]) /\ InOwn(records, n - 1)
<1>1. ASSUME InOwn(records, n), ~ IsOwnMeta(records[n])
      PROVE  ~ IsMeta(records[n]) /\ InOwn(records, n - 1)
  <2>1. PICK m \in 1 .. n : IsOwnMeta(records[m]) /\ NoMeta(records, m + 1, n)
    BY <1>1 DEF InOwn
  <2>2. m # n
    BY <1>1, <2>1
  <2>3. n \in m + 1 .. n /\ m \in 1 .. n - 1
    BY <2>2
  <2>4. NoMeta(records, m + 1, n - 1)
    BY <2>1 DEF NoMeta
  <2> QED BY <2>1, <2>3, <2>4 DEF InOwn, NoMeta
<1>2. ASSUME IsOwnMeta(records[n]) PROVE InOwn(records, n)
  <2>1. n \in 1 .. n /\ NoMeta(records, n + 1, n)
    BY DEF NoMeta
  <2> QED BY <1>2, <2>1 DEF InOwn
<1>3. ASSUME ~ IsMeta(records[n]), InOwn(records, n - 1) PROVE InOwn(records, n)
  <2>1. PICK m \in 1 .. n - 1 : IsOwnMeta(records[m]) /\ NoMeta(records, m + 1, n - 1)
    BY <1>3 DEF InOwn
  <2>2. NoMeta(records, m + 1, n)
    BY <1>3, <2>1 DEF NoMeta
  <2>3. m \in 1 .. n
    OBVIOUS
  <2> QED BY <2>1, <2>2, <2>3 DEF InOwn
<1> QED BY <1>1, <1>2, <1>3

(* A turn that waits for a meta record is in no section of the thread's.   *)
LEMMA PendingIsForeign ==
  ASSUME NEW records, NEW k \in Nat, NEW e, Pending(records, k, e)
  PROVE  ~ InOwn(records, k)
<1> SUFFICES ASSUME InOwn(records, k) PROVE FALSE
  OBVIOUS
<1>0. e \in 1 .. k
  BY DEF Pending
<1>1. PICK m \in 1 .. k : IsOwnMeta(records[m]) /\ NoMeta(records, m + 1, k)
  BY DEF InOwn
<1>2. CASE m > e
  <2>1. m \in e + 1 .. k
    BY <1>0, <1>2
  <2> QED BY <1>1, <2>1 DEF Pending, Quiet, IsOwnMeta
<1>3. CASE m = e
  BY <1>1, <1>3 DEF Pending, IsOwnMeta, IsMeta
<1>4. CASE m < e
  <2>1. m \in 1 .. e - 1 /\ NoMeta(records, m + 1, e - 1)
    BY <1>0, <1>1, <1>4 DEF NoMeta
  <2> QED BY <1>1, <2>1 DEF Pending, InOwn
<1> QED BY <1>0, <1>2, <1>3, <1>4

(* One turn waits at a time. *)
LEMMA OnePending ==
  ASSUME NEW records, NEW k \in Nat, NEW d, NEW e, Pending(records, k, d), Pending(records, k, e)
  PROVE  d = e
<1>0. d \in 1 .. k /\ e \in 1 .. k
  BY DEF Pending
<1>1. CASE d < e
  <2>1. e \in d + 1 .. k
    BY <1>0, <1>1
  <2> QED BY <2>1 DEF Pending, Quiet, Lives, Lifecycle
<1>2. CASE e < d
  <2>1. d \in e + 1 .. k
    BY <1>0, <1>2
  <2> QED BY <2>1 DEF Pending, Quiet, Lives, Lifecycle
<1> QED BY <1>0, <1>1, <1>2

(* What waits after another record. *)
LEMMA PendingNext ==
  ASSUME NEW records, NEW n \in Nat \ {0}, NEW e
  PROVE  Pending(records, n, e) <=>
           \/ e = n /\ records[n].type = "task_started" /\ ~ InOwn(records, n - 1)
           \/ Pending(records, n - 1, e) /\ ~ IsMeta(records[n]) /\ ~ Lives(records, n)
<1>1. CASE e = n
  <2>1. Quiet(records, n + 1, n) /\ ~ (e \in 1 .. n - 1) /\ n \in 1 .. n
    BY <1>1 DEF Quiet
  <2> QED BY <1>1, <2>1 DEF Pending
<1>2. CASE e # n
  <2>1. e \in 1 .. n <=> e \in 1 .. n - 1
    BY <1>2
  <2>2. ASSUME e \in 1 .. n - 1
        PROVE  Quiet(records, e + 1, n) <=>
                 Quiet(records, e + 1, n - 1) /\ ~ IsMeta(records[n]) /\ ~ Lives(records, n)
    <3>1. e + 1 .. n = (e + 1 .. n - 1) \cup {n}
      BY <2>2
    <3> QED BY <3>1 DEF Quiet
  <2> QED BY <1>2, <2>1, <2>2 DEF Pending
<1> QED BY <1>1, <1>2

(* What another record adds to the events. *)
LEMMA EventsNext ==
  ASSUME NEW records, NEW n \in Nat \ {0}, NEW e
  PROVE  e \in EventsTo(records, n) <=>
           \/ e \in EventsTo(records, n - 1)
           \/ e = n /\ records[n].type \in Telling /\ InOwn(records, n - 1)
           \/ Pending(records, n - 1, e) /\ IsOwnMeta(records[n])
<1>1. CASE e = n
  <2>1. e \notin EventsTo(records, n - 1) /\ ~ Pending(records, n - 1, e)
    BY <1>1 DEF EventsTo, Pending
  <2>2. n \in 1 .. n /\ n + 1 .. n = {}
    OBVIOUS
  <2> QED BY <1>1, <2>1, <2>2 DEF EventsTo
<1>2. CASE e # n
  <2>1. e \in 1 .. n <=> e \in 1 .. n - 1
    BY <1>2
  <2>2. ASSUME e \in 1 .. n - 1, records[e].type = "task_started"
        PROVE  records[e].type \in Telling
    BY <2>2 DEF Telling, Lifecycle
  <2>3. ASSUME e \in 1 .. n - 1
        PROVE  (\E m \in e + 1 .. n : IsOwnMeta(records[m]) /\ Quiet(records, e + 1, m - 1))
               <=> \/ \E m \in e + 1 .. n - 1 : IsOwnMeta(records[m]) /\ Quiet(records, e + 1, m - 1)
                   \/ IsOwnMeta(records[n]) /\ Quiet(records, e + 1, n - 1)
    <3>1. e + 1 .. n = (e + 1 .. n - 1) \cup {n}
      BY <2>3
    <3> QED BY <3>1
  <2> QED BY <1>2, <2>1, <2>2, <2>3 DEF EventsTo, Pending
<1> QED BY <1>1, <1>2

(* All events of a file. *)
LEMMA EventsAreToEnd ==
  ASSUME NEW records \in Seq(Records)
  PROVE  Events(records) = EventsTo(records, Len(records))
<1>0. DOMAIN records = 1 .. Len(records)
  OBVIOUS
<1>1. ASSUME NEW e \in 1 .. Len(records), records[e].type \in Telling
      PROVE  (\E m \in 1 .. e - 1 : /\ IsOwnMeta(records[m])
                                    /\ \A k \in Between(m, e) : ~ IsMeta(records[k]))
             <=> InOwn(records, e - 1)
  BY DEF InOwn, NoMeta, Between
<1>2. ASSUME NEW e \in 1 .. Len(records)
      PROVE  (\E m \in e + 1 .. Len(records) :
                /\ IsOwnMeta(records[m])
                /\ \A k \in Between(e, m) : ~ IsMeta(records[k]) /\ records[k].type \notin Lifecycle)
             <=> \E m \in e + 1 .. Len(records) : IsOwnMeta(records[m]) /\ Quiet(records, e + 1, m - 1)
  BY DEF Quiet, Between, Lives
<1> QED BY <1>0, <1>1, <1>2 DEF Events, EventsTo

(* The events of a piece of a file. *)
LEMMA EventsOfPrefix ==
  ASSUME NEW records \in Seq(Records), NEW k \in 0 .. Len(records)
  PROVE  /\ SubSeq(records, 1, k) \in Seq(Records) /\ Len(SubSeq(records, 1, k)) = k
         /\ \A n \in 1 .. k : SubSeq(records, 1, k)[n] = records[n]
         /\ Events(SubSeq(records, 1, k)) = EventsTo(records, k)
<1> DEFINE piece == SubSeq(records, 1, k)
<1>1. piece \in Seq(Records) /\ Len(piece) = k /\ \A n \in 1 .. k : piece[n] = records[n]
  OBVIOUS
<1> HIDE DEF piece
<1>2. ASSUME NEW e \in 1 .. k PROVE InOwn(piece, e - 1) <=> InOwn(records, e - 1)
  BY <1>1 DEF InOwn, NoMeta
<1>3. ASSUME NEW e \in 1 .. k, NEW m \in e + 1 .. k
      PROVE  Quiet(piece, e + 1, m - 1) <=> Quiet(records, e + 1, m - 1)
  BY <1>1 DEF Quiet, Lives
<1>4. EventsTo(piece, k) = EventsTo(records, k)
  <2>1. ASSUME NEW e \in 1 .. k, NEW m \in e + 1 .. k PROVE piece[m] = records[m]
    BY <1>1
  <2> QED BY <1>1, <1>2, <1>3, <2>1 DEF EventsTo
<1> QED BY <1>1, <1>4, EventsAreToEnd DEF piece

----------------------------------------------------------------------------
(* What a parser that knows its thread learns of the records from a place  *)
(* on.                                                                     *)

Given(s) == {s.events[i] : i \in DOMAIN s.events}

(* The parser after record n: its section is the file's, what it told are  *)
(* the events, and its boundary is the turn that waits.                    *)
SectionExact(records, n, s) ==
  /\ s.parser.canonical = IF n = 0 THEN None ELSE Child
  /\ s.parser.section = Child <=> InOwn(records, n)
EventsExact(records, first, n, s) ==
  \A e \in Nat : e \in Given(s) <=> e \in EventsTo(records, n) /\ first <= e
BoundaryExact(records, first, n, s) ==
  IF s.parser.boundary = 0
  THEN \A e \in Nat : first <= e => ~ Pending(records, n, e)
  ELSE Pending(records, n, s.parser.boundary) /\ first <= s.parser.boundary

Exact(records, first, n, s) ==
  SectionExact(records, n, s) /\ EventsExact(records, first, n, s) /\ BoundaryExact(records, first, n, s)

(* One event more. *)
LEMMA GivenAppend ==
  ASSUME NEW s \in States, NEW e \in Nat, NEW t, t.events = Append(s.events, e)
  PROVE  Given(t) = Given(s) \cup {e}
<1>1. s.events \in Seq(Nat)
  BY DEF States
<1>2. PICK ev : ev = s.events
  OBVIOUS
<1>3. DOMAIN ev = 1 .. Len(ev) /\ Len(ev) \in Nat /\ DOMAIN Append(ev, e) = 1 .. Len(ev) + 1
      /\ \A i \in 1 .. Len(ev) : Append(ev, e)[i] = ev[i]
      /\ Append(ev, e)[Len(ev) + 1] = e
  BY <1>1, <1>2
<1>4. {Append(ev, e)[i] : i \in DOMAIN Append(ev, e)} = {ev[i] : i \in DOMAIN ev} \cup {e}
  <2>1. 1 .. Len(ev) + 1 = (1 .. Len(ev)) \cup {Len(ev) + 1}
    BY <1>3
  <2> QED BY <1>3, <2>1
<1> QED BY <1>2, <1>4 DEF Given

(* At the file's own meta record nothing waits yet. *)
LEMMA NothingBefore ==
  ASSUME NEW records
  PROVE  ~ InOwn(records, 0) /\ EventsTo(records, 0) = {} /\ \A e : ~ Pending(records, 0, e)
BY DEF InOwn, EventsTo, Pending

(* A meta record begins a section, and settles whose a waiting turn is.    *)
LEMMA ExactMeta ==
  ASSUME NEW records, OwnFile(records), NEW first \in Nat \ {0}, NEW n \in 1 .. Len(records), first <= n,
         NEW s \in States, Exact(records, first, n - 1, s), IsMeta(records[n])
  PROVE  Exact(records, first, n, Parse(s, records[n], n))
<1> DEFINE r == records[n]
           p == s.parser
           q == SessionMeta(p, r)
           t == Parse(s, r, n)
<1>0. Child # None /\ records \in Seq(Records) /\ r \in Records /\ n \in Nat /\ n # 0
  BY ObserverAssumption, ThreadsAssumption DEF OwnFile
<1>1. t = [parser |-> q,
           events |-> IF InCanonicalSection(q) /\ p.boundary # 0
                      THEN Append(s.events, p.boundary) ELSE s.events]
  BY DEF Parse, IsMeta
<1>2. q = [canonical |-> Child, section |-> r.thread, boundary |-> 0]
  <2>1. CASE n = 1
    BY <2>1 DEF OwnFile, IsOwnMeta, Exact, SectionExact, SessionMeta
  <2>2. CASE n # 1
    BY <1>0, <2>2 DEF Exact, SectionExact, SessionMeta
  <2> QED BY <2>1, <2>2
<1>3. InCanonicalSection(q) <=> IsOwnMeta(r)
  BY <1>0, <1>2 DEF InCanonicalSection, IsOwnMeta
<1>4. SectionExact(records, n, t)
  BY <1>0, <1>1, <1>2, InOwnNext DEF SectionExact, IsOwnMeta
<1>5. r.type # "task_started" /\ r.type \notin Telling
  BY DEF IsMeta, Telling, Lifecycle
<1>6. ASSUME NEW e PROVE ~ Pending(records, n, e)
  BY <1>0, <1>5, PendingNext
<1>7. BoundaryExact(records, first, n, t)
  BY <1>1, <1>2, <1>6 DEF BoundaryExact
<1>8. ASSUME NEW e PROVE e \in EventsTo(records, n) <=>
                           \/ e \in EventsTo(records, n - 1)
                           \/ Pending(records, n - 1, e) /\ IsOwnMeta(r)
  BY <1>0, <1>5, EventsNext
<1>9. EventsExact(records, first, n, t)
  <2>0. p.boundary \in Nat
    BY DEF States, Parsers
  <2>1. CASE IsOwnMeta(r) /\ p.boundary # 0
    <3>1. t.events = Append(s.events, p.boundary)
      BY <1>1, <1>3, <2>1
    <3>2. Given(t) = Given(s) \cup {p.boundary}
      BY <2>0, <3>1, GivenAppend
    <3>3. ASSUME NEW e \in Nat PROVE Pending(records, n - 1, e) /\ first <= e <=> e = p.boundary
      BY <1>0, <2>1, OnePending DEF Exact, BoundaryExact
    <3> HIDE DEF r, t, p
    <3> QED BY <1>8, <2>1, <3>2, <3>3 DEF Exact, EventsExact, p
  <2>2. CASE ~ (IsOwnMeta(r) /\ p.boundary # 0)
    <3>1. t.events = s.events
      BY <1>1, <1>3, <2>2
    <3>2. Given(t) = Given(s)
      BY <3>1 DEF Given
    <3>3. ASSUME NEW e \in Nat, first <= e PROVE ~ (Pending(records, n - 1, e) /\ IsOwnMeta(r))
      BY <2>2, <3>3 DEF Exact, BoundaryExact
    <3> HIDE DEF r, t, p
    <3> QED BY <1>8, <3>2, <3>3 DEF Exact, EventsExact
  <2> QED BY <2>1, <2>2
<1> HIDE DEF t
<1> QED BY <1>4, <1>7, <1>9 DEF Exact, t

(* Another record is told, or may be a turn that waits. *)
LEMMA ExactOther ==
  ASSUME NEW records, OwnFile(records), NEW first \in Nat \ {0}, NEW n \in 1 .. Len(records), first <= n,
         NEW s \in States, Exact(records, first, n - 1, s), ~ IsMeta(records[n])
  PROVE  Exact(records, first, n, Parse(s, records[n], n))
<1> DEFINE r == records[n]
           p == s.parser
           t == Parse(s, r, n)
<1>0. Child # None /\ n \in Nat /\ n # 0 /\ n # 1
  BY ObserverAssumption, ThreadsAssumption DEF OwnFile, IsOwnMeta
<1>1. p.canonical = Child /\ (p.section = Child <=> InOwn(records, n - 1))
  BY <1>0 DEF Exact, SectionExact
<1>2. InCanonicalSection(p) <=> InOwn(records, n - 1)
  BY <1>0, <1>1 DEF InCanonicalSection
<1>3. InOwn(records, n) <=> InOwn(records, n - 1)
  BY <1>0, InOwnNext DEF IsOwnMeta
<1>4. ASSUME NEW e PROVE e \in EventsTo(records, n) <=>
                           \/ e \in EventsTo(records, n - 1)
                           \/ e = n /\ r.type \in Telling /\ InOwn(records, n - 1)
  BY <1>0, EventsNext DEF IsOwnMeta
<1>5. ASSUME NEW e PROVE Pending(records, n, e) <=>
                           \/ e = n /\ r.type = "task_started" /\ ~ InOwn(records, n - 1)
                           \/ Pending(records, n - 1, e) /\ ~ Lives(records, n)
  BY <1>0, PendingNext
<1>6. CASE InOwn(records, n - 1)
  <2>1. t = [s EXCEPT !.events = IF r.type \in Telling THEN Append(@, n) ELSE @]
    BY <1>2, <1>6 DEF Parse, IsMeta
  <2>2. t.parser = p
    BY <2>1 DEF States
  <2>3. SectionExact(records, n, t)
    BY <1>0, <1>1, <1>3, <2>2 DEF SectionExact
  <2>4. ASSUME NEW e PROVE ~ Pending(records, n - 1, e)
    BY <1>0, <1>6, PendingIsForeign
  <2>5. BoundaryExact(records, first, n, t)
    BY <1>5, <1>6, <2>2, <2>4 DEF Exact, BoundaryExact
  <2>6. Given(t) = Given(s) \cup (IF r.type \in Telling THEN {n} ELSE {})
    <3>1. CASE r.type \in Telling
      <4>1. t.events = Append(s.events, n)
        BY <2>1, <3>1 DEF States
      <4> QED BY <1>0, <3>1, <4>1, GivenAppend
    <3>2. CASE r.type \notin Telling
      <4>1. t.events = s.events
        BY <2>1, <3>2 DEF States
      <4> QED BY <3>2, <4>1 DEF Given
    <3> QED BY <3>1, <3>2
  <2>7. EventsExact(records, first, n, t)
    <3> HIDE DEF r, t, p
    <3> QED BY <1>0, <1>4, <1>6, <2>6 DEF Exact, EventsExact
  <2> HIDE DEF t
  <2> QED BY <2>3, <2>5, <2>7 DEF Exact, t
<1>7. CASE ~ InOwn(records, n - 1)
  <2>1. t = [s EXCEPT !.parser = RememberBoundary(p, r, n)]
    BY <1>2, <1>7 DEF Parse, IsMeta
  <2>2. t.parser = RememberBoundary(p, r, n) /\ t.events = s.events /\ Given(t) = Given(s)
    BY <2>1 DEF States, Given
  <2>3. p \in Parsers
    BY DEF States
  <2>4. /\ t.parser.canonical = p.canonical /\ t.parser.section = p.section
        /\ t.parser.boundary = IF Lives(records, n)
                               THEN IF r.type = "task_started" THEN n ELSE 0
                               ELSE p.boundary
    BY <2>2, <2>3 DEF RememberBoundary, Parsers, Lives
  <2>5. SectionExact(records, n, t)
    BY <1>0, <1>1, <1>3, <2>4 DEF SectionExact
  <2>6. EventsExact(records, first, n, t)
    <3> HIDE DEF r, t, p
    <3> QED BY <1>4, <1>7, <2>2 DEF Exact, EventsExact
  <2>7. BoundaryExact(records, first, n, t)
    <3>1. r.type = "task_started" => Lives(records, n)
      BY DEF Lives, Lifecycle
    <3>2. BoundaryExact(records, first, n - 1, s)
      BY DEF Exact
    <3> HIDE DEF r, t
    <3> QED BY <1>0, <1>5, <1>7, <2>4, <3>1, <3>2 DEF BoundaryExact
  <2> HIDE DEF t
  <2> QED BY <2>5, <2>6, <2>7 DEF Exact, t
<1> QED BY <1>6, <1>7

(* Parsing on from where all is exact is exact. *)
LEMMA ParseIsExact ==
  ASSUME NEW records, OwnFile(records), NEW p \in Parsers,
         NEW first \in Nat \ {0}, NEW last \in Nat, first <= last + 1, last <= Len(records),
         Exact(records, first, first - 1, StartOn(p))
  PROVE  /\ ParseFrom(p, records, first, last) \in States
         /\ Exact(records, first, last, ParseFrom(p, records, first, last))
<1> DEFINE G == [n \in Nat |-> {s \in States : Exact(records, first, n, s)}]
<1>0. records \in Seq(Records) /\ Len(records) \in Nat
  BY DEF OwnFile
<1>1. G \in [Nat -> SUBSET States]
  OBVIOUS
<1>2. AreRecords(records, first, last)
  BY <1>0 DEF AreRecords
<1>3. StartOn(p) \in G[first - 1]
  BY StartOnType
<1>4. ASSUME NEW n \in first .. last, NEW s \in G[n - 1] PROVE Parse(s, records[n], n) \in G[n]
  <2>1. n \in 1 .. Len(records) /\ first <= n /\ n \in Nat /\ n - 1 \in Nat /\ records[n] \in Records
    BY <1>0
  <2>2. s \in States /\ Exact(records, first, n - 1, s)
    BY <2>1
  <2>3. Parse(s, records[n], n) \in States
    BY <2>1, <2>2, ParseType
  <2>4. Exact(records, first, n, Parse(s, records[n], n))
    BY <2>1, <2>2, ExactMeta, ExactOther
  <2> QED BY <2>1, <2>3, <2>4
<1> HIDE DEF G
<1>5. ParseFrom(p, records, first, last) \in G[last]
  BY <1>1, <1>2, <1>3, <1>4, ParseInduction
<1> QED BY <1>5 DEF G

(* Nothing is known at the beginning of a file. *)
LEMMA NewParserIsExact ==
  ASSUME NEW records
  PROVE  NewParser \in Parsers /\ Exact(records, 1, 0, StartOn(NewParser))
<1>1. Child # None
  BY ObserverAssumption, ThreadsAssumption
<1> QED BY <1>1, NothingBefore
        DEF NewParser, Parsers, StartOn, Exact, SectionExact, EventsExact, BoundaryExact, Given

(* The first records of a file. *)
LEMMA FirstRecordsAreExact ==
  ASSUME NEW records, OwnFile(records), NEW last \in 0 .. Len(records)
  PROVE  /\ ParseFrom(NewParser, records, 1, last) \in States
         /\ Exact(records, 1, last, ParseFrom(NewParser, records, 1, last))
<1>1. Exact(records, 1, 1 - 1, StartOn(NewParser)) /\ NewParser \in Parsers
  BY NewParserIsExact
<1>2. 1 \in Nat \ {0} /\ last \in Nat /\ 1 <= last + 1 /\ last <= Len(records)
  BY DEF OwnFile
<1> QED BY <1>1, <1>2, ParseIsExact

(* The last event of a turn's life, if there is one. *)
LEMMA LatestOfIs ==
  ASSUME NEW records, NEW N \in Nat, NEW E \in SUBSET (1 .. N), NEW n \in E, Lives(records, n)
  PROVE  /\ LatestOf(records, E) \in E /\ Lives(records, LatestOf(records, E))
         /\ \A k \in E : Lives(records, k) => k <= LatestOf(records, E)
<1> DEFINE Back == {j \in 0 .. N : N - j \in E /\ Lives(records, N - j)}
<1>1. N - (N - n) = n /\ N - n \in 0 .. N
  OBVIOUS
<1>2. Back \in SUBSET Nat /\ Back # {}
  BY <1>1
<1>3. PICK j \in Back : \A i \in Back : j <= i
  <2> HIDE DEF Back
  <2> QED BY <1>2, Smallest
<1>4. PICK c : c = N - j
  OBVIOUS
<1>5. c \in E /\ Lives(records, c)
  BY <1>4
<1>6. ASSUME NEW k \in E, Lives(records, k) PROVE k <= c
  <2>1. N - (N - k) = k /\ N - k \in 0 .. N
    OBVIOUS
  <2>2. N - k \in Back
    BY <1>6, <2>1
  <2>3. j \in 0 .. N /\ j <= N - k
    BY <1>3, <2>2
  <2> QED BY <1>4, <2>3
<1>7. E \in SUBSET Nat
  OBVIOUS
<1>8. LatestOf(records, E) = c
  BY <1>5, <1>6, <1>7, LatestIs
<1> QED BY <1>5, <1>6, <1>8

(* The head tells the thread a file belongs to. *)
LEMMA HeadKnows ==
  ASSUME NEW records, OwnFile(records), HeadSize >= 2
  PROVE  HeadParser(records) \in Parsers /\ HeadParser(records).canonical = Child
<1>0. Len(records) \in Nat /\ Len(records) # 0 /\ HeadSize \in Nat
  BY SizesAssumption DEF OwnFile
<1>1. PICK last : last = IF HeadSize \div 2 < Len(records) THEN HeadSize \div 2 ELSE Len(records)
  OBVIOUS
<1>2. last \in 0 .. Len(records) /\ last # 0
  BY <1>0, <1>1
<1>3. /\ ParseFrom(NewParser, records, 1, last) \in States
      /\ Exact(records, 1, last, ParseFrom(NewParser, records, 1, last))
  BY <1>2, FirstRecordsAreExact
<1>4. HeadParser(records) = ParseFrom(NewParser, records, 1, last).parser
  BY <1>1 DEF HeadParser
<1> QED BY <1>2, <1>3, <1>4 DEF Exact, SectionExact, States

(* The tail is read by a parser that knows the thread. *)
LEMMA TailIsExact ==
  ASSUME NEW records, OwnFile(records), HeadSize >= 2, NEW size \in Nat,
         FirstOfTail(size) \in 2 .. Len(records) + 1, InOwn(records, FirstOfTail(size) - 1)
  PROVE  /\ TailRead(records, size) \in States
         /\ Exact(records, FirstOfTail(size), Len(records), TailRead(records, size))
<1> DEFINE first == FirstOfTail(size)
           head == HeadParser(records)
           p == ResumeCanonicalSection(head)
<1>0. Len(records) \in Nat /\ Len(records) # 0 /\ HeadSize \in Nat
  BY SizesAssumption DEF OwnFile
<1>1. head \in Parsers /\ head.canonical = Child
  BY HeadKnows
<1>2. p \in Parsers /\ p.canonical = Child /\ p.section = Child /\ p.boundary = 0
  BY <1>1, ResumeIs
<1>3. first \in Nat \ {0} /\ first - 1 \in Nat /\ first - 1 # 0 /\ first <= Len(records) + 1
  BY <1>0
<1>4. Exact(records, first, first - 1, StartOn(p))
  <2> HIDE DEF p, head, first
  <2>0. StartOn(p).parser = p /\ StartOn(p).events = <<>> /\ Given(StartOn(p)) = {}
    BY DEF StartOn, Given
  <2>1. SectionExact(records, first - 1, StartOn(p))
    BY <1>2, <1>3, <2>0 DEF SectionExact, first
  <2>2. EventsExact(records, first, first - 1, StartOn(p))
    BY <1>3, <2>0 DEF EventsExact, EventsTo
  <2>3. BoundaryExact(records, first, first - 1, StartOn(p))
    BY <1>2, <1>3, <2>0 DEF BoundaryExact, Pending
  <2> QED BY <2>1, <2>2, <2>3 DEF Exact
<1>5. TailRead(records, size) = ParseFrom(p, records, first, Len(records))
  BY DEF TailRead
<1> HIDE DEF p, head, first
<1>6. /\ ParseFrom(p, records, first, Len(records)) \in States
      /\ Exact(records, first, Len(records), ParseFrom(p, records, first, Len(records)))
  BY <1>0, <1>2, <1>3, <1>4, ParseIsExact
<1> QED BY <1>5, <1>6 DEF first

(* What a baseline tells that begins in the thread's own section.          *)
LEMMA LatestOfBaseline ==
  ASSUME NEW records, OwnFile(records), HeadSize >= 2, NEW size \in Nat,
         FirstOfTail(size) \in 2 .. Len(records) + 1, InOwn(records, FirstOfTail(size) - 1),
         TailSize < size, size <= ScanSize, LastIn(records, size) = Len(records)
  PROVE  LatestOf(records, Given(Baseline(records, size))) = LatestOf(records, Events(records))
<1> DEFINE first == FirstOfTail(size)
           tail == TailRead(records, size)
           latest == LatestOf(records, Events(records))
           found == FindLatestCanonicalLifecycle(records, tail.parser.canonical, size)
<1>0. Len(records) \in Nat /\ Len(records) # 0 /\ records \in Seq(Records) /\ TailSize \in Nat
  BY SizesAssumption DEF OwnFile
<1>1. tail \in States /\ Exact(records, first, Len(records), tail)
  BY TailIsExact
<1>2. found = latest
  <2>1. tail.parser.canonical = Child
    BY <1>0, <1>1 DEF Exact, SectionExact
  <2> QED BY <2>1, SearchFinds
<1>3. Baseline(records, size) =
        IF HasLifecycle(records, tail.events) \/ found = 0 THEN tail
        ELSE [parser |-> ResumeCanonicalSection(tail.parser), events |-> Append(tail.events, found)]
  BY <1>0 DEF Baseline
<1>4. \A e \in Nat : e \in Given(tail) <=> e \in Events(records) /\ first <= e
  BY <1>0, <1>1, EventsAreToEnd DEF Exact, EventsExact
<1>5. Events(records) \in SUBSET (1 .. Len(records)) /\ Given(tail) \in SUBSET Nat
  BY <1>0, <1>1, EventsAreRecords DEF Given, States
<1>6. HasLifecycle(records, tail.events) <=> \E e \in Given(tail) : Lives(records, e)
  BY DEF HasLifecycle, Given, Lives
<1>7. Given(tail) \in SUBSET Events(records)
  <2> HIDE DEF tail, first
  <2> QED BY <1>4, <1>5
<1>8. first \in Nat
  BY <1>0
<1> HIDE DEF tail, latest, found, first
<1>9. CASE HasLifecycle(records, tail.events)
  <2>1. PICK e \in Given(tail) : Lives(records, e)
    BY <1>6, <1>9
  <2>2. e \in Events(records) /\ first <= e /\ e \in Nat
    BY <1>4, <1>5, <1>7
  <2>3. /\ latest \in Events(records) /\ Lives(records, latest)
        /\ \A k \in Events(records) : Lives(records, k) => k <= latest
    BY <1>0, <1>5, <2>1, <2>2, LatestOfIs DEF latest
  <2>4. latest \in Given(tail)
    BY <1>4, <1>5, <1>8, <2>1, <2>2, <2>3
  <2>5. LatestOf(records, Given(tail)) = latest
    BY <1>5, <1>7, <2>3, <2>4, LatestIs
  <2> QED BY <1>3, <1>9, <2>5 DEF latest
<1>10. CASE ~ HasLifecycle(records, tail.events) /\ found = 0
  <2>1. LatestOf(records, Given(tail)) = 0
    BY <1>6, <1>10, LatestIsNone
  <2> QED BY <1>2, <1>3, <1>10, <2>1 DEF latest
<1>11. CASE ~ HasLifecycle(records, tail.events) /\ found # 0
  <2>1. PICK e \in Events(records) : Lives(records, e)
    BY <1>2, <1>11, LatestIsNone DEF latest
  <2>2. latest \in Nat /\ Lives(records, latest)
    <3>1. latest \in Events(records) /\ Lives(records, latest)
      BY <1>0, <1>5, <2>1, LatestOfIs DEF latest
    <3> QED BY <1>5, <3>1
  <2>3. Baseline(records, size).events = Append(tail.events, latest)
    BY <1>2, <1>3, <1>11
  <2>4. Given(Baseline(records, size)) = Given(tail) \cup {latest}
    BY <1>1, <2>2, <2>3, GivenAppend
  <2>5. \A k \in Given(tail) \cup {latest} : Lives(records, k) => k <= latest
    BY <1>6, <1>11, <2>2
  <2>6. LatestOf(records, Given(tail) \cup {latest}) = latest
    BY <1>5, <2>2, <2>5, LatestIs
  <2> QED BY <2>4, <2>6 DEF latest
<1> QED BY <1>9, <1>10, <1>11

(* Where the head holds the file's first record and the tail a whole one,  *)
(* a baseline that begins in the thread's own section gives its latest     *)
(* lifecycle record, in the tail or before it (_bootstrap).                *)
THEOREM BaselineAlwaysLatest ==
  ASSUME HeadSize >= 2, TailSize >= 2
  PROVE  ObserverSpec => []BaselineIsLatest
<1>1. OInv /\ OwnInv => BaselineIsLatest
  <2> DEFINE first == FirstOfTail(Size)
             piece == SubSeq(text, 1, first - 1)
             before == FullRead(piece).parser
  <2> SUFFICES ASSUME OInv, OwnInv, TailSize < Size, Size <= ScanSize, InCanonicalSection(before)
               PROVE  LatestOf(text, Given(Baseline(text, Size))) = LatestOf(text, Events(text))
    BY DEF BaselineIsLatest, Given
  <2>1. /\ text \in Seq(Records) /\ Len(text) \in Nat /\ Size \in Nat
        /\ TailSize \in Nat /\ LastIn(text, Size) = Len(text)
    BY SizesAssumption DEF OInv, FileOK, Size, LastIn
  <2>2. text # <<>> /\ OwnFile(text)
    <3>1. Len(text) # 0
      BY <2>1 DEF Size
    <3> QED BY <2>1, <3>1 DEF OwnInv, OwnFile
  <2>3. first \in 2 .. Len(text) + 1
    BY <2>1 DEF FirstOfTail, Size
  <2>4. InOwn(text, first - 1)
    <3>1. first - 1 \in 0 .. Len(text) /\ 1 \in 1 .. first - 1 /\ first - 1 # 0
      BY <2>1, <2>3
    <3> HIDE DEF first
    <3>2. /\ piece \in Seq(Records) /\ Len(piece) = first - 1
          /\ \A n \in 1 .. first - 1 : piece[n] = text[n]
      BY <2>1, <3>1, EventsOfPrefix
    <3> HIDE DEF piece
    <3>3. OwnFile(piece)
      BY <2>2, <3>1, <3>2 DEF OwnFile
    <3>4. Exact(piece, 1, first - 1, ParseFrom(NewParser, piece, 1, first - 1))
      <4>1. first - 1 \in 0 .. Len(piece)
        BY <3>1, <3>2
      <4> QED BY <3>3, <4>1, FirstRecordsAreExact
    <3>5. before = ParseFrom(NewParser, piece, 1, first - 1).parser
      BY <3>2 DEF FullRead
    <3>6. InOwn(piece, first - 1)
      BY <3>1, <3>4, <3>5 DEF InCanonicalSection, Exact, SectionExact
    <3> QED BY <3>1, <3>2, <3>6 DEF InOwn, NoMeta
  <2> HIDE DEF first
  <2> QED BY <2>1, <2>2, <2>3, <2>4, LatestOfBaseline DEF first
<1> QED BY <1>1, OwnInvariance, PTL

----------------------------------------------------------------------------
(* Nothing is missed.  A baseline reads to the end the file has by then,   *)
(* and the cursor goes back to where it ended when it was found: the       *)
(* records in between are parsed again, by a parser that is ahead of them. *)

(* After record n: what was told since record b, and a parser that has     *)
(* been as far as record end.  It takes no record of the thread for        *)
(* another's, and remembers the turn that waits if it did not tell it.     *)
SectionFollows(records, b, end, n, p) ==
  InOwn(records, IF n < end /\ NoMeta(records, b + 1, n) THEN end ELSE n) => p.section = Child
EventsFollow(records, b, end, n, T) ==
  \A e \in EventsTo(records, IF n < end THEN end ELSE n) : b < e => e \in T
PendingFollows(records, b, n, T, p) ==
  \A e \in Nat : Pending(records, n, e) /\ b < e => e \in T \/ (p.section # Child /\ p.boundary = e)

Follows(records, b, end, n, T, p) ==
  /\ p.canonical = IF end = 0 /\ n = 0 THEN None ELSE Child
  /\ SectionFollows(records, b, end, n, p)
  /\ EventsFollow(records, b, end, n, T)
  /\ PendingFollows(records, b, n, T, p)

(* Events of a piece are events of a longer piece. *)
LEMMA EventsGrow ==
  ASSUME NEW records, NEW j \in Nat, NEW k \in Nat, j <= k
  PROVE  EventsTo(records, j) \subseteq EventsTo(records, k)
<1> SUFFICES ASSUME NEW e \in EventsTo(records, j) PROVE e \in EventsTo(records, k)
  OBVIOUS
<1>1. e \in 1 .. j /\ e \in 1 .. k /\ e + 1 .. j \subseteq e + 1 .. k
  BY DEF EventsTo
<1> QED BY <1>1 DEF EventsTo

(* The events of the next record, for a parser that may be ahead. *)
LEMMA EventsFollowNext ==
  ASSUME NEW records, NEW b \in Nat, NEW end \in Nat, NEW n \in Nat \ {0}, NEW T, NEW U,
         EventsFollow(records, b, end, n - 1, T), T \subseteq U,
         ASSUME n > end, NEW e \in EventsTo(records, n), e \notin EventsTo(records, n - 1), b < e
         PROVE  e \in U
  PROVE  EventsFollow(records, b, end, n, U)
<1>1. CASE n > end
  <2>1. \A e \in EventsTo(records, n - 1) : b < e => e \in T
    <3>1. (IF n - 1 < end THEN end ELSE n - 1) = n - 1
      BY <1>1
    <3> QED BY <3>1 DEF EventsFollow
  <2>2. (IF n < end THEN end ELSE n) = n
    BY <1>1
  <2> QED BY <1>1, <2>1, <2>2 DEF EventsFollow
<1>2. CASE n <= end
  <2>1. (IF n - 1 < end THEN end ELSE n - 1) = end /\ (IF n < end THEN end ELSE n) = end
    BY <1>2
  <2> QED BY <2>1 DEF EventsFollow
<1> QED BY <1>1, <1>2

(* A meta record ends what a parser that is ahead takes for its section.   *)
LEMMA FollowsMeta ==
  ASSUME NEW records, OwnFile(records), NEW b \in Nat, NEW end \in Nat,
         NEW n \in 1 .. Len(records), b < n, NEW T, NEW s \in States,
         Follows(records, b, end, n - 1, T \cup Given(s), s.parser), IsMeta(records[n])
  PROVE  LET t == Parse(s, records[n], n)
         IN Follows(records, b, end, n, T \cup Given(t), t.parser)
<1> DEFINE r == records[n]
           p == s.parser
           q == SessionMeta(p, r)
           t == Parse(s, r, n)
<1>0. Child # None /\ n \in Nat /\ n # 0
  BY ObserverAssumption, ThreadsAssumption DEF OwnFile
<1>1. t = [parser |-> q,
           events |-> IF InCanonicalSection(q) /\ p.boundary # 0
                      THEN Append(s.events, p.boundary) ELSE s.events]
  BY DEF Parse, IsMeta
<1>2. q = [canonical |-> Child, section |-> r.thread, boundary |-> 0]
  <2>1. CASE n = 1
    BY <1>0, <2>1 DEF OwnFile, IsOwnMeta, Follows, SessionMeta
  <2>2. CASE n # 1
    BY <1>0, <2>2 DEF Follows, SessionMeta
  <2> QED BY <2>1, <2>2
<1>3. InCanonicalSection(q) <=> IsOwnMeta(r)
  BY <1>0, <1>2 DEF InCanonicalSection, IsOwnMeta
<1>4. r.type # "task_started" /\ r.type \notin Telling
  BY DEF IsMeta, Telling, Lifecycle
<1>5. t.parser = q
  BY <1>1
<1>6. Given(s) \subseteq Given(t) /\ (IsOwnMeta(r) /\ p.boundary # 0 => p.boundary \in Given(t))
  <2>0. p.boundary \in Nat
    BY DEF States, Parsers
  <2>1. CASE IsOwnMeta(r) /\ p.boundary # 0
    <3>1. t.events = Append(s.events, p.boundary)
      BY <1>1, <1>3, <2>1
    <3>2. Given(t) = Given(s) \cup {p.boundary}
      BY <2>0, <3>1, GivenAppend
    <3> QED BY <3>2
  <2>2. CASE ~ (IsOwnMeta(r) /\ p.boundary # 0)
    <3>1. t.events = s.events
      BY <1>1, <1>3, <2>2
    <3> QED BY <2>2, <3>1 DEF Given
  <2> QED BY <2>1, <2>2
<1>7. SectionFollows(records, b, end, n, q)
  <2>1. ~ NoMeta(records, b + 1, n)
    BY <1>0 DEF NoMeta
  <2>2. InOwn(records, n) => r.thread = Child
    BY <1>0, InOwnNext DEF IsOwnMeta
  <2> QED BY <1>2, <2>1, <2>2 DEF SectionFollows
<1>8. PendingFollows(records, b, n, T \cup Given(t), q)
  BY <1>0, <1>4, PendingNext DEF PendingFollows
<1>9. EventsFollow(records, b, end, n, T \cup Given(t))
  <2>1. ASSUME NEW e \in EventsTo(records, n), e \notin EventsTo(records, n - 1), b < e
        PROVE  e \in T \cup Given(t)
    <3>1. Pending(records, n - 1, e) /\ IsOwnMeta(r)
      BY <1>0, <1>4, <2>1, EventsNext
    <3>2. e \in Nat /\ e # 0
      BY <2>1 DEF EventsTo
    <3>3. e \in T \cup Given(s) \/ p.boundary = e
      BY <2>1, <3>1, <3>2 DEF Follows, PendingFollows
    <3> HIDE DEF t, r, p
    <3> QED BY <1>6, <3>1, <3>2, <3>3
  <2>2. EventsFollow(records, b, end, n - 1, T \cup Given(s)) /\ T \cup Given(s) \subseteq T \cup Given(t)
    BY <1>6 DEF Follows
  <2> HIDE DEF t
  <2> QED BY <1>0, <2>1, <2>2, EventsFollowNext
<1>10. q.canonical = IF end = 0 /\ n = 0 THEN None ELSE Child
  BY <1>0, <1>2
<1> HIDE DEF q
<1>11. Follows(records, b, end, n, T \cup Given(t), t.parser)
  BY <1>5, <1>7, <1>8, <1>9, <1>10 DEF Follows
<1> QED BY <1>11

(* Another record leaves the section alone: a parser that takes it for the *)
(* thread's own tells the record, and any other remembers it.              *)
LEMMA FollowsOther ==
  ASSUME NEW records, OwnFile(records), NEW b \in Nat, NEW end \in Nat,
         NEW n \in 1 .. Len(records), b < n, NEW T, NEW s \in States,
         Follows(records, b, end, n - 1, T \cup Given(s), s.parser), ~ IsMeta(records[n])
  PROVE  LET t == Parse(s, records[n], n)
         IN Follows(records, b, end, n, T \cup Given(t), t.parser)
<1> DEFINE r == records[n]
           p == s.parser
           t == Parse(s, r, n)
<1>0. Child # None /\ n \in Nat /\ n # 0 /\ n # 1 /\ p \in Parsers
  BY ObserverAssumption, ThreadsAssumption DEF OwnFile, IsOwnMeta, States
<1>1. p.canonical = Child
  BY <1>0 DEF Follows
<1>2. InCanonicalSection(p) <=> p.section = Child
  BY <1>0, <1>1 DEF InCanonicalSection
<1>3. /\ t.parser.canonical = Child /\ t.parser.section = p.section
      /\ Given(t) = Given(s) \cup (IF p.section = Child /\ r.type \in Telling THEN {n} ELSE {})
      /\ p.section # Child =>
           t.parser.boundary = IF Lives(records, n) THEN IF r.type = "task_started" THEN n ELSE 0
                               ELSE p.boundary
  <2>1. CASE p.section = Child
    <3>1. t = [s EXCEPT !.events = IF r.type \in Telling THEN Append(@, n) ELSE @]
      BY <1>2, <2>1 DEF Parse, IsMeta
    <3>2. t.parser = p
      BY <3>1 DEF States
    <3>3. Given(t) = Given(s) \cup (IF r.type \in Telling THEN {n} ELSE {})
      <4>1. CASE r.type \in Telling
        <5>1. t.events = Append(s.events, n)
          BY <3>1, <4>1 DEF States
        <5> QED BY <1>0, <4>1, <5>1, GivenAppend
      <4>2. CASE r.type \notin Telling
        <5>1. t.events = s.events
          BY <3>1, <4>2 DEF States
        <5> QED BY <4>2, <5>1 DEF Given
      <4> QED BY <4>1, <4>2
    <3> HIDE DEF t, p, r
    <3> QED BY <1>1, <2>1, <3>2, <3>3
  <2>2. CASE p.section # Child
    <3>1. t = [s EXCEPT !.parser = RememberBoundary(p, r, n)]
      BY <1>2, <2>2 DEF Parse, IsMeta
    <3>2. t.parser = RememberBoundary(p, r, n) /\ t.events = s.events /\ Given(t) = Given(s)
      BY <3>1 DEF States, Given
    <3>3. /\ t.parser.canonical = p.canonical /\ t.parser.section = p.section
          /\ t.parser.boundary = IF Lives(records, n) THEN IF r.type = "task_started" THEN n ELSE 0
                                 ELSE p.boundary
      BY <1>0, <3>2 DEF RememberBoundary, Parsers, Lives
    <3> HIDE DEF t, p, r
    <3> QED BY <1>1, <2>2, <3>2, <3>3
  <2> QED BY <2>1, <2>2
<1>4. InOwn(records, n) <=> InOwn(records, n - 1)
  BY <1>0, InOwnNext DEF IsOwnMeta
<1>5. NoMeta(records, b + 1, n) <=> NoMeta(records, b + 1, n - 1)
  <2>1. b + 1 .. n = (b + 1 .. n - 1) \cup {n}
    BY <1>0
  <2> QED BY <2>1 DEF NoMeta
<1>s. SectionFollows(records, b, end, n - 1, p) /\ PendingFollows(records, b, n - 1, T \cup Given(s), p)
      /\ EventsFollow(records, b, end, n - 1, T \cup Given(s))
  BY DEF Follows
<1>l. r.type = "task_started" => Lives(records, n) /\ r.type \in Telling
  BY DEF Lives, Lifecycle, Telling
<1>c. t.parser.canonical = IF end = 0 /\ n = 0 THEN None ELSE Child
  BY <1>0, <1>3
<1>p. \A e : Pending(records, n, e) <=>
               \/ e = n /\ r.type = "task_started" /\ ~ InOwn(records, n - 1)
               \/ Pending(records, n - 1, e) /\ ~ Lives(records, n)
  BY <1>0, PendingNext
<1>e. \A e : e \in EventsTo(records, n) <=>
               \/ e \in EventsTo(records, n - 1)
               \/ e = n /\ r.type \in Telling /\ InOwn(records, n - 1)
  BY <1>0, EventsNext DEF IsOwnMeta
<1> HIDE DEF t, p, r
<1>6. SectionFollows(records, b, end, n, t.parser)
  <2>1. CASE n - 1 < end /\ NoMeta(records, b + 1, n - 1)
    <3>1. InOwn(records, end) => p.section = Child
      BY <1>s, <2>1 DEF SectionFollows
    <3>2. CASE n < end
      BY <1>3, <1>5, <2>1, <3>1, <3>2 DEF SectionFollows
    <3>3. CASE n = end
      BY <1>3, <3>1, <3>3 DEF SectionFollows
    <3> QED BY <1>0, <2>1, <3>2, <3>3
  <2>2. CASE ~ (n - 1 < end /\ NoMeta(records, b + 1, n - 1))
    <3>1. InOwn(records, n - 1) => p.section = Child
      BY <1>s, <2>2 DEF SectionFollows
    <3>2. ~ (n < end /\ NoMeta(records, b + 1, n))
      BY <1>0, <1>5, <2>2
    <3> QED BY <1>3, <1>4, <3>1, <3>2 DEF SectionFollows
  <2> QED BY <2>1, <2>2
<1>7. EventsFollow(records, b, end, n, T \cup Given(t))
  <2>1. ASSUME n > end, NEW e \in EventsTo(records, n), e \notin EventsTo(records, n - 1), b < e
        PROVE  e \in T \cup Given(t)
    <3>1. e = n /\ r.type \in Telling /\ InOwn(records, n - 1)
      BY <1>e, <2>1
    <3>2. ~ (n - 1 < end)
      BY <1>0, <2>1
    <3>3. p.section = Child
      BY <1>s, <3>1, <3>2 DEF SectionFollows
    <3> QED BY <1>3, <3>1, <3>3
  <2>2. T \cup Given(s) \subseteq T \cup Given(t)
    BY <1>3
  <2> QED BY <1>0, <1>s, <2>1, <2>2, EventsFollowNext
<1>8. PendingFollows(records, b, n, T \cup Given(t), t.parser)
  <2> SUFFICES ASSUME NEW e \in Nat, Pending(records, n, e), b < e, e \notin T \cup Given(t)
               PROVE  t.parser.section # Child /\ t.parser.boundary = e
    BY DEF PendingFollows
  <2>1. CASE e = n /\ r.type = "task_started"
    BY <1>3, <1>l, <2>1
  <2>2. CASE Pending(records, n - 1, e) /\ ~ Lives(records, n)
    <3>1. e \notin T \cup Given(s)
      BY <1>3
    <3>2. p.section # Child /\ p.boundary = e
      BY <1>s, <2>2, <3>1 DEF PendingFollows
    <3> QED BY <1>3, <2>2, <3>2
  <2> QED BY <1>p, <2>1, <2>2
<1>9. Follows(records, b, end, n, T \cup Given(t), t.parser)
  BY <1>c, <1>6, <1>7, <1>8 DEF Follows
<1> QED BY <1>9 DEF t, r

(* So parsing on follows the file. *)
LEMMA ParseFollows ==
  ASSUME NEW records, OwnFile(records), NEW b \in Nat, NEW end \in Nat, NEW T, NEW p \in Parsers,
         NEW first \in Nat \ {0}, b < first, NEW last \in Nat, first <= last + 1, last <= Len(records),
         Follows(records, b, end, first - 1, T, p)
  PROVE  LET t == ParseFrom(p, records, first, last)
         IN t \in States /\ Follows(records, b, end, last, T \cup Given(t), t.parser)
<1> DEFINE G == [n \in Nat |-> {s \in States : Follows(records, b, end, n, T \cup Given(s), s.parser)}]
<1>0. records \in Seq(Records) /\ Len(records) \in Nat
  BY DEF OwnFile
<1>1. G \in [Nat -> SUBSET States]
  OBVIOUS
<1>2. AreRecords(records, first, last)
  BY <1>0 DEF AreRecords
<1>3. StartOn(p) \in G[first - 1]
  <2>1. StartOn(p).parser = p /\ Given(StartOn(p)) = {} /\ StartOn(p) \in States
    BY StartOnType DEF StartOn, Given
  <2>2. PICK s \in States : s = StartOn(p)
    BY <2>1
  <2>3. T \cup Given(s) = T /\ s.parser = p /\ first - 1 \in Nat
    BY <2>1, <2>2
  <2>4. Follows(records, b, end, first - 1, T \cup Given(s), s.parser)
    BY <2>3
  <2>5. s \in G[first - 1]
    BY <2>3, <2>4
  <2> QED BY <2>2, <2>5
<1>4. ASSUME NEW n \in first .. last, NEW s \in G[n - 1] PROVE Parse(s, records[n], n) \in G[n]
  <2>1. n \in 1 .. Len(records) /\ b < n /\ n \in Nat /\ n - 1 \in Nat /\ records[n] \in Records
    BY <1>0
  <2>2. s \in States /\ Follows(records, b, end, n - 1, T \cup Given(s), s.parser)
    BY <2>1
  <2>3. Parse(s, records[n], n) \in States
    BY <2>1, <2>2, ParseType
  <2>4. Follows(records, b, end, n, T \cup Given(Parse(s, records[n], n)), Parse(s, records[n], n).parser)
    BY <2>1, <2>2, FollowsMeta, FollowsOther
  <2> QED BY <2>1, <2>3, <2>4
<1> HIDE DEF G
<1>5. ParseFrom(p, records, first, last) \in G[last]
  BY <1>1, <1>2, <1>3, <1>4, ParseInduction
<1> QED BY <1>5 DEF G

(* What follows a file still does when records are added to it.            *)
LEMMA FollowsLonger ==
  ASSUME NEW records, NEW longer, NEW len \in Nat, \A i \in 1 .. len : longer[i] = records[i],
         NEW b \in Nat, NEW end \in 0 .. len, NEW n \in 0 .. len, NEW T, NEW p,
         Follows(records, b, end, n, T, p)
  PROVE  Follows(longer, b, end, n, T, p)
<1>1. ASSUME NEW i \in Nat \ {0}, NEW j \in 0 .. len
      PROVE  /\ NoMeta(records, i, j) <=> NoMeta(longer, i, j)
             /\ Quiet(records, i, j) <=> Quiet(longer, i, j)
  <2>1. i .. j \subseteq 1 .. len
    OBVIOUS
  <2> QED BY <2>1 DEF NoMeta, Quiet, Lives
<1>2. ASSUME NEW j \in 0 .. len PROVE InOwn(records, j) <=> InOwn(longer, j)
  <2>1. \A m \in 1 .. j : m + 1 \in Nat \ {0} /\ m \in 1 .. len
    OBVIOUS
  <2> QED BY <1>1, <2>1 DEF InOwn
<1>3. ASSUME NEW e \in Nat PROVE Pending(records, n, e) <=> Pending(longer, n, e)
  <2>1. CASE e \in 1 .. n
    <3>1. e \in 1 .. len /\ e - 1 \in 0 .. len /\ e + 1 \in Nat \ {0}
      BY <2>1
    <3> QED BY <1>1, <1>2, <3>1 DEF Pending
  <2>2. CASE e \notin 1 .. n
    BY <2>2 DEF Pending
  <2> QED BY <2>1, <2>2
<1>4. ASSUME NEW j \in 0 .. len PROVE EventsTo(records, j) = EventsTo(longer, j)
  <2>1. ASSUME NEW e \in 1 .. j
        PROVE  /\ records[e] = longer[e] /\ (InOwn(records, e - 1) <=> InOwn(longer, e - 1))
               /\ \A m \in e + 1 .. j :
                    /\ records[m] = longer[m]
                    /\ Quiet(records, e + 1, m - 1) <=> Quiet(longer, e + 1, m - 1)
    <3>1. e \in 1 .. len /\ e - 1 \in 0 .. len /\ e + 1 \in Nat \ {0}
      OBVIOUS
    <3>2. \A m \in e + 1 .. j : m \in 1 .. len /\ m - 1 \in 0 .. len
      OBVIOUS
    <3> QED BY <1>1, <1>2, <3>1, <3>2
  <2> QED BY <2>1 DEF EventsTo
<1>5. b + 1 \in Nat \ {0}
  OBVIOUS
<1>6. SectionFollows(longer, b, end, n, p)
  BY <1>1, <1>2, <1>5 DEF Follows, SectionFollows
<1>7. EventsFollow(longer, b, end, n, T)
  <2>1. (IF n < end THEN end ELSE n) \in 0 .. len
    OBVIOUS
  <2> QED BY <1>4, <2>1 DEF Follows, EventsFollow
<1>8. PendingFollows(longer, b, n, T, p)
  BY <1>3 DEF Follows, PendingFollows
<1> QED BY <1>6, <1>7, <1>8 DEF Follows

(* A new parser at a file's beginning. *)
LEMMA NewParserFollows ==
  ASSUME NEW records
  PROVE  NewParser \in Parsers /\ Follows(records, 0, 0, 0, {}, NewParser)
<1>1. Child # None
  BY ObserverAssumption, ThreadsAssumption
<1> QED BY <1>1, NothingBefore
        DEF NewParser, Parsers, Follows, SectionFollows, EventsFollow, PendingFollows

(* A parser that has been to the end may go back: what it told on its way  *)
(* it told.                                                                *)
LEMMA FollowsBack ==
  ASSUME NEW records, OwnFile(records), NEW a \in Nat, NEW b \in a .. Len(records), NEW T, NEW U, T \subseteq U,
         NEW p, NEW q, Follows(records, a, a, Len(records), T, p), a <= Len(records),
         q.canonical = p.canonical, q.section \in {p.section, Child}
  PROVE  Follows(records, b, Len(records), b, U, q)
<1>0. Len(records) \in Nat /\ Len(records) # 0
  BY DEF OwnFile
<1>1. PICK n : n = Len(records)
  OBVIOUS
<1>2. (IF n < a THEN a ELSE n) = n /\ ~ (n < a /\ NoMeta(records, a + 1, n))
  BY <1>0, <1>1
<1>3. p.canonical = Child /\ (InOwn(records, n) => p.section = Child) /\ \A e \in EventsTo(records, n) : a < e => e \in T
  BY <1>0, <1>1, <1>2 DEF Follows, SectionFollows, EventsFollow
<1>4. b \in Nat /\ b <= n /\ a <= b /\ n \in Nat
  BY <1>0, <1>1
<1>5. SectionFollows(records, b, n, b, q)
  <2>1. NoMeta(records, b + 1, b)
    BY <1>4 DEF NoMeta
  <2>2. CASE b < n
    BY <1>3, <2>1, <2>2 DEF SectionFollows
  <2>3. CASE b = n
    BY <1>3, <2>3 DEF SectionFollows
  <2> QED BY <1>4, <2>2, <2>3
<1>6. EventsFollow(records, b, n, b, U)
  <2>1. (IF b < n THEN n ELSE b) = n
    BY <1>4
  <2>2. \A e \in EventsTo(records, n) : e \in Nat
    BY DEF EventsTo
  <2> QED BY <1>3, <1>4, <2>1, <2>2 DEF EventsFollow
<1>7. PendingFollows(records, b, b, U, q)
  BY <1>4 DEF PendingFollows, Pending
<1>8. q.canonical = IF n = 0 /\ b = 0 THEN None ELSE Child
  BY <1>0, <1>1, <1>3
<1>9. Follows(records, b, n, b, U, q)
  BY <1>5, <1>6, <1>7, <1>8 DEF Follows
<1> QED BY <1>1, <1>9

(* Also a baseline that skips the middle of a file, and begins its tail in *)
(* whatever section, follows the file from the record it was taken at.     *)
LEMMA BaselineFollows ==
  ASSUME HeadSize >= 2, TailSize >= 2, NEW records, OwnFile(records), NEW size \in Nat,
         size <= 2 * Len(records) + 1
  PROVE  LET baseline == Baseline(records, size)
         IN Follows(records, size \div 2, Len(records), size \div 2, Given(baseline), baseline.parser)
<1> DEFINE b == size \div 2
           baseline == Baseline(records, size)
<1>0. /\ Len(records) \in Nat /\ Len(records) # 0 /\ records \in Seq(Records)
      /\ HeadSize \in Nat /\ TailSize \in Nat /\ b \in 0 .. Len(records)
  BY SizesAssumption DEF OwnFile
<1>1. CASE size <= TailSize
  <2>1. baseline = ParseFrom(NewParser, records, 1, Len(records))
    BY <1>1 DEF Baseline, FullRead
  <2>2. Follows(records, 0, 0, 1 - 1, {}, NewParser) /\ NewParser \in Parsers
    BY NewParserFollows
  <2> DEFINE t == ParseFrom(NewParser, records, 1, Len(records))
  <2>3. Follows(records, 0, 0, Len(records), {} \cup Given(t), t.parser)
    <3>1. 1 \in Nat \ {0} /\ 0 < 1 /\ 0 \in Nat /\ 1 <= Len(records) + 1 /\ Len(records) <= Len(records)
      BY <1>0
    <3> QED BY <1>0, <2>2, <3>1, ParseFollows
  <2> HIDE DEF t
  <2>4. Follows(records, b, Len(records), b, Given(t), t.parser)
    <3>1. 0 \in Nat /\ 0 <= Len(records) /\ {} \cup Given(t) \subseteq Given(t)
      BY <1>0
    <3> HIDE DEF b
    <3> QED BY <1>0, <2>3, <3>1, FollowsBack
  <2> QED BY <2>1, <2>4 DEF t
<1>2. CASE ~ size <= TailSize
  <2> DEFINE first == FirstOfTail(size)
             p == ResumeCanonicalSection(HeadParser(records))
             t == ParseFrom(p, records, first, Len(records))
             found == FindLatestCanonicalLifecycle(records, t.parser.canonical, size)
  <2>1. first \in 2 .. b + 1
    BY <1>0, <1>2 DEF FirstOfTail
  <2>2. first \in Nat \ {0} /\ first - 1 \in Nat /\ first - 1 # 0 /\ first <= Len(records) + 1 /\ first - 1 <= b
    BY <1>0, <2>1
  <2>3. HeadParser(records) \in Parsers /\ HeadParser(records).canonical = Child
    BY <1>0, HeadKnows
  <2>4. p \in Parsers /\ p.canonical = Child /\ p.section = Child
    BY <2>3, ResumeIs
  <2> HIDE DEF p, first
  <2>5. Follows(records, first - 1, first - 1, first - 1, {}, p)
    <3>1. SectionFollows(records, first - 1, first - 1, first - 1, p)
      BY <2>4 DEF SectionFollows
    <3>2. EventsFollow(records, first - 1, first - 1, first - 1, {})
      BY <2>2 DEF EventsFollow, EventsTo
    <3>3. PendingFollows(records, first - 1, first - 1, {}, p)
      BY <2>2 DEF PendingFollows, Pending
    <3> QED BY <2>2, <2>4, <3>1, <3>2, <3>3 DEF Follows
  <2>6. t \in States /\ Follows(records, first - 1, first - 1, Len(records), {} \cup Given(t), t.parser)
    <3>1. first - 1 < first /\ Len(records) <= Len(records)
      BY <1>0, <2>2
    <3> QED BY <1>0, <2>2, <2>4, <2>5, <3>1, ParseFollows
  <2>7. baseline = t \/ /\ baseline = [parser |-> ResumeCanonicalSection(t.parser), events |-> Append(t.events, found)]
                        /\ found \in Nat
    <3>1. baseline = IF HasLifecycle(records, t.events) \/ found = 0 THEN t
                     ELSE [parser |-> ResumeCanonicalSection(t.parser), events |-> Append(t.events, found)]
      BY <1>2 DEF Baseline, TailRead, p, first
    <3>2. found \in 0 .. Len(records)
      BY <1>0, SearchType
    <3> HIDE DEF t, found, baseline
    <3> QED BY <1>0, <3>1, <3>2
  <2> HIDE DEF t, found, baseline
  <2>8. /\ Given(t) \subseteq Given(baseline)
        /\ baseline.parser.canonical = t.parser.canonical
        /\ baseline.parser.section \in {t.parser.section, Child}
    <3>1. t.parser \in Parsers /\ t.parser.canonical = Child
      BY <1>0, <2>2, <2>6 DEF States, Follows
    <3>2. CASE baseline = t
      BY <3>2
    <3>3. CASE /\ baseline = [parser |-> ResumeCanonicalSection(t.parser), events |-> Append(t.events, found)]
               /\ found \in Nat
      <4>1. Given(baseline) = Given(t) \cup {found}
        BY <2>6, <3>3, GivenAppend
      <4>2. baseline.parser = ResumeCanonicalSection(t.parser)
        BY <3>3
      <4> QED BY <3>1, <4>1, <4>2, ResumeIs
    <3> QED BY <2>7, <3>2, <3>3
  <2>9. {} \cup Given(t) \subseteq Given(baseline) /\ b \in first - 1 .. Len(records) /\ first - 1 <= Len(records)
    BY <1>0, <2>2, <2>8
  <2>10. Follows(records, b, Len(records), b, Given(baseline), baseline.parser)
    <3> HIDE DEF b
    <3> QED BY <2>2, <2>6, <2>8, <2>9, FollowsBack
  <2> QED BY <2>10 DEF baseline
<1> QED BY <1>1, <1>2

(* The parser of the cursor follows the file that has the name, if its     *)
(* baseline was taken after a whole record and could be read.              *)
FollowsFile ==
  clean /\ AtFile =>
    /\ boot % 2 = 0
    /\ \E end \in 0 .. Len(text) : Follows(text, BootRecord, end, Whole, told, cursor.parser)

(* Nothing else changes what a file tells. *)
LEMMA FollowsUnchanged ==
  ASSUME FollowsFile, UNCHANGED <<text, inode, cursor, boot, clean, told>>
  PROVE  FollowsFile'
BY DEF FollowsFile, AtFile, BootRecord, Whole

(* Records are added at the end. *)
LEMMA FollowsEndRecord ==
  ASSUME OInv, FollowsFile, NEW r \in Records, EndRecord(r)
  PROVE  FollowsFile'
<1>1. /\ text \in Seq(Records) /\ text' = Append(text, r)
      /\ cursor' = cursor /\ boot' = boot /\ clean' = clean /\ told' = told /\ inode' = inode
  BY DEF OInv, FileOK, EndRecord
<1> SUFFICES ASSUME clean, AtFile
             PROVE  /\ boot % 2 = 0
                    /\ \E end \in 0 .. Len(text') :
                         Follows(text', BootRecord, end, Whole, told, cursor.parser)
  BY <1>1 DEF FollowsFile, AtFile, BootRecord, Whole
<1>2. PICK end \in 0 .. Len(text) : Follows(text, BootRecord, end, Whole, told, cursor.parser)
  BY DEF FollowsFile
<1>3. Len(text) \in Nat /\ Len(text') = Len(text) + 1 /\ \A i \in 1 .. Len(text) : text'[i] = text[i]
  BY <1>1
<1>4. BootRecord \in Nat /\ Whole \in 0 .. Len(text)
  <2>1. boot \in Nat /\ cursor.offset \in Nat /\ cursor.offset <= 2 * Len(text) + 1
    BY DEF OInv, FileOK, CursorOK, AtFile, Size
  <2> QED BY <1>3, <2>1 DEF BootRecord, Whole
<1>5. PICK longer : longer = text'
  OBVIOUS
<1>6. Follows(longer, BootRecord, end, Whole, told, cursor.parser)
  BY <1>2, <1>3, <1>4, <1>5, FollowsLonger
<1>7. end \in 0 .. Len(longer)
  BY <1>3, <1>5
<1> QED BY <1>5, <1>6, <1>7 DEF FollowsFile

(* A new file. *)
LEMMA FollowsBootstrap ==
  ASSUME HeadSize >= 2, TailSize >= 2, OInv, OwnInv, TypesOK, Bootstrap
  PROVE  FollowsFile'
<1> DEFINE baseline == Baseline(text, scan.size)
<1>1. /\ scan # None /\ cursor' = CursorAt(scan.size, FALSE, baseline.parser)
      /\ told' = told \cup Given(baseline) /\ boot' = scan.size
      /\ clean' = (scan.inode = inode /\ scan.size % 2 = 0)
      /\ text' = text /\ inode' = inode /\ half' = half
  BY DEF Bootstrap, Given, file
<1> SUFFICES ASSUME scan.inode = inode, scan.size % 2 = 0
             PROVE  FollowsFile'
  BY <1>1 DEF FollowsFile
<1>2. /\ text \in Seq(Records) /\ Len(text) \in Nat /\ scan.size \in Nat
      /\ scan.size <= 2 * Len(text) + 1
  BY <1>1 DEF OInv, FileOK, ScanOK, Size
<1>3. PICK b : b = scan.size \div 2
  OBVIOUS
<1>4. b \in 0 .. Len(text) /\ (scan.size + 1) \div 2 = b
  BY <1>2, <1>3
<1> HIDE DEF baseline
<1>5. Follows(text, b, Len(text), b, Given(baseline), baseline.parser)
  <2>1. CASE text # <<>>
    <3>1. OwnFile(text)
      BY <1>2, <2>1 DEF OwnInv, OwnFile
    <3> QED BY <1>2, <1>3, <3>1, BaselineFollows DEF baseline
  <2>2. CASE text = <<>>
    <3>1. Len(text) = 0 /\ scan.size = 0 /\ b = 0
      BY <1>2, <1>3, <2>2
    <3>2. NewParser \in Parsers /\ Follows(text, 0, 0, 0, {}, NewParser)
      BY NewParserFollows
    <3>3. baseline = StartOn(NewParser)
      <4>1. ParseFrom(NewParser, text, 1, 0) = StartOn(NewParser)
        <5>1. 1 \in Nat \ {0} /\ 0 \in Nat /\ 1 > 0
          OBVIOUS
        <5> QED BY <3>2, <5>1, ParseNothing
      <4>2. 0 <= TailSize
        BY SizesAssumption
      <4> QED BY <3>1, <4>1, <4>2 DEF baseline, Baseline, FullRead
    <3>4. Given(baseline) = {} /\ baseline.parser = NewParser
      BY <3>3 DEF StartOn, Given
    <3> QED BY <3>1, <3>2, <3>4
  <2> QED BY <2>1, <2>2
<1>6. Follows(text, b, Len(text), b, told', baseline.parser)
  <2>1. EventsFollow(text, b, Len(text), b, told')
    BY <1>1, <1>5 DEF Follows, EventsFollow
  <2>2. PendingFollows(text, b, b, told', baseline.parser)
    BY <1>1, <1>5 DEF Follows, PendingFollows
  <2> QED BY <1>5, <2>1, <2>2 DEF Follows
<1>7. cursor'.offset = scan.size /\ cursor'.parser = baseline.parser
  BY <1>1 DEF CursorAt
<1>8. BootRecord' = b /\ Whole' = b /\ boot' % 2 = 0
  BY <1>1, <1>3, <1>4, <1>7 DEF BootRecord, Whole
<1>9. Len(text) \in 0 .. Len(text)
  BY <1>2
<1> QED BY <1>1, <1>6, <1>7, <1>8, <1>9 DEF FollowsFile

(* What is new. *)
LEMMA FollowsReadIncrement ==
  ASSUME OInv, OwnInv, TypesOK, FollowsFile, ReadIncrement
  PROVE  FollowsFile'
<1> DEFINE last == (cursor.offset + Chunk) \div 2
           read == ParseFrom(cursor.parser, text, FirstComplete, last)
<1>1. /\ scan # None /\ Known(scan.inode, scan.size)
      /\ cursor'.inode = scan.inode /\ cursor'.offset = cursor.offset + Chunk
      /\ cursor'.parser = read.parser
      /\ told' = told \cup Given(read) /\ boot' = boot /\ clean' = clean
      /\ text' = text /\ inode' = inode
  BY DEF ReadIncrement, Given, file, CursorAt
<1> SUFFICES ASSUME clean, AtFile'
             PROVE  /\ boot % 2 = 0
                    /\ \E end \in 0 .. Len(text) :
                         Follows(text, BootRecord, end, Whole', told', cursor'.parser)
  BY <1>1 DEF FollowsFile, BootRecord
<1>2. AtFile
  BY <1>1 DEF AtFile, Known
<1>3. PICK end \in 0 .. Len(text) : Follows(text, BootRecord, end, Whole, told, cursor.parser)
  BY <1>2 DEF FollowsFile
<1>4. boot % 2 = 0
  BY <1>2 DEF FollowsFile
<1>5. Chunk \in Nat /\ cursor.offset + Chunk <= Size
  BY <1>1, <1>2, ChunkBound
<1>6. /\ text \in Seq(Records) /\ Len(text) \in Nat
      /\ boot \in Nat /\ cursor.offset \in Nat /\ boot <= cursor.offset
      /\ cursor.offset + Chunk <= 2 * Len(text) + 1
  BY <1>2, <1>5 DEF OInv, FileOK, CursorOK, AtFile, Size
<1>7. BootRecord \in Nat /\ Whole \in Nat /\ BootRecord <= Whole
  BY <1>4, <1>6 DEF BootRecord, Whole
<1>8. FirstComplete = Whole + 1
  <2>1. FirstComplete = 1 + (IF Whole > BootRecord THEN Whole ELSE BootRecord)
    BY <1>2, FirstCompleteNext
  <2>2. PICK k : k = Whole
    OBVIOUS
  <2>3. PICK b : b = BootRecord
    OBVIOUS
  <2> QED BY <1>7, <2>1, <2>2, <2>3
<1>9. last \in Nat /\ Whole <= last /\ last <= Len(text) /\ Whole' = last
  BY <1>1, <1>5, <1>6 DEF Whole
<1>10. cursor.parser \in Parsers
  BY <1>1 DEF TypesOK, Cursors, BoundParsers, Known
<1> HIDE DEF last, read
<1>11. Follows(text, BootRecord, end, last, told \cup Given(read), read.parser)
  <2>1. CASE text # <<>>
    <3>1. OwnFile(text)
      BY <1>6, <2>1 DEF OwnInv, OwnFile
    <3>2. PICK first : first = FirstComplete
      OBVIOUS
    <3>3. first \in Nat \ {0} /\ BootRecord < first /\ first <= last + 1 /\ first - 1 = Whole /\ end \in Nat
      BY <1>6, <1>7, <1>8, <1>9, <3>2
    <3>4. Follows(text, BootRecord, end, first - 1, told, cursor.parser)
      BY <1>3, <3>3
    <3>5. read = ParseFrom(cursor.parser, text, first, last)
      BY <3>2 DEF read
    <3> QED BY <1>7, <1>9, <1>10, <3>1, <3>3, <3>4, <3>5, ParseFollows
  <2>2. CASE text = <<>>
    <3>1. last = 0 /\ Whole = 0 /\ FirstComplete = 1
      BY <1>6, <1>7, <1>8, <1>9, <2>2
    <3>2. read = StartOn(cursor.parser)
      <4>1. ParseFrom(cursor.parser, text, 1, 0) = StartOn(cursor.parser)
        <5>1. 1 \in Nat \ {0} /\ 0 \in Nat /\ 1 > 0
          OBVIOUS
        <5> QED BY <1>10, <5>1, ParseNothing
      <4> QED BY <3>1, <4>1 DEF read
    <3>3. Given(read) = {} /\ read.parser = cursor.parser
      BY <3>2 DEF StartOn, Given
    <3>4. told \cup Given(read) = told
      BY <3>3
    <3> QED BY <1>3, <3>1, <3>3, <3>4
  <2> QED BY <2>1, <2>2
<1> QED BY <1>1, <1>4, <1>9, <1>11

(* Every step keeps it. *)
LEMMA FollowsStep ==
  ASSUME HeadSize >= 2, TailSize >= 2, OInv, OwnInv, TypesOK, FollowsFile, [ONext]_ovars
  PROVE  FollowsFile'
<1>1. CASE UNCHANGED ovars
  BY <1>1, FollowsUnchanged DEF ovars, file
<1>2. CASE BeginRecord
  BY <1>2, FollowsUnchanged DEF BeginRecord
<1>3. ASSUME NEW r \in Records, EndRecord(r) PROVE FollowsFile'
  BY <1>3, FollowsEndRecord
<1>4. CASE Replace
  BY <1>4 DEF Replace, FollowsFile
<1>5. CASE Stat
  BY <1>5, FollowsUnchanged DEF Stat, file
<1>6. CASE Bootstrap
  BY <1>6, FollowsBootstrap
<1>7. CASE ReadIncrement
  BY <1>7, FollowsReadIncrement
<1>8. CASE ReadFails
  <2>1. CASE Known(scan.inode, scan.size)
    BY <1>8, <2>1, FollowsUnchanged DEF ReadFails, file
  <2>2. CASE ~ Known(scan.inode, scan.size)
    BY <1>8, <2>2 DEF ReadFails, FollowsFile
  <2> QED BY <2>1, <2>2
<1> QED BY <1>1, <1>2, <1>3, <1>4, <1>5, <1>6, <1>7, <1>8 DEF ONext, Read

(* A parser that follows the file has told its events. *)
LEMMA FollowsSuffices ==
  ASSUME OInv, FollowsFile
  PROVE  NothingMissed
<1> SUFFICES ASSUME clean, AtFile, NEW n \in Events(SubSeq(text, 1, cursor.offset \div 2)), n > BootRecord
             PROVE  n \in told
  BY DEF NothingMissed
<1>1. PICK end \in 0 .. Len(text) : Follows(text, BootRecord, end, Whole, told, cursor.parser)
  BY DEF FollowsFile
<1>2. text \in Seq(Records) /\ Len(text) \in Nat /\ Whole \in 0 .. Len(text) /\ BootRecord \in Nat
  <2>1. boot \in Nat /\ cursor.offset \in Nat /\ cursor.offset <= 2 * Len(text) + 1 /\ text \in Seq(Records)
    BY DEF OInv, FileOK, CursorOK, AtFile, Size
  <2> QED BY <2>1 DEF Whole, BootRecord
<1>3. n \in EventsTo(text, Whole)
  BY <1>2, EventsOfPrefix DEF Whole
<1>4. PICK k : k = IF Whole < end THEN end ELSE Whole
  OBVIOUS
<1>5. k \in Nat /\ Whole \in Nat /\ Whole <= k
  BY <1>2, <1>4
<1>6. n \in EventsTo(text, k)
  BY <1>3, <1>5, EventsGrow
<1>7. n \in Nat /\ BootRecord < n
  BY <1>2, <1>3 DEF EventsTo
<1> QED BY <1>1, <1>4, <1>6, <1>7 DEF Follows, EventsFollow

(* Where the head holds the file's first record and the tail a whole one,  *)
(* nothing the file tells after its baseline is missed, although the       *)
(* baseline skips most of the file, may begin in an ancestor's section,    *)
(* and reads beyond the place from where the cursor goes on (_bootstrap,   *)
(* _read_increment, resume_canonical_section,                              *)
(* _remember_boundary_lifecycle).                                          *)
THEOREM NothingIsMissed ==
  ASSUME HeadSize >= 2, TailSize >= 2
  PROVE  ObserverSpec => []NothingMissed
<1>1. OInit => FollowsFile
  BY DEF OInit, FollowsFile
<1>2. OInv /\ OwnInv /\ TypesOK /\ FollowsFile /\ [ONext]_ovars => FollowsFile'
  BY FollowsStep
<1>3. OInv /\ FollowsFile => NothingMissed
  BY FollowsSuffices
<1>4. OInit => TypesOK
  BY TypesInit
<1>5. OInv /\ TypesOK /\ [ONext]_ovars => TypesOK'
  BY TypesStep
<1> QED BY <1>1, <1>2, <1>3, <1>4, <1>5, OwnInvariance, PTL DEF ObserverSpec
=============================================================================
