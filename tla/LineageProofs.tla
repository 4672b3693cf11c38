---------------------------- MODULE LineageProofs ----------------------------
(***************************************************************************)
(* Proofs about Lineage for any finite set of threads and any page size.   *)
(*                                                                         *)
(* That no hidden thread is watched rests on hiding and ending watches     *)
(* being one step: what _reconcile_internal_threads computes plays no part *)
(* in it.  That the right threads are hidden rests on what it computes:    *)
(* the climb of Above is shown to meet the ways up that the property       *)
(* speaks of.                                                              *)
(***************************************************************************)
EXTENDS Lineage, FiniteSetTheorems, NaturalsInduction, WellFoundedInduction, TLAPS

(* At the start nothing is watched. *)
LEMMA HiddenInit == NInit => HiddenIsUnwatched
BY DEF NInit, HiddenIsUnwatched

(* Where watches of hidden threads end, no hidden thread is watched. *)
LEMMA DeactivateSuffices ==
  ASSUME NEW w, watched' = w \ (internal' \ listed')
  PROVE  \A t \in watched' : ~IsHidden(t)'
BY DEF IsHidden

(* Where neither cards nor their watches change, nothing is to show. *)
LEMMA HiddenUnchanged ==
  ASSUME HiddenIsUnwatched, up, watched' \subseteq watched, UNCHANGED <<internal, listed>>
  PROVE  \A t \in watched' : ~IsHidden(t)'
BY DEF HiddenIsUnwatched, IsHidden

(* Every step keeps hidden threads unwatched. *)
LEMMA HiddenNext == HiddenIsUnwatched /\ [NNext]_nvars => HiddenIsUnwatched'
<1> SUFFICES ASSUME HiddenIsUnwatched, [NNext]_nvars, up'
             PROVE  \A t \in watched' : ~IsHidden(t)'
  BY DEF HiddenIsUnwatched
<1>1. CASE TakePage \/ BreakOff
  BY <1>1, HiddenUnchanged DEF TakePage, BreakOff, aggregator
<1>2. CASE EndListing
  BY <1>2, DeactivateSuffices DEF EndListing, DeactivateInternalWatches
<1>3. CASE Crash
  BY <1>3 DEF Crash
<1>4. CASE Start
  BY <1>4, DeactivateSuffices DEF Start
<1>5. ASSUME NEW t \in Threads, Observe(t)
      PROVE  \A s \in watched' : ~IsHidden(s)'
  BY <1>5, DeactivateSuffices DEF Observe, DeactivateInternalWatches
<1>6. ASSUME NEW t \in Threads, Watch(t)
      PROVE  \A s \in watched' : ~IsHidden(s)'
  BY <1>6 DEF Watch, aggregator, HiddenIsUnwatched, IsHidden
<1>7. ASSUME NEW t \in Threads, EndWatch(t)
      PROVE  \A s \in watched' : ~IsHidden(s)'
  BY <1>7, HiddenUnchanged DEF EndWatch, aggregator
<1>8. ASSUME NEW t \in Threads, Enter(t) \/ Leave(t) \/ MoveUp(t)
      PROVE  \A s \in watched' : ~IsHidden(s)'
  BY <1>8, HiddenUnchanged DEF Enter, Leave, MoveUp, aggregator
<1>9. CASE UNCHANGED nvars
  BY <1>9, HiddenUnchanged DEF nvars, aggregator
<1> QED
  BY <1>1, <1>2, <1>3, <1>4, <1>5, <1>6, <1>7, <1>8, <1>9 DEF NNext

(* With any threads, parents and listings, no hidden thread is ever        *)
(* watched.                                                                *)
THEOREM HiddenNeverWatched == NSpec => []HiddenIsUnwatched
BY HiddenInit, HiddenNext, PTL DEF NSpec

----------------------------------------------------------------------------
(* The smallest number of a set, from which recursion is justified. *)

Less == {ss \in Nat \X Nat : ss[1] < ss[2]}

(* There is no infinite descent among the numbers. *)
LEMMA LessIsWellFounded == IsWellFoundedOn(Less, Nat)
<1>1. Less = OpToRel(<, Nat)
  BY Zenon DEF Less, OpToRel
<1>2. IsWellFoundedOn(OpToRel(<, Nat), Nat)
  BY NatLessThanWellFounded, Zenon
<1> QED BY <1>1, <1>2, Zenon

(* Every set of numbers has a smallest member. *)
LEMMA Smallest ==
  ASSUME NEW T \in SUBSET Nat, T # {}
  PROVE  \E x \in T : \A y \in T : x <= y
<1>1. \E x \in T : \A y \in T : <<y, x>> \notin Less
  BY WFMin, LessIsWellFounded, Zenon
<1>2. PICK x \in T : \A y \in T : <<y, x>> \notin Less
  BY <1>1
<1>3. ASSUME NEW y \in T PROVE x <= y
  <2>1. <<y, x>> \notin Less
    BY <1>2
  <2>2. y \in Nat /\ x \in Nat
    OBVIOUS
  <2> QED BY <2>1, <2>2 DEF Less
<1> QED BY <1>3

(* A function on 0 .. N given by its first value and its steps. *)
Steps(N, R) == [(1 .. N) \X R -> R]
Courses(N, R) == [0 .. N -> R]
Recurs(g, N, a, step) == g[0] = a /\ \A n \in 1 .. N : g[n] = step[<<n, g[n - 1]>>]

(* Such a function exists, by extending it one number at a time. *)
LEMMA RecursionExists ==
  ASSUME NEW N \in Nat, NEW R, NEW a \in R, NEW step \in Steps(N, R)
  PROVE  \E g \in Courses(N, R) : Recurs(g, N, a, step)
<1> USE DEF Steps
<1> DEFINE Solves(g, k) == \A n \in 0 .. k : g[n] = IF n = 0 THEN a ELSE step[<<n, g[n - 1]>>]
           Missing == {k \in 0 .. N : ~ \E g \in [0 .. k -> R] : Solves(g, k)}
<1>1. ASSUME Missing # {} PROVE FALSE
  <2>s. Missing \in SUBSET (0 .. N) /\ 0 .. N \subseteq Nat
    OBVIOUS
  <2>1. PICK k \in Missing : \A j \in Missing : k <= j
    <3> HIDE DEF Missing
    <3> QED BY <1>1, <2>s, Smallest
  <2>2. CASE k = 0
    <3> DEFINE g == [n \in 0 .. k |-> a]
    <3>1. g \in [0 .. k -> R] /\ Solves(g, k)
      BY <2>2
    <3> QED BY <3>1
  <2>3. CASE k # 0
    <3>1. k - 1 \in 0 .. N /\ k - 1 \notin Missing
      <4> HIDE DEF Missing
      <4> QED BY <2>s, <2>1, <2>3
    <3>2. PICK f \in [0 .. k - 1 -> R] : Solves(f, k - 1)
      BY <3>1
    <3> DEFINE b == step[<<k, f[k - 1]>>]
               g == [n \in 0 .. k |-> IF n = k THEN b ELSE f[n]]
    <3>3. b \in R
      <4>1. k \in 1 .. N /\ f[k - 1] \in R
        BY <2>3, <3>1
      <4> QED BY <4>1
    <3>4. g \in [0 .. k -> R]
      BY <3>3, <2>3
    <3>5. ASSUME NEW n \in 0 .. k PROVE g[n] = IF n = 0 THEN a ELSE step[<<n, g[n - 1]>>]
      <4>1. CASE n = k
        <5>1. g[n] = b /\ n - 1 \in 0 .. k /\ n - 1 # k
          BY <4>1, <2>3
        <5>2. g[n - 1] = f[k - 1]
          BY <5>1, <4>1
        <5> QED BY <4>1, <2>3, <5>1, <5>2
      <4>2. CASE n # k
        <5>1. n \in 0 .. k - 1
          BY <4>2
        <5>2. g[n] = f[n] /\ (n # 0 => g[n - 1] = f[n - 1])
          BY <5>1
        <5> QED BY <3>2, <5>1, <5>2
      <4> QED BY <4>1, <4>2
    <3> QED BY <3>4, <3>5
  <2> QED BY <2>2, <2>3
<1>2. PICK g \in [0 .. N -> R] : Solves(g, N)
  BY <1>1
<1>3. g[0] = a /\ \A n \in 1 .. N : g[n] = step[<<n, g[n - 1]>>]
  <2> HIDE DEF Missing
  <2>1. 0 \in 0 .. N /\ \A n \in 1 .. N : n \in 0 .. N /\ n # 0
    OBVIOUS
  <2> QED BY <1>2, <2>1
<1> QED BY <1>2, <1>3 DEF Recurs, Courses

----------------------------------------------------------------------------
(* The threads above a thread, as ways up of any length. *)

IsWay(path, u, t, s, n) ==
  path[0] = t /\ path[n] = s /\ \A i \in 1 .. n : path[i] = u[path[i - 1]]
Leads(u, t, s, n) == \E path \in [0 .. n -> Threads] : IsWay(path, u, t, s, n)
Forks == [Threads -> Threads \cup {None}]
Height == Cardinality(Threads)

(* The height of the ancestry is a number. *)
LEMMA HeightType == Height \in Nat
BY FS_CardinalityType, ThreadsAssumption DEF Height

(* The way of no steps leads nowhere else. *)
LEMMA LeadsZero ==
  ASSUME NEW u, NEW t \in Threads, NEW s
  PROVE  Leads(u, t, s, 0) <=> s = t
<1>1. ASSUME s = t PROVE Leads(u, t, s, 0)
  <2> DEFINE path == [i \in 0 .. 0 |-> t]
  <2>1. path \in [0 .. 0 -> Threads] /\ IsWay(path, u, t, s, 0)
    BY <1>1 DEF IsWay
  <2> QED BY <2>1 DEF Leads
<1>2. ASSUME Leads(u, t, s, 0) PROVE s = t
  BY <1>2 DEF Leads, IsWay
<1> QED BY <1>1, <1>2

(* A way of n steps is one of n - 1 and a step. *)
LEMMA LeadsStep ==
  ASSUME NEW u, NEW t \in Threads, NEW s \in Threads, NEW n \in Nat, n > 0
  PROVE  Leads(u, t, s, n) <=> \E r \in Threads : Leads(u, t, r, n - 1) /\ s = u[r]
<1>1. ASSUME Leads(u, t, s, n) PROVE \E r \in Threads : Leads(u, t, r, n - 1) /\ s = u[r]
  <2>1. PICK path \in [0 .. n -> Threads] : IsWay(path, u, t, s, n)
    BY <1>1 DEF Leads
  <2> DEFINE short == [i \in 0 .. n - 1 |-> path[i]]
             r == path[n - 1]
  <2>2. short \in [0 .. n - 1 -> Threads] /\ r \in Threads
    OBVIOUS
  <2>3. IsWay(short, u, t, r, n - 1)
    BY <2>1 DEF IsWay
  <2>4. s = u[r]
    BY <2>1 DEF IsWay
  <2>5. Leads(u, t, r, n - 1)
    BY <2>2, <2>3 DEF Leads
  <2> QED BY <2>2, <2>4, <2>5
<1>2. ASSUME NEW r \in Threads, Leads(u, t, r, n - 1), s = u[r] PROVE Leads(u, t, s, n)
  <2>1. PICK path \in [0 .. n - 1 -> Threads] : IsWay(path, u, t, r, n - 1)
    BY <1>2 DEF Leads
  <2> DEFINE long == [i \in 0 .. n |-> IF i = n THEN s ELSE path[i]]
  <2>2. long \in [0 .. n -> Threads]
    OBVIOUS
  <2>3. \A i \in 0 .. n - 1 : long[i] = path[i]
    OBVIOUS
  <2>4. long[0] = t /\ long[n] = s
    BY <2>1 DEF IsWay
  <2>5. ASSUME NEW i \in 1 .. n PROVE long[i] = u[long[i - 1]]
    <3>0. i - 1 \in 0 .. n - 1 /\ long[i - 1] = path[i - 1]
      BY <2>3
    <3>1. CASE i = n
      BY <1>2, <2>1, <3>0, <3>1 DEF IsWay
    <3>2. CASE i # n
      <4>1. i \in 1 .. n - 1 /\ long[i] = path[i]
        BY <3>2
      <4> QED BY <2>1, <3>0, <4>1 DEF IsWay
    <3> QED BY <3>1, <3>2
  <2>6. IsWay(long, u, t, s, n)
    BY <2>4, <2>5 DEF IsWay
  <2> QED BY <2>2, <2>6 DEF Leads
<1> QED BY <1>1, <1>2

(* One step of the climb. *)
Rung(u, met) == met \cup {u[s] : s \in {r \in met : u[r] # None}}
Climbs(g, u, t) == g = [n \in 0 .. Height |-> IF n = 0 THEN {t} ELSE Rung(u, g[n - 1])]
Within(u, t, n) == {s \in Threads : \E m \in 0 .. n : Leads(u, t, s, m)}

(* A step of the climb takes in the threads one step further away. *)
LEMMA RungIsStep ==
  ASSUME NEW u \in Forks, NEW t \in Threads, NEW n \in Nat, n > 0
  PROVE  Rung(u, Within(u, t, n - 1)) = Within(u, t, n)
<1>1. ASSUME NEW s \in Rung(u, Within(u, t, n - 1)) PROVE s \in Within(u, t, n)
  <2>1. CASE s \in Within(u, t, n - 1)
    BY <2>1 DEF Within
  <2>2. CASE s \notin Within(u, t, n - 1)
    <3>1. PICK r \in Within(u, t, n - 1) : u[r] # None /\ s = u[r]
      BY <2>2 DEF Rung
    <3>2. r \in Threads /\ s \in Threads
      BY <3>1 DEF Within, Forks
    <3>3. PICK m \in 0 .. n - 1 : Leads(u, t, r, m)
      BY <3>1 DEF Within
    <3>4. m + 1 \in Nat /\ m + 1 > 0 /\ (m + 1) - 1 = m /\ m + 1 \in 0 .. n
      OBVIOUS
    <3>5. Leads(u, t, s, m + 1)
      BY <3>1, <3>2, <3>3, <3>4, LeadsStep
    <3> QED BY <3>2, <3>4, <3>5 DEF Within
  <2> QED BY <2>1, <2>2
<1>2. ASSUME NEW s \in Within(u, t, n) PROVE s \in Rung(u, Within(u, t, n - 1))
  <2>1. PICK m \in 0 .. n : Leads(u, t, s, m)
    BY <1>2 DEF Within
  <2>2. s \in Threads
    BY <1>2 DEF Within
  <2>3. CASE m # n
    BY <2>1, <2>2, <2>3 DEF Within, Rung
  <2>4. CASE m = n
    <3>1. PICK r \in Threads : Leads(u, t, r, n - 1) /\ s = u[r]
      BY <2>1, <2>2, <2>4, LeadsStep
    <3>2. n - 1 \in 0 .. n - 1
      OBVIOUS
    <3>3. r \in Within(u, t, n - 1)
      BY <3>1, <3>2 DEF Within
    <3> QED BY <2>2, <3>1, <3>3, ThreadsAssumption DEF Rung
  <2> QED BY <2>3, <2>4
<1> QED BY <1>1, <1>2

(* The climb of n steps has met the threads at most n steps away. *)
LEMMA ClimbMeets ==
  ASSUME NEW u \in Forks, NEW t \in Threads, NEW g, Climbs(g, u, t)
  PROVE  \A n \in 0 .. Height : g[n] = Within(u, t, n)
<1> DEFINE Off == {n \in 0 .. Height : g[n] # Within(u, t, n)}
<1>h. Height \in Nat
  BY HeightType
<1>1. ASSUME Off # {} PROVE FALSE
  <2>0. Off \in SUBSET Nat
    BY <1>h
  <2>1. PICK n \in Off : \A k \in Off : n <= k
    <3> HIDE DEF Off
    <3> QED BY <1>1, <2>0, Smallest
  <2>2. n \in 0 .. Height /\ g[n] # Within(u, t, n)
    OBVIOUS
  <2>3. CASE n = 0
    <3>1. g[0] = {t}
      BY <2>2, <2>3 DEF Climbs
    <3>2. Within(u, t, 0) = {t}
      BY LeadsZero DEF Within
    <3> QED BY <2>2, <2>3, <3>1, <3>2
  <2>4. CASE n # 0
    <3>1. n \in Nat /\ n > 0 /\ n - 1 \in 0 .. Height
      BY <1>h, <2>2, <2>4
    <3>2. n - 1 \notin Off
      <4> HIDE DEF Off
      <4> QED BY <1>h, <2>0, <2>1, <3>1
    <3>3. g[n - 1] = Within(u, t, n - 1)
      BY <3>1, <3>2
    <3>4. g[n] = Rung(u, g[n - 1])
      BY <2>2, <2>4 DEF Climbs
    <3> QED BY <2>2, <3>1, <3>3, <3>4, RungIsStep
  <2> QED BY <2>3, <2>4
<1> QED BY <1>1

(* The function that Above climbs with exists. *)
LEMMA ClimbExists ==
  ASSUME NEW u \in Forks, NEW t \in Threads
  PROVE  \E g : Climbs(g, u, t)
<1> DEFINE step == [x \in (1 .. Height) \X SUBSET Threads |-> Rung(u, x[2])]
<1>h. Height \in Nat
  BY HeightType
<1>1. step \in Steps(Height, SUBSET Threads)
  <2>1. ASSUME NEW met \in SUBSET Threads PROVE Rung(u, met) \in SUBSET Threads
    BY DEF Rung, Forks
  <2> QED BY <2>1 DEF Steps
<1>2. {t} \in SUBSET Threads
  OBVIOUS
<1>3. PICK g \in Courses(Height, SUBSET Threads) : Recurs(g, Height, {t}, step)
  <2> HIDE DEF step
  <2> QED BY <1>h, <1>1, <1>2, RecursionExists, Zenon
<1>4. g \in [0 .. Height -> SUBSET Threads]
  BY <1>3 DEF Courses
<1>5. ASSUME NEW n \in 0 .. Height
      PROVE  g[n] = IF n = 0 THEN {t} ELSE Rung(u, g[n - 1])
  <2>1. CASE n = 0
    BY <1>3, <2>1 DEF Recurs
  <2>2. CASE n # 0
    <3>1. n \in 1 .. Height /\ n - 1 \in 0 .. Height
      BY <1>h, <2>2
    <3>2. g[n - 1] \in SUBSET Threads
      BY <1>4, <3>1
    <3>3. g[n] = step[<<n, g[n - 1]>>]
      BY <1>3, <3>1 DEF Recurs
    <3> QED BY <2>2, <3>1, <3>2, <3>3
  <2> QED BY <2>1, <2>2
<1>6. g = [n \in 0 .. Height |-> IF n = 0 THEN {t} ELSE Rung(u, g[n - 1])]
  BY <1>4, <1>5
<1> QED BY <1>6 DEF Climbs

(* Above finds what some way of at most Height steps leads to: the         *)
(* operator the model computes with meets its reference definition.        *)
LEMMA AboveIsReached ==
  ASSUME NEW u \in Forks, NEW t \in Threads
  PROVE  Above(u, t) = {s \in Threads : s # t /\ \E n \in 1 .. Height : Leads(u, t, s, n)}
<1> DEFINE c == CHOOSE g : Climbs(g, u, t)
<1>h. Height \in Nat
  BY HeightType
<1>1. Climbs(c, u, t)
  BY ClimbExists
<1>2. Above(u, t) = c[Height] \ {t}
  BY DEF Above, Climbs, Rung, Height
<1>3. c[Height] = Within(u, t, Height)
  <2> HIDE DEF c
  <2> QED BY <1>h, <1>1, ClimbMeets
<1>4. ASSUME NEW s \in Threads, s # t
      PROVE  (\E m \in 0 .. Height : Leads(u, t, s, m)) <=> \E n \in 1 .. Height : Leads(u, t, s, n)
  BY <1>h, <1>4, LeadsZero
<1>5. ~ (t \in Above(u, t))
  BY <1>2
<1> HIDE DEF c
<1> QED BY <1>2, <1>3, <1>4 DEF Within

----------------------------------------------------------------------------
(* What is hidden, as parents are learnt. *)

(* Some way leads up from t to s. *)
Ways(u, t, s) == s # t /\ \E n \in 1 .. Height : Leads(u, t, s, n)

Listings ==
  [open : BOOLEAN, seen : SUBSET Threads, rest : SUBSET Threads, still : SUBSET Threads]

(* The types of what is known, and a parent is never learnt wrongly.       *)
KnownInv ==
  /\ forked \in Forks
  /\ parents \in Forks
  /\ \A t \in Threads : parents[t] # None => parents[t] = forked[t]
  /\ sidebar \subseteq Threads /\ listed \subseteq Threads /\ internal \subseteq Threads
  /\ listing \in Listings

(* Whoever has not moved has been listed or is yet to come.                *)
StillInv ==
  /\ settled \subseteq listed
  /\ listing.still \subseteq listing.seen \cup listing.rest
  /\ ~listing.open => listing = NoListing

(* HiddenIsRight, with the parents, the listed and the hidden threads as   *)
(* arguments and ways in place of the reference definition's paths.        *)
AllHidden(u, shown, hidden) == \A t \in shown, s \in Threads \ shown : Ways(u, t, s) => s \in hidden
OnlyAncestors(u, hidden) == \A s \in hidden : \E t \in Threads : Ways(u, t, s)

HiddenInv ==
  /\ KnownInv
  /\ StillInv
  /\ AllHidden(parents, listed, internal)
  /\ OnlyAncestors(parents, internal)

(* The reference definition speaks of ways. *)
LEMMA AboveMeansWays ==
  ASSUME NEW s, NEW t
  PROVE  IsAbove(s, t) <=> Ways(parents, t, s)
BY DEF IsAbove, Ways, Leads, IsWay, Height

(* The invariant says that what is hidden is right. *)
LEMMA HiddenInvSuffices == HiddenInv => HiddenIsRight
<1> SUFFICES ASSUME HiddenInv PROVE HiddenIsRight
  OBVIOUS
<1>1. ASSUME NEW t \in listed, NEW s \in Threads \ listed, IsAbove(s, t) PROVE IsHidden(s)
  BY <1>1, AboveMeansWays DEF HiddenInv, AllHidden, IsHidden
<1>2. ASSUME NEW s \in internal PROVE \E t \in Threads : IsAbove(s, t)
  BY AboveMeansWays DEF HiddenInv, OnlyAncestors
<1>3. ASSUME NEW t \in settled PROVE ~IsHidden(t)
  BY DEF HiddenInv, StillInv, IsHidden
<1> QED BY <1>1, <1>2, <1>3 DEF HiddenIsRight

(* Known parents are the ones the session files name, and none is          *)
(* forgotten while the process runs.                                       *)
Extends(u, w) == \A t \in Threads : u[t] # None => w[t] = u[t]

(* Reading files adds parents and changes none. *)
LEMMA LearnExtends ==
  ASSUME KnownInv, NEW files
  PROVE  /\ Learn(parents, files) \in Forks
         /\ Extends(parents, Learn(parents, files))
         /\ \A t \in Threads : Learn(parents, files)[t] # None => Learn(parents, files)[t] = forked[t]
BY DEF KnownInv, Learn, Extends, Forks

(* A way stays one when more parents are known. *)
LEMMA WaysStay ==
  ASSUME NEW u \in Forks, NEW w \in Forks, Extends(u, w), NEW t \in Threads, NEW s, Ways(u, t, s)
  PROVE  Ways(w, t, s)
<1>1. PICK n \in 1 .. Height : Leads(u, t, s, n)
  BY DEF Ways
<1>2. PICK path \in [0 .. n -> Threads] : IsWay(path, u, t, s, n)
  BY <1>1 DEF Leads
<1>3. ASSUME NEW i \in 1 .. n PROVE path[i] = w[path[i - 1]]
  <2>1. i \in 0 .. n /\ i - 1 \in 0 .. n
    BY HeightType
  <2>2. path[i] \in Threads /\ path[i - 1] \in Threads /\ path[i] = u[path[i - 1]]
    BY <1>2, <2>1 DEF IsWay
  <2> QED BY <2>2, ThreadsAssumption DEF Extends
<1>4. IsWay(path, w, t, s, n)
  BY <1>2, <1>3 DEF IsWay
<1> QED BY <1>1, <1>4 DEF Ways, Leads

(* _reconcile_internal_threads hides every unlisted ancestor of a listed   *)
(* thread and nothing but ancestors, whatever was hidden before.           *)
LEMMA ReconcileIsRight ==
  ASSUME NEW u \in Forks, NEW shown \in SUBSET Threads, NEW before \in SUBSET Threads,
         OnlyAncestors(u, before)
  PROVE  /\ Reconcile(u, shown, before) \in SUBSET Threads
         /\ AllHidden(u, shown, Reconcile(u, shown, before))
         /\ OnlyAncestors(u, Reconcile(u, shown, before))
<1>1. \A t \in shown : Above(u, t) = {s \in Threads : Ways(u, t, s)}
  BY AboveIsReached DEF Ways
<1>2. Reconcile(u, shown, before) \in SUBSET Threads
  <2>1. \A t \in shown : Above(u, t) \subseteq Threads
    BY <1>1
  <2> QED BY <2>1 DEF Reconcile
<1>3. ASSUME NEW t \in shown, NEW s \in Threads \ shown, Ways(u, t, s)
      PROVE  s \in Reconcile(u, shown, before)
  <2>1. s \in Above(u, t)
    BY <1>1, <1>3
  <2> QED BY <2>1 DEF Reconcile
<1>4. ASSUME NEW s \in Reconcile(u, shown, before)
      PROVE  \E t \in Threads : Ways(u, t, s)
  <2>1. CASE s \in before
    BY <2>1 DEF OnlyAncestors
  <2>2. CASE s \notin before
    BY <1>1, <2>2 DEF Reconcile
  <2> QED BY <2>1, <2>2
<1> QED BY <1>2, <1>3, <1>4 DEF AllHidden, OnlyAncestors

(* Where nothing is known, nothing is hidden. *)
LEMMA HiddenInvInit == NInit => HiddenInv
<1> SUFFICES ASSUME NInit PROVE HiddenInv
  OBVIOUS
<1>1. KnownInv /\ StillInv
  BY DEF NInit, KnownInv, StillInv, Forks, NoListing, Listings
<1>2. AllHidden(parents, listed, internal) /\ OnlyAncestors(parents, internal)
  BY DEF NInit, AllHidden, OnlyAncestors
<1> QED BY <1>1, <1>2 DEF HiddenInv

(* Steps that change neither parents nor cards keep what is hidden right. *)
LEMMA HiddenInvKept ==
  ASSUME HiddenInv, KnownInv', StillInv', UNCHANGED aggregator
  PROVE  HiddenInv'
BY DEF HiddenInv, aggregator

(* Reading files and reconciling afterwards. *)
LEMMA HiddenInvLearnt ==
  ASSUME HiddenInv, NEW files, StillInv', UNCHANGED forked,
         sidebar' \subseteq Threads, listed' \subseteq Threads, listing' \in Listings,
         parents' = Learn(parents, files),
         internal' = Reconcile(parents', listed', internal)
  PROVE  HiddenInv'
<1>1. /\ parents' \in Forks /\ Extends(parents, parents')
      /\ \A t \in Threads : parents'[t] # None => parents'[t] = forked[t]
  BY LearnExtends DEF HiddenInv
<1>2. OnlyAncestors(parents', internal)
  <2>1. parents \in Forks
    BY DEF HiddenInv, KnownInv
  <2> QED BY <1>1, <2>1, WaysStay DEF HiddenInv, OnlyAncestors
<1>3. /\ internal' \in SUBSET Threads
      /\ AllHidden(parents', listed', internal')
      /\ OnlyAncestors(parents', internal')
  BY <1>1, <1>2, ReconcileIsRight DEF HiddenInv, KnownInv
<1>4. KnownInv'
  BY <1>1, <1>3 DEF HiddenInv, KnownInv
<1> QED BY <1>3, <1>4 DEF HiddenInv

(* Every step keeps what is hidden right. *)
LEMMA HiddenInvNext == HiddenInv /\ [NNext]_nvars => HiddenInv'
<1> SUFFICES ASSUME HiddenInv, [NNext]_nvars PROVE HiddenInv'
  OBVIOUS
<1>0. KnownInv /\ StillInv
  BY DEF HiddenInv
<1>1. CASE TakePage
  <2>1. KnownInv' /\ StillInv'
    BY <1>0, <1>1 DEF TakePage, KnownInv, StillInv, NoListing, Listings, aggregator
  <2> QED BY <1>1, <2>1, HiddenInvKept DEF TakePage
<1>2. CASE EndListing
  <2>1. /\ listed' \subseteq Threads /\ settled' \subseteq listed'
        /\ listing' = NoListing /\ UNCHANGED <<forked, sidebar, parents>>
        /\ internal' = Reconcile(parents, listed', internal)
    BY <1>0, <1>2 DEF EndListing, KnownInv, StillInv, Listings
  <2>2. StillInv'
    BY <2>1 DEF StillInv, NoListing
  <2>3. /\ internal' \in SUBSET Threads
        /\ AllHidden(parents', listed', internal')
        /\ OnlyAncestors(parents', internal')
    BY <1>0, <2>1, ReconcileIsRight DEF HiddenInv, KnownInv
  <2>4. KnownInv'
    BY <1>0, <2>1, <2>3 DEF KnownInv, NoListing, Listings
  <2> QED BY <2>2, <2>3, <2>4 DEF HiddenInv
<1>3. CASE BreakOff
  <2>1. KnownInv' /\ StillInv'
    BY <1>0, <1>3 DEF BreakOff, KnownInv, StillInv, NoListing, Listings, aggregator
  <2> QED BY <1>3, <2>1, HiddenInvKept DEF BreakOff
<1>4. CASE Crash
  <2>1. KnownInv' /\ StillInv'
    BY <1>0, <1>4 DEF Crash, KnownInv, StillInv, NoListing, Listings, Forks
  <2>2. AllHidden(parents', listed', internal') /\ OnlyAncestors(parents', internal')
    BY <1>4 DEF Crash, AllHidden, OnlyAncestors
  <2> QED BY <2>1, <2>2 DEF HiddenInv
<1>5. CASE Start
  <2>1. PICK shown \in {{}, sidebar}, files \in SUBSET Threads :
          /\ listed' = shown
          /\ settled' = shown
          /\ parents' = Learn(parents, files)
          /\ internal' = Reconcile(parents', shown, internal)
    BY <1>5 DEF Start
  <2>2. UNCHANGED <<forked, sidebar, listing>>
    BY <1>5 DEF Start
  <2>3. StillInv'
    BY <1>0, <2>1, <2>2 DEF StillInv, NoListing
  <2> QED BY <1>0, <2>1, <2>2, <2>3, HiddenInvLearnt DEF KnownInv
<1>6. ASSUME NEW t \in Threads, Observe(t) PROVE HiddenInv'
  <2>1. /\ parents' = Learn(parents, {t})
        /\ internal' = Reconcile(parents', listed', internal)
        /\ UNCHANGED <<forked, sidebar, listed, listing, settled>>
    BY <1>6 DEF Observe
  <2>2. StillInv'
    BY <1>0, <2>1 DEF StillInv, NoListing
  <2> QED BY <1>0, <2>1, <2>2, HiddenInvLearnt DEF KnownInv
<1>7. ASSUME NEW t \in Threads, Watch(t) \/ EndWatch(t) PROVE HiddenInv'
  <2>1. KnownInv' /\ StillInv'
    BY <1>0, <1>7 DEF Watch, EndWatch, KnownInv, StillInv, NoListing, Listings, aggregator
  <2> QED BY <1>7, <2>1, HiddenInvKept DEF Watch, EndWatch
<1>8. ASSUME NEW t \in Threads, Enter(t) PROVE HiddenInv'
  <2>1. KnownInv' /\ StillInv'
    BY <1>0, <1>8 DEF Enter, KnownInv, StillInv, NoListing, Listings, aggregator
  <2> QED BY <1>8, <2>1, HiddenInvKept DEF Enter
<1>9. ASSUME NEW t \in Threads, Leave(t) \/ MoveUp(t) PROVE HiddenInv'
  <2>1. listing' = [listing EXCEPT !.rest = @ \ {t}, !.still = @ \ {t}]
    BY <1>9 DEF Leave, MoveUp
  <2>2. /\ UNCHANGED <<forked, aggregator>>
        /\ sidebar' \subseteq sidebar /\ settled' \subseteq settled
    BY <1>9 DEF Leave, MoveUp
  <2>3. listing' \in Listings /\ listing'.seen = listing.seen /\ listing'.open = listing.open
        /\ listing'.rest = listing.rest \ {t} /\ listing'.still = listing.still \ {t}
    BY <1>0, <2>1 DEF KnownInv, Listings
  <2>4. ASSUME ~listing'.open PROVE listing' = NoListing
    <3>1. listing = NoListing
      BY <1>0, <2>3, <2>4 DEF StillInv
    <3> QED BY <2>1, <3>1 DEF NoListing
  <2>5. KnownInv'
    BY <1>0, <2>2, <2>3 DEF KnownInv, aggregator
  <2>6. StillInv'
    BY <1>0, <2>2, <2>3, <2>4 DEF StillInv, aggregator
  <2> QED BY <2>2, <2>5, <2>6, HiddenInvKept
<1>10. CASE UNCHANGED nvars
  <2>1. KnownInv' /\ StillInv'
    BY <1>0, <1>10 DEF nvars, KnownInv, StillInv, NoListing, Listings, aggregator
  <2> QED BY <1>10, <2>1, HiddenInvKept DEF nvars
<1> QED
  BY <1>1, <1>2, <1>3, <1>4, <1>5, <1>6, <1>7, <1>8, <1>9, <1>10 DEF NNext

(* With any threads, parents and page sizes: every unlisted thread above a *)
(* listed one is hidden, only threads that others go on with are, and what *)
(* stayed in its place during the last listing is shown.                   *)
THEOREM HiddenAlwaysRight == NSpec => []HiddenIsRight
BY HiddenInvInit, HiddenInvNext, HiddenInvSuffices, PTL DEF NSpec
=============================================================================
