-------------------- MODULE NotificationPipelineProofs ----------------------
(***************************************************************************)
(* What NotificationPipeline guarantees for every set of threads, tasks,   *)
(* requests and snapshots and for every bound.                             *)
(*                                                                         *)
(* The inductive invariant IInv is proved in layers, each using the ones   *)
(* before it: the types, the lock's queue, who owns a key, how often a key *)
(* was sent, and the order of configuration changes.                       *)
(***************************************************************************)
EXTENDS NotificationPipeline, TLAPS

(* The key of an observed waiting or terminal snapshot is a key. *)
LEMMA KeyOfNews ==
  ASSUME NEW s \in Observed, s.status \in Waiting \cup Terminal
  PROVE  DedupeKey(s) \in Keys
  BY DEF Keys

(* The fields of an observed snapshot. *)
LEMMA SnapshotFields ==
  ASSUME NEW s \in Observed
  PROVE  /\ s.thread \in Threads
         /\ s.turn \in Turns \cup {None}
         /\ s.status \in Statuses
  BY ObservedAssumption DEF Snapshots

----------------------------------------------------------------------------
(* Types *)

(* Every action keeps the types of the variables. *)
LEMMA TypeStep == TypeOK /\ [Next]_vars => TypeOK'
<1> SUFFICES ASSUME TypeOK, [Next]_vars PROVE TypeOK'
  OBVIOUS
<1> USE NoneAssumption, BoundsAssumption
<1>1. ASSUME NEW s \in Observed, NEW mode \in Modes, StartWatch(s, mode)
      PROVE TypeOK'
  <2>1. [mode |-> mode, turn |-> s.turn, base |-> s.status, active |-> TRUE] \in Watches
    BY SnapshotFields DEF Watches
  <2> QED
    BY <1>1, <2>1, SnapshotFields DEF TypeOK, StartWatch, Remember, history, messenger
<1>2. ASSUME NEW t \in Threads, Deactivate(t) PROVE TypeOK'
  <2>1. [watch[t] EXCEPT !.active = FALSE] \in Watches
    BY <1>2 DEF TypeOK, Deactivate, Watches
  <2> QED
    BY <1>2, <2>1 DEF TypeOK, Deactivate, history, messenger
<1>3. ASSUME NEW p \in Loops, NEW s \in Observed, Observe(p, s) PROVE TypeOK'
  BY <1>3, SnapshotFields DEF TypeOK, Observe, Remember, history, messenger, durable
<1>. HIDE DEF Watches
<1>w. ASSUME NEW s \in Observed, Watched(s) PROVE WatchAfter(s) \in Watches
  BY <1>w, SnapshotFields DEF TypeOK, Watched, WatchAfter, Watches
<1>4. ASSUME NEW p \in Loops, NEW s \in Observed, NEW gate \in Gates, Reserve(p, s, gate)
      PROVE TypeOK'
  <2>1. DedupeKey(s) \in Keys
    BY <1>4, KeyOfNews DEF Reserve, IsNews
  <2>2. NoteAfter(gate) \in Notes
    BY DEF NoteAfter, Notes
  <2>3. Job("notify", DedupeKey(s), 0) \in Jobs
    BY <2>1 DEF Job, Jobs, Versions
  <2>4. watch' \in [Threads -> Watches \cup {None}]
    BY <1>4, <1>w, SnapshotFields DEF TypeOK, Reserve
  <2>5. note' \in [Keys -> Notes] /\ stranded' \subseteq Keys
    BY <1>4, <2>1, <2>2 DEF TypeOK, Reserve
  <2>6. job' \in [Procs -> Jobs] /\ lockq' \in Seq(Procs)
    <3>1. CASE gate = "send"
      <4>1. p \in Procs
        BY DEF Procs
      <4>2. job' = [job EXCEPT ![p] = Job("notify", DedupeKey(s), 0)]
        BY <1>4, <3>1 DEF Reserve
      <4>3. lockq' = Append(lockq, p)
        BY <1>4, <3>1 DEF Reserve
      <4> QED
        BY <2>3, <4>1, <4>2, <4>3 DEF TypeOK
    <3>2. CASE gate # "send"
      BY <1>4, <3>2 DEF TypeOK, Reserve
    <3> QED
      BY <3>1, <3>2
  <2>7. last' \in [Threads \X (Turns \cup {None}) -> Statuses \cup {None}]
    BY <1>4, SnapshotFields DEF TypeOK, Reserve, Remember
  <2> QED
    BY <1>4, <2>4, <2>5, <2>6, <2>7 DEF TypeOK, Reserve, messenger
<1>5. ASSUME NEW c \in Clients, NEW k \in Keys, Retry(c, k) PROVE TypeOK'
  <2>1. Job("retry", k, 0) \in Jobs
    BY DEF Job, Jobs, Versions
  <2>2. note' \in [Keys -> Notes]
    BY <1>5 DEF TypeOK, Retry, Notes
  <2> QED
    BY <1>5, <2>1, <2>2 DEF TypeOK, Retry, Enqueue, messenger, Procs
<1>6. ASSUME NEW c \in Clients, SendTest(c) PROVE TypeOK'
  <2>1. Job("test", None, 0) \in Jobs
    BY DEF Job, Jobs, Versions
  <2> QED
    BY <1>6, <2>1 DEF TypeOK, SendTest, Enqueue, messenger, durable, history, Procs
<1>7. ASSUME NEW c \in Clients, SaveConfig(c) PROVE TypeOK'
  <2>1. Job("config", None, saved') \in Jobs /\ saved' \in Versions
    BY <1>7 DEF Job, Jobs, Versions, SaveConfig, TypeOK
  <2> QED
    BY <1>7, <2>1 DEF TypeOK, SaveConfig, Enqueue, messenger, history, Procs
<1>8. ASSUME NEW p \in Procs, StartSend(p) PROVE TypeOK'
  <2>1. [job[p] EXCEPT !.phase = "running"] \in Jobs
    BY DEF TypeOK, Jobs
  <2>2. sends' \in [Keys -> Nat]
    BY <1>8 DEF TypeOK, StartSend, Jobs
  <2> QED
    BY <1>8, <2>1, <2>2 DEF TypeOK, StartSend, durable, messenger
<1>9. ASSUME NEW p \in Procs, SwapNotifier(p) PROVE TypeOK'
  <2>1. /\ [job[p] EXCEPT !.phase = "running", !.version = notifier] \in Jobs
        /\ job[p].version \in Versions
    BY DEF TypeOK, Jobs
  <2>2. job' \in [Procs -> Jobs] /\ notifier' \in Versions
    BY <1>9, <2>1 DEF TypeOK, SwapNotifier
  <2> QED
    BY <1>9, <2>2 DEF TypeOK, SwapNotifier, durable, history
<1>i. Idle \in Jobs
  BY BoundsAssumption DEF Idle, Jobs, Versions
<1>r. ASSUME NEW p \in Procs, HasLock(p), Release(p)
      PROVE job' \in [Procs -> Jobs] /\ lockq' \in Seq(Procs)
  BY <1>i, <1>r DEF TypeOK, HasLock, Release
<1>10. ASSUME NEW p \in Procs, NEW outcome \in {"sent", "failed"}, FinishSend(p, outcome)
       PROVE TypeOK'
  <2>1. note' \in [Keys -> Notes]
    BY <1>10 DEF TypeOK, FinishSend, Notes, Jobs
  <2> QED
    BY <1>10, <1>r, <2>1 DEF TypeOK, FinishSend, messenger, history
<1>11. ASSUME NEW p \in Procs, FinishSwap(p) PROVE TypeOK'
  <2>1. job[p].version \in Versions
    BY DEF TypeOK, Jobs
  <2> QED
    BY <1>11, <1>r, <2>1 DEF TypeOK, FinishSwap, durable, history
<1>h. HeldKeys(Procs) \subseteq Keys
  BY DEF HeldKeys, TypeOK, Jobs
<1>d. ASSUME Die
      PROVE /\ last' \in [Threads \X (Turns \cup {None}) -> Statuses \cup {None}]
            /\ job' \in [Procs -> Jobs]
            /\ lockq' \in Seq(Procs)
            /\ up' \in BOOLEAN
            /\ stops' \in Nat
  <2>1. last' \in [Threads \X (Turns \cup {None}) -> Statuses \cup {None}]
    BY <1>d DEF TypeOK, Die
  <2>2. lockq' \in Seq(Procs)
    BY <1>d DEF Die
  <2>3. stops' \in Nat /\ up' \in BOOLEAN
    <3>1. stops' \in Nat
      BY <1>d DEF TypeOK, Die
    <3> QED
      BY <1>d, <3>1 DEF Die
  <2> QED
    BY <1>d, <1>i, <2>1, <2>2, <2>3 DEF Die
<1>12. ASSUME Crash PROVE TypeOK'
  BY <1>12, <1>d, <1>h DEF TypeOK, Crash, durable, messenger
<1>13. ASSUME NEW p \in Loops, NEW s \in Observed, CrashWhileReserving(p, s)
       PROVE TypeOK'
  <2>1. DedupeKey(s) \in Keys
    BY <1>13, KeyOfNews DEF CrashWhileReserving, IsNews
  <2>2. note' \in [Keys -> Notes]
    BY <1>13, <2>1 DEF TypeOK, CrashWhileReserving, Notes
  <2>3. watch' \in [Threads -> Watches \cup {None}]
    BY <1>13, <1>w, SnapshotFields DEF TypeOK, CrashWhileReserving
  <2> QED
    BY <1>13, <1>d, <1>h, <2>1, <2>2, <2>3 DEF TypeOK, CrashWhileReserving, messenger
<1>14. ASSUME Stop PROVE TypeOK'
  BY <1>14, <1>d, <1>h DEF TypeOK, Stop, durable
<1>15. ASSUME NEW status \in [Threads -> Statuses \cup {None}], Restart(status)
       PROVE TypeOK'
  <2>1. watch' \in [Threads -> Watches \cup {None}]
    <3>1. \A t \in Threads : watch[t] # None => [watch[t] EXCEPT !.active = FALSE] \in Watches
      BY DEF TypeOK, Watches
    <3> QED
      BY <1>15, <3>1 DEF TypeOK, Restart
  <2> QED
    BY <1>15, <2>1 DEF TypeOK, Restart, history
<1>16. ASSUME UNCHANGED vars PROVE TypeOK'
  BY <1>16 DEF TypeOK, vars
<1> QED
  BY <1>1, <1>2, <1>3, <1>4, <1>5, <1>6, <1>7, <1>8, <1>9, <1>10, <1>11,
     <1>12, <1>13, <1>14, <1>15, <1>16 DEF Next

(* At the start the variables are of their types. *)
LEMMA InitType == Init => TypeOK
<1> SUFFICES ASSUME Init PROVE TypeOK
  OBVIOUS
<1>1. Idle \in Jobs
  BY BoundsAssumption DEF Idle, Jobs, Versions
<1>2. NoNote \in Notes
  BY DEF NoNote, Notes
<1>3. lockq \in Seq(Procs)
  BY DEF Init
<1> QED
  BY <1>1, <1>2, <1>3, BoundsAssumption DEF Init, TypeOK, Versions

(* The variables keep their types in every behaviour. *)
THEOREM TypeCorrect == Spec => []TypeOK
<1> QED
  BY InitType, TypeStep, PTL DEF Spec

----------------------------------------------------------------------------
(* The lock's queue *)

(* A waiter joins the queue behind the others. *)
LEMMA AppendIsLast ==
  ASSUME NEW S, NEW q \in Seq(S), NEW e \in S
  PROVE  /\ Len(Append(q, e)) = Len(q) + 1
         /\ \A i \in 1 .. Len(q) : Append(q, e)[i] = q[i]
         /\ Append(q, e)[Len(q) + 1] = e
  OBVIOUS

(* The holder leaves and everybody moves up. *)
LEMMA TailMovesUp ==
  ASSUME NEW S, NEW q \in Seq(S), q # <<>>
  PROVE  /\ Len(q) \in Nat
         /\ Len(q) >= 1
         /\ Len(Tail(q)) = Len(q) - 1
         /\ \A i \in 1 .. Len(q) - 1 : Tail(q)[i] = q[i + 1]
         /\ \A i \in 1 .. Len(q) : q[i] \in S
  OBVIOUS

(* A task that starts to wait keeps the queue sound. *)
LEMMA LockEnqueue ==
  ASSUME TypeOK, LockInv, NEW p \in Procs, NEW j,
         up, up' = up, job[p] = Idle, j.kind # "idle", j.phase = "queued",
         job' = [job EXCEPT ![p] = j], lockq' = Append(lockq, p)
  PROVE  LockInv'
<1> USE DEF TypeOK
<1>1. /\ Len(lockq) \in Nat
      /\ Len(lockq') = Len(lockq) + 1
      /\ \A i \in 1 .. Len(lockq) : lockq'[i] = lockq[i]
      /\ lockq'[Len(lockq) + 1] = p
  BY AppendIsLast
<1>2. job[p].kind = "idle"
  BY DEF Idle
<1>3. \A i \in 1 .. Len(lockq) : lockq[i] # p /\ lockq[i] \in Procs
  BY <1>2 DEF LockInv
<1>4. \A q \in Procs : job'[q] = IF q = p THEN j ELSE job[q]
  OBVIOUS
<1>5. (\A i, k \in 1 .. Len(lockq) : lockq[i] = lockq[k] => i = k)'
  BY <1>1, <1>3 DEF LockInv
<1>6. (\A i \in 1 .. Len(lockq) : job[lockq[i]].kind # "idle")'
  BY <1>1, <1>3, <1>4 DEF LockInv
<1>7. (\A q \in Procs : job[q].kind # "idle" => \E i \in 1 .. Len(lockq) : lockq[i] = q)'
  <2> SUFFICES ASSUME NEW q \in Procs, job'[q].kind # "idle"
               PROVE  \E i \in 1 .. Len(lockq') : lockq'[i] = q
    OBVIOUS
  <2>1. CASE q = p
    BY <1>1, <2>1
  <2>2. CASE q # p
    <3>1. PICK i \in 1 .. Len(lockq) : lockq[i] = q
      BY <1>4, <2>2 DEF LockInv
    <3> QED
      BY <1>1, <3>1
  <2> QED
    BY <2>1, <2>2
<1>8. (\A q \in Procs : job[q].phase = "running" => lockq # <<>> /\ lockq[1] = q)'
  <2> SUFFICES ASSUME NEW q \in Procs, job'[q].phase = "running"
               PROVE  lockq' # <<>> /\ lockq'[1] = q
    OBVIOUS
  <2>1. lockq # <<>> /\ lockq[1] = q
    BY <1>4 DEF LockInv
  <2>2. Len(lockq) >= 1
    BY <1>1, <2>1
  <2> QED
    BY <1>1, <2>1, <2>2
<1>9. (\A q \in Procs : job[q].kind = "idle" => job[q] = Idle)'
  BY <1>4 DEF LockInv
<1> QED
  BY <1>5, <1>6, <1>7, <1>8, <1>9 DEF LockInv

(* The holder's job moves on without changing place. *)
LEMMA LockStart ==
  ASSUME TypeOK, LockInv, NEW p \in Procs, NEW j, up' = up, up,
         HasLock(p), j.kind = job[p].kind, j.phase = "running",
         job' = [job EXCEPT ![p] = j], lockq' = lockq
  PROVE  LockInv'
<1> USE DEF TypeOK
<1>1. \A q \in Procs : job'[q] = IF q = p THEN j ELSE job[q]
  OBVIOUS
<1>2. \A i \in 1 .. Len(lockq) : lockq[i] \in Procs
  OBVIOUS
<1>3. lockq # <<>> /\ lockq[1] = p /\ Len(lockq) \in Nat /\ Len(lockq) >= 1
  BY DEF HasLock
<1>4. job[p].kind # "idle"
  BY <1>3 DEF LockInv
<1> QED
  BY <1>1, <1>2, <1>3, <1>4 DEF LockInv

(* The holder leaves the queue. *)
LEMMA LockRelease ==
  ASSUME TypeOK, LockInv, NEW p \in Procs, up, up' = up, HasLock(p), Release(p)
  PROVE  LockInv'
<1> USE DEF TypeOK
<1>1. /\ lockq # <<>>
      /\ lockq[1] = p
      /\ Len(lockq) \in Nat
      /\ Len(lockq) >= 1
      /\ Len(lockq') = Len(lockq) - 1
      /\ \A i \in 1 .. Len(lockq) - 1 : lockq'[i] = lockq[i + 1]
      /\ \A i \in 1 .. Len(lockq) : lockq[i] \in Procs
  BY TailMovesUp DEF HasLock, Release
<1>2. \A q \in Procs : job'[q] = IF q = p THEN Idle ELSE job[q]
  BY DEF Release
<1>3. \A i \in 2 .. Len(lockq) : lockq[i] # p
  BY <1>1 DEF LockInv
<1>4. (\A i, k \in 1 .. Len(lockq) : lockq[i] = lockq[k] => i = k)'
  <2> SUFFICES ASSUME NEW i \in 1 .. Len(lockq'), NEW k \in 1 .. Len(lockq'),
                      lockq'[i] = lockq'[k]
               PROVE  i = k
    OBVIOUS
  <2>1. lockq[i + 1] = lockq[k + 1] /\ i + 1 \in 1 .. Len(lockq) /\ k + 1 \in 1 .. Len(lockq)
    BY <1>1
  <2> QED
    BY <2>1, <1>1 DEF LockInv
<1>5. (\A i \in 1 .. Len(lockq) : job[lockq[i]].kind # "idle")'
  <2> SUFFICES ASSUME NEW i \in 1 .. Len(lockq') PROVE job'[lockq'[i]].kind # "idle"
    OBVIOUS
  <2>1. lockq'[i] = lockq[i + 1] /\ i + 1 \in 2 .. Len(lockq) /\ i + 1 \in 1 .. Len(lockq)
    BY <1>1
  <2> QED
    BY <2>1, <1>1, <1>2, <1>3 DEF LockInv
<1>6. (\A q \in Procs : job[q].kind # "idle" => \E i \in 1 .. Len(lockq) : lockq[i] = q)'
  <2> SUFFICES ASSUME NEW q \in Procs, job'[q].kind # "idle"
               PROVE  \E i \in 1 .. Len(lockq') : lockq'[i] = q
    OBVIOUS
  <2>1. q # p /\ job[q].kind # "idle"
    BY <1>2 DEF Idle
  <2>2. PICK i \in 1 .. Len(lockq) : lockq[i] = q
    BY <2>1 DEF LockInv
  <2>3. i # 1 /\ i - 1 \in 1 .. Len(lockq')
    BY <1>1, <2>1, <2>2
  <2>4. lockq'[i - 1] = q
    BY <1>1, <2>2, <2>3
  <2> QED
    BY <2>3, <2>4
<1>7. (\A q \in Procs : job[q].phase = "running" => lockq # <<>> /\ lockq[1] = q)'
  <2>1. \A q \in Procs : job[q].phase = "running" => q = p
    BY <1>1 DEF LockInv
  <2>2. Idle.phase # "running"
    BY DEF Idle
  <2>3. \A q \in Procs : job'[q].phase # "running"
    BY <1>2, <2>1, <2>2
  <2> QED
    BY <2>3
<1>8. (\A q \in Procs : job[q].kind = "idle" => job[q] = Idle)'
  BY <1>2 DEF LockInv
<1> QED
  BY <1>4, <1>5, <1>6, <1>7, <1>8 DEF LockInv

(* A dead process has no queue. *)
LEMMA LockDie ==
  ASSUME TypeOK, LockInv, Die
  PROVE  LockInv'
<1>1. lockq' = <<>> /\ Len(lockq') = 0
  BY DEF Die
<1>2. \A p \in Procs : job'[p] = Idle
  BY DEF Die
<1> QED
  BY <1>1, <1>2 DEF LockInv, Idle, Die

(* Every action keeps the queue sound. *)
LEMMA LockStep == TypeOK /\ LockInv /\ [Next]_vars => LockInv'
<1> SUFFICES ASSUME TypeOK, LockInv, [Next]_vars PROVE LockInv'
  OBVIOUS
<1>u. ASSUME UNCHANGED <<job, lockq, up>> PROVE LockInv'
  BY <1>u DEF LockInv
<1>1. ASSUME NEW s \in Observed, NEW mode \in Modes, StartWatch(s, mode) PROVE LockInv'
  BY <1>1, <1>u DEF StartWatch
<1>2. ASSUME NEW t \in Threads, Deactivate(t) PROVE LockInv'
  BY <1>2, <1>u DEF Deactivate
<1>3. ASSUME NEW p \in Loops, NEW s \in Observed, Observe(p, s) PROVE LockInv'
  BY <1>3, <1>u DEF Observe
<1>4. ASSUME NEW p \in Loops, NEW s \in Observed, NEW gate \in Gates, Reserve(p, s, gate)
      PROVE LockInv'
  <2>1. CASE gate = "send"
    <3> DEFINE j == Job("notify", DedupeKey(s), 0)
    <3>1. j.kind # "idle" /\ j.phase = "queued"
      BY DEF Job
    <3>2. p \in Procs
      BY DEF Procs
    <3>3. up /\ up' = up /\ job[p] = Idle
      BY <1>4 DEF Reserve
    <3>4. job' = [job EXCEPT ![p] = j] /\ lockq' = Append(lockq, p)
      BY <1>4, <2>1 DEF Reserve
    <3> HIDE DEF j
    <3> QED
      BY <3>1, <3>2, <3>3, <3>4, LockEnqueue
  <2>2. CASE gate # "send"
    BY <1>4, <1>u, <2>2 DEF Reserve
  <2> QED
    BY <2>1, <2>2
<1>e. ASSUME NEW c \in Clients, NEW j, up, up' = up, Enqueue(c, j),
             j.kind # "idle", j.phase = "queued"
      PROVE LockInv'
  BY <1>e, LockEnqueue DEF Enqueue, Procs
<1>5. ASSUME NEW c \in Clients, NEW k \in Keys, Retry(c, k) PROVE LockInv'
  <2> DEFINE j == Job("retry", k, 0)
  <2>1. j.kind # "idle" /\ j.phase = "queued"
    BY DEF Job
  <2>2. up /\ up' = up /\ Enqueue(c, j)
    BY <1>5 DEF Retry
  <2> HIDE DEF j
  <2> QED
    BY <1>e, <2>1, <2>2
<1>6. ASSUME NEW c \in Clients, SendTest(c) PROVE LockInv'
  <2> DEFINE j == Job("test", None, 0)
  <2>1. j.kind # "idle" /\ j.phase = "queued"
    BY DEF Job
  <2>2. up /\ up' = up /\ Enqueue(c, j)
    BY <1>6 DEF SendTest
  <2> HIDE DEF j
  <2> QED
    BY <1>e, <2>1, <2>2
<1>7. ASSUME NEW c \in Clients, SaveConfig(c) PROVE LockInv'
  <2> DEFINE j == Job("config", None, saved')
  <2>1. j.kind # "idle" /\ j.phase = "queued"
    BY DEF Job
  <2>2. up /\ up' = up /\ Enqueue(c, j)
    BY <1>7 DEF SaveConfig
  <2> HIDE DEF j
  <2> QED
    BY <1>e, <2>1, <2>2
<1>8. ASSUME NEW p \in Procs, StartSend(p) PROVE LockInv'
  <2> DEFINE j == [job[p] EXCEPT !.phase = "running"]
  <2>1. j.kind = job[p].kind /\ j.phase = "running"
    BY DEF TypeOK, Jobs
  <2>2. /\ up /\ up' = up /\ HasLock(p) /\ lockq' = lockq
        /\ job' = [job EXCEPT ![p] = j]
    BY <1>8 DEF StartSend
  <2> HIDE DEF j
  <2> QED
    BY <2>1, <2>2, LockStart
<1>9. ASSUME NEW p \in Procs, SwapNotifier(p) PROVE LockInv'
  <2> DEFINE j == [job[p] EXCEPT !.phase = "running", !.version = notifier]
  <2>1. j.kind = job[p].kind /\ j.phase = "running"
    BY DEF TypeOK, Jobs
  <2>2. /\ up /\ up' = up /\ HasLock(p) /\ lockq' = lockq
        /\ job' = [job EXCEPT ![p] = j]
    BY <1>9 DEF SwapNotifier
  <2> HIDE DEF j
  <2> QED
    BY <2>1, <2>2, LockStart
<1>10. ASSUME NEW p \in Procs, NEW outcome \in {"sent", "failed"}, FinishSend(p, outcome)
       PROVE LockInv'
  BY <1>10, LockRelease DEF FinishSend
<1>11. ASSUME NEW p \in Procs, FinishSwap(p) PROVE LockInv'
  BY <1>11, LockRelease DEF FinishSwap
<1>12. ASSUME Crash PROVE LockInv'
  BY <1>12, LockDie DEF Crash
<1>13. ASSUME NEW p \in Loops, NEW s \in Observed, CrashWhileReserving(p, s) PROVE LockInv'
  BY <1>13, LockDie DEF CrashWhileReserving
<1>14. ASSUME Stop PROVE LockInv'
  BY <1>14, LockDie DEF Stop
<1>15. ASSUME NEW status \in [Threads -> Statuses \cup {None}], Restart(status) PROVE LockInv'
  BY <1>15 DEF Restart, LockInv, history
<1>16. ASSUME UNCHANGED vars PROVE LockInv'
  BY <1>16, <1>u DEF vars
<1> QED
  BY <1>1, <1>2, <1>3, <1>4, <1>5, <1>6, <1>7, <1>8, <1>9, <1>10, <1>11,
     <1>12, <1>13, <1>14, <1>15, <1>16 DEF Next
----------------------------------------------------------------------------
(* Who owns a key *)

(* Only the keys of live tasks are lost with the process. *)
LEMMA HeldKeysArePending ==
  ASSUME TypeOK, OwnerInv
  PROVE  /\ HeldKeys(Procs) \subseteq Keys
         /\ \A k \in HeldKeys(Procs) : note[k].state = "pending"
         /\ \A k \in Keys : note[k].state = "pending" =>
              k \in stranded \cup HeldKeys(Procs)
<1>1. \A p \in Procs : job[p].key \in Keys \cup {None}
  BY DEF TypeOK, Jobs
<1> QED
  BY <1>1, NoneAssumption DEF HeldKeys, OwnerInv, PendingHasOneOwner

(* Every action keeps the owners right. *)
LEMMA OwnerStep == TypeOK /\ LockInv /\ OwnerInv /\ [Next]_vars => OwnerInv'
<1> SUFFICES ASSUME TypeOK, LockInv, OwnerInv, [Next]_vars PROVE OwnerInv'
  OBVIOUS
<1> USE NoneAssumption
<1>t. /\ \A p \in Procs : job[p] \in Jobs /\ job[p].key \in Keys \cup {None}
      /\ \A k \in Keys : note[k] \in Notes
      /\ stranded \subseteq Keys
  BY DEF TypeOK, Jobs
<1>u. ASSUME UNCHANGED <<job, note, stranded>> PROVE OwnerInv'
  BY <1>u DEF OwnerInv, PendingHasOneOwner
<1>i. Idle.kind = "idle" /\ Idle.key = None
  BY DEF Idle
\* A job without a key replaces one without a key.
<1>k. ASSUME NEW p \in Procs, NEW j, job[p].key = None, j.key = None,
             j.kind \notin {"notify", "retry"},
             job' = [job EXCEPT ![p] = j], UNCHANGED <<note, stranded>>
      PROVE OwnerInv'
  <2>1. \A q \in Procs : job'[q] = IF q = p THEN j ELSE job[q]
    BY <1>k DEF TypeOK
  <2>2. \A q \in Procs : job'[q].key = job[q].key
    BY <1>k, <2>1
  <2> QED
    BY <1>k, <2>1, <2>2 DEF OwnerInv, PendingHasOneOwner
\* A task takes a key nobody holds.
<1>n. ASSUME NEW p \in Procs, NEW j, NEW k \in Keys, job[p].key = None, j.key = k,
             j.kind \in {"notify", "retry"}, note[k].state # "pending",
             job' = [job EXCEPT ![p] = j],
             note' = [note EXCEPT ![k] = [state |-> "pending", text |-> TRUE]],
             UNCHANGED stranded
      PROVE OwnerInv'
  <2>1. \A q \in Procs : job'[q] = IF q = p THEN j ELSE job[q]
    BY <1>n DEF TypeOK
  <2>2. \A x \in Keys : note'[x] = IF x = k THEN [state |-> "pending", text |-> TRUE] ELSE note[x]
    BY <1>n DEF TypeOK
  <2>3. k \notin stranded /\ \A q \in Procs : job[q].key # k
    BY <1>n, <1>t DEF OwnerInv, PendingHasOneOwner
  <2>4. k # None
    BY <1>n
  <2>5. (\A q \in Procs : job[q].key # None <=> job[q].kind \in {"notify", "retry"})'
    BY <1>n, <2>1, <2>4 DEF OwnerInv
  <2>6. (\A x \in Keys : note[x].state = "pending" =>
           x \in stranded \/ \E q \in Procs : job[q].key = x)'
    <3> SUFFICES ASSUME NEW x \in Keys, note'[x].state = "pending", x \notin stranded'
                 PROVE  \E q \in Procs : job'[q].key = x
      OBVIOUS
    <3>1. CASE x = k
      BY <1>n, <2>1, <3>1
    <3>2. CASE x # k
      <4>1. PICK q \in Procs : job[q].key = x
        BY <1>n, <2>2, <3>2 DEF OwnerInv, PendingHasOneOwner
      <4>2. q # p
        BY <1>n, <4>1
      <4> QED
        BY <2>1, <4>1, <4>2
    <3> QED
      BY <3>1, <3>2
  <2>7. (\A q \in Procs : job[q].key # None =>
           /\ note[job[q].key] = [state |-> "pending", text |-> TRUE]
           /\ job[q].key \notin stranded
           /\ \A r \in Procs : job[r].key = job[q].key => r = q)'
    BY <1>n, <1>t, <2>1, <2>2, <2>3 DEF OwnerInv, PendingHasOneOwner
  <2>8. (\A x \in stranded : note[x].state = "pending")'
    BY <1>n, <1>t, <2>2 DEF OwnerInv
  <2> QED
    BY <2>5, <2>6, <2>7, <2>8 DEF OwnerInv, PendingHasOneOwner
<1>1. ASSUME NEW s \in Observed, NEW mode \in Modes, StartWatch(s, mode) PROVE OwnerInv'
  BY <1>1, <1>u DEF StartWatch, history
<1>2. ASSUME NEW t \in Threads, Deactivate(t) PROVE OwnerInv'
  BY <1>2, <1>u DEF Deactivate, history
<1>3. ASSUME NEW p \in Loops, NEW s \in Observed, Observe(p, s) PROVE OwnerInv'
  BY <1>3, <1>u DEF Observe, history, durable
<1>4. ASSUME NEW p \in Loops, NEW s \in Observed, NEW gate \in Gates, Reserve(p, s, gate)
      PROVE OwnerInv'
  <2> DEFINE k == DedupeKey(s)
  <2>1. k \in Keys /\ note[k].state = "absent"
    BY <1>4, KeyOfNews DEF Reserve, IsNews
  <2>2. note' = [note EXCEPT ![k] = NoteAfter(gate)]
    BY <1>4 DEF Reserve
  <2>3. job[p] = Idle /\ p \in Procs
    BY <1>4 DEF Reserve, Procs
  <2>4. k \notin stranded /\ \A q \in Procs : job[q].key # k
    BY <1>t, <2>1 DEF OwnerInv, PendingHasOneOwner
  <2>5. CASE gate = "send"
    <3> DEFINE j == Job("notify", k, 0)
    <3>1. job' = [job EXCEPT ![p] = j] /\ UNCHANGED stranded
      BY <1>4, <2>5 DEF Reserve
    <3>2. j.key = k /\ j.kind \in {"notify", "retry"}
      BY DEF Job
    <3>3. NoteAfter(gate) = [state |-> "pending", text |-> TRUE]
      BY <2>5 DEF NoteAfter
    <3>4. job[p].key = None /\ note[k].state # "pending"
      BY <1>i, <2>1, <2>3
    <3> HIDE DEF j, k
    <3> QED
      BY <1>n, <2>1, <2>2, <2>3, <3>1, <3>2, <3>3, <3>4
  <2>6. CASE gate = "unreadable"
    <3>1. UNCHANGED job /\ stranded' = stranded \cup {k} /\ NoteAfter(gate).state = "pending"
      BY <1>4, <2>6 DEF Reserve, NoteAfter
    <3>2. \A x \in Keys : note'[x] = IF x = k THEN NoteAfter(gate) ELSE note[x]
      BY <2>1, <2>2 DEF TypeOK
    <3> HIDE DEF k
    <3> QED
      BY <1>t, <2>1, <2>4, <3>1, <3>2 DEF OwnerInv, PendingHasOneOwner
  <2>7. CASE gate \notin {"send", "unreadable"}
    <3>1. UNCHANGED <<job, stranded>> /\ NoteAfter(gate).state = "failed"
      BY <1>4, <2>7 DEF Reserve, NoteAfter
    <3>2. \A x \in Keys : note'[x] = IF x = k THEN NoteAfter(gate) ELSE note[x]
      BY <2>1, <2>2 DEF TypeOK
    <3> HIDE DEF k
    <3> QED
      BY <1>t, <2>1, <2>4, <3>1, <3>2 DEF OwnerInv, PendingHasOneOwner
  <2> QED
    BY <2>5, <2>6, <2>7
<1>5. ASSUME NEW c \in Clients, NEW k \in Keys, Retry(c, k) PROVE OwnerInv'
  <2> DEFINE j == Job("retry", k, 0)
  <2>1. /\ c \in Procs /\ job[c] = Idle /\ job' = [job EXCEPT ![c] = j]
        /\ UNCHANGED stranded
    BY <1>5 DEF Retry, Enqueue, Procs
  <2>2. note[k] = [state |-> "failed", text |-> TRUE]
    BY <1>5 DEF Retry
  <2>3. note' = [note EXCEPT ![k] = [state |-> "pending", text |-> TRUE]]
    BY <1>5 DEF Retry
  <2>4. j.key = k /\ j.kind \in {"notify", "retry"} /\ job[c].key = None /\ note[k].state # "pending"
    BY <1>i, <2>1, <2>2 DEF Job
  <2> HIDE DEF j
  <2> QED
    BY <1>n, <2>1, <2>3, <2>4
<1>6. ASSUME NEW c \in Clients, SendTest(c) PROVE OwnerInv'
  <2> DEFINE j == Job("test", None, 0)
  <2>1. /\ c \in Procs /\ job[c] = Idle /\ job' = [job EXCEPT ![c] = j]
        /\ UNCHANGED <<note, stranded>>
    BY <1>6 DEF SendTest, Enqueue, Procs, durable, history
  <2>2. j.key = None /\ j.kind \notin {"notify", "retry"} /\ job[c].key = None
    BY <1>i, <2>1 DEF Job
  <2> HIDE DEF j
  <2> QED
    BY <1>k, <2>1, <2>2
<1>7. ASSUME NEW c \in Clients, SaveConfig(c) PROVE OwnerInv'
  <2> DEFINE j == Job("config", None, saved')
  <2>1. /\ c \in Procs /\ job[c] = Idle /\ job' = [job EXCEPT ![c] = j]
        /\ UNCHANGED <<note, stranded>>
    BY <1>7 DEF SaveConfig, Enqueue, Procs, history
  <2>2. j.key = None /\ j.kind \notin {"notify", "retry"} /\ job[c].key = None
    BY <1>i, <2>1 DEF Job
  <2> HIDE DEF j
  <2> QED
    BY <1>k, <2>1, <2>2
<1>8. ASSUME NEW p \in Procs, StartSend(p) PROVE OwnerInv'
  <2>1. /\ \A q \in Procs : job'[q].key = job[q].key /\ job'[q].kind = job[q].kind
        /\ UNCHANGED <<note, stranded>>
    BY <1>8, <1>t DEF StartSend, TypeOK, Jobs, durable
  <2> QED
    BY <2>1 DEF OwnerInv, PendingHasOneOwner
<1>9. ASSUME NEW p \in Procs, SwapNotifier(p) PROVE OwnerInv'
  <2>1. /\ \A q \in Procs : job'[q].key = job[q].key /\ job'[q].kind = job[q].kind
        /\ UNCHANGED <<note, stranded>>
    BY <1>9, <1>t DEF SwapNotifier, TypeOK, Jobs, durable, history
  <2> QED
    BY <2>1 DEF OwnerInv, PendingHasOneOwner
<1>10. ASSUME NEW p \in Procs, NEW outcome \in {"sent", "failed"}, FinishSend(p, outcome)
       PROVE OwnerInv'
  <2>1. job' = [job EXCEPT ![p] = Idle] /\ UNCHANGED stranded
    BY <1>10 DEF FinishSend, Release, history
  <2>2. CASE job[p].key = None
    BY <1>10, <1>i, <1>k, <2>1, <2>2 DEF FinishSend
  <2>3. CASE job[p].key # None
    <3> DEFINE k == job[p].key
    <3>1. k \in Keys
      BY <1>t, <2>3
    <3>2. \A x \in Keys : note'[x] = IF x = k THEN [note[k] EXCEPT !.state = outcome] ELSE note[x]
      BY <1>10, <2>3, <3>1 DEF FinishSend, TypeOK
    <3>3. note'[k].state = outcome /\ outcome # "pending"
      BY <1>t, <3>1, <3>2 DEF Notes
    <3>4. \A q \in Procs : job'[q] = IF q = p THEN Idle ELSE job[q]
      BY <2>1 DEF TypeOK
    <3>5. k \notin stranded /\ \A q \in Procs : job[q].key = k => q = p
      BY <2>3 DEF OwnerInv, PendingHasOneOwner
    <3>6. \A q \in Procs : job'[q].key # k
      BY <1>i, <2>3, <3>4, <3>5
    <3>7. (\A x \in Keys : note[x].state = "pending" =>
             x \in stranded \/ \E q \in Procs : job[q].key = x)'
      <4> SUFFICES ASSUME NEW x \in Keys, note'[x].state = "pending", x \notin stranded'
                   PROVE  \E q \in Procs : job'[q].key = x
        OBVIOUS
      <4>1. x # k
        BY <3>3
      <4>2. PICK q \in Procs : job[q].key = x
        BY <2>1, <3>2, <4>1 DEF OwnerInv, PendingHasOneOwner
      <4>3. q # p
        BY <4>1, <4>2
      <4> QED
        BY <3>4, <4>2, <4>3
    <3> HIDE DEF k
    <3>8. (\A q \in Procs : job[q].key # None =>
             /\ note[job[q].key] = [state |-> "pending", text |-> TRUE]
             /\ job[q].key \notin stranded
             /\ \A r \in Procs : job[r].key = job[q].key => r = q)'
      BY <1>i, <1>t, <2>1, <3>2, <3>4, <3>6 DEF OwnerInv, PendingHasOneOwner
    <3>9. (\A x \in stranded : note[x].state = "pending")'
      BY <1>t, <2>1, <3>2, <3>5 DEF OwnerInv
    <3>10. (\A q \in Procs : job[q].key # None <=> job[q].kind \in {"notify", "retry"})'
      BY <1>i, <3>4 DEF OwnerInv
    <3> QED
      BY <3>7, <3>8, <3>9, <3>10 DEF OwnerInv, PendingHasOneOwner
  <2> QED
    BY <2>2, <2>3
<1>11. ASSUME NEW p \in Procs, FinishSwap(p) PROVE OwnerInv'
  <2>1. job' = [job EXCEPT ![p] = Idle] /\ UNCHANGED <<note, stranded>>
    BY <1>11 DEF FinishSwap, Release, history, durable
  <2>2. job[p].key = None
    BY <1>11 DEF FinishSwap, OwnerInv
  <2> QED
    BY <1>i, <1>k, <2>1, <2>2
<1>d. ASSUME Die, UNCHANGED note, stranded' = stranded \cup HeldKeys(Procs) PROVE OwnerInv'
  <2>1. \A q \in Procs : job'[q].key = None /\ job'[q].kind = "idle"
    BY <1>d, <1>i DEF Die
  <2> QED
    BY <1>d, <1>t, <2>1, HeldKeysArePending DEF OwnerInv, PendingHasOneOwner
<1>12. ASSUME Crash PROVE OwnerInv'
  BY <1>12, <1>d DEF Crash, durable
<1>13. ASSUME NEW p \in Loops, NEW s \in Observed, CrashWhileReserving(p, s) PROVE OwnerInv'
  <2> DEFINE k == DedupeKey(s)
  <2>1. k \in Keys /\ note[k].state = "absent"
    BY <1>13, KeyOfNews DEF CrashWhileReserving, IsNews
  <2>2. \A q \in Procs : job'[q].key = None /\ job'[q].kind = "idle"
    BY <1>13, <1>i DEF CrashWhileReserving, Die
  <2>3. /\ note'[k].state = "pending"
        /\ \A x \in Keys : x # k => note'[x] = note[x]
    BY <1>13, <2>1 DEF CrashWhileReserving, TypeOK
  <2>4. stranded' = stranded \cup HeldKeys(Procs) \cup {k}
    BY <1>13 DEF CrashWhileReserving
  <2> HIDE DEF k
  <2> QED
    BY <1>t, <2>1, <2>2, <2>3, <2>4, HeldKeysArePending DEF OwnerInv, PendingHasOneOwner
<1>14. ASSUME Stop PROVE OwnerInv'
  BY <1>14, <1>d DEF Stop, durable
<1>15. ASSUME NEW status \in [Threads -> Statuses \cup {None}], Restart(status) PROVE OwnerInv'
  BY <1>15, <1>u DEF Restart, history
<1>16. ASSUME UNCHANGED vars PROVE OwnerInv'
  BY <1>16, <1>u DEF vars
<1> QED
  BY <1>1, <1>2, <1>3, <1>4, <1>5, <1>6, <1>7, <1>8, <1>9, <1>10, <1>11,
     <1>12, <1>13, <1>14, <1>15, <1>16 DEF Next
----------------------------------------------------------------------------
(* How often a key is sent *)

(* Every action keeps the account of sends. *)
LEMMA SendStep ==
  TypeOK /\ LockInv /\ OwnerInv /\ SendInv /\ [Next]_vars => SendInv'
<1> SUFFICES ASSUME TypeOK, LockInv, OwnerInv, SendInv, [Next]_vars PROVE SendInv'
  OBVIOUS
<1> USE NoneAssumption
<1>t. /\ \A p \in Procs : job[p] \in Jobs /\ job[p].key \in Keys \cup {None}
      /\ \A k \in Keys : note[k] \in Notes /\ sends[k] \in Nat /\ retries[k] \in Nat
  BY DEF TypeOK, Jobs
<1>i. Idle.kind = "idle" /\ Idle.key = None
  BY DEF Idle
<1>u. ASSUME UNCHANGED <<job, note, sends, retries>> PROVE SendInv'
  BY <1>u DEF SendInv, SentAtMostOncePerRequest
\* Jobs change only where there is no key, and no key becomes absent.
<1>k. ASSUME NEW p \in Procs, NEW j, j.key = None, job' = [job EXCEPT ![p] = j],
             UNCHANGED <<sends, retries>>,
             \A k \in Keys : note'[k].state = "absent" => note[k].state = "absent"
      PROVE SendInv'
  <2>1. \A q \in Procs : job'[q] = IF q = p THEN j ELSE job[q]
    BY <1>k DEF TypeOK
  <2> QED
    BY <1>k, <2>1 DEF SendInv, SentAtMostOncePerRequest
<1>1. ASSUME NEW s \in Observed, NEW mode \in Modes, StartWatch(s, mode) PROVE SendInv'
  BY <1>1, <1>u DEF StartWatch, history
<1>2. ASSUME NEW t \in Threads, Deactivate(t) PROVE SendInv'
  BY <1>2, <1>u DEF Deactivate, history
<1>3. ASSUME NEW p \in Loops, NEW s \in Observed, Observe(p, s) PROVE SendInv'
  BY <1>3, <1>u DEF Observe, history, durable
<1>4. ASSUME NEW p \in Loops, NEW s \in Observed, NEW gate \in Gates, Reserve(p, s, gate)
      PROVE SendInv'
  <2> DEFINE k == DedupeKey(s)
  <2>1. k \in Keys /\ note[k].state = "absent" /\ sends[k] = 0 /\ retries[k] = 0
    BY <1>4, KeyOfNews DEF Reserve, IsNews, SendInv
  <2>2. note' = [note EXCEPT ![k] = NoteAfter(gate)] /\ UNCHANGED <<sends, retries>>
    BY <1>4 DEF Reserve
  <2>3. \A x \in Keys : note'[x] = IF x = k THEN NoteAfter(gate) ELSE note[x]
    BY <2>1, <2>2 DEF TypeOK
  <2>4. NoteAfter(gate).state # "absent"
    BY DEF NoteAfter
  <2>5. CASE gate = "send"
    <3> DEFINE j == Job("notify", k, 0)
    <3>1. job' = [job EXCEPT ![p] = j] /\ p \in Procs
      BY <1>4, <2>5 DEF Reserve, Procs
    <3>2. j.key = k /\ j.phase = "queued"
      BY DEF Job
    <3>3. \A q \in Procs : job'[q] = IF q = p THEN j ELSE job[q]
      BY <3>1 DEF TypeOK
    <3> HIDE DEF j, k
    <3> QED
      BY <1>t, <2>1, <2>2, <2>3, <2>4, <3>2, <3>3 DEF SendInv, SentAtMostOncePerRequest
  <2>6. CASE gate # "send"
    <3>1. UNCHANGED job
      BY <1>4, <2>6 DEF Reserve
    <3> HIDE DEF k
    <3> QED
      BY <1>t, <2>1, <2>2, <2>3, <2>4, <3>1 DEF SendInv, SentAtMostOncePerRequest
  <2> QED
    BY <2>5, <2>6
<1>5. ASSUME NEW c \in Clients, NEW k \in Keys, Retry(c, k) PROVE SendInv'
  <2> DEFINE j == Job("retry", k, 0)
  <2>1. /\ c \in Procs /\ job' = [job EXCEPT ![c] = j]
        /\ UNCHANGED sends
        /\ note[k].state = "failed"
    BY <1>5 DEF Retry, Enqueue, Procs
  <2>2. \A x \in Keys : /\ retries'[x] = IF x = k THEN retries[k] + 1 ELSE retries[x]
                        /\ note'[x].state = IF x = k THEN "pending" ELSE note[x].state
    BY <1>5, <1>t DEF Retry, TypeOK, Notes
  <2>3. j.key = k /\ j.phase = "queued"
    BY DEF Job
  <2>4. \A q \in Procs : job'[q] = IF q = c THEN j ELSE job[q]
    BY <2>1 DEF TypeOK
  <2>5. \A q \in Procs : job[q].key # k
    BY <2>1 DEF OwnerInv, PendingHasOneOwner
  <2> HIDE DEF j
  <2> QED
    BY <1>t, <2>1, <2>2, <2>3, <2>4, <2>5 DEF SendInv, SentAtMostOncePerRequest
<1>6. ASSUME NEW c \in Clients, SendTest(c) PROVE SendInv'
  <2> DEFINE j == Job("test", None, 0)
  <2>1. /\ c \in Procs /\ job' = [job EXCEPT ![c] = j]
        /\ UNCHANGED <<note, sends, retries>> /\ j.key = None
    BY <1>6 DEF SendTest, Enqueue, Procs, durable, history, Job
  <2> HIDE DEF j
  <2> QED
    BY <1>k, <2>1
<1>7. ASSUME NEW c \in Clients, SaveConfig(c) PROVE SendInv'
  <2> DEFINE j == Job("config", None, saved')
  <2>1. /\ c \in Procs /\ job' = [job EXCEPT ![c] = j]
        /\ UNCHANGED <<note, sends, retries>> /\ j.key = None
    BY <1>7 DEF SaveConfig, Enqueue, Procs, history, Job
  <2> HIDE DEF j
  <2> QED
    BY <1>k, <2>1
<1>8. ASSUME NEW p \in Procs, StartSend(p) PROVE SendInv'
  <2>1. /\ \A q \in Procs : /\ job'[q].key = job[q].key
                            /\ job'[q].phase = IF q = p THEN "running" ELSE job[q].phase
        /\ UNCHANGED <<note, retries>>
        /\ job[p].phase = "queued"
    BY <1>8, <1>t DEF StartSend, TypeOK, Jobs, durable
  <2>2. CASE job[p].key = None
    BY <1>8, <1>t, <2>1, <2>2 DEF StartSend, SendInv, SentAtMostOncePerRequest
  <2>3. CASE job[p].key # None
    <3> DEFINE k == job[p].key
    <3>1. k \in Keys /\ \A x \in Keys : sends'[x] = IF x = k THEN sends[x] + 1 ELSE sends[x]
      BY <1>8, <1>t, <2>3 DEF StartSend, TypeOK
    <3>2. /\ sends[k] <= retries[k]
          /\ note[k].state = "pending"
          /\ \A q \in Procs : job[q].key = k => q = p
      BY <2>1, <2>3 DEF SendInv, OwnerInv, PendingHasOneOwner
    <3>3. (\A x \in Keys : note[x].state = "absent" => sends[x] = 0 /\ retries[x] = 0)'
      BY <2>1, <3>1, <3>2 DEF SendInv
    <3>4. (\A q \in Procs : job[q].key # None =>
             IF job[q].phase = "queued" THEN sends[job[q].key] <= retries[job[q].key]
                                        ELSE sends[job[q].key] > 0)'
      BY <1>t, <2>1, <3>1, <3>2 DEF SendInv
    <3>5. (\A x \in Keys : sends[x] <= 1 + retries[x])'
      BY <1>t, <2>1, <3>1, <3>2 DEF SendInv, SentAtMostOncePerRequest
    <3> QED
      BY <3>3, <3>4, <3>5 DEF SendInv, SentAtMostOncePerRequest
  <2> QED
    BY <2>2, <2>3
<1>9. ASSUME NEW p \in Procs, SwapNotifier(p) PROVE SendInv'
  <2> DEFINE j == [job[p] EXCEPT !.phase = "running", !.version = notifier]
  <2>1. job' = [job EXCEPT ![p] = j] /\ UNCHANGED <<note, sends, retries>>
    BY <1>9 DEF SwapNotifier, durable, history
  <2>2. job[p].key = None
    BY <1>9 DEF SwapNotifier, OwnerInv
  <2>3. j.key = None
    BY <1>t, <2>2 DEF Jobs
  <2> HIDE DEF j
  <2> QED
    BY <1>k, <2>1, <2>3
<1>10. ASSUME NEW p \in Procs, NEW outcome \in {"sent", "failed"}, FinishSend(p, outcome)
       PROVE SendInv'
  <2>1. job' = [job EXCEPT ![p] = Idle] /\ UNCHANGED <<sends, retries>>
    BY <1>10 DEF FinishSend, Release, history
  <2>2. \A x \in Keys : note'[x].state = "absent" => note[x].state = "absent"
    BY <1>10, <1>t DEF FinishSend, TypeOK, Notes
  <2> QED
    BY <1>i, <1>k, <2>1, <2>2
<1>11. ASSUME NEW p \in Procs, FinishSwap(p) PROVE SendInv'
  BY <1>11, <1>i, <1>k DEF FinishSwap, Release, history, durable
<1>d. ASSUME Die, UNCHANGED <<sends, retries>>,
             \A k \in Keys : note'[k].state = "absent" => note[k].state = "absent"
      PROVE SendInv'
  <2>1. \A q \in Procs : job'[q].key = None
    BY <1>d, <1>i DEF Die
  <2> QED
    BY <1>d, <2>1 DEF SendInv, SentAtMostOncePerRequest
<1>12. ASSUME Crash PROVE SendInv'
  BY <1>12, <1>d DEF Crash, durable
<1>13. ASSUME NEW p \in Loops, NEW s \in Observed, CrashWhileReserving(p, s) PROVE SendInv'
  <2>1. \A x \in Keys : note'[x].state = "absent" => note[x].state = "absent"
    BY <1>13, <1>t DEF CrashWhileReserving, TypeOK
  <2> QED
    BY <1>13, <1>d, <2>1 DEF CrashWhileReserving
<1>14. ASSUME Stop PROVE SendInv'
  BY <1>14, <1>d DEF Stop, durable
<1>15. ASSUME NEW status \in [Threads -> Statuses \cup {None}], Restart(status) PROVE SendInv'
  BY <1>15, <1>u DEF Restart, history
<1>16. ASSUME UNCHANGED vars PROVE SendInv'
  BY <1>16, <1>u DEF vars
<1> QED
  BY <1>1, <1>2, <1>3, <1>4, <1>5, <1>6, <1>7, <1>8, <1>9, <1>10, <1>11,
     <1>12, <1>13, <1>14, <1>15, <1>16 DEF Next
----------------------------------------------------------------------------
(* The order of configuration changes *)

(* Every action keeps messengers and replacements in the order they were   *)
(* saved.                                                                  *)
LEMMA ConfigStep == TypeOK /\ LockInv /\ ConfigInv /\ [Next]_vars => ConfigInv'
<1> SUFFICES ASSUME TypeOK, LockInv, ConfigInv, [Next]_vars PROVE ConfigInv'
  OBVIOUS
<1> USE BoundsAssumption
<1>t. /\ \A p \in Procs : job[p] \in Jobs /\ job[p].version \in Nat
      /\ notifier \in Nat /\ saved \in Nat /\ closed \subseteq Nat
      /\ lockq \in Seq(Procs) /\ Len(lockq) \in Nat
      /\ \A i \in 1 .. Len(lockq) : lockq[i] \in Procs
  BY DEF TypeOK, Jobs, Versions
<1>i. Idle.kind = "idle"
  BY DEF Idle
<1>u. ASSUME UNCHANGED <<job, lockq, notifier, closed, saved, up>> PROVE ConfigInv'
  BY <1>u DEF ConfigInv
\* A task that wants to send joins the queue.
<1>s. ASSUME NEW p \in Procs, NEW j, job[p] = Idle, j.kind # "config", up,
             job' = [job EXCEPT ![p] = j], lockq' = Append(lockq, p),
             UNCHANGED <<notifier, closed, saved, up>>
      PROVE ConfigInv'
  <2>1. \A q \in Procs : job'[q] = IF q = p THEN j ELSE job[q]
    BY <1>s DEF TypeOK
  <2>2. /\ Len(lockq') = Len(lockq) + 1
        /\ \A i \in 1 .. Len(lockq) : lockq'[i] = lockq[i]
        /\ lockq'[Len(lockq) + 1] = p
    BY <1>s, <1>t, AppendIsLast
  <2>3. \A i, k \in 1 .. Len(lockq') :
          /\ i < k
          /\ job'[lockq'[i]].kind = "config" /\ job'[lockq'[i]].phase = "queued"
          /\ job'[lockq'[k]].kind = "config"
          => job'[lockq'[i]].version < job'[lockq'[k]].version
    <3> SUFFICES ASSUME NEW i \in 1 .. Len(lockq'), NEW k \in 1 .. Len(lockq'), i < k,
                        job'[lockq'[i]].kind = "config", job'[lockq'[i]].phase = "queued",
                        job'[lockq'[k]].kind = "config"
                 PROVE  job'[lockq'[i]].version < job'[lockq'[k]].version
      OBVIOUS
    <3>1. k # Len(lockq) + 1 /\ lockq'[i] # p /\ lockq'[k] # p
      BY <1>s, <2>1, <2>2
    <3>2. i \in 1 .. Len(lockq) /\ k \in 1 .. Len(lockq)
      BY <1>t, <2>2, <3>1
    <3>3. /\ lockq'[i] = lockq[i] /\ job'[lockq'[i]] = job[lockq[i]]
          /\ lockq'[k] = lockq[k] /\ job'[lockq'[k]] = job[lockq[k]]
      BY <1>t, <2>1, <2>2, <3>1, <3>2
    <3> QED
      BY <1>s, <3>2, <3>3 DEF ConfigInv
  <2>4. \A q \in Procs : job[q].kind = "config" => q # p
    BY <1>s, <1>i
  <2> QED
    BY <1>s, <1>i, <2>1, <2>3, <2>4 DEF ConfigInv
\* The holder ends its turn under the lock.
<1>r. ASSUME NEW p \in Procs, up, HasLock(p), Release(p), job[p].phase = "running",
             UNCHANGED <<notifier, saved, up>>, \A v \in closed' : v < notifier
      PROVE ConfigInv'
  <2>1. \A q \in Procs : job'[q] = IF q = p THEN Idle ELSE job[q]
    BY <1>r DEF TypeOK, Release
  <2>2. /\ Len(lockq') = Len(lockq) - 1
        /\ \A i \in 1 .. Len(lockq') : lockq'[i] = lockq[i + 1] /\ i + 1 \in 1 .. Len(lockq)
    BY <1>r, <1>t, TailMovesUp DEF HasLock, Release
  <2>3. \A i, k \in 1 .. Len(lockq') :
          /\ i < k
          /\ job'[lockq'[i]].kind = "config" /\ job'[lockq'[i]].phase = "queued"
          /\ job'[lockq'[k]].kind = "config"
          => job'[lockq'[i]].version < job'[lockq'[k]].version
    <3> SUFFICES ASSUME NEW i \in 1 .. Len(lockq'), NEW k \in 1 .. Len(lockq'), i < k,
                        job'[lockq'[i]].kind = "config", job'[lockq'[i]].phase = "queued",
                        job'[lockq'[k]].kind = "config"
                 PROVE  job'[lockq'[i]].version < job'[lockq'[k]].version
      OBVIOUS
    <3>0. i \in Nat /\ k \in Nat /\ i + 1 < k + 1
      BY <1>t, <2>2
    <3>1. /\ i + 1 \in 1 .. Len(lockq) /\ k + 1 \in 1 .. Len(lockq) /\ i + 1 < k + 1
          /\ lockq'[i] = lockq[i + 1] /\ lockq'[k] = lockq[k + 1]
      BY <2>2, <3>0
    <3>2. lockq[i + 1] # p /\ lockq[k + 1] # p
      BY <1>i, <1>t, <2>1, <3>1
    <3> QED
      BY <1>r, <1>t, <2>1, <3>1, <3>2 DEF ConfigInv
  <2>4. \A q \in Procs : job[q].phase = "queued" => q # p
    BY <1>r
  <2> QED
    BY <1>r, <1>i, <2>1, <2>3, <2>4 DEF ConfigInv
<1>1. ASSUME NEW s \in Observed, NEW mode \in Modes, StartWatch(s, mode) PROVE ConfigInv'
  BY <1>1, <1>u DEF StartWatch, messenger
<1>2. ASSUME NEW t \in Threads, Deactivate(t) PROVE ConfigInv'
  BY <1>2, <1>u DEF Deactivate, messenger
<1>3. ASSUME NEW p \in Loops, NEW s \in Observed, Observe(p, s) PROVE ConfigInv'
  BY <1>3, <1>u DEF Observe, messenger, durable
<1>4. ASSUME NEW p \in Loops, NEW s \in Observed, NEW gate \in Gates, Reserve(p, s, gate)
      PROVE ConfigInv'
  <2>1. CASE gate = "send"
    <3> DEFINE j == Job("notify", DedupeKey(s), 0)
    <3>1. /\ p \in Procs /\ up /\ job[p] = Idle
          /\ job' = [job EXCEPT ![p] = j] /\ lockq' = Append(lockq, p)
          /\ UNCHANGED <<notifier, closed, saved, up>>
      BY <1>4, <2>1 DEF Reserve, Procs, messenger
    <3>2. j.kind # "config"
      BY DEF Job
    <3> HIDE DEF j
    <3> QED
      BY <1>s, <3>1, <3>2
  <2>2. CASE gate # "send"
    BY <1>4, <1>u, <2>2 DEF Reserve, messenger
  <2> QED
    BY <2>1, <2>2
<1>5. ASSUME NEW c \in Clients, NEW k \in Keys, Retry(c, k) PROVE ConfigInv'
  <2> DEFINE j == Job("retry", k, 0)
  <2>1. /\ c \in Procs /\ up /\ job[c] = Idle
        /\ job' = [job EXCEPT ![c] = j] /\ lockq' = Append(lockq, c)
        /\ UNCHANGED <<notifier, closed, saved, up>>
    BY <1>5 DEF Retry, Enqueue, Procs, messenger
  <2>2. j.kind # "config"
    BY DEF Job
  <2> HIDE DEF j
  <2> QED
    BY <1>s, <2>1, <2>2
<1>6. ASSUME NEW c \in Clients, SendTest(c) PROVE ConfigInv'
  <2> DEFINE j == Job("test", None, 0)
  <2>1. /\ c \in Procs /\ up /\ job[c] = Idle
        /\ job' = [job EXCEPT ![c] = j] /\ lockq' = Append(lockq, c)
        /\ UNCHANGED <<notifier, closed, saved, up>>
    BY <1>6 DEF SendTest, Enqueue, Procs, messenger, durable
  <2>2. j.kind # "config"
    BY DEF Job
  <2> HIDE DEF j
  <2> QED
    BY <1>s, <2>1, <2>2
<1>7. ASSUME NEW c \in Clients, SaveConfig(c) PROVE ConfigInv'
  <2> DEFINE j == Job("config", None, saved + 1)
  <2>1. /\ c \in Procs /\ up /\ job[c] = Idle /\ saved' = saved + 1
        /\ job' = [job EXCEPT ![c] = j] /\ lockq' = Append(lockq, c)
        /\ UNCHANGED <<notifier, closed, up>>
    BY <1>7 DEF SaveConfig, Enqueue, Procs, messenger
  <2>2. j.kind = "config" /\ j.phase = "queued" /\ j.version = saved + 1
    BY DEF Job
  <2> HIDE DEF j
  <2>3. \A q \in Procs : job'[q] = IF q = c THEN j ELSE job[q]
    BY <2>1 DEF TypeOK
  <2>4. /\ Len(lockq') = Len(lockq) + 1
        /\ \A i \in 1 .. Len(lockq) : lockq'[i] = lockq[i]
        /\ lockq'[Len(lockq) + 1] = c
    BY <1>t, <2>1, AppendIsLast
  <2>5. \A i \in 1 .. Len(lockq) : lockq[i] # c
    BY <1>i, <2>1 DEF LockInv
  <2>6. \A q \in Procs : job[q].kind = "config" =>
          IF job[q].phase = "running" THEN job[q].version < notifier
          ELSE job[q].version <= saved
    BY <2>1 DEF ConfigInv
  <2>7. \A i, k \in 1 .. Len(lockq') :
          /\ i < k
          /\ job'[lockq'[i]].kind = "config" /\ job'[lockq'[i]].phase = "queued"
          /\ job'[lockq'[k]].kind = "config"
          => job'[lockq'[i]].version < job'[lockq'[k]].version
    <3> SUFFICES ASSUME NEW i \in 1 .. Len(lockq'), NEW k \in 1 .. Len(lockq'), i < k,
                        job'[lockq'[i]].kind = "config", job'[lockq'[i]].phase = "queued",
                        job'[lockq'[k]].kind = "config"
                 PROVE  job'[lockq'[i]].version < job'[lockq'[k]].version
      OBVIOUS
    <3>1. i \in 1 .. Len(lockq) /\ lockq'[i] = lockq[i] /\ job'[lockq'[i]] = job[lockq[i]]
      BY <1>t, <2>3, <2>4, <2>5
    <3>2. CASE k = Len(lockq) + 1
      <4>1. job[lockq[i]].version <= saved
        BY <1>t, <2>6, <3>1
      <4>2. job'[lockq'[k]].version = saved + 1
        BY <2>1, <2>2, <2>3, <2>4, <3>2
      <4> QED
        BY <1>t, <3>1, <4>1, <4>2
    <3>3. CASE k # Len(lockq) + 1
      <4>1. k \in 1 .. Len(lockq) /\ lockq'[k] = lockq[k] /\ job'[lockq'[k]] = job[lockq[k]]
        BY <1>t, <2>3, <2>4, <2>5, <3>3
      <4> QED
        BY <2>1, <3>1, <4>1 DEF ConfigInv
    <3> QED
      BY <3>2, <3>3
  <2>8. /\ notifier' <= saved'
        /\ \A v \in closed' : v < notifier'
    BY <1>t, <2>1 DEF ConfigInv
  <2>9. \A q \in Procs : job'[q].kind = "config" =>
          IF job'[q].phase = "running" THEN job'[q].version < notifier'
          ELSE notifier' < job'[q].version /\ job'[q].version <= saved'
    <3>1. notifier < saved + 1
      BY <1>t, <2>1 DEF ConfigInv
    <3>2. \A q \in Procs : q # c /\ job[q].kind = "config" =>
            IF job[q].phase = "running" THEN job[q].version < notifier
            ELSE notifier < job[q].version /\ job[q].version <= saved
      BY <2>1 DEF ConfigInv
    <3> QED
      BY <1>t, <2>1, <2>2, <2>3, <3>1, <3>2
  <2>10. \E q \in Procs : job'[q].kind = "config" /\ job'[q].phase = "queued"
                            /\ job'[q].version = saved'
    BY <2>1, <2>2, <2>3
  <2> QED
    BY <2>7, <2>8, <2>9, <2>10 DEF ConfigInv
<1>8. ASSUME NEW p \in Procs, StartSend(p) PROVE ConfigInv'
  <2>1. /\ \A q \in Procs : /\ job'[q].kind = job[q].kind
                            /\ job'[q].version = job[q].version
                            /\ job[q].kind = "config" => job'[q].phase = job[q].phase
        /\ UNCHANGED <<lockq, notifier, closed, saved, up>>
    BY <1>8, <1>t DEF StartSend, TypeOK, Jobs, durable, messenger
  <2>2. job[p].kind # "config" /\ up
    BY <1>8 DEF StartSend
  <2>3. \A q \in Procs : job'[q].phase = IF q = p THEN "running" ELSE job[q].phase
    BY <1>8, <1>t DEF StartSend, TypeOK, Jobs
  <2>4. \A i, k \in 1 .. Len(lockq') :
          /\ i < k
          /\ job'[lockq'[i]].kind = "config" /\ job'[lockq'[i]].phase = "queued"
          /\ job'[lockq'[k]].kind = "config"
          => job'[lockq'[i]].version < job'[lockq'[k]].version
    <3>1. \A i \in 1 .. Len(lockq) : lockq[i] \in Procs
      BY <1>t
    <3>2. \A i \in 1 .. Len(lockq) :
             /\ job'[lockq[i]].kind = job[lockq[i]].kind
             /\ job'[lockq[i]].version = job[lockq[i]].version
             /\ job[lockq[i]].kind = "config" => job'[lockq[i]].phase = job[lockq[i]].phase
      BY <2>1, <3>1
    <3> QED
      BY <2>1, <2>2, <3>2 DEF ConfigInv
  <2>5. \A q \in Procs : job'[q].kind = "config" =>
          IF job'[q].phase = "running" THEN job'[q].version < notifier'
          ELSE notifier' < job'[q].version /\ job'[q].version <= saved'
    BY <2>1, <2>2 DEF ConfigInv
  <2>6. \/ notifier' = saved'
        \/ \E q \in Procs : job'[q].kind = "config" /\ job'[q].phase = "queued"
                              /\ job'[q].version = saved'
    BY <2>1, <2>2 DEF ConfigInv
  <2>7. notifier' <= saved' /\ \A v \in closed' : v < notifier'
    BY <2>1, <2>2 DEF ConfigInv
  <2> QED
    BY <2>4, <2>5, <2>6, <2>7 DEF ConfigInv
<1>9. ASSUME NEW p \in Procs, SwapNotifier(p) PROVE ConfigInv'
  <2>1. /\ \A q \in Procs : job'[q] = IF q = p
             THEN [job[p] EXCEPT !.phase = "running", !.version = notifier] ELSE job[q]
        /\ UNCHANGED <<lockq, closed, saved, up>>
        /\ up /\ lockq # <<>> /\ lockq[1] = p
        /\ job[p].phase = "queued" /\ job[p].kind = "config"
        /\ notifier' = job[p].version
    BY <1>9 DEF SwapNotifier, TypeOK, durable, history, HasLock
  <2>2. /\ job'[p].kind = "config" /\ job'[p].phase = "running" /\ job'[p].version = notifier
    BY <1>t, <2>1 DEF Jobs
  <2>3. notifier < job[p].version /\ job[p].version <= saved
    BY <2>1 DEF ConfigInv
  <2>4. \A q \in Procs : q # p => job[q].phase # "running"
    BY <2>1 DEF LockInv
  <2>5. Len(lockq) >= 1
    BY <1>t, <2>1
  <2>6. \A q \in Procs : q # p /\ job[q].kind = "config" => job[p].version < job[q].version
    <3> SUFFICES ASSUME NEW q \in Procs, q # p, job[q].kind = "config"
                 PROVE  job[p].version < job[q].version
      OBVIOUS
    <3>1. PICK i \in 1 .. Len(lockq) : lockq[i] = q
      BY DEF LockInv
    <3>2. i > 1 /\ 1 \in 1 .. Len(lockq)
      BY <1>t, <2>1, <2>5, <3>1
    <3> QED
      BY <2>1, <3>1, <3>2 DEF ConfigInv
  <2>7. \A q \in Procs : q # p /\ job[q].kind = "config" =>
          job[q].phase = "queued" /\ job[q].version <= saved
    BY <1>t, <2>1, <2>4 DEF ConfigInv, Jobs
  <2>8. \A i, k \in 1 .. Len(lockq') :
          /\ i < k
          /\ job'[lockq'[i]].kind = "config" /\ job'[lockq'[i]].phase = "queued"
          /\ job'[lockq'[k]].kind = "config"
          => job'[lockq'[i]].version < job'[lockq'[k]].version
    <3> SUFFICES ASSUME NEW i \in 1 .. Len(lockq), NEW k \in 1 .. Len(lockq), i < k,
                        job'[lockq[i]].kind = "config", job'[lockq[i]].phase = "queued",
                        job'[lockq[k]].kind = "config"
                 PROVE  job'[lockq[i]].version < job'[lockq[k]].version
      BY <2>1
    <3>1. lockq[i] # p
      BY <1>t, <2>2
    <3>2. lockq[k] # p
      <4>1. k # 1 /\ 1 \in 1 .. Len(lockq)
        BY <1>t
      <4> QED
        BY <2>1, <4>1 DEF LockInv
    <3> QED
      BY <1>t, <2>1, <3>1, <3>2 DEF ConfigInv
  <2>9. \/ job[p].version = saved
        \/ \E q \in Procs : job'[q].kind = "config" /\ job'[q].phase = "queued"
                              /\ job'[q].version = saved
    <3>1. PICK q \in Procs : job[q].kind = "config" /\ job[q].phase = "queued"
                              /\ job[q].version = saved
      BY <1>t, <2>1, <2>3 DEF ConfigInv
    <3> QED
      BY <2>1, <3>1
  <2>10. \A v \in closed : v < notifier'
    BY <1>t, <2>1, <2>3 DEF ConfigInv
  <2>11. \A q \in Procs : job'[q].kind = "config" =>
          IF job'[q].phase = "running" THEN job'[q].version < notifier'
          ELSE notifier' < job'[q].version /\ job'[q].version <= saved'
    <3> SUFFICES ASSUME NEW q \in Procs, job'[q].kind = "config"
                 PROVE  IF job'[q].phase = "running" THEN job'[q].version < notifier'
                        ELSE notifier' < job'[q].version /\ job'[q].version <= saved'
      OBVIOUS
    <3>1. CASE q = p
      BY <2>1, <2>2, <2>3, <3>1
    <3>2. CASE q # p
      <4>1. job'[q] = job[q]
        BY <2>1, <3>2
      <4> QED
        BY <2>1, <2>6, <2>7, <3>2, <4>1
    <3> QED
      BY <3>1, <3>2
  <2>12. notifier' <= saved'
    BY <2>1, <2>3
  <2>13. \A v \in closed' : v < notifier'
    BY <2>1, <2>10
  <2>14. \/ notifier' = saved'
         \/ \E q \in Procs : job'[q].kind = "config" /\ job'[q].phase = "queued"
                               /\ job'[q].version = saved'
    BY <2>1, <2>9
  <2> QED
    BY <2>8, <2>11, <2>12, <2>13, <2>14 DEF ConfigInv
<1>10. ASSUME NEW p \in Procs, NEW outcome \in {"sent", "failed"}, FinishSend(p, outcome)
       PROVE ConfigInv'
  BY <1>10, <1>r DEF FinishSend, messenger, ConfigInv
<1>11. ASSUME NEW p \in Procs, FinishSwap(p) PROVE ConfigInv'
  <2>1. job[p].version < notifier
    BY <1>11 DEF FinishSwap, ConfigInv
  <2>2. \A v \in closed' : v < notifier
    BY <1>11, <2>1 DEF FinishSwap, ConfigInv
  <2> QED
    BY <1>11, <1>r, <2>2 DEF FinishSwap, durable
<1>12. ASSUME Crash PROVE ConfigInv'
  BY <1>12 DEF Crash, Die, ConfigInv
<1>13. ASSUME NEW p \in Loops, NEW s \in Observed, CrashWhileReserving(p, s) PROVE ConfigInv'
  BY <1>13 DEF CrashWhileReserving, Die, ConfigInv
<1>14. ASSUME Stop PROVE ConfigInv'
  BY <1>14 DEF Stop, Die, ConfigInv
<1>15. ASSUME NEW status \in [Threads -> Statuses \cup {None}], Restart(status) PROVE ConfigInv'
  <2>1. /\ \A p \in Procs : job'[p].kind = "idle"
        /\ notifier' = saved' /\ closed' = {} /\ saved' \in Nat
        /\ lockq' = lockq
    BY <1>15, <1>i, <1>t DEF Restart, LockInv, history
  <2> QED
    BY <1>t, <2>1 DEF ConfigInv
<1>16. ASSUME UNCHANGED vars PROVE ConfigInv'
  BY <1>16, <1>u DEF vars
<1> QED
  BY <1>1, <1>2, <1>3, <1>4, <1>5, <1>6, <1>7, <1>8, <1>9, <1>10, <1>11,
     <1>12, <1>13, <1>14, <1>15, <1>16 DEF Next
----------------------------------------------------------------------------
(* The theorems *)

(* The inductive invariant holds at the start, every step keeps it, so that *)
(* it holds of every behaviour.                                            *)
LEMMA PipelineInit == Init => IInv
<1> SUFFICES ASSUME Init PROVE IInv
  OBVIOUS
<1>1. TypeOK
  <2>1. Idle \in Jobs /\ NoNote \in Notes
    BY BoundsAssumption DEF Idle, Jobs, Versions, NoNote, Notes
  <2>2. lockq \in Seq(Procs)
    BY DEF Init
  <2> QED
    BY <2>1, <2>2, BoundsAssumption DEF Init, TypeOK, Versions
<1>2. Len(lockq) = 0 /\ \A p \in Procs : job[p] = Idle
  BY DEF Init
<1>3. LockInv
  BY <1>2 DEF LockInv, Idle
<1>4. \A k \in Keys : note[k].state = "absent" /\ sends[k] = 0 /\ retries[k] = 0
  BY DEF Init, NoNote
<1>5. OwnerInv /\ SendInv
  BY <1>2, <1>4 DEF Init, OwnerInv, PendingHasOneOwner, SendInv,
                    SentAtMostOncePerRequest, Idle
<1>6. ConfigInv
  BY <1>2 DEF Init, ConfigInv, Idle
<1> QED
  BY <1>1, <1>3, <1>5, <1>6 DEF IInv

LEMMA PipelineStep == IInv /\ [Next]_vars => IInv'
BY TypeStep, LockStep, OwnerStep, SendStep, ConfigStep DEF IInv

THEOREM Invariance == Spec => []IInv
BY PipelineInit, PipelineStep, PTL DEF Spec

(* No key is handed to the messenger twice without an explicit retry,      *)
(* across any number of loops, handlers and crashes.                       *)
THEOREM NoDuplicateSend == Spec => []SentAtMostOncePerRequest
<1>1. IInv => SentAtMostOncePerRequest
  BY DEF IInv, SendInv
<1> QED
  BY <1>1, Invariance, PTL

(* A pending row belongs to exactly one live task or died with its task.   *)
THEOREM OneOwner == Spec => []PendingHasOneOwner
<1>1. IInv => PendingHasOneOwner
  BY DEF IInv, OwnerInv
<1> QED
  BY <1>1, Invariance, PTL

(* No task sends with a closed messenger, however many configuration       *)
(* changes overlap with sends.                                             *)
THEOREM MessengerIsOpen == Spec => []NoSendOnClosedMessenger
<1>1. IInv => NoSendOnClosedMessenger
  <2> SUFFICES ASSUME IInv, up, notifier \in closed PROVE FALSE
    BY DEF NoSendOnClosedMessenger
  <2>1. notifier < notifier /\ notifier \in Nat
    BY BoundsAssumption DEF IInv, TypeOK, ConfigInv, Versions
  <2> QED
    BY <2>1
<1> QED
  BY <1>1, Invariance, PTL

(* The last settings saved are in use, or their swap still waits its turn. *)
THEOREM ConfigConverges == Spec => []LastSavedWins
<1>1. IInv => LastSavedWins
  BY DEF IInv, ConfigInv, LastSavedWins
<1> QED
  BY <1>1, Invariance, PTL

(* One step never touches a notification recorded as sent. *)
LEMMA SentStep ==
  ASSUME IInv, [Next]_vars, NEW k \in Keys, note[k].state = "sent"
  PROVE  note'[k].state = "sent" /\ sends'[k] = sends[k]
<1>t. /\ \A p \in Procs : job[p] \in Jobs /\ job[p].key \in Keys \cup {None}
      /\ \A x \in Keys : note[x] \in Notes
      /\ note \in [Keys -> Notes] /\ sends \in [Keys -> Nat]
  BY DEF IInv, TypeOK, Jobs
<1>h. \A p \in Procs : job[p].key # k
  BY NoneAssumption DEF IInv, OwnerInv, PendingHasOneOwner
<1>u. ASSUME note' = note, sends' = sends PROVE note'[k].state = "sent" /\ sends'[k] = sends[k]
  BY <1>u
<1>n. ASSUME NEW s \in Observed, IsNews(s) PROVE DedupeKey(s) \in Keys /\ DedupeKey(s) # k
  BY <1>n, KeyOfNews DEF IsNews
<1>4. ASSUME NEW p \in Loops, NEW s \in Observed, NEW gate \in Gates, Reserve(p, s, gate)
      PROVE note'[k].state = "sent" /\ sends'[k] = sends[k]
  <2>1. IsNews(s) /\ note' = [note EXCEPT ![DedupeKey(s)] = NoteAfter(gate)] /\ sends' = sends
    BY <1>4 DEF Reserve
  <2> QED
    BY <1>n, <1>t, <2>1
<1>5. ASSUME NEW c \in Clients, NEW x \in Keys, Retry(c, x)
      PROVE note'[k].state = "sent" /\ sends'[k] = sends[k]
  BY <1>5, <1>t DEF Retry
<1>8. ASSUME NEW p \in Procs, StartSend(p)
      PROVE note'[k].state = "sent" /\ sends'[k] = sends[k]
  BY <1>8, <1>h, <1>t DEF StartSend, durable
<1>10. ASSUME NEW p \in Procs, NEW outcome \in {"sent", "failed"}, FinishSend(p, outcome)
       PROVE note'[k].state = "sent" /\ sends'[k] = sends[k]
  BY <1>10, <1>h, <1>t DEF FinishSend, history
<1>13. ASSUME NEW p \in Loops, NEW s \in Observed, CrashWhileReserving(p, s)
       PROVE note'[k].state = "sent" /\ sends'[k] = sends[k]
  <2>1. IsNews(s) /\ sends' = sends
    BY <1>13 DEF CrashWhileReserving
  <2>2. PICK r : note' = [note EXCEPT ![DedupeKey(s)] = r]
    BY <1>13 DEF CrashWhileReserving
  <2> QED
    BY <1>n, <1>t, <2>1, <2>2
<1> QED
  BY <1>4, <1>5, <1>8, <1>10, <1>13, <1>u
  DEF Next, StartWatch, Deactivate, Observe, SendTest, SaveConfig, SwapNotifier,
      FinishSwap, Crash, Stop, Restart, history, durable, vars

(* A notification recorded as sent is never reopened, failed or sent again.*)
THEOREM SentStays == Spec => SentIsFinal
<1>1. IInv /\ [Next]_vars =>
        [\A k \in Keys : note[k].state = "sent" =>
           note'[k].state = "sent" /\ sends'[k] = sends[k]]_vars
  BY SentStep
<1> QED
  BY <1>1, Invariance, PTL DEF Spec, SentIsFinal

----------------------------------------------------------------------------
(* The notification table implements Outbox *)

(* A step that loses keys, or none, and leaves the rows alone is a step of *)
(* the outbox.                                                             *)
LEMMA StrandImplements ==
  ASSUME IInv, UNCHANGED <<note, sends>>,
         \/ stranded' = stranded
         \/ stranded' = stranded \cup HeldKeys(Procs)
  PROVE  [Promise!Next]_(Promise!vars)
<1>1. \A k \in HeldKeys(Procs) : k \in Keys /\ note[k].state = "pending"
  BY HeldKeysArePending DEF IInv
<1>2. stranded \subseteq Keys
  BY DEF IInv, TypeOK
<1>3. CASE stranded' = stranded
  BY <1>3 DEF Promise!vars
<1>4. CASE stranded' = stranded \cup HeldKeys(Procs)
  <2>1. Promise!MayStrand
    BY <1>1, <1>2, <1>4 DEF Promise!MayStrand
  <2> QED
    BY <2>1 DEF Promise!Next, Promise!Strand
<1> QED
  BY <1>3, <1>4

(* Every step of the pipeline is a step of the outbox or leaves it alone.  *)
LEMMA StepImplements == IInv /\ [Next]_vars => [Promise!Next]_(Promise!vars)
<1> SUFFICES ASSUME IInv, [Next]_vars PROVE [Promise!Next]_(Promise!vars)
  OBVIOUS
<1> DEFINE st == [k \in Keys |-> note[k].state]
<1> USE NoneAssumption
<1>t. /\ \A p \in Procs : job[p] \in Jobs /\ job[p].key \in Keys \cup {None}
      /\ \A x \in Keys : note[x] \in Notes
      /\ note \in [Keys -> Notes] /\ sends \in [Keys -> Nat] /\ stranded \subseteq Keys
  BY DEF IInv, TypeOK, Jobs
<1>u. ASSUME UNCHANGED <<note, sends, stranded>> PROVE [Promise!Next]_(Promise!vars)
  BY <1>u, StrandImplements
\* The row of one key changes its state, and nothing else does.
<1>r. ASSUME NEW k \in Keys, NEW r, note' = [note EXCEPT ![k] = r]
      PROVE st' = [st EXCEPT ![k] = r.state]
  BY <1>r, <1>t
<1>1. ASSUME NEW s \in Observed, NEW mode \in Modes, StartWatch(s, mode)
      PROVE [Promise!Next]_(Promise!vars)
  BY <1>1, <1>u DEF StartWatch, history
<1>2. ASSUME NEW t \in Threads, Deactivate(t) PROVE [Promise!Next]_(Promise!vars)
  BY <1>2, <1>u DEF Deactivate, history
<1>3. ASSUME NEW p \in Loops, NEW s \in Observed, Observe(p, s)
      PROVE [Promise!Next]_(Promise!vars)
  BY <1>3, <1>u DEF Observe, history, durable
<1>4. ASSUME NEW p \in Loops, NEW s \in Observed, NEW gate \in Gates, Reserve(p, s, gate)
      PROVE [Promise!Next]_(Promise!vars)
  <2> DEFINE k == DedupeKey(s)
  <2>1. k \in Keys /\ note[k].state = "absent"
    BY <1>4, KeyOfNews DEF Reserve, IsNews
  <2>2. /\ note' = [note EXCEPT ![k] = NoteAfter(gate)]
        /\ sends' = sends
        /\ stranded' = IF gate = "unreadable" THEN stranded \cup {k} ELSE stranded
    BY <1>4 DEF Reserve
  <2>3. st' = [st EXCEPT ![k] = NoteAfter(gate).state]
    BY <1>r, <2>1, <2>2
  <2>4. NoteAfter(gate).state \in {"pending", "failed"}
    BY DEF NoteAfter
  <2>5. gate = "unreadable" => st'[k] = "pending"
    BY <1>t, <2>1, <2>3 DEF NoteAfter
  <2>6. st[k] = "absent"
    BY <2>1
  <2> HIDE DEF k, st
  <2>7. /\ stranded \subseteq stranded' /\ stranded' \subseteq Keys
        /\ \A x \in stranded' \ stranded : st'[x] = "pending"
    BY <1>t, <2>1, <2>2, <2>5
  <2>8. Promise!Submit(k)
    BY <2>2, <2>3, <2>4, <2>6, <2>7 DEF Promise!Submit, Promise!MayStrand, st
  <2> QED
    BY <2>1, <2>8 DEF Promise!Next
<1>5. ASSUME NEW c \in Clients, NEW k \in Keys, Retry(c, k)
      PROVE [Promise!Next]_(Promise!vars)
  <2> DEFINE r == [state |-> "pending", text |-> TRUE]
  <2>0. note' = [note EXCEPT ![k] = r] /\ r.state = "pending"
    BY <1>5 DEF Retry
  <2> HIDE DEF r
  <2>1. st' = [st EXCEPT ![k] = "pending"]
    <3>1. st' = [st EXCEPT ![k] = r.state]
      BY <1>r, <2>0
    <3> QED
      BY <2>0, <3>1
  <2>2. st[k] = "failed" /\ UNCHANGED <<sends, stranded>>
    BY <1>5 DEF Retry
  <2>3. Promise!Resubmit(k)
    BY <2>1, <2>2 DEF Promise!Resubmit
  <2> QED
    BY <2>3 DEF Promise!Next
<1>6. ASSUME NEW c \in Clients, SendTest(c) PROVE [Promise!Next]_(Promise!vars)
  BY <1>6, <1>u DEF SendTest, durable, history
<1>7. ASSUME NEW c \in Clients, SaveConfig(c) PROVE [Promise!Next]_(Promise!vars)
  BY <1>7, <1>u DEF SaveConfig, history
<1>8. ASSUME NEW p \in Procs, StartSend(p) PROVE [Promise!Next]_(Promise!vars)
  <2>0. UNCHANGED <<note, stranded>>
    BY <1>8 DEF StartSend, durable
  <2>1. CASE job[p].key = None
    BY <1>8, <1>u, <2>0, <2>1 DEF StartSend
  <2>2. CASE job[p].key # None
    <3> DEFINE k == job[p].key
    <3>1. k \in Keys /\ note[k].state = "pending" /\ k \notin stranded
      BY <1>t, <2>2 DEF IInv, OwnerInv, PendingHasOneOwner
    <3>2. sends' = [sends EXCEPT ![k] = @ + 1]
      BY <1>8, <2>2 DEF StartSend
    <3>3. st[k] = "pending" /\ st' = st
      BY <2>0, <3>1
    <3> HIDE DEF k, st
    <3>4. Promise!Send(k)
      BY <2>0, <3>1, <3>2, <3>3 DEF Promise!Send, st
    <3> QED
      BY <3>1, <3>4 DEF Promise!Next
  <2> QED
    BY <2>1, <2>2
<1>9. ASSUME NEW p \in Procs, SwapNotifier(p) PROVE [Promise!Next]_(Promise!vars)
  BY <1>9, <1>u DEF SwapNotifier, durable, history
<1>10. ASSUME NEW p \in Procs, NEW outcome \in {"sent", "failed"}, FinishSend(p, outcome)
       PROVE [Promise!Next]_(Promise!vars)
  <2>0. UNCHANGED <<sends, stranded>>
    BY <1>10 DEF FinishSend, history
  <2>1. CASE job[p].key = None
    BY <1>10, <1>u, <2>0, <2>1 DEF FinishSend
  <2>2. CASE job[p].key # None
    <3>1. PICK k \in Keys : k = job[p].key /\ note[k].state = "pending" /\ k \notin stranded
      BY <1>t, <2>2 DEF IInv, OwnerInv, PendingHasOneOwner
    <3>2. sends[k] > 0
      BY <1>10, <2>2, <3>1 DEF IInv, SendInv, FinishSend
    <3>3. note' = [note EXCEPT ![k].state = outcome]
      BY <1>10, <2>2, <3>1 DEF FinishSend
    <3>4. st' = [st EXCEPT ![k] = outcome]
      BY <1>t, <3>1, <3>3 DEF Notes
    <3>5. st[k] = "pending"
      BY <3>1
    <3> HIDE DEF st
    <3>6. Promise!Settle(k)
      BY <2>0, <3>1, <3>2, <3>4, <3>5 DEF Promise!Settle, st
    <3> QED
      BY <3>6 DEF Promise!Next
  <2> QED
    BY <2>1, <2>2
<1>11. ASSUME NEW p \in Procs, FinishSwap(p) PROVE [Promise!Next]_(Promise!vars)
  BY <1>11, <1>u DEF FinishSwap, durable, history
<1>12. ASSUME Crash PROVE [Promise!Next]_(Promise!vars)
  BY <1>12, StrandImplements DEF Crash, durable
<1>13. ASSUME NEW p \in Loops, NEW s \in Observed, CrashWhileReserving(p, s)
       PROVE [Promise!Next]_(Promise!vars)
  <2> DEFINE k == DedupeKey(s)
  <2>1. k \in Keys /\ note[k].state = "absent"
    BY <1>13, KeyOfNews DEF CrashWhileReserving, IsNews
  <2>2. PICK text \in BOOLEAN : note' = [note EXCEPT ![k] = [state |-> "pending", text |-> text]]
    BY <1>13 DEF CrashWhileReserving
  <2>3. st' = [st EXCEPT ![k] = "pending"]
    <3> DEFINE r == [state |-> "pending", text |-> text]
    <3>1. note' = [note EXCEPT ![k] = r] /\ r.state = "pending"
      BY <2>2
    <3> HIDE DEF r, k
    <3>2. st' = [st EXCEPT ![k] = r.state]
      BY <1>r, <2>1, <3>1
    <3> QED
      BY <3>1, <3>2
  <2>4. st[k] = "absent" /\ sends' = sends
    BY <1>13, <2>1 DEF CrashWhileReserving
  <2>5. stranded' = stranded \cup HeldKeys(Procs) \cup {k}
    BY <1>13 DEF CrashWhileReserving
  <2>6. \A x \in HeldKeys(Procs) : x \in Keys /\ st[x] = "pending"
    BY HeldKeysArePending DEF IInv
  <2>7. st'[k] = "pending" /\ \A x \in HeldKeys(Procs) : st'[x] = "pending"
    BY <2>1, <2>3, <2>6
  <2> HIDE DEF k, st
  <2>8. /\ stranded \subseteq stranded' /\ stranded' \subseteq Keys
        /\ \A x \in stranded' \ stranded : st'[x] = "pending"
    BY <1>t, <2>1, <2>5, <2>6, <2>7
  <2>9. Promise!Submit(k)
    BY <2>3, <2>4, <2>8 DEF Promise!Submit, Promise!MayStrand, st
  <2> QED
    BY <2>1, <2>9 DEF Promise!Next
<1>14. ASSUME Stop PROVE [Promise!Next]_(Promise!vars)
  BY <1>14, StrandImplements DEF Stop, durable
<1>15. ASSUME NEW status \in [Threads -> Statuses \cup {None}], Restart(status)
       PROVE [Promise!Next]_(Promise!vars)
  BY <1>15, <1>u DEF Restart, history
<1>16. ASSUME UNCHANGED vars PROVE [Promise!Next]_(Promise!vars)
  BY <1>16, <1>u DEF vars
<1> QED
  BY <1>1, <1>2, <1>3, <1>4, <1>5, <1>6, <1>7, <1>8, <1>9, <1>10, <1>11,
     <1>12, <1>13, <1>14, <1>15, <1>16 DEF Next

(* The notification table, with every loop, handler, crash and restart,    *)
(* implements the outbox: submit once, send once per submission, settle,   *)
(* strand only what is pending.                                            *)
THEOREM ImplementsOutbox == Spec => KeepsPromise
<1>1. Init => Promise!Init
  BY DEF Init, Promise!Init, NoNote
<1> QED
  BY <1>1, StepImplements, Invariance, PTL DEF Spec, KeepsPromise, Promise!Spec
=============================================================================
