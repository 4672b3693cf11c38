--------------------------- MODULE DeliveryProofs ---------------------------
(***************************************************************************)
(* Proofs about FeishuClient for every number of tries, and about Delivery *)
(* for every number of loops, clients, keys, retries and deaths as well.   *)
(***************************************************************************)
EXTENDS Delivery, NotificationPipelineProofs, TLAPS

----------------------------------------------------------------------------
(* FeishuClient *)

(* The inductive invariant: the posts made are the tries used, as long as  *)
(* the call goes on no message was taken but those nobody heard of, and    *)
(* who renews or has renewed the token had one rejected.                   *)
Counted ==
  /\ step \in {"idle", "sent", "failed", "auth", "post", "renew"}
  /\ attempt \in Nat /\ attempt < Tries
  /\ posts \in Nat /\ accepted \in Nat /\ unheard \in Nat /\ rejected \in Nat
  /\ rejected <= posts

Unfinished ==
  /\ step \in {"auth", "post"} => posts = attempt
  /\ step = "renew" => posts = attempt + 1
  /\ step = "auth" => attempt = 0
  /\ InCall => accepted <= unheard
  /\ refreshed \/ step = "renew" => rejected > 0

FInv == Counted /\ Unfinished /\ DuplicatesAreUnheard /\ RetriesWhatIsTransient

(* At the start no call was made. *)
LEMMA FInvInit == FInit => FInv
BY FeishuAssumption
   DEF FInit, FInv, Counted, Unfinished, DuplicatesAreUnheard, RetriesWhatIsTransient, InCall

(* A network error or a busy server: one try more, or the end of the call. *)
LEMMA NextTryCounts ==
  ASSUME Counted, NextTry
  PROVE  \/ attempt = Tries - 1 /\ step' = "failed" /\ attempt' = attempt
         \/ attempt + 1 < Tries /\ step' = "post" /\ attempt' = attempt + 1
BY FeishuAssumption DEF Counted, NextTry

(* Every step keeps the invariant.  What is said of the last error follows *)
(* from the tries used when it occurred.                                   *)
LEMMA FInvNext == FInv /\ [FNext]_fvars => FInv'
<1> SUFFICES ASSUME FInv, [FNext]_fvars PROVE FInv'
  OBVIOUS
<1> USE FeishuAssumption
    DEF FInv, Counted, Unfinished, DuplicatesAreUnheard, RetriesWhatIsTransient, Transient, InCall
<1>1. CASE SendText
  BY <1>1 DEF SendText, NothingWrong
<1>2. CASE FirstToken
  BY <1>2 DEF FirstToken, Wrong
<1>3. CASE Renew
  <2>1. CASE NextTry /\ (UNCHANGED wrong \/ Wrong("network"))
    BY <1>3, <2>1, NextTryCounts DEF Renew, Wrong
  <2>2. CASE \E kind \in {"busy", "garbled", "refused"}: Wrong(kind) /\ step' = "failed" /\ UNCHANGED attempt
    BY <1>3, <2>2 DEF Renew, Wrong
  <2> QED
    BY <1>3, <2>1, <2>2 DEF Renew
<1>4. CASE Post
  <2> SUFFICES ASSUME step = "post", posts' = posts + 1, Accepted \/ Unavailable \/ Refused \/ Rejected
               PROVE  FInv'
    BY <1>4 DEF Post
  <2>1. CASE Accepted
    <3>1. CASE step' = "sent" /\ UNCHANGED <<attempt, unheard, wrong>>
      BY <2>1, <3>1 DEF Accepted
    <3>2. CASE (Wrong("network") \/ Wrong("busy")) /\ NextTry /\ unheard' = unheard + 1
      BY <2>1, <3>2, NextTryCounts DEF Accepted, Wrong
    <3>3. CASE Wrong("garbled") /\ step' = "failed" /\ UNCHANGED <<attempt, unheard>>
      BY <2>1, <3>3 DEF Accepted, Wrong
    <3> QED
      BY <2>1, <3>1, <3>2, <3>3 DEF Accepted
  <2>2. CASE Unavailable
    BY <2>2, NextTryCounts DEF Unavailable, Wrong
  <2>3. CASE Refused
    BY <2>3 DEF Refused, Wrong
  <2>4. CASE Rejected
    BY <2>4 DEF Rejected, Wrong
  <2> QED
    BY <2>1, <2>2, <2>3, <2>4
<1>5. CASE Expire
  BY <1>5 DEF Expire, callHistory
<1>6. CASE Revoke
  BY <1>6 DEF Revoke, callHistory
<1>7. CASE UNCHANGED fvars
  BY <1>7 DEF fvars, callHistory
<1> QED
  BY <1>1, <1>2, <1>3, <1>4, <1>5, <1>6, <1>7 DEF FNext

----------------------------------------------------------------------------
(* Delivery *)

(* The call in progress is for key k. *)
CallFor(k) == Sending /\ KeyOfCall = k

(* Of the messages of a key the server took, all were missed but the one   *)
(* the table knows of, the call in progress is about to report, or whose   *)
(* process died.                                                           *)
Balanced(k) ==
  /\ taken[k] = missed[k] \/ taken[k] = missed[k] + 1
  /\ taken[k] # missed[k] =>
       note[k].state = "sent" \/ k \in stranded \/ (CallFor(k) /\ step = "sent")
  /\ note[k].state = "sent" => taken[k] = missed[k] + 1
  /\ CallFor(k) /\ step = "sent" => taken[k] = missed[k] + 1

Counters == taken \in [Keys -> Nat] /\ missed \in [Keys -> Nat]

DInv ==
  /\ IInv
  /\ FInv
  /\ Sending => step # "idle"
  /\ Counters
  /\ \A k \in Keys : Balanced(k)

LEMMA HangupCounts == ASSUME Hangup PROVE FInv'
BY FeishuAssumption
   DEF Hangup, NothingWrong, FInv, Counted, Unfinished, DuplicatesAreUnheard,
       RetriesWhatIsTransient, Transient, InCall

(* The fields of a job, and what its key is to the table. *)
LEMMA JobFields ==
  ASSUME IInv, NEW p \in Procs
  PROVE  /\ job[p].key \in Keys \cup {None}
         /\ job[p].key # None => /\ note[job[p].key].state = "pending"
                                 /\ job[p].key \notin stranded
BY DEF IInv, TypeOK, Jobs, OwnerInv, PendingHasOneOwner

(* The task that is in a call is at the head of the queue. *)
LEMMA CallIsHead ==
  ASSUME IInv, Sending
  PROVE  /\ lockq # <<>> /\ lockq[1] \in Procs
         /\ KeyOfCall \in Keys \cup {None}
         /\ job[lockq[1]].phase = "running" /\ job[lockq[1]].kind # "config"
BY JobFields DEF Sending, HasLock, KeyOfCall

(* A call for a key has it pending and not stranded. *)
LEMMA CallIsPending ==
  ASSUME IInv, NEW k \in Keys, CallFor(k)
  PROVE  note[k].state = "pending" /\ k \notin stranded
BY CallIsHead, JobFields, NoneAssumption DEF CallFor, KeyOfCall

(* Whoever hands the lock over leaves nobody in a call. *)
LEMMA ReleaseEndsCalls ==
  ASSUME IInv, NEW p \in Procs, HasLock(p), Release(p)
  PROVE  ~ Sending'
<1> SUFFICES ASSUME NEW q \in Procs, HasLock(q)', job'[q].phase = "running" PROVE FALSE
  BY DEF Sending
<1>1. lockq \in Seq(Procs) /\ lockq # <<>> /\ lockq[1] = p /\ job \in [Procs -> Jobs]
  BY DEF IInv, TypeOK, HasLock
<1>2. q # p
  BY <1>1 DEF Release, Idle
<1>3. job[q].phase = "running"
  BY <1>1, <1>2 DEF Release
<1>4. lockq[1] = q
  BY <1>3 DEF IInv, LockInv
<1> QED
  BY <1>1, <1>2, <1>4

(* Joining the queue of the lock changes nothing for the call in progress. *)
LEMMA EnqueueKeepsCall ==
  ASSUME IInv, NEW p \in Procs, NEW j, job[p] = Idle, j.phase = "queued",
         job' = [job EXCEPT ![p] = j], lockq' = Append(lockq, p)
  PROVE  /\ Sending' <=> Sending
         /\ Sending => KeyOfCall' = KeyOfCall
<1>1. lockq \in Seq(Procs) /\ job \in [Procs -> Jobs]
  BY DEF IInv, TypeOK
<1>2. CASE lockq = <<>>
  <2>1. lockq' = <<p>> /\ job'[p] = j
    BY <1>1, <1>2
  <2>2. ~ Sending' 
    BY <2>1 DEF Sending, HasLock
  <2> QED
    BY <1>2, <2>2 DEF Sending, HasLock
<1>3. CASE lockq # <<>>
  <2>1. lockq' # <<>> /\ lockq'[1] = lockq[1] /\ lockq[1] \in Procs
    BY <1>1, <1>3
  <2>2. job[lockq[1]].kind # "idle"
    BY <1>1, <1>3 DEF IInv, LockInv
  <2>3. lockq[1] # p
    BY <2>2 DEF Idle
  <2>4. job'[lockq[1]] = job[lockq[1]]
    BY <1>1, <2>1, <2>3
  <2> QED
    BY <1>3, <2>1, <2>4 DEF Sending, HasLock, KeyOfCall
<1> QED
  BY <1>2, <1>3

LEMMA SameQueueKeepsCall ==
  ASSUME UNCHANGED <<job, lockq>>
  PROVE  /\ Sending' <=> Sending
         /\ Sending => KeyOfCall' = KeyOfCall
BY DEF Sending, HasLock, KeyOfCall

(* Nothing is settled, and no call touched, without the messenger. *)
LEMMA ElsewhereIsQuiet ==
  ASSUME IInv, Elsewhere
  PROVE  /\ Next
         /\ Sending' <=> Sending
         /\ Sending => KeyOfCall' = KeyOfCall
         /\ stranded \subseteq stranded'
         /\ \A k \in Keys : note'[k].state = "sent" => note[k].state = "sent"
<1>t. note \in [Keys -> Notes] /\ Loops \subseteq Procs /\ Clients \subseteq Procs
  BY DEF IInv, TypeOK, Procs
<1>1. CASE \E s \in Observed, mode \in Modes : StartWatch(s, mode)
  BY <1>1, SameQueueKeepsCall DEF Next, StartWatch, history
<1>2. CASE \E t \in Threads : Deactivate(t)
  BY <1>2, SameQueueKeepsCall DEF Next, Deactivate, history
<1>3. CASE \E p \in Loops, s \in Observed : Observe(p, s)
  BY <1>3, SameQueueKeepsCall DEF Next, Observe, history, durable
<1>4. CASE \E p \in Loops, s \in Observed, gate \in Gates : Reserve(p, s, gate)
  <2> PICK p \in Loops, s \in Observed, gate \in Gates : Reserve(p, s, gate)
    BY <1>4
  <2>1. Next
    BY DEF Next
  <2>2. DedupeKey(s) \in Keys /\ note' = [note EXCEPT ![DedupeKey(s)] = NoteAfter(gate)]
    BY KeyOfNews DEF Reserve, IsNews
  <2>3. NoteAfter(gate).state # "sent"
    BY DEF NoteAfter
  <2>4. \A k \in Keys : note'[k].state = "sent" => note[k].state = "sent"
    BY <1>t, <2>2, <2>3
  <2>5. stranded \subseteq stranded'
    BY DEF Reserve
  <2>6. (Sending' <=> Sending) /\ (Sending => KeyOfCall' = KeyOfCall)
    <3>1. CASE gate = "send"
      <4>1. Job("notify", DedupeKey(s), 0).phase = "queued"
        BY DEF Job
      <4> QED
        BY <1>t, <3>1, <4>1, EnqueueKeepsCall DEF Reserve
    <3>2. CASE gate # "send"
      BY <3>2, SameQueueKeepsCall DEF Reserve
    <3> QED
      BY <3>1, <3>2
  <2> QED
    BY <2>1, <2>4, <2>5, <2>6
<1>5. CASE \E c \in Clients, k \in Keys : Retry(c, k)
  <2> PICK c \in Clients, k \in Keys : Retry(c, k)
    BY <1>5
  <2>1. Next
    BY DEF Next
  <2>2. note' = [note EXCEPT ![k] = [state |-> "pending", text |-> TRUE]] /\ stranded' = stranded
    BY DEF Retry
  <2>3. Job("retry", k, 0).phase = "queued"
    BY DEF Job
  <2>4. (Sending' <=> Sending) /\ (Sending => KeyOfCall' = KeyOfCall)
    BY <1>t, <2>3, EnqueueKeepsCall DEF Retry, Enqueue
  <2> QED
    BY <1>t, <2>1, <2>2, <2>4
<1>6. CASE \E c \in Clients : SendTest(c)
  <2> PICK c \in Clients : SendTest(c)
    BY <1>6
  <2>1. Next /\ note' = note /\ stranded' = stranded
    BY DEF Next, SendTest, durable, history
  <2>2. Job("test", None, 0).phase = "queued"
    BY DEF Job
  <2>3. (Sending' <=> Sending) /\ (Sending => KeyOfCall' = KeyOfCall)
    BY <1>t, <2>2, EnqueueKeepsCall DEF SendTest, Enqueue
  <2> QED
    BY <2>1, <2>3
<1>7. CASE \E c \in Clients : SaveConfig(c)
  <2> PICK c \in Clients : SaveConfig(c)
    BY <1>7
  <2>1. Next /\ note' = note /\ stranded' = stranded
    BY DEF Next, SaveConfig, history
  <2>2. Job("config", None, saved').phase = "queued"
    BY DEF Job
  <2>3. (Sending' <=> Sending) /\ (Sending => KeyOfCall' = KeyOfCall)
    BY <1>t, <2>2, EnqueueKeepsCall DEF SaveConfig, Enqueue
  <2> QED
    BY <2>1, <2>3
<1>8. CASE \E status \in [Threads -> Statuses \cup {None}] : Restart(status)
  BY <1>8, SameQueueKeepsCall DEF Next, Restart, history
<1> QED
  BY <1>1, <1>2, <1>3, <1>4, <1>5, <1>6, <1>7, <1>8 DEF Elsewhere

(* A call begins: nobody was in one, and no message of it was taken. *)
LEMMA CallBalances ==
  ASSUME DInv, NEW p \in Procs, Call(p)
  PROVE  DInv'
<1> USE DEF DInv
<1>1. StartSend(p) /\ SendText /\ UNCHANGED deliveries /\ Next
  BY DEF Call, Next
<1>2. IInv' /\ FInv'
  BY <1>1, PipelineStep, FInvNext DEF FNext
<1>3. step' # "idle" /\ step' # "sent"
  BY <1>1 DEF SendText
<1>4. note' = note /\ stranded' = stranded /\ taken' = taken /\ missed' = missed
  BY <1>1 DEF StartSend, durable, deliveries
<1>5. ~ Sending
  <2> SUFFICES ASSUME Sending PROVE FALSE
    OBVIOUS
  <2> QED
    BY <1>1, CallIsHead DEF StartSend, HasLock
<1>6. ASSUME NEW k \in Keys PROVE Balanced(k)'
  BY <1>3, <1>4, <1>5 DEF Balanced, CallFor
<1> QED
  BY <1>2, <1>3, <1>4, <1>6 DEF Counters

(* What a step of the call makes of its messages. *)
LEMMA PostCounts ==
  ASSUME FInv, Post
  PROVE  /\ step' # "idle"
         /\ accepted' = accepted => step' # "sent"
         /\ accepted' # accepted =>
              ((unheard' = unheard /\ wrong'.kind # "garbled") <=> step' = "sent")
<1>1. accepted \in Nat /\ unheard \in Nat /\ wrong.kind # "garbled"
  BY DEF FInv, Counted, RetriesWhatIsTransient, InCall, Post
<1>2. ASSUME NextTry PROVE step' \in {"post", "failed"}
  BY <1>2 DEF NextTry
<1>3. CASE Accepted
  BY <1>1, <1>2, <1>3 DEF Accepted, Wrong
<1>4. CASE Unavailable
  BY <1>2, <1>4 DEF Unavailable
<1>5. CASE Refused
  BY <1>5 DEF Refused
<1>6. CASE Rejected
  BY <1>6 DEF Rejected
<1> QED
  BY <1>3, <1>4, <1>5, <1>6 DEF Post

(* A message that is taken counts for the key of the call. *)
LEMMA TakeCounts ==
  ASSUME Counters, KeyOfCall \in Keys \cup {None}, NEW answered \in BOOLEAN, Take(answered),
         NEW k \in Keys
  PROVE  /\ Counters'
         /\ KeyOfCall # k => taken'[k] = taken[k] /\ missed'[k] = missed[k]
         /\ KeyOfCall = k => /\ taken'[k] = taken[k] + 1
                             /\ missed'[k] = IF answered THEN missed[k] ELSE missed[k] + 1
BY NoneAssumption DEF Counters, Take, deliveries

(* The call goes on: the last of its messages to be taken is counted as    *)
(* missed unless it makes the call a success.                              *)
LEMMA CallGoesOnBalances ==
  ASSUME DInv, CallGoesOn
  PROVE  DInv'
<1> USE DEF DInv
<1>1. Sending /\ UNCHANGED vars /\ KeyOfCall \in Keys \cup {None}
  BY CallIsHead DEF CallGoesOn
<1>2. /\ note' = note /\ stranded' = stranded
      /\ UNCHANGED <<job, lockq>>
  BY <1>1 DEF vars
<1>3. Sending' /\ KeyOfCall' = KeyOfCall
  BY <1>1, <1>2, SameQueueKeepsCall
<1>4. IInv'
  BY <1>1, PipelineStep
<1>5. FInv'
  BY FInvNext DEF CallGoesOn, FNext
<1>6. InCall
  BY DEF CallGoesOn, FirstToken, Renew, Post, InCall
<1>7. ASSUME NEW k \in Keys, CallFor(k) PROVE taken[k] = missed[k]
  <2>1. note[k].state # "sent" /\ k \notin stranded
    BY <1>7, CallIsPending
  <2> QED
    BY <1>6, <2>1 DEF Balanced, InCall
<1>8. CASE UNCHANGED deliveries /\ step' # "sent" /\ step' # "idle"
  <2>1. ASSUME NEW k \in Keys PROVE Balanced(k)'
    BY <1>2, <1>3, <1>6, <1>8 DEF Balanced, CallFor, deliveries, InCall
  <2> QED
    BY <1>4, <1>5, <1>8, <2>1 DEF Counters, deliveries
<1>9. CASE step' # "idle" /\ Take(step' = "sent")
  <2>1. ASSUME NEW k \in Keys PROVE Counters' /\ Balanced(k)'
    <3>1. /\ Counters'
          /\ KeyOfCall # k => taken'[k] = taken[k] /\ missed'[k] = missed[k]
          /\ KeyOfCall = k =>
               /\ taken'[k] = taken[k] + 1
               /\ missed'[k] = IF step' = "sent" THEN missed[k] ELSE missed[k] + 1
      BY <1>1, <1>9, TakeCounts
    <3>2. CallFor(k)' <=> CallFor(k)
      BY <1>1, <1>3 DEF CallFor
    <3>3. CASE KeyOfCall = k
      <4>1. CallFor(k) /\ taken[k] = missed[k] /\ missed[k] \in Nat
        BY <1>1, <1>7, <3>3 DEF CallFor, Counters
      <4>2. note[k].state # "sent"
        BY <4>1, CallIsPending
      <4> QED
        BY <1>2, <3>1, <3>2, <3>3, <4>1, <4>2 DEF Balanced
    <3>4. CASE KeyOfCall # k
      BY <1>2, <3>1, <3>2, <3>4 DEF Balanced, CallFor
    <3> QED
      BY <3>1, <3>3, <3>4
  <2>2. Counters'
    <3>1. CASE KeyOfCall = None
      BY <1>9, <3>1 DEF Take, deliveries, Counters
    <3>2. CASE KeyOfCall # None
      BY <1>1, <2>1, <3>2
    <3> QED
      BY <3>1, <3>2
  <2> QED
    BY <1>4, <1>5, <1>9, <2>1, <2>2
<1>10. CASE (FirstToken \/ Renew) /\ UNCHANGED deliveries
  <2>1. step' # "sent" /\ step' # "idle"
    BY <1>10 DEF FirstToken, Renew, NextTry
  <2> QED
    BY <1>8, <1>10, <2>1
<1>11. CASE Post /\ accepted' = accepted /\ UNCHANGED deliveries
  BY <1>8, <1>11, PostCounts
<1>12. CASE Post /\ accepted' # accepted /\ Take(unheard' = unheard /\ wrong'.kind # "garbled")
  <2>1. step' # "idle" /\ ((unheard' = unheard /\ wrong'.kind # "garbled") <=> step' = "sent")
    BY <1>12, PostCounts
  <2>2. Take(step' = "sent")
    BY <1>12, <2>1 DEF Take
  <2> QED
    BY <1>9, <2>1, <2>2
<1> QED
  BY <1>10, <1>11, <1>12 DEF CallGoesOn

(* The outcome of the call is recorded. *)
LEMMA ReturnBalances ==
  ASSUME DInv, NEW p \in Procs, Return(p)
  PROVE  DInv'
<1> USE DEF DInv
<1>1. /\ FinishSend(p, step) /\ Hangup /\ UNCHANGED deliveries
      /\ HasLock(p) /\ job[p].phase = "running" /\ job[p].kind # "config" /\ Release(p)
      /\ stranded' = stranded
  BY DEF Return, FinishSend, history
<1>2. Sending /\ KeyOfCall = job[p].key
  BY <1>1 DEF Sending, KeyOfCall, HasLock
<1>3. step \in {"sent", "failed"}
  BY <1>2 DEF Return, InCall, FInv, Counted
<1>4. IInv'
  BY <1>1, <1>3, PipelineStep DEF Next
<1>5. FInv' /\ step' = "idle"
  BY <1>1, HangupCounts DEF Hangup
<1>6. ~ Sending'
  BY <1>1, ReleaseEndsCalls
<1>7. taken' = taken /\ missed' = missed
  BY <1>1 DEF deliveries
<1>8. ASSUME NEW k \in Keys PROVE Balanced(k)'
  <2>t. note \in [Keys -> Notes] /\ KeyOfCall \in Keys \cup {None}
    BY <1>2, CallIsHead DEF IInv, TypeOK
  <2>1. CASE KeyOfCall = k
    <3>1. note'[k].state = step
      BY <1>1, <1>2, <2>t, <2>1, NoneAssumption DEF FinishSend, Notes
    <3>2. CallFor(k) /\ note[k].state # "sent" /\ k \notin stranded
      BY <1>2, <2>1, CallIsPending DEF CallFor
    <3>3. taken[k] # missed[k] => step = "sent"
      BY <3>2 DEF Balanced
    <3>4. step = "sent" => taken[k] = missed[k] + 1
      BY <3>2 DEF Balanced
    <3> QED
      BY <1>3, <1>6, <1>7, <3>1, <3>3, <3>4 DEF Balanced, CallFor
  <2>2. CASE KeyOfCall # k
    <3>1. note'[k] = note[k]
      BY <1>1, <1>2, <2>t, <2>2 DEF FinishSend
    <3> QED
      BY <1>1, <1>6, <1>7, <2>2, <3>1 DEF Balanced, CallFor
  <2> QED
    BY <2>1, <2>2
<1> QED
  BY <1>4, <1>5, <1>6, <1>7, <1>8 DEF Counters

(* The client is replaced while nobody is in a call. *)
LEMMA ReplacedBalances ==
  ASSUME DInv, NEW p \in Procs, Replaced(p) \/ Closed(p)
  PROVE  DInv'
<1> USE DEF DInv
<1>1. /\ SwapNotifier(p) \/ FinishSwap(p)
      /\ HasLock(p) /\ job[p].kind = "config"
      /\ UNCHANGED deliveries
  BY DEF Replaced, Closed, SwapNotifier, FinishSwap
<1>2. IInv'
  BY <1>1, PipelineStep DEF Next
<1>3. FInv'
  <2>1. CASE Hangup
    BY <2>1, HangupCounts
  <2>2. CASE UNCHANGED fvars
    BY <2>2, FInvNext
  <2> QED
    BY <2>1, <2>2 DEF Replaced, Closed, NewClient
<1>4. ~ Sending
  BY <1>1 DEF Sending, HasLock
<1>5. ~ Sending'
  <2>1. CASE SwapNotifier(p)
    <3>1. job \in [Procs -> Jobs] /\ job'[p].kind = "config" /\ lockq' = lockq
      BY <2>1 DEF IInv, TypeOK, SwapNotifier, Jobs
    <3> QED
      BY <1>1, <3>1 DEF Sending, HasLock
  <2>2. CASE FinishSwap(p)
    BY <1>1, <2>2, ReleaseEndsCalls DEF FinishSwap
  <2> QED
    BY <1>1, <2>1, <2>2
<1>6. note' = note /\ stranded' = stranded /\ taken' = taken /\ missed' = missed
  BY <1>1 DEF SwapNotifier, FinishSwap, durable, history, deliveries
<1>7. ASSUME NEW k \in Keys PROVE Balanced(k)'
  BY <1>4, <1>5, <1>6 DEF Balanced, CallFor
<1> QED
  BY <1>2, <1>3, <1>5, <1>6, <1>7 DEF Counters

(* The process dies: what it was about to report is stranded, a message on *)
(* its way is missed if it was taken.                                      *)
LEMMA DeathBalances ==
  ASSUME DInv, Death
  PROVE  DInv'
<1> USE DEF DInv
<1>1. /\ Next /\ Die
      /\ stranded \cup HeldKeys(Procs) \subseteq stranded'
      /\ \A k \in Keys : note'[k].state = "sent" => note[k].state = "sent"
  <2>t. note \in [Keys -> Notes]
    BY DEF IInv, TypeOK
  <2>1. CASE Crash
    BY <2>1 DEF Next, Crash, durable
  <2>2. CASE Stop
    BY <2>2 DEF Next, Stop, durable
  <2>3. CASE \E p \in Loops, s \in Observed : CrashWhileReserving(p, s)
    <3> PICK p \in Loops, s \in Observed : CrashWhileReserving(p, s)
      BY <2>3
    <3>1. Next
      BY DEF Next
    <3>2. PICK text : note' = [note EXCEPT ![DedupeKey(s)] = [state |-> "pending", text |-> text]]
      BY DEF CrashWhileReserving
    <3> QED
      BY <2>t, <3>1, <3>2 DEF CrashWhileReserving
  <2> QED
    BY <2>1, <2>2, <2>3 DEF Death
<1>2. IInv'
  BY <1>1, PipelineStep
<1>3. FInv'
  BY HangupCounts DEF Death, NewClient
<1>4. ~ Sending'
  BY <1>1 DEF Die, Sending, HasLock
<1>5. ASSUME NEW k \in Keys, CallFor(k) PROVE k \in stranded'
  BY <1>1, <1>5, CallIsHead, NoneAssumption DEF HeldKeys, CallFor, KeyOfCall
<1>6. ASSUME NEW k \in Keys PROVE note[k].state = "sent" => note'[k].state = "sent"
  BY <1>1, SentStep
<1>7. CASE UNCHANGED deliveries
  <2>1. ASSUME NEW k \in Keys PROVE Balanced(k)'
    BY <1>1, <1>4, <1>5, <1>6, <1>7 DEF Balanced, CallFor, deliveries
  <2> QED
    BY <1>2, <1>3, <1>4, <1>7, <2>1 DEF Counters, deliveries
<1>8. CASE Sending /\ Take(FALSE)
  <2>1. KeyOfCall \in Keys \cup {None}
    BY <1>8, CallIsHead
  <2>2. ASSUME NEW k \in Keys PROVE Counters' /\ Balanced(k)'
    <3>1. /\ Counters'
          /\ KeyOfCall # k => taken'[k] = taken[k] /\ missed'[k] = missed[k]
          /\ KeyOfCall = k => taken'[k] = taken[k] + 1 /\ missed'[k] = missed[k] + 1
      BY <1>8, <2>1, TakeCounts
    <3>2. taken[k] \in Nat /\ missed[k] \in Nat
      BY DEF Counters
    <3> QED
      BY <1>1, <1>4, <1>5, <1>6, <3>1, <3>2 DEF Balanced, CallFor
  <2>3. Counters'
    <3>1. CASE KeyOfCall = None
      BY <1>8, <3>1 DEF Take, deliveries, Counters
    <3>2. CASE KeyOfCall # None
      BY <2>1, <2>2, <3>2
    <3> QED
      BY <3>1, <3>2
  <2> QED
    BY <1>2, <1>3, <1>4, <2>2, <2>3
<1> QED
  BY <1>7, <1>8 DEF Death

(* Every step keeps the account of every key. *)
LEMMA DInvNext == DInv /\ [DNext]_dvars => DInv'
<1> SUFFICES ASSUME DInv, [DNext]_dvars PROVE DInv'
  OBVIOUS
<1>1. CASE Elsewhere
  <2>1. IInv /\ FInv
    BY DEF DInv
  <2>2. /\ Next
        /\ Sending' <=> Sending
        /\ Sending => KeyOfCall' = KeyOfCall
        /\ stranded \subseteq stranded'
        /\ \A k \in Keys : note'[k].state = "sent" => note[k].state = "sent"
    BY <1>1, <2>1, ElsewhereIsQuiet
  <2>3. IInv' /\ FInv'
    BY <1>1, <2>1, <2>2, PipelineStep, FInvNext DEF Elsewhere
  <2>4. step' = step /\ taken' = taken /\ missed' = missed
    BY <1>1 DEF Elsewhere, fvars, deliveries
  <2>5. ASSUME NEW k \in Keys PROVE Balanced(k)'
    <3>1. note'[k].state = "sent" <=> note[k].state = "sent"
      BY <2>1, <2>2, SentStep
    <3>2. CallFor(k)' <=> CallFor(k)
      BY <2>2 DEF CallFor
    <3> QED
      BY <2>2, <2>4, <3>1, <3>2 DEF DInv, Balanced
  <2> QED
    BY <2>2, <2>3, <2>4, <2>5 DEF DInv, Counters
<1>2. CASE \E p \in Procs : Call(p) \/ Return(p) \/ Replaced(p) \/ Closed(p)
  BY <1>2, CallBalances, ReturnBalances, ReplacedBalances
<1>3. CASE CallGoesOn
  BY <1>3, CallGoesOnBalances
<1>4. CASE Death
  BY <1>4, DeathBalances
<1>5. CASE TokenFades \/ UNCHANGED dvars
  <2>1. UNCHANGED <<vars, deliveries, step>>
    BY <1>5 DEF TokenFades, Expire, Revoke, dvars, fvars
  <2>2. IInv'
    BY <2>1, PipelineStep DEF DInv
  <2>3. FInv'
    BY <1>5, FInvNext DEF DInv, TokenFades, FNext, dvars
  <2>4. /\ note' = note /\ stranded' = stranded /\ UNCHANGED <<job, lockq>>
        /\ taken' = taken /\ missed' = missed /\ step' = step
    BY <2>1 DEF vars, deliveries
  <2>5. (Sending' <=> Sending) /\ (Sending => KeyOfCall' = KeyOfCall)
    BY <2>4, SameQueueKeepsCall
  <2>6. ASSUME NEW k \in Keys PROVE Balanced(k)'
    BY <2>4, <2>5 DEF DInv, Balanced, CallFor
  <2> QED
    BY <2>2, <2>3, <2>4, <2>5, <2>6 DEF DInv, Counters
<1> QED
  BY <1>1, <1>2, <1>3, <1>4, <1>5 DEF DNext

LEMMA DInvInit == DInit => DInv
<1> SUFFICES ASSUME DInit PROVE DInv
  OBVIOUS
<1>1. IInv
  BY PipelineInit DEF DInit
<1>2. FInv
  BY FInvInit DEF DInit
<1>3. ~ Sending
  BY DEF DInit, Init, Sending, HasLock
<1>4. Counters /\ \A k \in Keys : taken[k] = missed[k] /\ note[k].state # "sent"
  BY DEF DInit, Init, Counters, NoNote
<1>5. ASSUME NEW k \in Keys PROVE Balanced(k)
  BY <1>3, <1>4 DEF Balanced, CallFor
<1> QED
  BY <1>1, <1>2, <1>3, <1>4, <1>5 DEF DInv

LEMMA DInvariance == DSpec => []DInv
BY DInvInit, DInvNext, PTL DEF DSpec

(* With any number of tries, a message is only delivered again if the      *)
(* answer to the delivery before was lost.                                 *)
THEOREM NoNeedlessDuplicate == DSpec => []DuplicatesAreUnheard
<1>1. DInv => DuplicatesAreUnheard
  BY DEF DInv, FInv
<1> QED
  BY <1>1, DInvariance, PTL

(* With any number of tries, a call that fails with a lost message or      *)
(* renewal, a busy server or a first rejected token has used all its       *)
(* tries, one that met an error no retry helps has ended, and success is   *)
(* reported only of a message that was delivered.                          *)
THEOREM TransientRetried == DSpec => []RetriesWhatIsTransient
<1>1. DInv => RetriesWhatIsTransient
  BY DEF DInv, FInv
<1> QED
  BY <1>1, DInvariance, PTL

(* For any number of loops, clients, retries, changes of the configuration *)
(* and deaths of the process, a message reaches the user again only where  *)
(* the answer to one before it was missed.                                 *)
THEOREM DeliversOnce == DSpec => []DeliveredOnce
<1>1. DInv => DeliveredOnce
  <2> SUFFICES ASSUME DInv, NEW k \in Keys PROVE taken[k] <= 1 + missed[k]
    BY DEF DeliveredOnce
  <2> QED
    BY DEF DInv, Counters, Balanced
<1> QED
  BY <1>1, DInvariance, PTL

(* For any number of them, a settled notification is recorded as what      *)
(* became of it.                                                           *)
THEOREM OutcomesAreTrue == DSpec => []OutcomeIsTrue
<1>1. DInv => OutcomeIsTrue
  <2> SUFFICES ASSUME DInv, NEW k \in Keys, note[k].state \in {"sent", "failed"}
               PROVE  note[k].state = "sent" <=> taken[k] > missed[k]
    BY DEF OutcomeIsTrue
  <2>1. k \notin stranded /\ ~ CallFor(k)
    BY CallIsPending DEF DInv, IInv, OwnerInv
  <2> QED
    BY <2>1 DEF DInv, Counters, Balanced
<1> QED
  BY <1>1, DInvariance, PTL
=============================================================================
