------------------------------ MODULE Delivery ------------------------------
(***************************************************************************)
(* From a snapshot to the user's phone: NotificationPipeline with the      *)
(* FeishuClient it sends through (runtime.py:397-443, 611-639).  Whoever   *)
(* holds the notifier lock is in one call of send_text; the outcome of the *)
(* call is what the table records.  A change of the configuration and a    *)
(* new process bring a new client, with no token; the process may die with *)
(* a message on its way.                                                   *)
(***************************************************************************)
EXTENDS NotificationPipeline, FeishuClient

VARIABLES
  taken,  \* history: messages of a key the server took
  missed  \* history: those of them whose answer never came or made no sense

deliveries == <<taken, missed>>
dvars == <<vars, fvars, deliveries>>

DInit ==
  /\ Init
  /\ FInit
  /\ taken = [k \in Keys |-> 0]
  /\ missed = [k \in Keys |-> 0]

(* The key of the call in progress, None for a test message. *)
Sending == \E p \in Procs : HasLock(p) /\ job[p].kind # "config" /\ job[p].phase = "running"
KeyOfCall == job[lockq[1]].key

(* One more message of the call was taken, or none. *)
Take(answered) ==
  IF KeyOfCall = None THEN UNCHANGED deliveries
  ELSE /\ taken' = [taken EXCEPT ![KeyOfCall] = @ + 1]
       /\ missed' = IF answered THEN missed ELSE [missed EXCEPT ![KeyOfCall] = @ + 1]

(* A call is over and its variables are gone. *)
Hangup ==
  /\ step' = "idle"
  /\ token' = "none"
  /\ attempt' = 0 /\ refreshed' = FALSE
  /\ posts' = 0 /\ accepted' = 0 /\ unheard' = 0 /\ rejected' = 0
  /\ wrong' = NothingWrong

NewClient == Hangup /\ cached' = "none" /\ fresh' = FALSE

(* What happens without the messenger. *)
Elsewhere ==
  /\ \/ \E s \in Observed, mode \in Modes : StartWatch(s, mode)
     \/ \E t \in Threads : Deactivate(t)
     \/ \E p \in Loops, s \in Observed : Observe(p, s)
     \/ \E p \in Loops, s \in Observed, gate \in Gates : Reserve(p, s, gate)
     \/ \E c \in Clients, k \in Keys : Retry(c, k)
     \/ \E c \in Clients : SendTest(c) \/ SaveConfig(c)
     \/ \E status \in [Threads -> Statuses \cup {None}] : Restart(status)
  /\ UNCHANGED <<fvars, deliveries>>

Call(p) == StartSend(p) /\ SendText /\ UNCHANGED deliveries

CallGoesOn ==
  /\ Sending
  /\ \/ (FirstToken \/ Renew) /\ UNCHANGED deliveries
     \/ /\ Post
        /\ IF accepted' = accepted THEN UNCHANGED deliveries
           ELSE Take(unheard' = unheard /\ wrong'.kind # "garbled")
  /\ UNCHANGED vars

Return(p) ==
  /\ ~ InCall
  /\ FinishSend(p, step)
  /\ Hangup
  /\ UNCHANGED <<cached, fresh, deliveries>>

Replaced(p) == SwapNotifier(p) /\ NewClient /\ UNCHANGED deliveries

Closed(p) == FinishSwap(p) /\ UNCHANGED <<fvars, deliveries>>

(* The token ages and is taken back. *)
TokenFades == (Expire \/ Revoke) /\ UNCHANGED <<vars, deliveries>>

(* The end of the process, which may leave a message on its way. *)
Death ==
  /\ \/ Crash \/ Stop
     \/ \E p \in Loops, s \in Observed : CrashWhileReserving(p, s)
  /\ \/ UNCHANGED deliveries
     \/ Sending /\ step = "post" /\ token = "valid" /\ Take(FALSE)
  /\ NewClient

DNext ==
  \/ Elsewhere
  \/ \E p \in Procs : Call(p) \/ Return(p) \/ Replaced(p) \/ Closed(p)
  \/ CallGoesOn
  \/ TokenFades
  \/ Death

DSpec == DInit /\ [][DNext]_dvars

(* httpx ends every request by its timeout, asyncio resumes a task whose   *)
(* lock was handed over; nothing is assumed of how long a call lasts.      *)
DFairSpec ==
  /\ DSpec
  /\ WF_dvars(CallGoesOn)
  /\ \A p \in Procs :
       WF_dvars(Call(p) \/ Return(p) \/ Replaced(p) \/ Closed(p))

----------------------------------------------------------------------------
(* The user gets a notification once: again only where the answer to a     *)
(* message was lost or made no sense, however calls, retries of the user,  *)
(* changes of the configuration, renewals of the token and deaths of the   *)
(* process follow one another (repository.py:287-308, feishu.py:72-111).   *)
DeliveredOnce == \A k \in Keys : taken[k] <= 1 + missed[k]

(* What the table says of a settled notification is what became of it: it  *)
(* is sent if the answer to one of its messages arrived, and failed if     *)
(* none did (runtime.py:407-443, 611-639).                                 *)
OutcomeIsTrue ==
  \A k \in Keys : note[k].state \in {"sent", "failed"} =>
    (note[k].state = "sent" <=> taken[k] > missed[k])
=============================================================================
