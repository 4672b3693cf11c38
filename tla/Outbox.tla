------------------------------- MODULE Outbox -------------------------------
(***************************************************************************)
(* What the notification table promises, whatever the tasks that work on   *)
(* it: every idempotency key is submitted at most once, is put on the wire *)
(* once by the monitor and then once more for every explicit retry by the  *)
(* user of an attempt that failed, and once it is recorded as sent it is   *)
(* never touched again.  A process that dies may strand keys it had        *)
(* submitted; a stranded key is never put on the wire again.               *)
(***************************************************************************)
EXTENDS Naturals

CONSTANT Keys

VARIABLES
  state,      \* [Keys -> States]
  sends,      \* [Keys -> Nat]: how often the key was handed to the messenger
  stranded    \* the pending keys no process will settle

States == {"absent", "pending", "failed", "sent"}

vars == <<state, sends, stranded>>

Init ==
  /\ state = [k \in Keys |-> "absent"]
  /\ sends = [k \in Keys |-> 0]
  /\ stranded = {}

(* Only what is pending can be stranded. *)
MayStrand ==
  /\ stranded \subseteq stranded'
  /\ stranded' \subseteq Keys
  /\ \A k \in stranded' \ stranded : state'[k] = "pending"

(* A key enters the table once, to be sent or already given up (gated).    *)
Submit(k) ==
  /\ state[k] = "absent"
  /\ \E s \in {"pending", "failed"} : state' = [state EXCEPT ![k] = s]
  /\ MayStrand
  /\ UNCHANGED sends

Send(k) ==
  /\ state[k] = "pending"
  /\ k \notin stranded
  /\ sends' = [sends EXCEPT ![k] = @ + 1]
  /\ UNCHANGED <<state, stranded>>

Settle(k) ==
  /\ state[k] = "pending"
  /\ k \notin stranded
  /\ sends[k] > 0
  /\ \E s \in {"sent", "failed"} : state' = [state EXCEPT ![k] = s]
  /\ UNCHANGED <<sends, stranded>>

Resubmit(k) ==
  /\ state[k] = "failed"
  /\ state' = [state EXCEPT ![k] = "pending"]
  /\ UNCHANGED <<sends, stranded>>

Strand ==
  /\ MayStrand
  /\ UNCHANGED <<state, sends>>

Next ==
  \/ \E k \in Keys : Submit(k) \/ Send(k) \/ Settle(k) \/ Resubmit(k)
  \/ Strand

Spec == Init /\ [][Next]_vars
=============================================================================
