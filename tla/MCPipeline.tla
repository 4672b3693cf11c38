----------------------------- MODULE MCPipeline -----------------------------
(* Instances of NotificationPipeline for TLC: one thread, and the snapshots *)
(* that make the loops collide on the same keys.                            *)
EXTENDS NotificationPipeline, TLC

CONSTANTS thread, turn1, approval

Snap(turn, status, request) ==
  [thread |-> thread, turn |-> turn, status |-> status, request |-> request]

(* A turn that waits for an approval and completes. *)
OneTurn ==
  { Snap(turn1, "running", None),
    Snap(turn1, "waiting_approval", approval),
    Snap(turn1, "completed", None) }

(* A turn that runs and completes. *)
OneEnd ==
  { Snap(turn1, "running", None),
    Snap(turn1, "completed", None) }

(* The loops are interchangeable, and so are the HTTP requests. *)
Symmetry == Permutations(Loops) \cup Permutations(Clients)
=============================================================================
