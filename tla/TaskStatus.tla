----------------------------- MODULE TaskStatus -----------------------------
(* The states of a task, shared by every component (models.py).             *)

CONSTANT None  \* an absent turn, request, time, status or record

Waiting  == {"waiting_approval", "waiting_input"}
Terminal == {"completed", "failed", "interrupted"}
Active   == {"running"} \cup Waiting
Statuses == Active \cup Terminal \cup
              {"manually_completed", "unknown", "source_error"}
=============================================================================
