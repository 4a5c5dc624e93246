----------------------------- MODULE JobContract -----------------------------
(***************************************************************************)
(* What the desktop may rely on from the worker thread that runs a job:    *)
(* it sends exactly one terminal update and exits after it, or it unwinds  *)
(* without any; a job is reported as cancelled only if the user asked for  *)
(* it, and as failed only if nobody had asked by then.  Job implements     *)
(* this contract; Desktop is built on it.                                  *)
(***************************************************************************)

VARIABLES
  phase,      \* "running", "reporting", "sent", "exited" or "unwound"
  cancelled,  \* the flag shared with the desktop
  terminal    \* "none", then the one terminal update

vars == <<phase, cancelled, terminal>>

Terminals == {"completed", "cancelled", "failed"}

Init == phase = "running" /\ cancelled \in BOOLEAN /\ terminal = "none"

Report ==
  /\ phase = "running"
  /\ phase' = "reporting"
  /\ terminal' \in {"completed", IF cancelled THEN "cancelled" ELSE "failed"}
  /\ UNCHANGED cancelled

(* The blocking send of the update returns. *)
Deliver ==
  /\ phase = "reporting"
  /\ phase' = "sent"
  /\ UNCHANGED <<cancelled, terminal>>

(* The thread ends, some time after its update was sent. *)
Exit ==
  /\ phase = "sent"
  /\ phase' = "exited"
  /\ UNCHANGED <<cancelled, terminal>>

Unwind ==
  /\ phase = "running"
  /\ phase' = "unwound"
  /\ UNCHANGED <<cancelled, terminal>>

Cancel ==
  /\ ~cancelled
  /\ cancelled' = TRUE
  /\ UNCHANGED <<phase, terminal>>

Next == Report \/ Deliver \/ Exit \/ Unwind \/ Cancel

Spec == Init /\ [][Next]_vars
=============================================================================
