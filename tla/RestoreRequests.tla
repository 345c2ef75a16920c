-------------------------- MODULE RestoreRequests --------------------------
(***************************************************************************)
(* What the restore state file promises to everybody who reads it: one     *)
(* request at a time, which leaves the active statuses before the next one *)
(* is accepted.  A failed attempt may be repeated, a roll-back is final,   *)
(* and every other outcome can only be rolled back.                        *)
(***************************************************************************)
EXTENDS Naturals

VARIABLES status, request

Active   == {"requested", "in_progress", "db_restored"}
Terminal == {"completed", "failed", "rolled_back", "manual_intervention"}

\* The statuses a request may pass to.
Follows(s) ==
  CASE s = "none"        -> {}
    [] s = "requested"   -> {"in_progress", "failed", "manual_intervention"}
    [] s = "in_progress" -> {"db_restored", "failed", "rolled_back", "manual_intervention"}
    [] s = "db_restored" -> {"completed", "failed", "rolled_back", "manual_intervention"}
    [] s = "failed"      -> {"in_progress", "rolled_back"}
    [] s \in {"completed", "manual_intervention"} -> {"rolled_back"}
    [] OTHER             -> {}

Init == status = "none" /\ request = 0

Publish ==
  /\ status \notin Active
  /\ status' = "requested"
  /\ request' = request + 1

Move ==
  /\ status' \in Follows(status)
  /\ UNCHANGED request

Spec == Init /\ [][Publish \/ Move]_<<status, request>>
=============================================================================
