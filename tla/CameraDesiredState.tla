------------------------- MODULE CameraDesiredState -------------------------
(***************************************************************************)
(* The backend-owned columns of a camera row and the rules that derive     *)
(* them (backend/app/models/camera.py, backend/app/services/cameras.py).   *)
(*                                                                         *)
(* Wall-clock deadlines are abstracted to what the code tells apart by     *)
(* comparing them with "now": a cooldown_until is NULL ("none"), in the    *)
(* future ("running") or not in the future any more ("due").  The name and *)
(* the channel of a camera are abstracted away; a request that changes one *)
(* of them only shows as a bump of config_version.                         *)
(***************************************************************************)
EXTENDS Naturals

DesiredAIState     == {"Active", "Paused", "Inactive"}
DesiredStateReason == {"none", "incident", "cooldown", "disabled"}
Deadline           == {"none", "running", "due"}

CameraRow == [is_active            : BOOLEAN,
              is_enabled           : BOOLEAN,
              desired_ai_state     : DesiredAIState,
              desired_state_reason : DesiredStateReason,
              cooldown_until       : Deadline,
              config_version       : Nat]

Disabled(row) == ~row.is_active \/ ~row.is_enabled

\* The row with its three desired-state columns replaced.
Derived(row, state, reason, cooldown) ==
  [row EXCEPT !.desired_ai_state     = state,
              !.desired_state_reason = reason,
              !.cooldown_until       = cooldown]

\* Mutant of recompute_desired_state: a cooldown counts whether or not it is over.
recompute_desired_state_AnyCooldown(row, has_open_incident) ==
  IF Disabled(row) THEN Derived(row, "Inactive", "disabled", "none")
  ELSE IF has_open_incident THEN Derived(row, "Paused", "incident", "none")
  ELSE IF row.cooldown_until # "none"
       THEN Derived(row, "Paused", "cooldown", row.cooldown_until)
  ELSE Derived(row, "Active", "none", "none")

\* Disabled wins over an open incident, which wins over a running cooldown.
recompute_desired_state(row, has_open_incident) ==
  IF Disabled(row) THEN Derived(row, "Inactive", "disabled", "none")
  ELSE IF has_open_incident THEN Derived(row, "Paused", "incident", "none")
  ELSE IF row.cooldown_until = "running"
       THEN Derived(row, "Paused", "cooldown", "running")
  ELSE Derived(row, "Active", "none", "none")

\* At most one bump, and only when an AI-relevant column differs.
bump_if_ai_relevant_changed(before, after) ==
  IF after # before THEN [after EXCEPT !.config_version = @ + 1] ELSE after

apply_desired_state(row, has_open_incident) ==
  bump_if_ai_relevant_changed(row, recompute_desired_state(row, has_open_incident))

(***************************************************************************)
(* What an ORM flush writes: the columns whose new value differs from the  *)
(* value THIS session once read, and the columns flagged as modified.  The *)
(* other columns keep whatever another session has committed since.        *)
(***************************************************************************)
Flush(current, read, new, flagged) ==
  [column \in DOMAIN current |->
     IF new[column] # read[column] \/ column \in flagged THEN new[column] ELSE current[column]]

(***************************************************************************)
(* The agreement the three columns are meant to keep with the facts they   *)
(* are derived from.  A cooldown that has run out may linger as Paused     *)
(* until the resume job or the sweep gets to it.                           *)
(***************************************************************************)
Agrees(row, has_open_incident) ==
  LET columns == <<row.desired_ai_state, row.desired_state_reason, row.cooldown_until>>
  IN  IF Disabled(row) THEN columns = <<"Inactive", "disabled", "none">>
      ELSE IF has_open_incident THEN columns = <<"Paused", "incident", "none">>
      ELSE columns \in {<<"Active", "none", "none">>,
                        <<"Paused", "cooldown", "running">>,
                        <<"Paused", "cooldown", "due">>}
=============================================================================
