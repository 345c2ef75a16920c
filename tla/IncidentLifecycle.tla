-------------------------- MODULE IncidentLifecycle --------------------------
(***************************************************************************)
(* What the incident table promises its readers, without any camera,       *)
(* session, snooze or restart: an incident opens once per detector event   *)
(* and only where no other incident is open, moves along the four legal    *)
(* transitions, and always names the operator and the action that put it   *)
(* where it is.                                                            *)
(***************************************************************************)
CONSTANTS Logs,      \* incident rows (log_id)
          Cameras,
          Events,    \* detector events (source_event_id)
          Users,
          NULL

VARIABLES status,    \* detection_status of each incident, "absent" before it exists
          site,      \* the camera it happened at
          cause,     \* the detector event it was created from
          handled    \* <<action, operator>> that put it in its status

vars == <<status, site, cause, handled>>

Unhandled == <<"none", NULL>>

IsOpen(l) == status[l] \in {"Unverified", "Ongoing"}

Init == /\ status  = [l \in Logs |-> "absent"]
        /\ site    = [l \in Logs |-> NULL]
        /\ cause   = [l \in Logs |-> NULL]
        /\ handled = [l \in Logs |-> Unhandled]

Open(l, c, e) ==
  /\ status[l] = "absent"
  /\ \A k \in Logs : status[k] # "absent" => cause[k] # e
  /\ \A k \in Logs : IsOpen(k) => site[k] # c
  /\ status' = [status EXCEPT ![l] = "Unverified"]
  /\ site'   = [site   EXCEPT ![l] = c]
  /\ cause'  = [cause  EXCEPT ![l] = e]
  /\ UNCHANGED handled

Decide(l, u, from, to, action) ==
  /\ status[l] = from
  /\ status'  = [status  EXCEPT ![l] = to]
  /\ handled' = [handled EXCEPT ![l] = <<action, u>>]
  /\ UNCHANGED <<site, cause>>

Confirm(l, u) == Decide(l, u, "Unverified", "Ongoing",   "ALERT_CONFIRM")
Dismiss(l, u) == Decide(l, u, "Unverified", "Dismissed", "ALERT_DISMISS")
Clear(l, u)   == Decide(l, u, "Ongoing",    "Cleared",   "ALERT_CLEAR")
Correct(l, u) == Decide(l, u, "Ongoing",    "Dismissed", "ALERT_CORRECTION")

Next == \/ \E l \in Logs, c \in Cameras, e \in Events : Open(l, c, e)
        \/ \E l \in Logs, u \in Users :
             Confirm(l, u) \/ Dismiss(l, u) \/ Clear(l, u) \/ Correct(l, u)

Spec == Init /\ [][Next]_vars
=============================================================================
