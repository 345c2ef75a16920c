--------------------------- MODULE IncidentControl ---------------------------
(***************************************************************************)
(* The backend's human-in-the-loop core: incident rows, camera rows, and   *)
(* the request handlers and scheduler jobs that write them concurrently.   *)
(*                                                                         *)
(* A handler is as atomic as SQLite makes it and no more.  A SELECT holds  *)
(* no lock, so a handler that reads first and writes later is split at     *)
(* every SELECT; what it has read is in its session.  From its first       *)
(* UPDATE or INSERT to its commit a handler holds the write lock, so that  *)
(* part is one action, the reads made inside it included.                  *)
(***************************************************************************)
EXTENDS CameraDesiredState, FiniteSets

CONSTANTS Cameras,
          Logs,      \* incident ids there is room for: bounds the incidents of a behaviour
          Events,    \* detector events the AI engine may report, any number of times
          Users,
          Threads,   \* request threads: each runs one handler at a time
          Executors, \* scheduler executor threads: each runs one job at a time
          NULL,
          MaxEdits   \* bounds the camera PATCH and DELETE requests of a behaviour

ASSUME NullAssumption == NULL \notin Users \cup Cameras \cup Events
ASSUME EditsAssumption == MaxEdits \in Nat

Workers == Threads \cup Executors

VARIABLES cam,   \* the camera table
          log,   \* the detection_log table
          ses,   \* what each worker's handler has read so far
          jobs,  \* cameras with a registered cooldown:{camera_id} one-shot job
          edits  \* PATCH and DELETE requests accepted so far

vars == <<cam, log, ses, jobs, edits>>

OpenStatuses     == {"Unverified", "Ongoing"}
TerminalStatuses == {"Cleared", "Dismissed"}
Statuses         == OpenStatuses \cup TerminalStatuses

Absent == [detection_status |-> "absent", camera_id |-> NULL, source_event_id |-> NULL,
           verified_by_id |-> NULL, closed_by_id |-> NULL,
           snoozed_until |-> "none", snoozed_by_id |-> NULL]

LogRow == {Absent} \cup [detection_status : Statuses,
                         camera_id        : Cameras,
                         source_event_id  : Events,
                         verified_by_id   : Users \cup {NULL},
                         closed_by_id     : Users \cup {NULL},
                         snoozed_until    : Deadline,
                         snoozed_by_id    : Users \cup {NULL}]

Idle == [op |-> "idle"]

IngestSession == [op : {"ingest"}, camera_id : Cameras, event : Events]
PeekSession   == [op : {"dismiss", "snooze"}, log_id : Logs, user : Users,
                  expected : OpenStatuses]
\* A handler that writes a camera row from what it read: first the row
\* ("loaded"), then whether an incident is open ("derived").
RowSession    == [op : {"patch", "delete", "resume"}, stage : {"loaded", "derived"},
                  camera_id : Cameras, renamed : BOOLEAN,
                  read : CameraRow, new : CameraRow, open : BOOLEAN]

Session == {Idle} \cup IngestSession \cup PeekSession \cup RowSession

-----------------------------------------------------------------------------
(* Reads *)

IsOpen(l)            == log[l].detection_status \in OpenStatuses
HasOpenIncident(c)   == \E l \in Logs : IsOpen(l) /\ log[l].camera_id = c
Ingested(e)          == \E l \in Logs : /\ log[l].detection_status # "absent"
                                        /\ log[l].source_event_id = e

\* Which action put the row where it is and who took it, inferred from the
\* row alone: the body of a 409 and of every status broadcast is built on it.
describe_handler(row) ==
  CASE row.detection_status = "Ongoing" -> <<"ALERT_CONFIRM", row.verified_by_id>>
    [] row.detection_status = "Cleared" -> <<"ALERT_CLEAR", row.closed_by_id>>
    [] row.detection_status = "Dismissed" /\ row.closed_by_id # NULL
         -> <<"ALERT_CORRECTION", row.closed_by_id>>
    [] row.detection_status = "Dismissed" /\ row.closed_by_id = NULL
         -> <<"ALERT_DISMISS", row.verified_by_id>>
    [] OTHER -> <<"none", NULL>>

Free(w)      == ses[w] = Idle
Begin(w, s)  == Free(w) /\ ses' = [ses EXCEPT ![w] = s]
Finish(w)    == ses' = [ses EXCEPT ![w] = Idle]

-----------------------------------------------------------------------------
(* Detection ingest *)

\* The availability check and the duplicate pre-check, both plain SELECTs.  A
\* 404 or a 200 for a known event changes nothing and is not a step.
IngestRead(w, c, e) ==
  /\ ~Disabled(cam[c])
  /\ ~Ingested(e)
  /\ Begin(w, [op |-> "ingest", camera_id |-> c, event |-> e])
  /\ UNCHANGED <<cam, log, jobs, edits>>

\* Mutants of Blindfold: a cooldown left on the row, and the state and the
\* reason written to each other's column.
Blindfold_KeepsCooldown(row) ==
  [Derived(row, IF Disabled(row) THEN "Inactive" ELSE "Paused",
                IF Disabled(row) THEN "disabled" ELSE "incident", row.cooldown_until)
     EXCEPT !.config_version = @ + 1]

Blindfold_SwappedColumns(row) ==
  [Derived(row, "incident", "Paused", "none") EXCEPT !.config_version = @ + 1]

\* The camera UPDATE of the ingest transaction: a CASE the database evaluates
\* on the live row, and a config_version incremented in SQL.
Blindfold(row) ==
  [Derived(row, IF Disabled(row) THEN "Inactive" ELSE "Paused",
                IF Disabled(row) THEN "disabled" ELSE "incident", "none")
     EXCEPT !.config_version = @ + 1]

\* Mutant of IndexesAllow: one of the two unique indexes is missing.
IndexesAllow_NoEventIndex(c, e) == ~HasOpenIncident(c)

\* ux_detection_source_event and ux_detection_open_camera.
IndexesAllow(c, e) == ~Ingested(e) /\ ~HasOpenIncident(c)

Detected(c, e) ==
  [Absent EXCEPT !.detection_status = "Unverified", !.camera_id = c, !.source_event_id = e]

IngestCommit(w) ==
  /\ ses[w].op = "ingest"
  /\ Finish(w)
  /\ LET c == ses[w].camera_id
         e == ses[w].event
     IN  \/ /\ IndexesAllow(c, e)
            /\ \E l \in Logs : /\ log[l].detection_status = "absent"
                              /\ log' = [log EXCEPT ![l] = Detected(c, e)]
            /\ cam' = [cam EXCEPT ![c] = Blindfold(@)]
         \/ /\ ~IndexesAllow(c, e)      \* IntegrityError: rolled back, 200 or 409
            /\ UNCHANGED <<cam, log>>
  /\ UNCHANGED <<jobs, edits>>

-----------------------------------------------------------------------------
(* Incident transitions *)

\* The columns a transition writes: whoever decides an Unverified incident has
\* verified it, whoever moves an Ongoing one closes it, and no snooze survives.
Moved(row, expected, new, u) ==
  [row EXCEPT !.detection_status = new,
              !.snoozed_until    = "none",
              !.snoozed_by_id    = NULL,
              !.verified_by_id   = IF expected = "Unverified" THEN u ELSE @,
              !.closed_by_id     = IF expected = "Unverified" THEN @ ELSE u]

\* Mutant of transition: the UPDATE is not conditional on the source status.
transition_Unconditional(l, expected, new, u) ==
  log' = [log EXCEPT ![l] = Moved(@, expected, new, u)]

\* The one conditional UPDATE every transition is made of.
transition(l, expected, new, u) ==
  /\ log[l].detection_status = expected
  /\ log' = [log EXCEPT ![l] = Moved(@, expected, new, u)]

\* The loser of a race gets the 409 body and leaves no trace.
confirm_alert(u, l) ==
  /\ transition(l, "Unverified", "Ongoing", u)
  /\ UNCHANGED <<cam, ses, jobs, edits>>

clear_alert(u, l) ==
  /\ transition(l, "Ongoing", "Cleared", u)
  /\ LET c == log[l].camera_id
     IN  cam' = [cam EXCEPT ![c] = apply_desired_state(@, FALSE)]
  /\ UNCHANGED <<ses, jobs, edits>>

\* Dismiss has two legal source statuses, so it peeks first to pick one.
DismissPeek(w, u, l) ==
  /\ IsOpen(l)
  /\ Begin(w, [op |-> "dismiss", log_id |-> l, user |-> u,
               expected |-> log[l].detection_status])
  /\ UNCHANGED <<cam, log, jobs, edits>>

\* The row after the cooldown of a false positive has been stamped on it.
Stamped(row, expected) ==
  IF expected = "Unverified" THEN [row EXCEPT !.cooldown_until = "running"] ELSE row

dismiss_alert(w) ==
  /\ ses[w].op = "dismiss"
  /\ Finish(w)
  /\ LET l == ses[w].log_id
         c == log[l].camera_id
     IN  \/ /\ transition(l, ses[w].expected, "Dismissed", ses[w].user)
            /\ cam' = [cam EXCEPT ![c] = apply_desired_state(Stamped(@, ses[w].expected), FALSE)]
            /\ jobs' = IF ses[w].expected = "Unverified" /\ cam'[c].cooldown_until # "none"
                       THEN jobs \cup {c} ELSE jobs
         \/ /\ log[l].detection_status # ses[w].expected
            /\ UNCHANGED <<cam, log, jobs>>
  /\ UNCHANGED edits

-----------------------------------------------------------------------------
(* Snooze *)

Snoozed(row, u) == [row EXCEPT !.snoozed_until = "running", !.snoozed_by_id = u]
Unsnoozed(row)  == [row EXCEPT !.snoozed_until = "none",    !.snoozed_by_id = NULL]

SnoozePeek(w, u, l) ==
  /\ log[l].detection_status = "Unverified"
  /\ Begin(w, [op |-> "snooze", log_id |-> l, user |-> u, expected |-> "Unverified"])
  /\ UNCHANGED <<cam, log, jobs, edits>>

\* Mutant of snooze_incident: the UPDATE trusts the status read by the handler.
snooze_incident_TrustsRead(w) ==
  /\ ses[w].op = "snooze"
  /\ Finish(w)
  /\ log' = [log EXCEPT ![ses[w].log_id] = Snoozed(@, ses[w].user)]
  /\ UNCHANGED <<cam, jobs, edits>>

snooze_incident(w) ==
  /\ ses[w].op = "snooze"
  /\ Finish(w)
  /\ LET l == ses[w].log_id
     IN  \/ /\ log[l].detection_status = "Unverified"
            /\ log' = [log EXCEPT ![l] = Snoozed(@, ses[w].user)]
         \/ /\ log[l].detection_status # "Unverified"
            /\ UNCHANGED log
  /\ UNCHANGED <<cam, jobs, edits>>

\* Mutants of SnoozeExpired: the deadline is not compared, or the wrong way round.
SnoozeExpired_AnyDeadline(row) ==
  row.detection_status = "Unverified" /\ row.snoozed_until # "none"
SnoozeExpired_NotYetDue(row) ==
  row.detection_status = "Unverified" /\ row.snoozed_until = "running"

\* The same conditional UPDATE is run by the snooze job, by the 30 s sweep
\* and at startup.
SnoozeExpired(row) == row.detection_status = "Unverified" /\ row.snoozed_until = "due"

expire_snooze(l) ==
  /\ SnoozeExpired(log[l])
  /\ log' = [log EXCEPT ![l] = Unsnoozed(@)]
  /\ UNCHANGED <<cam, ses, jobs, edits>>

-----------------------------------------------------------------------------
(* Camera handlers that read, derive and write *)

LoadRow(w, op, c, edited, renamed) ==
  Begin(w, [op |-> op, stage |-> "loaded", camera_id |-> c,
            renamed |-> renamed, read |-> cam[c], new |-> edited, open |-> FALSE])

\* PATCH: any of toggling is_enabled, restoring, and renaming.
PatchLoad(w, c) ==
  /\ edits < MaxEdits
  /\ edits' = edits + 1
  /\ \E enabled, renamed \in BOOLEAN, active \in {cam[c].is_active, TRUE} :
       LoadRow(w, "patch", c,
               [cam[c] EXCEPT !.is_enabled = enabled, !.is_active = active], renamed)
  /\ UNCHANGED <<cam, log, jobs>>

DeleteLoad(w, c) ==
  /\ edits < MaxEdits
  /\ edits' = edits + 1
  /\ cam[c].is_active
  /\ LoadRow(w, "delete", c, [cam[c] EXCEPT !.is_active = FALSE], FALSE)
  /\ UNCHANGED <<cam, log, jobs>>

\* The one-shot job: consumed when it fires, never before the deadline it
\* was last scheduled for.
ResumeJob(w, c) ==
  /\ c \in jobs
  /\ cam[c].cooldown_until # "running"
  /\ jobs' = jobs \ {c}
  /\ IF cam[c].is_active THEN LoadRow(w, "resume", c, cam[c], FALSE) ELSE UNCHANGED ses
  /\ UNCHANGED <<cam, log, edits>>

SweepSelects(row) == /\ row.is_active
                     /\ row.desired_state_reason = "cooldown"
                     /\ row.cooldown_until = "due"

ResumeSweep(w, c) ==
  /\ SweepSelects(cam[c])
  /\ LoadRow(w, "resume", c, cam[c], FALSE)
  /\ UNCHANGED <<cam, log, jobs, edits>>

\* The row a handler is about to write, given what its second SELECT says.
\* PATCH counts a rename as an AI-relevant change of its own.
NewRow(s, open) ==
  LET derived == recompute_desired_state(s.new, open)
  IN  IF s.renamed THEN [derived EXCEPT !.config_version = @ + 1]
      ELSE bump_if_ai_relevant_changed(s.read, derived)

\* The SELECT for an open incident; DELETE stops here with a 400 if there is one.
ReadOpen(w) ==
  /\ ses[w].op \in {"patch", "delete", "resume"}
  /\ ses[w].stage = "loaded"
  /\ LET open == HasOpenIncident(ses[w].camera_id)
     IN  IF ses[w].op = "delete" /\ open
         THEN Finish(w)
         ELSE ses' = [ses EXCEPT ![w].stage = "derived", ![w].open = open,
                                     ![w].new = NewRow(ses[w], open)]
  /\ UNCHANGED <<cam, log, jobs, edits>>

FlaggedColumns(op) ==
  IF op = "patch" THEN {"desired_ai_state", "desired_state_reason", "cooldown_until"} ELSE {}

WriteRow(w) ==
  /\ ses[w].op \in {"patch", "delete", "resume"}
  /\ ses[w].stage = "derived"
  /\ LET s == ses[w]
     IN  cam' = [cam EXCEPT ![s.camera_id] =
                   Flush(@, s.read, s.new, FlaggedColumns(s.op))]
  /\ Finish(w)
  /\ UNCHANGED <<log, jobs, edits>>
-----------------------------------------------------------------------------
(* Time, failures and restarts *)

CooldownElapses(c) ==
  /\ cam[c].cooldown_until = "running"
  /\ cam' = [cam EXCEPT ![c].cooldown_until = "due"]
  /\ UNCHANGED <<log, ses, jobs, edits>>

SnoozeElapses(l) ==
  /\ log[l].snoozed_until = "running"
  /\ log' = [log EXCEPT ![l].snoozed_until = "due"]
  /\ UNCHANGED <<cam, ses, jobs, edits>>

\* A handler that fails before it commits (a lock timeout, a duplicate name,
\* an exception) is rolled back as a whole.
Abandon(w) ==
  /\ ~Free(w)
  /\ Finish(w)
  /\ UNCHANGED <<cam, log, jobs, edits>>

\* The scheduler forgets a one-shot: it ran too late for its misfire grace
\* time, or the process died between the commit and the scheduling.
LoseJob(c) ==
  /\ c \in jobs
  /\ jobs' = jobs \ {c}
  /\ UNCHANGED <<cam, log, ses, edits>>

\* reconcile_camera_desired_states on one row; it bumps no config_version.
Reconciled(c) ==
  IF cam[c].is_active THEN recompute_desired_state(cam[c], HasOpenIncident(c)) ELSE cam[c]

\* A crash at any point, then the startup sequence before the first request:
\* uncommitted work and registered jobs are gone, the tables are reconciled.
Restart ==
  /\ cam'  = [c \in Cameras |-> Reconciled(c)]
  /\ jobs' = {c \in Cameras : cam'[c].is_active /\ cam'[c].desired_state_reason = "cooldown"}
  /\ log'  = [l \in Logs |-> IF SnoozeExpired(log[l]) THEN Unsnoozed(log[l]) ELSE log[l]]
  /\ ses'  = [w \in Workers |-> Idle]
  /\ UNCHANGED edits

-----------------------------------------------------------------------------
(* add_camera *)
NewCamera(enabled) ==
  recompute_desired_state(
    [is_active |-> TRUE, is_enabled |-> enabled, desired_ai_state |-> "Inactive",
     desired_state_reason |-> "none", cooldown_until |-> "none", config_version |-> 1], FALSE)

Init == /\ cam \in [Cameras -> {NewCamera(enabled) : enabled \in BOOLEAN}]
        /\ log = [l \in Logs |-> Absent]
        /\ ses = [w \in Workers |-> Idle]
        /\ jobs = {}
        /\ edits = 0

OperatorStep ==
  \/ \E u \in Users, l \in Logs : confirm_alert(u, l) \/ clear_alert(u, l)
  \/ \E w \in Threads, u \in Users, l \in Logs : DismissPeek(w, u, l) \/ SnoozePeek(w, u, l)
  \/ \E w \in Threads, c \in Cameras : PatchLoad(w, c) \/ DeleteLoad(w, c)

\* A handler that has begun runs on.
HandlerStep(w) ==
  IngestCommit(w) \/ dismiss_alert(w) \/ snooze_incident(w) \/ ReadOpen(w) \/ WriteRow(w)

BeginResume(c) == \E w \in Executors : ResumeJob(w, c) \/ ResumeSweep(w, c)

Next ==
  \/ \E w \in Threads, c \in Cameras, e \in Events : IngestRead(w, c, e)
  \/ OperatorStep
  \/ \E w \in Workers : HandlerStep(w) \/ Abandon(w)
  \/ \E l \in Logs : expire_snooze(l) \/ SnoozeElapses(l)
  \/ \E c \in Cameras : BeginResume(c) \/ CooldownElapses(c) \/ LoseJob(c)
  \/ Restart

Spec == Init /\ [][Next]_vars

(***************************************************************************)
(* Threads run on, deadlines pass, and the interval sweeps keep coming:    *)
(* each sweep takes every due camera and incident in turn, so none of them *)
(* is passed over for ever.  A job that fails is tried again by the next   *)
(* sweep, and does not fail for ever.  Nothing is assumed of operators, of *)
(* the engine, of one-shot jobs or of restarts.                            *)
(***************************************************************************)
Fairness ==
  /\ \A w \in Workers : WF_vars(HandlerStep(w))
  /\ \A w \in Executors : SF_vars(ReadOpen(w)) /\ SF_vars(WriteRow(w))
  /\ \A c \in Cameras : /\ WF_vars(CooldownElapses(c))
                        /\ SF_vars(\E w \in Executors : ResumeSweep(w, c))
  /\ \A l \in Logs : WF_vars(SnoozeElapses(l)) /\ WF_vars(expire_snooze(l))

FairSpec == Spec /\ Fairness

-----------------------------------------------------------------------------
(* Properties *)

TypeOK == /\ cam \in [Cameras -> CameraRow]
          /\ log \in [Logs -> LogRow]
          /\ ses \in [Workers -> Session]
          /\ jobs \subseteq Cameras
          /\ edits \in 0..MaxEdits

\* However duplicates, retries and rival detections interleave, a camera never
\* has two open incidents, and a detector event never has two incidents
\* (ingest_detection and its two unique indexes).
IncidentsAreUnique ==
  \A k, l \in Logs :
    k # l /\ log[k].detection_status # "absent" /\ log[l].detection_status # "absent" =>
      /\ log[k].source_event_id # log[l].source_event_id
      /\ IsOpen(k) /\ IsOpen(l) => log[k].camera_id # log[l].camera_id

\* Seen through the incident table alone the backend implements the abstract
\* lifecycle: only the four legal transitions happen, closed incidents stay as
\* they are, and describe_handler names exactly the action and the operator
\* whose request landed, whatever requests lost the race against it.
Lifecycle == INSTANCE IncidentLifecycle WITH
  status  <- [l \in Logs |-> log[l].detection_status],
  site    <- [l \in Logs |-> log[l].camera_id],
  cause   <- [l \in Logs |-> log[l].source_event_id],
  handled <- [l \in Logs |-> describe_handler(log[l])]

LifecycleSpec == Lifecycle!Spec

\* Only an incident still waiting for a decision is muted, and somebody muted
\* it: a late snooze request cannot mute one that was confirmed or closed
\* while it was on its way.
SnoozeOnlyMutesUnverified ==
  \A l \in Logs :
    /\ log[l].snoozed_until # "none" => log[l].detection_status = "Unverified"
    /\ log[l].snoozed_until # "none" <=> log[l].snoozed_by_id # NULL

\* A snooze ends by its deadline or by a decision, never before: no job left
\* over from an earlier snooze, no sweep and no restart unmutes an incident
\* that was snoozed again in the meantime.
SnoozeRunsItsTime ==
  [][\A l \in Logs :
       log[l].snoozed_until = "running" /\ log'[l].snoozed_until = "none" =>
         log'[l].detection_status # "Unverified"]_vars

\* What the handler has read still holds when it writes.
Current(w) == /\ ses[w].read = cam[ses[w].camera_id]
              /\ ses[w].open = HasOpenIncident(ses[w].camera_id)

\* This step writes the desired state of camera c on what is still true.
FreshWrite(c) ==
  \/ \E w \in Workers :
       \/ IngestCommit(w) /\ log' # log /\ ses[w].camera_id = c
       \/ dismiss_alert(w) /\ log' # log /\ log[ses[w].log_id].camera_id = c
       \/ WriteRow(w) /\ Current(w) /\ ses[w].camera_id = c
  \/ \E u \in Users, l \in Logs : clear_alert(u, l) /\ log[l].camera_id = c
  \/ Restart /\ cam[c].is_active

\* Every write that is made on what is still true brings the desired state of
\* its camera in line with the facts, whatever it was before: an accepted
\* ingest, even one racing a disable; a dismiss or a clear, which take for
\* granted that no other incident is open; a PATCH, DELETE or resume that
\* nothing overtook; and the startup reconciliation for every live camera.
FreshWriteAgrees ==
  [][\A c \in Cameras : FreshWrite(c) => Agrees(cam'[c], HasOpenIncident(c)')]_vars

\* A camera waiting out a cooldown stops waiting, even if its job is lost,
\* fails or the backend restarts over and over.
CooldownEnds ==
  \A c \in Cameras : cam[c].desired_state_reason = "cooldown" ~>
                     cam[c].desired_state_reason # "cooldown"

\* A muted incident does not stay muted on a deadline that has passed.
SnoozeReAlarms ==
  \A l \in Logs : log[l].snoozed_until = "due" ~> log[l].snoozed_until # "due"

-----------------------------------------------------------------------------
(* What comments and documents of the repository say of the camera row, and *)
(* what overlapping handlers do to it.                                      *)

\* An open incident holds its camera Paused: "a new incident may have opened in
\* the meantime (edge case 1.8), in which case this correctly leaves it Paused
\* with reason='incident'" (resume_camera_after_cooldown).
OpenIncidentHoldsCamera ==
  \A c \in Cameras :
    HasOpenIncident(c) /\ ~Disabled(cam[c]) => cam[c].desired_ai_state = "Paused"

\* A deleted camera leaves no incident open behind it: DELETE "additionally
\* guards against deleting a camera with an open incident" (update_camera).
DeletedCameraHasNoOpenIncident ==
  \A c \in Cameras : ~cam[c].is_active => ~HasOpenIncident(c)

\* config_version never goes back: "Every persisted camera configuration change
\* gets a monotonic version so the engine and audit trail can identify the exact
\* configuration generation" (services/cameras.py).
ConfigVersionIsMonotonic ==
  [][\A c \in Cameras : cam'[c].config_version >= cam[c].config_version]_vars
=============================================================================
