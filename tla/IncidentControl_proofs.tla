----------------------- MODULE IncidentControl_proofs -----------------------
(***************************************************************************)
(* Proofs about IncidentControl, for any number of cameras, incidents,     *)
(* detector events, users, request threads and executor threads.           *)
(***************************************************************************)
EXTENDS IncidentControl, TLAPS

USE NullAssumption, EditsAssumption

-----------------------------------------------------------------------------
(* The pure rules of CameraDesiredState *)

LEMMA BumpType ==
  ASSUME NEW before, NEW after \in CameraRow
  PROVE  bump_if_ai_relevant_changed(before, after) \in CameraRow
BY DEF CameraRow, bump_if_ai_relevant_changed

LEMMA DerivedType ==
  ASSUME NEW row \in CameraRow, NEW open \in BOOLEAN
  PROVE  /\ recompute_desired_state(row, open) \in CameraRow
         /\ apply_desired_state(row, open) \in CameraRow
<1>1. recompute_desired_state(row, open) \in CameraRow
  BY DEF CameraRow, recompute_desired_state, Derived, DesiredAIState, DesiredStateReason,
         Deadline
<1> QED BY <1>1, BumpType DEF apply_desired_state

LEMMA FlushType ==
  ASSUME NEW current \in CameraRow, NEW read \in CameraRow, NEW new \in CameraRow, NEW flagged
  PROVE  Flush(current, read, new, flagged) \in CameraRow
BY DEF CameraRow, Flush

\* A write that nothing overtook writes the whole row, flagged or not.
LEMMA FlushOfCurrent ==
  ASSUME NEW current \in CameraRow, NEW new \in CameraRow, NEW flagged
  PROVE  Flush(current, current, new, flagged) = new
BY DEF CameraRow, Flush

\* The two ways a row is derived agree with the facts they were given.
LEMMA DerivedAgrees ==
  ASSUME NEW row \in CameraRow, NEW open \in BOOLEAN
  PROVE  /\ Agrees(recompute_desired_state(row, open), open)
         /\ Agrees(apply_desired_state(row, open), open)
<1> DEFINE derived == recompute_desired_state(row, open)
<1>1. derived \in CameraRow
  BY DerivedType
<1>2. Agrees(derived, open)
  BY DEF CameraRow, recompute_desired_state, Derived, Disabled, Agrees
<1> HIDE DEF derived
<1>3. Agrees(bump_if_ai_relevant_changed(row, derived), open)
  BY <1>1, <1>2 DEF CameraRow, bump_if_ai_relevant_changed, Disabled, Agrees
<1> QED BY <1>2, <1>3 DEF apply_desired_state, derived

LEMMA BlindfoldAgrees ==
  ASSUME NEW row \in CameraRow
  PROVE  Blindfold(row) \in CameraRow /\ Agrees(Blindfold(row), TRUE)
<1> DEFINE state  == IF Disabled(row) THEN "Inactive" ELSE "Paused"
           reason == IF Disabled(row) THEN "disabled" ELSE "incident"
           d      == Derived(row, state, reason, "none")
<1>1. state \in DesiredAIState /\ reason \in DesiredStateReason /\ "none" \in Deadline
  BY DEF DesiredAIState, DesiredStateReason, Deadline
<1>2. d \in CameraRow
  BY <1>1 DEF CameraRow, Derived
<1>3. Agrees(d, TRUE)
  BY DEF CameraRow, Derived, Disabled, Agrees
<1>4. Blindfold(row) = [d EXCEPT !.config_version = @ + 1]
  BY DEF Blindfold
<1> HIDE DEF d
<1>5. Blindfold(row) \in CameraRow
  BY <1>2, <1>4 DEF CameraRow
<1>6. Agrees(Blindfold(row), TRUE)
  BY <1>2, <1>3, <1>4 DEF CameraRow, Disabled, Agrees
<1> QED BY <1>5, <1>6

-----------------------------------------------------------------------------
(* Type correctness *)

LEMMA SessionKinds ==
  ASSUME NEW s \in Session
  PROVE  /\ s.op = "ingest" => s \in IngestSession
         /\ s.op \in {"dismiss", "snooze"} => s \in PeekSession
         /\ s.op \in {"patch", "delete", "resume"} => s \in RowSession
BY DEF Session, Idle, IngestSession, PeekSession, RowSession

LEMMA FinishType ==
  ASSUME NEW w, Finish(w), ses \in [Workers -> Session]
  PROVE  ses' \in [Workers -> Session]
BY DEF Finish, Session

LEMMA BeginType ==
  ASSUME NEW w, NEW s \in Session, Begin(w, s), ses \in [Workers -> Session]
  PROVE  ses' \in [Workers -> Session]
BY DEF Begin

LEMMA LoadRowType ==
  ASSUME NEW w, NEW op \in {"patch", "delete", "resume"}, NEW c \in Cameras,
         NEW edited \in CameraRow, NEW renamed \in BOOLEAN,
         LoadRow(w, op, c, edited, renamed), TypeOK
  PROVE  ses' \in [Workers -> Session]
<1>1. [op |-> op, stage |-> "loaded", camera_id |-> c, renamed |-> renamed,
       read |-> cam[c], new |-> edited, open |-> FALSE] \in Session
  BY DEF Session, RowSession, TypeOK
<1> QED BY <1>1, BeginType DEF LoadRow, TypeOK

LEMMA NewRowType ==
  ASSUME NEW s \in RowSession, NEW open \in BOOLEAN
  PROVE  NewRow(s, open) \in CameraRow
<1>1. recompute_desired_state(s.new, open) \in CameraRow
  BY DerivedType DEF RowSession
<1>2. [recompute_desired_state(s.new, open) EXCEPT !.config_version = @ + 1] \in CameraRow
  BY <1>1 DEF CameraRow
<1> QED BY <1>1, <1>2, BumpType DEF NewRow

LEMMA DetectedType ==
  ASSUME NEW c \in Cameras, NEW e \in Events
  PROVE  Detected(c, e) \in LogRow
BY DEF Detected, Absent, LogRow, Statuses, OpenStatuses, Deadline

\* Only a row that exists can have a status: a type fact used all over.
LEMMA ExistingRow ==
  ASSUME NEW row \in LogRow, row.detection_status # "absent"
  PROVE  row \in [detection_status : Statuses, camera_id : Cameras, source_event_id : Events,
                  verified_by_id : Users \cup {NULL}, closed_by_id : Users \cup {NULL},
                  snoozed_until : Deadline, snoozed_by_id : Users \cup {NULL}]
BY DEF LogRow, Absent

LEMMA MovedType ==
  ASSUME NEW row \in LogRow, NEW expected \in OpenStatuses, row.detection_status = expected,
         NEW new \in Statuses, NEW u \in Users
  PROVE  Moved(row, expected, new, u) \in LogRow
<1>1. row.detection_status # "absent"
  BY DEF OpenStatuses
<1> QED BY <1>1, ExistingRow DEF Moved, LogRow, Deadline

LEMMA SnoozeTypes ==
  ASSUME NEW row \in LogRow
  PROVE  /\ Unsnoozed(row) \in LogRow
         /\ row.detection_status = "Unverified" =>
              \A u \in Users : Snoozed(row, u) \in LogRow
         /\ row.snoozed_until = "running" => [row EXCEPT !.snoozed_until = "due"] \in LogRow
<1>1. CASE row = Absent
  <2> DEFINE AbsentRow == [detection_status : {"absent"}, camera_id : {NULL},
                           source_event_id : {NULL}, verified_by_id : {NULL},
                           closed_by_id : {NULL}, snoozed_until : {"none"},
                           snoozed_by_id : {NULL}]
  <2>1. Unsnoozed(Absent) = Absent
    <3>1. Absent \in AbsentRow
      BY DEF Absent
    <3>2. Unsnoozed(Absent) \in AbsentRow
      BY <3>1 DEF Unsnoozed
    <3> QED BY <3>1, <3>2
  <2> QED BY <1>1, <2>1 DEF Absent, LogRow
<1>2. CASE row # Absent
  BY <1>2 DEF Snoozed, Unsnoozed, LogRow, Deadline
<1> QED BY <1>1, <1>2

LEMMA transitionType ==
  ASSUME TypeOK, NEW l \in Logs, NEW expected \in OpenStatuses, NEW new \in Statuses,
         NEW u \in Users, transition(l, expected, new, u)
  PROVE  log' \in [Logs -> LogRow]
<1>1. Moved(log[l], expected, new, u) \in LogRow
  BY MovedType DEF TypeOK, transition
<1> QED BY <1>1 DEF TypeOK, transition

LEMMA TypeInit == Init => TypeOK
<1> SUFFICES ASSUME Init PROVE TypeOK
  OBVIOUS
<1>1. \A enabled \in BOOLEAN : NewCamera(enabled) \in CameraRow
  <2> TAKE enabled \in BOOLEAN
  <2>1. [is_active |-> TRUE, is_enabled |-> enabled, desired_ai_state |-> "Inactive",
         desired_state_reason |-> "none", cooldown_until |-> "none", config_version |-> 1]
          \in CameraRow
    BY DEF CameraRow, DesiredAIState, DesiredStateReason, Deadline
  <2> QED BY <2>1, DerivedType DEF NewCamera
<1>2. Absent \in LogRow
  BY DEF Absent, LogRow, Deadline
<1>3. Idle \in Session
  BY DEF Session
<1> QED BY <1>1, <1>2, <1>3 DEF Init, TypeOK

LEMMA TypeNext == TypeOK /\ [Next]_vars => TypeOK'
<1> SUFFICES ASSUME TypeOK, [Next]_vars PROVE TypeOK'
  OBVIOUS
<1> USE DEF TypeOK
<1>1. ASSUME NEW w \in Threads, NEW c \in Cameras, NEW e \in Events, IngestRead(w, c, e)
      PROVE  TypeOK'
  <2>1. [op |-> "ingest", camera_id |-> c, event |-> e] \in Session
    BY DEF Session, IngestSession
  <2> QED BY <1>1, <2>1, BeginType DEF IngestRead
<1>2. ASSUME NEW u \in Users, NEW l \in Logs, confirm_alert(u, l)
      PROVE  TypeOK'
  BY <1>2, transitionType DEF confirm_alert, Statuses, OpenStatuses
<1>3. ASSUME NEW u \in Users, NEW l \in Logs, clear_alert(u, l)
      PROVE  TypeOK'
  <2>1. log' \in [Logs -> LogRow]
    BY <1>3, transitionType DEF clear_alert, Statuses, TerminalStatuses, OpenStatuses
  <2>2. cam' \in [Cameras -> CameraRow]
    BY <1>3, DerivedType DEF clear_alert
  <2> QED BY <1>3, <2>1, <2>2 DEF clear_alert
<1>4. ASSUME NEW w \in Threads, NEW u \in Users, NEW l \in Logs,
             DismissPeek(w, u, l) \/ SnoozePeek(w, u, l)
      PROVE  TypeOK'
  <2>1. CASE DismissPeek(w, u, l)
    <3>1. [op |-> "dismiss", log_id |-> l, user |-> u,
           expected |-> log[l].detection_status] \in Session
      BY <2>1 DEF DismissPeek, IsOpen, Session, PeekSession
    <3> QED BY <2>1, <3>1, BeginType DEF DismissPeek
  <2>2. CASE SnoozePeek(w, u, l)
    <3>1. [op |-> "snooze", log_id |-> l, user |-> u, expected |-> "Unverified"] \in Session
      BY DEF Session, PeekSession, OpenStatuses
    <3> QED BY <2>2, <3>1, BeginType DEF SnoozePeek
  <2> QED BY <1>4, <2>1, <2>2
<1>5. ASSUME NEW w \in Threads, NEW c \in Cameras, PatchLoad(w, c)
      PROVE  TypeOK'
  <2>1. PICK enabled \in BOOLEAN, renamed \in BOOLEAN, active \in {cam[c].is_active, TRUE} :
          LoadRow(w, "patch", c,
                  [cam[c] EXCEPT !.is_enabled = enabled, !.is_active = active], renamed)
    BY <1>5 DEF PatchLoad
  <2>2. [cam[c] EXCEPT !.is_enabled = enabled, !.is_active = active] \in CameraRow
    BY DEF CameraRow
  <2>3. ses' \in [Workers -> Session]
    BY <2>1, <2>2, LoadRowType
  <2> QED BY <1>5, <2>3 DEF PatchLoad
<1>6. ASSUME NEW w \in Threads, NEW c \in Cameras, DeleteLoad(w, c)
      PROVE  TypeOK'
  <2>1. [cam[c] EXCEPT !.is_active = FALSE] \in CameraRow
    BY DEF CameraRow
  <2>2. ses' \in [Workers -> Session]
    BY <1>6, <2>1, LoadRowType DEF DeleteLoad
  <2> QED BY <1>6, <2>2 DEF DeleteLoad
<1>7. ASSUME NEW w \in Executors, NEW c \in Cameras, ResumeJob(w, c) \/ ResumeSweep(w, c)
      PROVE  TypeOK'
  <2>1. ASSUME LoadRow(w, "resume", c, cam[c], FALSE) PROVE ses' \in [Workers -> Session]
    BY <2>1, LoadRowType
  <2> QED BY <1>7, <2>1 DEF ResumeJob, ResumeSweep
<1>8. ASSUME NEW w \in Workers, HandlerStep(w) \/ Abandon(w)
      PROVE  TypeOK'
  <2>1. CASE IngestCommit(w)
    <3>1. ses[w] \in IngestSession
      BY <2>1, SessionKinds DEF IngestCommit
    <3>2. log' \in [Logs -> LogRow]
      BY <2>1, <3>1, DetectedType DEF IngestCommit, IngestSession
    <3>3. cam' \in [Cameras -> CameraRow]
      <4> DEFINE c == ses[w].camera_id
      <4>1. c \in Cameras
        BY <3>1 DEF IngestSession
      <4>2. cam' = cam \/ cam' = [cam EXCEPT ![c] = Blindfold(cam[c])]
        BY <2>1 DEF IngestCommit
      <4>3. Blindfold(cam[c]) \in CameraRow
        BY <4>1, BlindfoldAgrees
      <4> HIDE DEF c
      <4> QED BY <4>1, <4>2, <4>3
    <3>4. ses' \in [Workers -> Session]
      BY <2>1, FinishType DEF IngestCommit
    <3> QED BY <2>1, <3>2, <3>3, <3>4 DEF IngestCommit
  <2>2. CASE dismiss_alert(w)
    <3>1. ses[w] \in PeekSession
      BY <2>2, SessionKinds DEF dismiss_alert
    <3>2. log' \in [Logs -> LogRow]
      BY <2>2, <3>1, transitionType DEF dismiss_alert, PeekSession, Statuses, TerminalStatuses
    <3>3. \A row \in CameraRow, expected \in OpenStatuses : Stamped(row, expected) \in CameraRow
      BY DEF CameraRow, Stamped, Deadline
    <3>4. cam' \in [Cameras -> CameraRow]
      <4> DEFINE l == ses[w].log_id
                 c == log[l].camera_id
                 row == Stamped(cam[c], ses[w].expected)
      <4>1. CASE UNCHANGED cam
        BY <4>1
      <4>2. CASE cam' = [cam EXCEPT ![c] = apply_desired_state(row, FALSE)]
        <5>1. c \in Cameras => row \in CameraRow
          BY <3>1, <3>3 DEF PeekSession
        <5> QED BY <4>2, <5>1, DerivedType
      <4> QED BY <2>2, <4>1, <4>2 DEF dismiss_alert
    <3>5. ses' \in [Workers -> Session]
      BY <2>2, FinishType DEF dismiss_alert
    <3>6. jobs' \subseteq Cameras
      <4>1. CASE transition(ses[w].log_id, ses[w].expected, "Dismissed", ses[w].user)
        <5>1. log[ses[w].log_id].detection_status # "absent"
          BY <3>1, <4>1 DEF transition, PeekSession, OpenStatuses
        <5>2. log[ses[w].log_id].camera_id \in Cameras
          BY <3>1, <5>1, ExistingRow DEF PeekSession
        <5> QED BY <2>2, <4>1, <5>2 DEF dismiss_alert
      <4>2. CASE UNCHANGED jobs
        BY <4>2
      <4> QED BY <2>2, <4>1, <4>2 DEF dismiss_alert
    <3> QED BY <2>2, <3>2, <3>4, <3>5, <3>6 DEF dismiss_alert
  <2>3. CASE snooze_incident(w)
    <3>1. ses[w] \in PeekSession
      BY <2>3, SessionKinds DEF snooze_incident
    <3>2. log' \in [Logs -> LogRow]
      <4> DEFINE l == ses[w].log_id
                 row == Snoozed(log[l], ses[w].user)
      <4>1. CASE UNCHANGED log
        BY <4>1
      <4>2. CASE log[l].detection_status = "Unverified" /\ log' = [log EXCEPT ![l] = row]
        <5>1. row \in LogRow
          BY <3>1, <4>2, SnoozeTypes DEF PeekSession
        <5> QED BY <4>2, <5>1
      <4> QED BY <2>3, <4>1, <4>2 DEF snooze_incident
    <3>3. ses' \in [Workers -> Session]
      BY <2>3, FinishType DEF snooze_incident
    <3> QED BY <2>3, <3>2, <3>3 DEF snooze_incident
  <2>4. CASE ReadOpen(w)
    <3>1. ses[w] \in RowSession
      BY <2>4, SessionKinds DEF ReadOpen
    <3>2. HasOpenIncident(ses[w].camera_id) \in BOOLEAN
      BY DEF HasOpenIncident
    <3>3. NewRow(ses[w], HasOpenIncident(ses[w].camera_id)) \in CameraRow
      BY <3>1, <3>2, NewRowType
    <3>4. [ses[w] EXCEPT !.stage = "derived", !.open = HasOpenIncident(ses[w].camera_id),
                         !.new = NewRow(ses[w], HasOpenIncident(ses[w].camera_id))]
            \in Session
      BY <3>1, <3>2, <3>3 DEF RowSession, Session
    <3>5. ses' \in [Workers -> Session]
      BY <2>4, <3>4, FinishType DEF ReadOpen
    <3> QED BY <2>4, <3>5 DEF ReadOpen
  <2>5. CASE WriteRow(w)
    <3>1. ses[w] \in RowSession
      BY <2>5, SessionKinds DEF WriteRow
    <3>2. cam' \in [Cameras -> CameraRow]
      BY <2>5, <3>1, FlushType DEF WriteRow, RowSession
    <3>3. ses' \in [Workers -> Session]
      BY <2>5, FinishType DEF WriteRow
    <3> QED BY <2>5, <3>2, <3>3 DEF WriteRow
  <2>6. CASE Abandon(w)
    BY <2>6, FinishType DEF Abandon
  <2> QED BY <1>8, <2>1, <2>2, <2>3, <2>4, <2>5, <2>6 DEF HandlerStep
<1>9. ASSUME NEW l \in Logs, expire_snooze(l) \/ SnoozeElapses(l)
      PROVE  TypeOK'
  <2>1. CASE expire_snooze(l)
    BY <2>1, SnoozeTypes DEF expire_snooze
  <2>2. CASE SnoozeElapses(l)
    BY <2>2, SnoozeTypes DEF SnoozeElapses
  <2> QED BY <1>9, <2>1, <2>2
<1>10. ASSUME NEW c \in Cameras, CooldownElapses(c) \/ LoseJob(c)
       PROVE  TypeOK'
  <2>1. [cam[c] EXCEPT !.cooldown_until = "due"] \in CameraRow
    BY DEF CameraRow, Deadline
  <2> QED BY <1>10, <2>1 DEF CooldownElapses, LoseJob
<1>11. CASE Restart
  <2>1. \A c \in Cameras : Reconciled(c) \in CameraRow
    BY DerivedType DEF Reconciled, HasOpenIncident
  <2>2. \A l \in Logs : Unsnoozed(log[l]) \in LogRow
    BY SnoozeTypes
  <2>3. Idle \in Session
    BY DEF Session
  <2> QED BY <1>11, <2>1, <2>2, <2>3 DEF Restart
<1>12. CASE UNCHANGED vars
  BY <1>12 DEF vars
<1> QED
  BY <1>1, <1>2, <1>3, <1>4, <1>5, <1>6, <1>7, <1>8, <1>9, <1>10, <1>11, <1>12
     DEF Next, OperatorStep, BeginResume

\* Every row, session and job keeps its type, whatever interleaves.
THEOREM TypeCorrect == Spec => []TypeOK
BY TypeInit, TypeNext, PTL DEF Spec

-----------------------------------------------------------------------------
(* What a step may do to the incident table *)

LegalMoves == {<<"Unverified", "Ongoing">>, <<"Unverified", "Dismissed">>,
               <<"Ongoing", "Cleared">>, <<"Ongoing", "Dismissed">>}

OpenStep == \E l \in Logs, c \in Cameras, e \in Events :
  /\ log[l].detection_status = "absent"
  /\ IndexesAllow(c, e)
  /\ log' = [log EXCEPT ![l] = Detected(c, e)]

MoveStep == \E l \in Logs, u \in Users, m \in LegalMoves : transition(l, m[1], m[2], u)

SnoozeStep == \E l \in Logs, u \in Users :
  /\ log[l].detection_status = "Unverified"
  /\ log' = [log EXCEPT ![l] = Snoozed(@, u)]

UnsnoozeStep == \E L \in SUBSET Logs :
  /\ \A l \in L : SnoozeExpired(log[l])
  /\ log' = [l \in Logs |-> IF l \in L THEN Unsnoozed(log[l]) ELSE log[l]]

ElapseStep == \E l \in Logs :
  /\ log[l].snoozed_until = "running"
  /\ log' = [log EXCEPT ![l].snoozed_until = "due"]

LEMMA LogSteps ==
  ASSUME TypeOK, [Next]_vars
  PROVE  OpenStep \/ MoveStep \/ SnoozeStep \/ UnsnoozeStep \/ ElapseStep \/ UNCHANGED log
<1>1. ASSUME NEW u \in Users, NEW l \in Logs, confirm_alert(u, l) \/ clear_alert(u, l)
      PROVE  MoveStep
  BY <1>1 DEF confirm_alert, clear_alert, MoveStep, LegalMoves
<1>2. ASSUME NEW w \in Workers, HandlerStep(w)
      PROVE  OpenStep \/ MoveStep \/ SnoozeStep \/ UNCHANGED log
  <2>1. CASE IngestCommit(w)
    <3>1. ses[w] \in IngestSession
      BY <2>1, SessionKinds DEF IngestCommit, TypeOK
    <3> QED BY <2>1, <3>1 DEF IngestCommit, IngestSession, OpenStep
  <2>2. CASE dismiss_alert(w)
    <3>1. ses[w] \in PeekSession
      BY <2>2, SessionKinds DEF dismiss_alert, TypeOK
    <3>2. <<ses[w].expected, "Dismissed">> \in LegalMoves
      BY <3>1 DEF PeekSession, LegalMoves, OpenStatuses
    <3>3. transition(ses[w].log_id, ses[w].expected, "Dismissed", ses[w].user) \/ UNCHANGED log
      BY <2>2 DEF dismiss_alert
    <3> QED BY <3>1, <3>2, <3>3 DEF PeekSession, MoveStep
  <2>3. CASE snooze_incident(w)
    <3>1. ses[w] \in PeekSession
      BY <2>3, SessionKinds DEF snooze_incident, TypeOK
    <3> QED BY <2>3, <3>1 DEF snooze_incident, PeekSession, SnoozeStep
  <2>4. CASE ReadOpen(w) \/ WriteRow(w)
    BY <2>4 DEF ReadOpen, WriteRow
  <2> QED BY <1>2, <2>1, <2>2, <2>3, <2>4 DEF HandlerStep
<1>3. ASSUME NEW l \in Logs, expire_snooze(l)
      PROVE  UnsnoozeStep
  <2>1. log' = [k \in Logs |-> IF k \in {l} THEN Unsnoozed(log[k]) ELSE log[k]]
    BY <1>3 DEF expire_snooze, TypeOK
  <2> QED BY <1>3, <2>1 DEF expire_snooze, UnsnoozeStep
<1>4. ASSUME NEW l \in Logs, SnoozeElapses(l)
      PROVE  ElapseStep
  BY <1>4 DEF SnoozeElapses, ElapseStep
<1>5. ASSUME Restart
      PROVE  UnsnoozeStep
  <2> DEFINE L == {l \in Logs : SnoozeExpired(log[l])}
  <2>1. log' = [l \in Logs |-> IF l \in L THEN Unsnoozed(log[l]) ELSE log[l]]
    BY <1>5 DEF Restart
  <2>2. L \in SUBSET Logs /\ \A l \in L : SnoozeExpired(log[l])
    OBVIOUS
  <2> QED BY <2>1, <2>2 DEF UnsnoozeStep
<1>6. ASSUME \/ \E w \in Threads, c \in Cameras, e \in Events : IngestRead(w, c, e)
             \/ \E w \in Threads, u \in Users, l \in Logs :
                  DismissPeek(w, u, l) \/ SnoozePeek(w, u, l)
             \/ \E w \in Threads, c \in Cameras : PatchLoad(w, c) \/ DeleteLoad(w, c)
             \/ \E w \in Workers : Abandon(w)
             \/ \E c \in Cameras : BeginResume(c) \/ CooldownElapses(c) \/ LoseJob(c)
             \/ UNCHANGED vars
      PROVE  UNCHANGED log
  BY <1>6 DEF IngestRead, DismissPeek, SnoozePeek, PatchLoad, DeleteLoad, Abandon,
              BeginResume, ResumeJob, ResumeSweep, CooldownElapses, LoseJob, vars
<1> QED BY <1>1, <1>2, <1>3, <1>4, <1>5, <1>6 DEF Next, OperatorStep

-----------------------------------------------------------------------------
(* The incident table *)

\* Who stamped a row follows from its status: no row that is still open has
\* been closed by anybody.  describe_handler rests on it.
Stamped_OK == \A l \in Logs :
  log[l].detection_status \notin TerminalStatuses => log[l].closed_by_id = NULL

LogInv == IncidentsAreUnique /\ SnoozeOnlyMutesUnverified /\ Stamped_OK

\* A step that leaves these columns alone cannot break uniqueness.
LEMMA UniqueUnchanged ==
  ASSUME IncidentsAreUnique,
         \A l \in Logs : /\ log'[l].detection_status = log[l].detection_status
                         /\ log'[l].camera_id = log[l].camera_id
                         /\ log'[l].source_event_id = log[l].source_event_id
  PROVE  IncidentsAreUnique'
BY DEF IncidentsAreUnique, IsOpen

LEMMA LogNext ==
  ASSUME TypeOK, LogInv, [Next]_vars
  PROVE  LogInv'
<1> USE DEF LogInv
<1> log \in [Logs -> LogRow]
  BY DEF TypeOK
<1>1. ASSUME NEW l \in Logs, NEW c \in Cameras, NEW e \in Events,
             log[l].detection_status = "absent", IndexesAllow(c, e),
             log' = [log EXCEPT ![l] = Detected(c, e)]
      PROVE  LogInv'
  <2>1. /\ Detected(c, e).detection_status = "Unverified"
        /\ Detected(c, e).camera_id = c
        /\ Detected(c, e).source_event_id = e
        /\ Detected(c, e).closed_by_id = NULL
        /\ Detected(c, e).snoozed_until = "none"
        /\ Detected(c, e).snoozed_by_id = NULL
    BY DEF Detected, Absent
  <2>2. IncidentsAreUnique'
    BY <1>1, <2>1 DEF IncidentsAreUnique, IsOpen, IndexesAllow, Ingested, HasOpenIncident,
                      OpenStatuses
  <2>3. SnoozeOnlyMutesUnverified'
    BY <1>1, <2>1 DEF SnoozeOnlyMutesUnverified
  <2>4. Stamped_OK'
    BY <1>1, <2>1 DEF Stamped_OK
  <2> QED BY <2>2, <2>3, <2>4
<1>2. ASSUME NEW l \in Logs, NEW u \in Users, NEW m \in LegalMoves, transition(l, m[1], m[2], u)
      PROVE  LogInv'
  <2> DEFINE row == Moved(log[l], m[1], m[2], u)
  <2>1. log[l].detection_status = m[1] /\ log' = [log EXCEPT ![l] = row]
    BY <1>2 DEF transition
  <2>2. log[l].detection_status # "absent" /\ IsOpen(l)
    BY <2>1 DEF LegalMoves, IsOpen, OpenStatuses
  <2>3. /\ row.detection_status = m[2]
        /\ row.camera_id = log[l].camera_id
        /\ row.source_event_id = log[l].source_event_id
        /\ row.snoozed_until = "none"
        /\ row.snoozed_by_id = NULL
        /\ row.closed_by_id = IF m[1] = "Unverified" THEN log[l].closed_by_id ELSE u
    BY <2>2, ExistingRow DEF Moved
  <2> HIDE DEF row
  <2>4. IncidentsAreUnique'
    BY <2>1, <2>2, <2>3 DEF IncidentsAreUnique, IsOpen
  <2>5. SnoozeOnlyMutesUnverified'
    BY <2>1, <2>3 DEF SnoozeOnlyMutesUnverified
  <2>6. Stamped_OK'
    BY <2>1, <2>2, <2>3 DEF Stamped_OK, LegalMoves, IsOpen, OpenStatuses, TerminalStatuses
  <2> QED BY <2>4, <2>5, <2>6
<1>3. ASSUME NEW l \in Logs, NEW u \in Users, log[l].detection_status = "Unverified",
             log' = [log EXCEPT ![l] = Snoozed(@, u)]
      PROVE  LogInv'
  <2> DEFINE row == Snoozed(log[l], u)
  <2>1. /\ row.detection_status = "Unverified"
        /\ row.camera_id = log[l].camera_id
        /\ row.source_event_id = log[l].source_event_id
        /\ row.closed_by_id = log[l].closed_by_id
        /\ row.snoozed_until = "running" /\ row.snoozed_by_id = u
    BY <1>3, ExistingRow DEF Snoozed
  <2> HIDE DEF row
  <2>2. log' = [log EXCEPT ![l] = row]
    BY <1>3 DEF row
  <2>3. IncidentsAreUnique'
    BY <1>3, <2>1, <2>2, UniqueUnchanged
  <2>4. SnoozeOnlyMutesUnverified'
    BY <2>1, <2>2 DEF SnoozeOnlyMutesUnverified
  <2>5. Stamped_OK'
    BY <1>3, <2>1, <2>2 DEF Stamped_OK
  <2> QED BY <2>3, <2>4, <2>5
<1>4. ASSUME NEW L \in SUBSET Logs, \A l \in L : SnoozeExpired(log[l]),
             log' = [l \in Logs |-> IF l \in L THEN Unsnoozed(log[l]) ELSE log[l]]
      PROVE  LogInv'
  <2>1. \A l \in L : /\ Unsnoozed(log[l]).detection_status = log[l].detection_status
                     /\ Unsnoozed(log[l]).camera_id = log[l].camera_id
                     /\ Unsnoozed(log[l]).source_event_id = log[l].source_event_id
                     /\ Unsnoozed(log[l]).closed_by_id = log[l].closed_by_id
                     /\ Unsnoozed(log[l]).snoozed_until = "none"
                     /\ Unsnoozed(log[l]).snoozed_by_id = NULL
    <3> TAKE l \in L
    <3>1. log[l].detection_status # "absent" /\ log[l] \in LogRow
      BY <1>4 DEF SnoozeExpired
    <3> QED BY <3>1, ExistingRow DEF Unsnoozed
  <2>2. IncidentsAreUnique'
    BY <1>4, <2>1, UniqueUnchanged
  <2>3. SnoozeOnlyMutesUnverified'
    BY <1>4, <2>1 DEF SnoozeOnlyMutesUnverified
  <2>4. Stamped_OK'
    BY <1>4, <2>1 DEF Stamped_OK
  <2> QED BY <2>2, <2>3, <2>4
<1>5. ASSUME NEW l \in Logs, log[l].snoozed_until = "running",
             log' = [log EXCEPT ![l].snoozed_until = "due"]
      PROVE  LogInv'
  <2> DEFINE row == [log[l] EXCEPT !.snoozed_until = "due"]
  <2>1. log[l].detection_status = "Unverified"
    BY <1>5 DEF SnoozeOnlyMutesUnverified
  <2>2. /\ row.detection_status = log[l].detection_status
        /\ row.camera_id = log[l].camera_id
        /\ row.source_event_id = log[l].source_event_id
        /\ row.closed_by_id = log[l].closed_by_id
        /\ row.snoozed_by_id = log[l].snoozed_by_id
        /\ row.snoozed_until = "due"
    BY <2>1, ExistingRow
  <2> HIDE DEF row
  <2>3. log' = [log EXCEPT ![l] = row]
    BY <1>5 DEF row
  <2>4. IncidentsAreUnique'
    BY <2>2, <2>3, UniqueUnchanged
  <2>5. SnoozeOnlyMutesUnverified'
    BY <1>5, <2>1, <2>2, <2>3 DEF SnoozeOnlyMutesUnverified
  <2>6. Stamped_OK'
    BY <2>1, <2>2, <2>3 DEF Stamped_OK
  <2> QED BY <2>4, <2>5, <2>6
<1>6. CASE UNCHANGED log
  BY <1>6 DEF IncidentsAreUnique, SnoozeOnlyMutesUnverified, Stamped_OK, IsOpen
<1> QED BY <1>1, <1>2, <1>3, <1>4, <1>5, <1>6, LogSteps
        DEF OpenStep, MoveStep, SnoozeStep, UnsnoozeStep, ElapseStep

LEMMA LogInit == Init => LogInv
BY DEF Init, LogInv, IncidentsAreUnique, SnoozeOnlyMutesUnverified, Stamped_OK, Absent

THEOREM LogCorrect == Spec => [](TypeOK /\ LogInv)
BY TypeInit, TypeNext, LogInit, LogNext, PTL DEF Spec

\* One open incident per camera and one incident per detector event, however
\* duplicates, retries and rival detections interleave.
THEOREM UniqueIncidents == Spec => []IncidentsAreUnique
<1>1. LogInv => IncidentsAreUnique
  BY DEF LogInv
<1> QED BY <1>1, LogCorrect, PTL

\* No late snooze request mutes an incident that has been decided.
THEOREM OnlyUnverifiedIsMuted == Spec => []SnoozeOnlyMutesUnverified
<1>1. LogInv => SnoozeOnlyMutesUnverified
  BY DEF LogInv
<1> QED BY <1>1, LogCorrect, PTL

\* A snooze runs its time unless the incident is decided.
THEOREM SnoozesRunTheirTime == Spec => SnoozeRunsItsTime
<1>1. ASSUME TypeOK, [Next]_vars
      PROVE  [\A l \in Logs : log[l].snoozed_until = "running" /\ log'[l].snoozed_until = "none" =>
                log'[l].detection_status # "Unverified"]_vars
  <2> SUFFICES ASSUME NEW l \in Logs,
                      log[l].snoozed_until = "running", log'[l].snoozed_until = "none"
               PROVE  log'[l].detection_status # "Unverified"
    OBVIOUS
  <2> log \in [Logs -> LogRow]
    BY <1>1 DEF TypeOK
  <2> log[l].detection_status # "absent"
    <3>1. log[l] # Absent
      BY DEF Absent
    <3> QED BY <3>1 DEF LogRow, Statuses, OpenStatuses, TerminalStatuses
  <2>1. CASE OpenStep
    BY <2>1 DEF OpenStep
  <2>2. CASE MoveStep
    <3>1. PICK k \in Logs, u \in Users, m \in LegalMoves : transition(k, m[1], m[2], u)
      BY <2>2 DEF MoveStep
    <3>2. k = l
      BY <3>1 DEF transition
    <3>3. log'[l] = Moved(log[l], m[1], m[2], u)
      BY <3>1, <3>2 DEF transition
    <3>4. log'[l].detection_status = m[2]
      BY <3>3, ExistingRow DEF Moved
    <3> QED BY <3>4 DEF LegalMoves
  <2>3. CASE SnoozeStep
    <3>1. PICK k \in Logs, u \in Users : log' = [log EXCEPT ![k] = Snoozed(@, u)]
      BY <2>3 DEF SnoozeStep
    <3>2. Snoozed(log[l], u).snoozed_until = "running"
      BY ExistingRow DEF Snoozed
    <3> QED BY <3>1, <3>2
  <2>4. CASE UnsnoozeStep
    BY <2>4 DEF UnsnoozeStep, SnoozeExpired
  <2>5. CASE ElapseStep
    <3>1. PICK k \in Logs : log' = [log EXCEPT ![k].snoozed_until = "due"]
      BY <2>5 DEF ElapseStep
    <3>2. [log[l] EXCEPT !.snoozed_until = "due"].snoozed_until = "due"
      BY ExistingRow
    <3> QED BY <3>1, <3>2
  <2>6. CASE UNCHANGED log
    BY <2>6
  <2> QED BY <1>1, <2>1, <2>2, <2>3, <2>4, <2>5, <2>6, LogSteps
<1> QED BY <1>1, TypeCorrect, PTL DEF Spec, SnoozeRunsItsTime

-----------------------------------------------------------------------------
(* The incident table implements the abstract lifecycle *)

\* A step that leaves the five columns of the lifecycle alone is a stutter.
LEMMA LifecycleStutter ==
  ASSUME \A l \in Logs : /\ log'[l].detection_status = log[l].detection_status
                         /\ log'[l].camera_id = log[l].camera_id
                         /\ log'[l].source_event_id = log[l].source_event_id
                         /\ log'[l].verified_by_id = log[l].verified_by_id
                         /\ log'[l].closed_by_id = log[l].closed_by_id
  PROVE  UNCHANGED Lifecycle!vars
<1>1. \A l \in Logs : describe_handler(log[l])' = describe_handler(log[l])
  BY DEF describe_handler
<1> QED BY <1>1 DEF Lifecycle!vars

LEMMA LifecycleInit == Init => Lifecycle!Init
BY DEF Init, Lifecycle!Init, Lifecycle!Unhandled, Absent, describe_handler

LEMMA LifecycleNext ==
  ASSUME TypeOK, LogInv, [Next]_vars
  PROVE  [Lifecycle!Next]_(Lifecycle!vars)
<1> log \in [Logs -> LogRow]
  BY DEF TypeOK
<1>1. ASSUME NEW l \in Logs, NEW c \in Cameras, NEW e \in Events,
             log[l].detection_status = "absent", IndexesAllow(c, e),
             log' = [log EXCEPT ![l] = Detected(c, e)]
      PROVE  Lifecycle!Open(l, c, e)
  <2>1. /\ Detected(c, e).detection_status = "Unverified"
        /\ Detected(c, e).camera_id = c
        /\ Detected(c, e).source_event_id = e
    BY DEF Detected, Absent
  <2>2. describe_handler(Detected(c, e)) = <<"none", NULL>> /\ describe_handler(log[l]) = <<"none", NULL>>
    BY <1>1, <2>1 DEF describe_handler
  <2>3. \A k \in Logs : describe_handler(log[k])' = describe_handler(log[k])
    BY <1>1, <2>2 DEF describe_handler
  <2>4. /\ \A k \in Logs : log[k].detection_status # "absent" => log[k].source_event_id # e
        /\ \A k \in Logs : log[k].detection_status \in {"Unverified", "Ongoing"} =>
                             log[k].camera_id # c
    BY <1>1 DEF IndexesAllow, Ingested, HasOpenIncident, IsOpen, OpenStatuses
  <2> QED BY <1>1, <2>1, <2>3, <2>4 DEF Lifecycle!Open, Lifecycle!IsOpen
<1>2. ASSUME NEW l \in Logs, NEW u \in Users, NEW m \in LegalMoves, transition(l, m[1], m[2], u)
      PROVE  Lifecycle!Next
  <2> DEFINE row == Moved(log[l], m[1], m[2], u)
  <2>1. log[l].detection_status = m[1] /\ log' = [log EXCEPT ![l] = row]
    BY <1>2 DEF transition
  <2>2. log[l].detection_status # "absent"
    BY <2>1 DEF LegalMoves
  <2>3. /\ row.detection_status = m[2]
        /\ row.camera_id = log[l].camera_id
        /\ row.source_event_id = log[l].source_event_id
        /\ row.verified_by_id = IF m[1] = "Unverified" THEN u ELSE log[l].verified_by_id
        /\ row.closed_by_id = IF m[1] = "Unverified" THEN log[l].closed_by_id ELSE u
    BY <2>2, ExistingRow DEF Moved
  <2>4. m[1] = "Unverified" => log[l].closed_by_id = NULL
    BY <2>1 DEF LogInv, Stamped_OK, TerminalStatuses
  <2>5. u # NULL
    OBVIOUS
  <2>6. describe_handler(row) =
          <<CASE m = <<"Unverified", "Ongoing">>    -> "ALERT_CONFIRM"
              [] m = <<"Unverified", "Dismissed">> -> "ALERT_DISMISS"
              [] m = <<"Ongoing", "Cleared">>      -> "ALERT_CLEAR"
              [] m = <<"Ongoing", "Dismissed">>    -> "ALERT_CORRECTION", u>>
    BY <2>3, <2>4, <2>5 DEF describe_handler, LegalMoves
  <2> HIDE DEF row
  <2>7. \A k \in Logs : describe_handler(log[k])' =
                         (IF k = l THEN describe_handler(row) ELSE describe_handler(log[k]))
    BY <2>1 DEF describe_handler
  <2>8. ASSUME NEW action, describe_handler(row) = <<action, u>>
        PROVE  Lifecycle!Decide(l, u, m[1], m[2], action)
    <3>1. [k \in Logs |-> log[k].detection_status]' =
            [[k \in Logs |-> log[k].detection_status] EXCEPT ![l] = m[2]]
      BY <2>1, <2>3
    <3>2. [k \in Logs |-> describe_handler(log[k])]' =
            [[k \in Logs |-> describe_handler(log[k])] EXCEPT ![l] = <<action, u>>]
      BY <2>7, <2>8
    <3>3. /\ UNCHANGED [k \in Logs |-> log[k].camera_id]
          /\ UNCHANGED [k \in Logs |-> log[k].source_event_id]
      BY <2>1, <2>3
    <3> QED BY <2>1, <3>1, <3>2, <3>3 DEF Lifecycle!Decide
  <2>9. CASE m = <<"Unverified", "Ongoing">>
    BY <2>6, <2>8, <2>9 DEF Lifecycle!Next, Lifecycle!Confirm
  <2>10. CASE m = <<"Unverified", "Dismissed">>
    BY <2>6, <2>8, <2>10 DEF Lifecycle!Next, Lifecycle!Dismiss
  <2>11. CASE m = <<"Ongoing", "Cleared">>
    BY <2>6, <2>8, <2>11 DEF Lifecycle!Next, Lifecycle!Clear
  <2>12. CASE m = <<"Ongoing", "Dismissed">>
    BY <2>6, <2>8, <2>12 DEF Lifecycle!Next, Lifecycle!Correct
  <2> QED BY <2>9, <2>10, <2>11, <2>12 DEF LegalMoves
<1>3. CASE SnoozeStep \/ UnsnoozeStep \/ ElapseStep \/ UNCHANGED log
  <2>1. \A l \in Logs : /\ log'[l].detection_status = log[l].detection_status
                        /\ log'[l].camera_id = log[l].camera_id
                        /\ log'[l].source_event_id = log[l].source_event_id
                        /\ log'[l].verified_by_id = log[l].verified_by_id
                        /\ log'[l].closed_by_id = log[l].closed_by_id
    <3> TAKE l \in Logs
    <3>1. CASE log'[l] = log[l]
      BY <3>1
    <3>2. CASE log'[l] = Unsnoozed(log[l])
      BY <3>2, ExistingRow DEF Unsnoozed, LogRow, Absent
    <3>3. CASE \E u : log'[l] = Snoozed(log[l], u)
      BY <3>3, ExistingRow DEF Snoozed, LogRow, Absent
    <3>4. CASE log'[l] = [log[l] EXCEPT !.snoozed_until = "due"]
      BY <3>4, ExistingRow DEF LogRow, Absent
    <3> QED BY <1>3, <3>1, <3>2, <3>3, <3>4 DEF SnoozeStep, UnsnoozeStep, ElapseStep
  <2> QED BY <2>1, LifecycleStutter
<1> QED BY <1>1, <1>2, <1>3, LogSteps DEF OpenStep, MoveStep, Lifecycle!Next

\* Only the four legal transitions happen, and describe_handler always names
\* the action and the operator that won.
THEOREM ImplementsLifecycle == Spec => LifecycleSpec
BY LifecycleInit, LifecycleNext, LogCorrect, PTL DEF Spec, LifecycleSpec, Lifecycle!Spec

-----------------------------------------------------------------------------
(* Writes made on facts that still hold leave the camera in line with them *)

\* A handler about to write holds a row that agrees with what it has read.
DerivedSessions == \A w \in Workers :
  ses[w] \in RowSession /\ ses[w].stage = "derived" => Agrees(ses[w].new, ses[w].open)

LEMMA NewRowAgrees ==
  ASSUME NEW s \in RowSession, NEW open \in BOOLEAN
  PROVE  Agrees(NewRow(s, open), open)
<1> DEFINE derived == recompute_desired_state(s.new, open)
<1>1. derived \in CameraRow /\ Agrees(derived, open)
  BY DerivedType, DerivedAgrees DEF RowSession
<1> HIDE DEF derived
<1>2. Agrees([derived EXCEPT !.config_version = @ + 1], open)
  BY <1>1 DEF CameraRow, Disabled, Agrees
<1>3. Agrees(bump_if_ai_relevant_changed(s.read, derived), open)
  BY <1>1, <1>2 DEF bump_if_ai_relevant_changed
<1> QED BY <1>2, <1>3 DEF NewRow, derived

LEMMA SessionsInit == Init => DerivedSessions
BY DEF Init, DerivedSessions, Idle, RowSession

LEMMA SessionsNext ==
  ASSUME TypeOK, DerivedSessions, [Next]_vars
  PROVE  DerivedSessions'
<1> ses \in [Workers -> Session]
  BY DEF TypeOK
<1> SUFFICES ASSUME NEW w \in Workers, ses'[w] \in RowSession, ses'[w].stage = "derived"
             PROVE  Agrees(ses'[w].new, ses'[w].open)
  BY DEF DerivedSessions
\* Only ReadOpen gives a session this stage.
<1>1. CASE ses'[w] = ses[w]
  BY <1>1 DEF DerivedSessions
<1>2. CASE ReadOpen(w) /\ ses'[w] # Idle
  <2> DEFINE open == HasOpenIncident(ses[w].camera_id)
             new  == NewRow(ses[w], open)
  <2>1. ses[w] \in RowSession
    BY <1>2, SessionKinds DEF ReadOpen
  <2>2. Agrees(new, open)
    BY <2>1, NewRowAgrees DEF HasOpenIncident
  <2>3. ses'[w] = [ses[w] EXCEPT !.stage = "derived", !.open = open, !.new = new]
    BY <1>2 DEF ReadOpen, Finish
  <2> HIDE DEF open, new
  <2>4. ses'[w].new = new /\ ses'[w].open = open
    BY <2>1, <2>3 DEF RowSession
  <2> QED BY <2>2, <2>4
<1>3. CASE ses'[w] = Idle
  BY <1>3 DEF Idle, RowSession
<1>4. CASE ses'[w].op \in {"ingest", "dismiss", "snooze"}
  BY <1>4 DEF RowSession
<1>5. CASE ses'[w].stage = "loaded"
  BY <1>5
<1>6. ASSUME NEW v, NEW c, NEW op, NEW edited, NEW renamed, LoadRow(v, op, c, edited, renamed)
      PROVE  ses'[w] = ses[w] \/ ses'[w].stage = "loaded"
  BY <1>6 DEF LoadRow, Begin
<1>7. ASSUME NEW v, NEW c, PatchLoad(v, c) \/ DeleteLoad(v, c) \/ ResumeJob(v, c) \/ ResumeSweep(v, c)
      PROVE  ses'[w] = ses[w] \/ ses'[w].stage = "loaded"
  BY <1>6, <1>7 DEF PatchLoad, DeleteLoad, ResumeJob, ResumeSweep
<1>8. ASSUME NEW v, NEW c, NEW e, IngestRead(v, c, e)
      PROVE  ses'[w] = ses[w] \/ ses'[w].op = "ingest"
  BY <1>8 DEF IngestRead, Begin
<1>9. ASSUME NEW v, NEW u, NEW l, DismissPeek(v, u, l) \/ SnoozePeek(v, u, l)
      PROVE  ses'[w] = ses[w] \/ ses'[w].op \in {"dismiss", "snooze"}
  BY <1>9 DEF DismissPeek, SnoozePeek, Begin
<1>10. ASSUME NEW v, HandlerStep(v) \/ Abandon(v)
       PROVE  ses'[w] = ses[w] \/ ses'[w] = Idle \/ (v = w /\ ReadOpen(w))
  BY <1>10 DEF HandlerStep, Abandon, IngestCommit, dismiss_alert, snooze_incident, ReadOpen,
               WriteRow, Finish
<1>11. CASE Restart
  BY <1>11, <1>3 DEF Restart
<1>12. ASSUME \/ \E u \in Users, l \in Logs : confirm_alert(u, l) \/ clear_alert(u, l)
              \/ \E l \in Logs : expire_snooze(l) \/ SnoozeElapses(l)
              \/ \E c \in Cameras : CooldownElapses(c) \/ LoseJob(c)
              \/ UNCHANGED vars
       PROVE  ses' = ses
  BY <1>12 DEF confirm_alert, clear_alert, expire_snooze, SnoozeElapses, CooldownElapses,
               LoseJob, vars
<1> QED BY <1>1, <1>2, <1>3, <1>4, <1>5, <1>7, <1>8, <1>9, <1>10, <1>11, <1>12
        DEF Next, OperatorStep, BeginResume

\* Closing the open incident of a camera leaves it without one.
LEMMA ClosingLeavesNone ==
  ASSUME TypeOK, LogInv, NEW l \in Logs, NEW expected \in OpenStatuses,
         NEW new \in TerminalStatuses, NEW u \in Users, transition(l, expected, new, u),
         NEW c \in Cameras, log[l].camera_id = c
  PROVE  ~HasOpenIncident(c)'
<1>1. log[l].detection_status # "absent" /\ IsOpen(l) /\ log[l] \in LogRow
  BY DEF TypeOK, transition, IsOpen, OpenStatuses
<1>2. log' = [log EXCEPT ![l] = Moved(log[l], expected, new, u)]
  BY DEF transition
<1>3. Moved(log[l], expected, new, u).detection_status \notin OpenStatuses
  BY <1>1, ExistingRow DEF Moved, TerminalStatuses, OpenStatuses
<1>4. \A k \in Logs : k # l /\ IsOpen(k) => log[k].camera_id # c
  BY <1>1 DEF LogInv, IncidentsAreUnique, IsOpen, OpenStatuses
<1> QED BY <1>2, <1>3, <1>4 DEF HasOpenIncident, IsOpen, TypeOK

\* Whatever a camera row was before, a write made on current facts leaves it
\* Inactive, Paused or Active exactly as the facts require.
THEOREM FreshWritesAgree == Spec => FreshWriteAgrees
<1>1. ASSUME TypeOK, LogInv, DerivedSessions, NEW c \in Cameras, FreshWrite(c)
      PROVE  Agrees(cam'[c], HasOpenIncident(c)')
  <2> cam \in [Cameras -> CameraRow]
    BY <1>1 DEF TypeOK
  <2>1. ASSUME NEW w \in Workers, IngestCommit(w), log' # log, ses[w].camera_id = c
        PROVE  Agrees(cam'[c], HasOpenIncident(c)')
    <3>1. PICK l \in Logs : log' = [log EXCEPT ![l] = Detected(c, ses[w].event)]
      BY <2>1 DEF IngestCommit
    <3>2. cam' = [cam EXCEPT ![c] = Blindfold(cam[c])]
      BY <2>1 DEF IngestCommit
    <3>3. HasOpenIncident(c)'
      BY <1>1, <3>1 DEF TypeOK, HasOpenIncident, IsOpen, Detected, Absent, OpenStatuses
    <3>4. Agrees(Blindfold(cam[c]), TRUE)
      BY BlindfoldAgrees
    <3> QED BY <3>2, <3>3, <3>4 DEF Agrees
  <2>2. ASSUME NEW w \in Workers, dismiss_alert(w), log' # log, log[ses[w].log_id].camera_id = c
        PROVE  Agrees(cam'[c], HasOpenIncident(c)')
    <3> DEFINE row == Stamped(cam[c], ses[w].expected)
    <3>1. ses[w] \in PeekSession
      BY <1>1, <2>2, SessionKinds DEF dismiss_alert, TypeOK
    <3>2. /\ transition(ses[w].log_id, ses[w].expected, "Dismissed", ses[w].user)
          /\ cam' = [cam EXCEPT ![c] = apply_desired_state(row, FALSE)]
      BY <2>2 DEF dismiss_alert
    <3>3. ~HasOpenIncident(c)'
      BY <1>1, <2>2, <3>1, <3>2, ClosingLeavesNone DEF PeekSession, TerminalStatuses
    <3>4. row \in CameraRow
      BY DEF CameraRow, Stamped, Deadline
    <3>5. Agrees(apply_desired_state(row, FALSE), FALSE)
      BY <3>4, DerivedAgrees
    <3> QED BY <3>2, <3>3, <3>5 DEF Agrees
  <2>3. ASSUME NEW w \in Workers, WriteRow(w), Current(w), ses[w].camera_id = c
        PROVE  Agrees(cam'[c], HasOpenIncident(c)')
    <3>1. ses[w] \in RowSession /\ ses[w].stage = "derived"
      BY <1>1, <2>3, SessionKinds DEF WriteRow, TypeOK
    <3>2. Agrees(ses[w].new, ses[w].open)
      BY <1>1, <3>1 DEF DerivedSessions
    <3>3. cam'[c] = Flush(cam[c], ses[w].read, ses[w].new, FlaggedColumns(ses[w].op))
      BY <2>3 DEF WriteRow
    <3>4. cam'[c] = ses[w].new
      BY <2>3, <3>1, <3>3, FlushOfCurrent DEF Current, RowSession
    <3>5. HasOpenIncident(c)' <=> ses[w].open
      BY <2>3 DEF WriteRow, Current, HasOpenIncident, IsOpen
    <3> QED BY <3>1, <3>2, <3>4, <3>5 DEF RowSession, Agrees
  <2>4. ASSUME NEW u \in Users, NEW l \in Logs, clear_alert(u, l), log[l].camera_id = c
        PROVE  Agrees(cam'[c], HasOpenIncident(c)')
    <3>1. /\ transition(l, "Ongoing", "Cleared", u)
          /\ cam' = [cam EXCEPT ![c] = apply_desired_state(cam[c], FALSE)]
      BY <2>4 DEF clear_alert
    <3>2. ~HasOpenIncident(c)'
      BY <1>1, <2>4, <3>1, ClosingLeavesNone DEF OpenStatuses, TerminalStatuses
    <3>3. Agrees(apply_desired_state(cam[c], FALSE), FALSE)
      BY DerivedAgrees
    <3> QED BY <3>1, <3>2, <3>3 DEF Agrees
  <2>5. ASSUME Restart, cam[c].is_active
        PROVE  Agrees(cam'[c], HasOpenIncident(c)')
    <3>1. cam'[c] = recompute_desired_state(cam[c], HasOpenIncident(c))
      BY <2>5 DEF Restart, Reconciled
    <3>2. \A l \in Logs : /\ log'[l].detection_status \in OpenStatuses <=> IsOpen(l)
                          /\ log'[l].camera_id = log[l].camera_id
      <4> TAKE l \in Logs
      <4>1. CASE SnoozeExpired(log[l])
        <5>1. log'[l] = Unsnoozed(log[l])
          BY <2>5, <4>1 DEF Restart
        <5>2. log[l].detection_status # "absent" /\ log[l] \in LogRow
          BY <1>1, <4>1 DEF SnoozeExpired, TypeOK
        <5> QED BY <5>1, <5>2, ExistingRow DEF Unsnoozed, IsOpen
      <4>2. CASE ~SnoozeExpired(log[l])
        BY <2>5, <4>2 DEF Restart, IsOpen
      <4> QED BY <4>1, <4>2
    <3>3. HasOpenIncident(c)' <=> HasOpenIncident(c)
      BY <3>2 DEF HasOpenIncident, IsOpen
    <3>4. Agrees(recompute_desired_state(cam[c], HasOpenIncident(c)), HasOpenIncident(c))
      BY DerivedAgrees DEF HasOpenIncident
    <3> QED BY <3>1, <3>3, <3>4 DEF Agrees
  <2> QED BY <1>1, <2>1, <2>2, <2>3, <2>4, <2>5 DEF FreshWrite
<1>2. ASSUME TypeOK, LogInv, DerivedSessions
      PROVE  \A c \in Cameras : FreshWrite(c) => Agrees(cam'[c], HasOpenIncident(c)')
  BY <1>1, <1>2
<1>3. Spec => [](TypeOK /\ LogInv /\ DerivedSessions)
  BY TypeInit, TypeNext, LogInit, LogNext, SessionsInit, SessionsNext, PTL DEF Spec
<1> QED BY <1>2, <1>3, PTL DEF FreshWriteAgrees

=============================================================================
