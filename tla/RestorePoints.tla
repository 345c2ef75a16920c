---------------------------- MODULE RestorePoints ----------------------------
(***************************************************************************)
(* What the system makes of the files that it finds: whether a protected   *)
(* medium can be trusted, which restore points it lists, how it tells of   *)
(* its protection, which restore requests it accepts, what is verified     *)
(* before a database is replaced and what the replacement looks like.      *)
(*                                                                         *)
(* All of it is functions of what is read, so that there are no actions    *)
(* here; Backups has the life of the points and Restore that of a request. *)
(* A root is the set of the points whose manifest can be read; a medium    *)
(* that is not configured, a file or a value that is missing is None.      *)
(***************************************************************************)
EXTENDS Integers, FiniteSetsExt, SequencesExt

CONSTANTS
  None,
  BACKUP_INTERVAL,                  \* BACKUP_INTERVAL_HOURS
  RESTORE_COORDINATOR_STALE_SECONDS,
  HEARTBEAT_STALE_SECONDS,
  MFA_ENCRYPTION_KEY,
  ExpectedRevision,                 \* the schema of the running release
  KnownRevisions                    \* of its chain of migrations

ASSUME RevisionIsKnown == ExpectedRevision \in KnownRevisions

\* The outcome of the first check that does not pass; a check is a pair of the
\* condition that it refuses and its outcome.
FirstOf(checks, otherwise) ==
  LET refused == {i \in DOMAIN checks : checks[i][1]}
  IN  IF refused = {} THEN otherwise ELSE checks[Min(refused)][2]

-----------------------------------------------------------------------------
(* The protected medium: maintenance/storage.py *)

Usable           == [available |-> TRUE, reason |-> None]
Unusable(reason) == [available |-> FALSE, reason |-> reason]

\* _shares_physical_device: a volume lies on a set of disks, if that is known.
Shares(left, right) == None \notin {left, right} /\ left \cap right # {}

\* What an exception of the file system is taken for; the second is
\* reason_for_publish_failure.
ProbeFailure(error) ==
  CASE error = "permission" -> "unwritable"
    [] error = "no_space"   -> "full"
    [] OTHER                -> "unverifiable"

reason_for_publish_failure(error) ==
  CASE error = "permission" -> "unwritable"
    [] error = "no_space"   -> "full"
    [] OTHER                -> "publish_failed"

\* PhysicalDeviceProvider.probe.  An exception ends it where it is raised:
\* looking at the path, or measuring it.
probe(target, live, required_bytes) ==
  FirstOf(<< <<target.unc,                            Unusable("unc_unsupported")>>,
             <<~target.absolute,                      Unusable("not_absolute")>>,
             <<target.look # None,                    Unusable(ProbeFailure(target.look))>>,
             <<~target.exists,                        Unusable("missing")>>,
             <<~target.is_dir,                        Unusable("not_directory")>>,
             <<~target.writable,                      Unusable("unwritable")>>,
             <<None \in {target.device, live},        Unusable("unverifiable")>>,
             <<Shares(target.device, live),           Unusable("same_device")>>,
             <<target.measure # None,                 Unusable(ProbeFailure(target.measure))>>,
             <<target.free < Max({1, required_bytes}), Unusable("full")>> >>,
          Usable)

\* _normalise_probe: an unavailable medium has a reason.
normalise_probe(p) ==
  IF p.available \/ p.reason # None THEN p ELSE Unusable("unavailable")

\* probe_protected_storage.
probe_protected_storage(target, live, required_bytes) ==
  IF target = None THEN Unusable("not_configured")
  ELSE normalise_probe(probe(target, live, required_bytes))

-----------------------------------------------------------------------------
(* The restore points: maintenance/manifest.py, maintenance/backup.py *)

Tiers == {"protected", "degraded"}

\* BackupManifest.valid.  A manifest that has no tier is older than they are,
\* and of the degraded one; a check that the listing adds is looked at where it
\* is recorded.
Valid(manifest) ==
  /\ manifest.storage_tier \in Tiers \cup {None}
  /\ {"checksum", "quick_check", "foreign_key_check"} \subseteq manifest.passed
  /\ {"artifact_name", "file_size"} \cap manifest.recorded \subseteq manifest.passed

\* The order of list_manifests.
Newest(points, p) == p \in points /\ \A q \in points : q.created_at <= p.created_at

SizeMatches(p) == p.artifact # None /\ p.artifact.size = p.file_size
SumMatches(p)  == p.artifact # None /\ p.artifact.sha256 = p.sha256
Unreadable(p)  == p.artifact # None /\ ~p.artifact.readable

LiveChecks(p) ==
  {c \in {"checksum", "file_size", "artifact_name"} :
     /\ ~Unreadable(p)
     /\ c = "checksum"      => SumMatches(p)
     /\ c = "file_size"     => SizeMatches(p)
     /\ c = "artifact_name" => p.name_matches}

\* _list_backup_candidates_from_root: the live checks take the place of the
\* recorded ones, and the root's tier that of the manifest's.
list_backup_candidates_from_root(root, storage_tier) ==
  LET added == {"checksum", "file_size", "artifact_name"}
  IN  {[p EXCEPT !.passed = (@ \ added) \cup LiveChecks(p),
                 !.recorded = @ \cup added,
                 !.storage_tier = storage_tier,
                 !.storage_reason = IF @ = None /\ p.storage_tier = None THEN "legacy_local" ELSE @] :
         p \in {q \in root : q.safe_id}}

\* list_backup_candidates.
list_backup_candidates(s) ==
  list_backup_candidates_from_root(s.local, "degraded")
    \cup IF probe_protected_storage(s.target, s.live, 1).available
         THEN list_backup_candidates_from_root(s.medium, "protected") ELSE {}

\* list_backups.
list_backups(s) == {p \in list_backup_candidates(s) : Valid(p)}

\* get_valid_backup: the points that a request can mean, one at most in a tier.
get_valid_backup(s, id, storage_tier) ==
  {p \in list_backups(s) : p.backup_id = id /\ p.storage_tier = storage_tier}

-----------------------------------------------------------------------------
(* How the system tells of its protection: routes/maintenance.py *)

\* _newest_backup_summary; a tier of None asks for any.  Of two points of one
\* time the protected one comes first.
newest_backup_summary(points, origin, storage_tier) ==
  LET found == {p \in points : /\ p.origin = origin /\ Valid(p)
                               /\ storage_tier # None => p.storage_tier = storage_tier}
  IN  {p \in found : /\ Newest(found, p)
                     /\ \A q \in found : Newest(found, q) /\ q.storage_tier = "protected"
                                          => p.storage_tier = "protected"}

\* _manifest_is_intact.
Intact(p) ==
  /\ p.safe_id /\ ~Unreadable(p)
  /\ SizeMatches(p) /\ p.name_matches /\ SumMatches(p)

\* _manifest_for_root: the recorded checks decide, and the newest alone is
\* looked at.
Scheduled(root) ==
  LET valid == {p \in root : p.origin = "scheduled" /\ Valid(p)}
  IN  {p \in valid : Newest(valid, p)}

Recent(p, now) == now - p.created_at < BACKUP_INTERVAL

\* newest_protected_manifest.
newest_protected_manifest(s) ==
  {p \in Scheduled(s.medium) : probe_protected_storage(s.target, s.live, 1).available /\ Intact(p)}

\* protected_backup_is_due.
protected_backup_is_due(s, now) ==
  ~ \E p \in newest_protected_manifest(s) : Recent(p, now)

\* newest_scheduled_manifest and scheduled_backup_is_due: of two points of one
\* time the local one decides, and it is not known to be intact.
scheduled_backup_is_due(s, now) ==
  LET candidates == Scheduled(s.local) \cup newest_protected_manifest(s)
      newest     == {p \in candidates : Newest(candidates, p)}
  IN  newest = {} \/ \E p \in newest : ~(Intact(p) /\ Recent(p, now))

\* _protected_storage_status.
protected_storage_status(s, now) ==
  LET p == probe_protected_storage(s.target, s.live, 1)
  IN  [available |-> p.available, reason |-> p.reason,
       latest  |-> IF s.target = None THEN {}
                   ELSE newest_backup_summary(list_backup_candidates(s), "scheduled", "protected"),
       overdue |-> p.available => protected_backup_is_due(s, now)]

\* _protection_state and _protection_warning.
protection_state(status, points) ==
  IF status.available /\ ~status.overdue THEN "protected"
  ELSE IF \E p \in points : Valid(p) THEN "degraded" ELSE "unavailable"

protection_warning(status) ==
  FirstOf(<< <<status.available /\ ~status.overdue, None>>,
             <<status.reason = "not_configured",    "not configured">>,
             <<status.reason # None,                "unavailable">> >>,
          "overdue")

\* maintenance_status_route.
maintenance_status(s, now) ==
  LET points == list_backup_candidates(s)
      status == protected_storage_status(s, now)
  IN  [last_scheduled_backup   |-> newest_backup_summary(points, "scheduled", None),
       last_manual_backup      |-> newest_backup_summary(points, "manual", None),
       latest_protected_backup |-> status.latest,
       backup_overdue          |-> scheduled_backup_is_due(s, now),
       protection_state        |-> protection_state(status, points),
       backup_warning          |-> protection_warning(status)]

-----------------------------------------------------------------------------
(* A restore is asked for: coordinator.py, routes/maintenance.py *)

\* get_coordinator_availability, of the heartbeat and the restore state.
get_coordinator_availability(beat, state, now) ==
  FirstOf(<< <<beat.file = "none",             Unusable("not_running")>>,
             <<beat.file = "unreadable",       Unusable("error")>>,
             <<now < beat.last_seen_at,        Unusable("error")>>,
             <<now - beat.last_seen_at > RESTORE_COORDINATOR_STALE_SECONDS, Unusable("stale")>>,
             <<beat.state = "error",           Unusable("error")>>,
             <<beat.state = "executing",       Unusable("busy")>>,
             <<state \in {"unreadable", "manual_intervention"}, Unusable("error")>>,
             <<~beat.runtime_ready,            Unusable("runtime_uncontrolled")>> >>,
          Usable)

ActiveStatuses == {"requested", "in_progress", "db_restored"}

Refused(status, reason) == [status |-> status, audit |-> reason]
Accepted                == [status |-> 202, audit |-> "success"]

Busy    == Refused(409, "already_running")
Missing == Refused(503, "restore_coordinator_unavailable")

\* trigger_restore: the heartbeat is read before the lease is taken (early)
\* and again under it (late), with the state.  An unknown tier leaves no audit
\* row.
trigger_restore(r, s) ==
  FirstOf(<< <<r.storage_tier \notin Tiers,                 Refused(422, None)>>,
             <<~r.password,                                 Refused(401, "wrong_password")>>,
             <<~r.confirmation,                             Refused(422, "confirmation_mismatch")>>,
             <<~r.safe_id,                                  Refused(422, "invalid_backup_id")>>,
             <<r.early.reason = "busy",                     Busy>>,
             <<~r.early.available,                          Missing>>,
             <<~r.lease,                                    Busy>>,
             <<r.late.reason = "busy",                      Busy>>,
             <<~r.late.available /\ r.state \in ActiveStatuses, Busy>>,
             <<~r.late.available,                           Missing>>,
             <<r.state \in ActiveStatuses,                  Busy>>,
             <<r.state = "unreadable",                      Refused(503, "restore_state_unavailable")>>,
             <<get_valid_backup(s, r.backup_id, r.storage_tier) = {},
                                                            Refused(404, "not_a_valid_restore_point")>> >>,
          Accepted)

-----------------------------------------------------------------------------
(* The database is replaced: maintenance/restore.py.  A database is its     *)
(* revision, its sound pages and keys, the secrets, each with the key it is *)
(* encrypted with, the sessions that are not revoked and the challenges.    *)

\* _selected_artifact_root: the points that are looked among, or None.
selected_artifact_root(s, storage_tier) ==
  IF storage_tier = "degraded" THEN s.local
  ELSE IF probe_protected_storage(s.target, s.live, 1).available THEN s.medium ELSE None

\* _verify_manifest_artifact, as a restore asks for it.
verify_manifest_artifact(root, id) ==
  {p \in root :
     /\ p.backup_id = id /\ Valid(p)
     /\ Intact(p)
     /\ p.artifact.integrity /\ p.artifact.foreign_keys
     /\ p.schema_revision = ExpectedRevision
     /\ p.schema_revision \in KnownRevisions}

\* _read_mfa_ciphertexts and their decryption.
Decrypts(db) == db.revision = ExpectedRevision /\ db.secrets \subseteq {MFA_ENCRYPTION_KEY}

\* _validate_and_invalidate_mfa_candidate: the transformed copy, or None.
validate_and_invalidate_mfa_candidate(db) ==
  IF Decrypts(db) /\ db.integrity /\ db.foreign_keys
  THEN [db EXCEPT !.sessions = {}, !.challenges = {}] ELSE None

\* Steps 4 to 6 of perform_offline_restore: the databases that the live one can
\* be replaced with.
Candidates(s, id, storage_tier) ==
  LET root == selected_artifact_root(s, storage_tier)
  IN  IF root = None THEN {}
      ELSE {validate_and_invalidate_mfa_candidate(p.artifact) :
              p \in verify_manifest_artifact(root, id)} \ {None}

\* cmd_verify: whether a point is good, to whom asks at the command line.
cmd_verify(s, id, storage_tier) ==
  LET root == selected_artifact_root(s, storage_tier)
  IN  /\ root # None
      /\ \E p \in root : /\ p.backup_id = id /\ p.safe_id /\ SumMatches(p)
                         /\ p.artifact.integrity /\ p.artifact.foreign_keys

\* _wait_for_restart_readiness: the services are up when the backend answers in
\* time, with a recent heartbeat of a camera only where that is required.
wait_for_restart_readiness(tls, ready_at, heartbeats, timeout, require_heartbeat) ==
  /\ tls
  /\ ready_at # None /\ ready_at < timeout
  /\ require_heartbeat => \E now \in ready_at..timeout - 1, h \in heartbeats :
                            h <= now /\ now - h <= HEARTBEAT_STALE_SECONDS
=============================================================================
