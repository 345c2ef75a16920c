--------------------------- MODULE MCRestorePoints ---------------------------
(* RestorePoints against what an administrator relies on when a backup, a     *)
(* warning or a restore is looked at, for every input out of small sets.      *)
EXTENDS RestorePoints

SomeTargets ==
  [unc : BOOLEAN, absolute : BOOLEAN, look : {None, "permission"}, exists : BOOLEAN, is_dir : BOOLEAN,
   writable : BOOLEAN, device : {None, {2}, {1, 2}}, measure : {None, "no_space", "io"}, free : {0, 5}]

Target == [unc |-> FALSE, absolute |-> TRUE, look |-> None, exists |-> TRUE, is_dir |-> TRUE,
           writable |-> TRUE, device |-> {2}, measure |-> None, free |-> 5]

Database == [size |-> 1, sha256 |-> "s", readable |-> TRUE, integrity |-> TRUE, foreign_keys |-> TRUE,
             revision |-> ExpectedRevision, secrets |-> {MFA_ENCRYPTION_KEY}, sessions |-> {1}, challenges |-> {2}]

Good == [backup_id |-> 1, safe_id |-> TRUE, created_at |-> 5, origin |-> "scheduled", name_matches |-> TRUE,
         file_size |-> 1, sha256 |-> "s", passed |-> {"checksum", "quick_check", "foreign_key_check"},
         recorded |-> {"checksum", "quick_check", "foreign_key_check"}, storage_tier |-> "degraded",
         storage_reason |-> None, schema_revision |-> ExpectedRevision, artifact |-> Database]

\* A good point, and what can become of one.
SomePoints ==
  {Good,
   [Good EXCEPT !.origin = "manual"],
   [Good EXCEPT !.storage_tier = None, !.created_at = 1],
   [Good EXCEPT !.storage_tier = "protected", !.created_at = 6],
   [Good EXCEPT !.storage_tier = "unknown"],
   [Good EXCEPT !.safe_id = FALSE],
   [Good EXCEPT !.name_matches = FALSE],
   [Good EXCEPT !.artifact = None],
   [Good EXCEPT !.artifact.size = 2],
   [Good EXCEPT !.artifact.sha256 = "t"],
   [Good EXCEPT !.artifact.readable = FALSE],
   [Good EXCEPT !.artifact.integrity = FALSE],
   [Good EXCEPT !.artifact.secrets = {MFA_ENCRYPTION_KEY, "older"}],
   [Good EXCEPT !.schema_revision = "older", !.artifact.revision = "older"],
   [Good EXCEPT !.artifact.revision = "older"],
   [Good EXCEPT !.passed = {"quick_check", "foreign_key_check"}],
   [Good EXCEPT !.passed = {"checksum", "quick_check"}]}

Roots == {{}} \cup {{p} : p \in SomePoints}
         \cup {{p, [Good EXCEPT !.backup_id = 2, !.created_at = 4]} : p \in SomePoints}

SomeStores ==
  [local : Roots, medium : Roots, live : {{1}},
   target : {None, Target, [Target EXCEPT !.device = {1, 2}], [Target EXCEPT !.exists = FALSE]}]

\* A medium is used only when it was shown to be a writable directory with room
\* on another disk than the live database, and one that is not used has a reason
\* that can be shown (maintenance/storage.py, the module's comment).
ASSUME MediumIsAnotherDisk ==
  \A t \in SomeTargets \cup {None}, live \in {None, {1}, {1, 3}}, required \in {0, 5, 6} :
    LET p == probe_protected_storage(t, live, required)
    IN  /\ p.available <=> p.reason = None
        /\ p.available => /\ t.absolute /\ t.exists /\ t.is_dir /\ t.writable
                          /\ t.device # None /\ live # None /\ t.device \cap live = {}
                          /\ t.free >= required /\ t.free > 0

\* Where a point is found decides its tier, whatever its manifest says of it, and
\* nothing is listed or asked for on a medium that is not usable.
ASSUME RootDecidesTheTier ==
  \A s \in SomeStores :
    LET usable == probe_protected_storage(s.target, s.live, 1).available
        listed == list_backup_candidates(s)
    IN  /\ \A p \in listed : /\ p.storage_tier = "degraded" => p.backup_id \in {q.backup_id : q \in s.local}
                             /\ p.storage_tier = "protected" => usable /\ p.backup_id \in {q.backup_id : q \in s.medium}
        /\ \A p \in list_backups(s) : Intact(p)
        /\ Cardinality(listed) = Cardinality({p \in s.local : p.safe_id})
                                 + (IF usable THEN Cardinality({p \in s.medium : p.safe_id}) ELSE 0)

\* The screen says "protected" only while a medium on another disk holds an
\* intact scheduled point that is recent; it then shows that point and no warning,
\* and it says "unavailable" only when no point can be restored at all.
ASSUME ProtectedIsProtected ==
  \A s \in SomeStores, now \in {6, 9} :
    LET m == maintenance_status(s, now)
    IN  /\ m.protection_state = "protected" <=> m.backup_warning = None
        /\ m.protection_state = "protected" =>
             \E p \in s.medium : /\ p.origin = "scheduled" /\ Intact(p) /\ Recent(p, now)
                                 /\ p.backup_id \in {q.backup_id : q \in m.latest_protected_backup}
        /\ m.protection_state = "unavailable" <=> list_backups(s) = {}
        /\ ~m.backup_overdue => m.last_scheduled_backup # {} /\ m.protection_state # "unavailable"

\* What a restore can install was in the list, in the tier that was asked for,
\* and is good for whoever asks at the command line.
ASSUME RestoresComeFromTheList ==
  \A s \in SomeStores, id \in {1, 2}, tier \in Tiers :
    Candidates(s, id, tier) # {} => get_valid_backup(s, id, tier) # {} /\ cmd_verify(s, id, tier)

\* Nobody is logged in on a database that was restored and no login is under way,
\* and every second factor in it still works with the key of the installation.
ASSUME RestoredIsSignedOut ==
  \A s \in SomeStores, id \in {1, 2}, tier \in Tiers :
    \A db \in Candidates(s, id, tier) :
      /\ db.sessions = {} /\ db.challenges = {}
      /\ db.revision = ExpectedRevision /\ db.secrets \subseteq {MFA_ENCRYPTION_KEY}
      /\ db.integrity /\ db.foreign_keys

SomeBeats == [file : {"none", "unreadable", "ok"}, last_seen_at : 0..3, state : {"idle", "executing", "error"},
              runtime_ready : BOOLEAN]
SomeStates == ActiveStatuses \cup {"none", "unreadable", "manual_intervention", "failed"}

SomeRequests ==
  [storage_tier : Tiers \cup {"unknown"}, password : BOOLEAN, confirmation : BOOLEAN, safe_id : BOOLEAN,
   backup_id : {1, 3}, lease : BOOLEAN, state : SomeStates,
   early : {get_coordinator_availability(b, "none", 2) : b \in SomeBeats},
   late : {get_coordinator_availability(b, "none", 2) : b \in SomeBeats}]

\* A restore is accepted only on a password, from an intact point, while a live
\* coordinator waits and no other request is open, whatever changed between the
\* two looks at it; and a refusal is recorded unless the tier does not exist.
ASSUME RestoresAreAcceptedWhenIdle ==
  LET s == [local |-> {Good}, medium |-> {[Good EXCEPT !.backup_id = 3]}, live |-> {1}, target |-> None]
  IN  \A r \in SomeRequests :
        LET answer == trigger_restore(r, s)
        IN  /\ answer = Accepted => /\ r.password /\ r.confirmation /\ r.safe_id /\ r.lease
                                    /\ r.early.available /\ r.late.available
                                    /\ r.state \in {"none", "failed", "manual_intervention"}
                                    /\ \E p \in list_backups(s) : p.backup_id = r.backup_id
            /\ answer.audit = None <=> r.storage_tier \notin Tiers

\* A coordinator is only asked when its heartbeat is recent and not from the
\* future, it is idle and the services are under its control.
ASSUME CoordinatorIsAlive ==
  \A beat \in SomeBeats, state \in SomeStates, now \in 0..4 :
    get_coordinator_availability(beat, state, now).available =>
      /\ beat.file = "ok" /\ beat.state = "idle" /\ beat.runtime_ready
      /\ now - beat.last_seen_at \in 0..RESTORE_COORDINATOR_STALE_SECONDS
      /\ state \notin {"unreadable", "manual_intervention"}

\* A restart without a camera is not taken for a failure (cli.py, its comment),
\* and one where a heartbeat is required is never confirmed by an old one.
ASSUME RestartsWithoutCameras ==
  \A ready_at \in {None} \cup 0..4, heartbeats \in SUBSET {0, 3}, timeout \in 1..4 :
    LET ready(required) == wait_for_restart_readiness(TRUE, ready_at, heartbeats, timeout, required)
    IN  /\ ready(TRUE) => ready(FALSE)
        /\ ready_at # None /\ ready_at < timeout => ready(FALSE)
        /\ ready(TRUE) => \E h \in heartbeats : h >= ready_at - HEARTBEAT_STALE_SECONDS
=============================================================================
