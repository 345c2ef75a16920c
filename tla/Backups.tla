------------------------------ MODULE Backups ------------------------------
(***************************************************************************)
(* Restore points: manual, nightly and catch-up backups under the          *)
(* maintenance lease, the protected medium and the local fallback,         *)
(* retention, and the restore request that shields what it selected.       *)
(*                                                                         *)
(* A tier holds, per origin, a sequence of restore points with the oldest  *)
(* first: a place in it stands for created_at, and the point that a        *)
(* restore request names is marked, so that no backup id is needed.  Ages  *)
(* are counted in polls of the catch-up job and stop at the interval that  *)
(* makes a backup due; the age of a manual backup decides nothing.  A      *)
(* manifest is valid from its publication on (an attempt that fails its    *)
(* validation is no restore point); "intact" is whether the file still     *)
(* matches it.  The restore itself is the module Restore: here is what a   *)
(* backup sees of its state file; the names tell its lease and its         *)
(* specification from those of Restore, so that proofs can extend both.    *)
(***************************************************************************)
EXTENDS Naturals, Sequences, FiniteSets

CONSTANTS Checkers,  \* who asks whether a backup is due: "poll", "cli"
          Selectable,\* bound: tiers that restore requests name
          Daily,     \* BACKUP_DAILY_RETENTION
          Manual,    \* BACKUP_MANUAL_RETENTION
          Interval,  \* BACKUP_INTERVAL_HOURS, in polls
          MaxPoints  \* bound: restore points of a tier

ASSUME TiersAssumption     == Selectable \subseteq {"protected", "degraded"}
ASSUME RetentionAssumption == Daily \in Nat \ {0} /\ Manual \in Nat \ {0}
ASSUME IntervalAssumption  == Interval \in Nat \ {0}
ASSUME PointsAssumption    == MaxPoints \in Nat

VARIABLES
  points,      \* per tier and origin, the published restore points
  backupLease, \* the origin of the backup that holds maintenance.lock, or "free"
  stage,       \* how far that backup is
  checked,     \* jobs that found a backup due and have not started it yet
  medium,      \* the protected target: "usable", "full" or "missing"
  restore      \* restore_state.json: its status, and the tier of its point

backupsVars == <<points, backupLease, stage, checked, medium, restore>>

Tiers         == {"protected", "degraded"}
Origins       == {"manual", "scheduled"}
ActiveRequest == {"requested", "in_progress", "db_restored"}
Places        == Tiers \X Origins \X (1..MaxPoints)

At(p)     == points[p[1]][p[2]][p[3]]
Exists(p) == p[3] \in DOMAIN points[p[1]][p[2]]
Every(Op(_)) ==
  [t \in Tiers |-> [o \in Origins |-> [i \in DOMAIN points[t][o] |-> Op(points[t][o][i])]]]

(***************************************************************************)
(* When a backup is due.                                                   *)
(***************************************************************************)

\* probe_protected_storage asked for one byte: a full medium is available.
MediumAvailable == medium # "missing"

HasNewest(t) == points[t]["scheduled"] # <<>>
Newest(t)    == points[t]["scheduled"][Len(points[t]["scheduled"])]
FreshIn(t)   == HasNewest(t) /\ Newest(t).intact /\ Newest(t).age < Interval

\* newest_protected_manifest finds one.
ProtectedCounts == MediumAvailable /\ HasNewest("protected") /\ Newest("protected").intact

\* newest_scheduled_manifest takes the local point (a tie in age goes to the
\* protected one).
LocalCounts == HasNewest("degraded")
                 /\ (ProtectedCounts => Newest("degraded").age < Newest("protected").age)

\* Mutant: the newest point is trusted without looking at its file.
DueUnverified ==
  IF LocalCounts THEN Newest("degraded").age >= Interval
  ELSE ~(ProtectedCounts /\ FreshIn("protected"))

scheduled_backup_is_due ==
  IF LocalCounts THEN ~FreshIn("degraded") ELSE ~(ProtectedCounts /\ FreshIn("protected"))

protected_backup_is_due == MediumAvailable /\ ~FreshIn("protected")

\* run_daily_backup_if_due, and cmd_backup --origin scheduled.
DueCheck(job) ==
  /\ job \notin checked
  /\ scheduled_backup_is_due \/ protected_backup_is_due
  /\ checked' = checked \cup {job}
  /\ UNCHANGED <<points, backupLease, stage, medium, restore>>

(***************************************************************************)
(* One backup.                                                             *)
(***************************************************************************)

Acquire(origin) == backupLease' = origin /\ stage' = "begin"
Release         == backupLease' = "free" /\ stage' = "none"

\* trigger_backup and the nightly job; a busy lease refuses them.
BeginBackup(origin) ==
  /\ backupLease = "free"
  /\ Acquire(origin)
  /\ UNCHANGED <<points, checked, medium, restore>>

\* A catch-up backup: MaintenanceBusyError is a logged no-op.
CatchUp(job) ==
  /\ job \in checked
  /\ checked' = checked \ {job}
  /\ IF backupLease = "free" THEN Acquire("scheduled") ELSE UNCHANGED <<backupLease, stage>>
  /\ UNCHANGED <<points, medium, restore>>

\* Mutant: the lease alone is trusted, which the claim gave back.
LeaseIsEnough == FALSE

\* _ensure_restore_not_active.
RestoreRuns == restore.status \in {"in_progress", "db_restored"}

\* _create_backup_unlocked up to the choice of the target.
Choose ==
  /\ stage = "begin"
  /\ IF RestoreRuns THEN Release
     ELSE /\ stage' = IF medium = "usable" THEN "protected" ELSE "degraded"
          /\ UNCHANGED backupLease
  /\ UNCHANGED <<points, checked, medium, restore>>

NewPoint == [age |-> 0, intact |-> TRUE, chosen |-> FALSE]
Pruning  == [protected |-> "prune_protected", degraded |-> "prune_degraded"]

\* _perform_backup_write succeeds on the tier the job has chosen.
Write ==
  /\ stage \in Tiers
  /\ stage = "protected" => medium = "usable"
  /\ points' = [points EXCEPT ![stage][backupLease] = Append(@, NewPoint)]
  /\ stage' = Pruning[stage]
  /\ UNCHANGED <<backupLease, checked, medium, restore>>

\* The write fails: one fallback to the local root, and then the end.
WriteFails ==
  /\ stage \in Tiers
  /\ IF stage = "protected" THEN stage' = "degraded" /\ UNCHANGED backupLease ELSE Release
  /\ UNCHANGED <<points, checked, medium, restore>>

\* Mutant: the state file is not looked at.
NothingShielded(t, p) == FALSE

\* _active_restore_protected_ids: the state file is looked for in the root
\* that is pruned, and it only exists in the local one.  (Local points whose manifest
\* is older than the tiers are never candidates, and are left out.)
Shields(t, p) == t = "degraded" /\ restore.status \in ActiveRequest /\ p.chosen

Keep(origin)     == IF origin = "manual" THEN Manual ELSE Daily
Candidates(t, o) == {i \in DOMAIN points[t][o] : ~Shields(t, points[t][o][i])}

\* Mutant: the manifests are taken in the order of the oldest first.
StaleOldestKept(t, o) ==
  {i \in Candidates(t, o) : Cardinality({j \in Candidates(t, o) : j < i}) >= Keep(o)}

\* What _prune_backups_unlocked removes: all but the newest of each origin.
Stale(t, o) ==
  {i \in Candidates(t, o) : Cardinality({j \in Candidates(t, o) : j > i}) >= Keep(o)}

\* What is left of a sequence without some of its places.
Remaining(s, gone) ==
  [k \in 1..(Len(s) - Cardinality(gone)) |->
     s[CHOOSE i \in DOMAIN s \ gone : Cardinality((1..i) \ gone) = k]]

\* The bound leaves room for the next backup.
Room(t) == Len(points'[t]["manual"]) + Len(points'[t]["scheduled"]) < MaxPoints

\* Retention; an OSError may end it early, which the caller survives.
Prune(t) ==
  /\ stage = Pruning[t]
  /\ \E m \in SUBSET Stale(t, "manual"), s \in SUBSET Stale(t, "scheduled") :
       points' = [points EXCEPT ![t] = [manual |-> Remaining(@["manual"], m),
                                        scheduled |-> Remaining(@["scheduled"], s)]]
  /\ Room(t)
  /\ Release
  /\ UNCHANGED <<checked, medium, restore>>

(***************************************************************************)
(* The restore request.                                                    *)
(***************************************************************************)

\* write_restore_request, which holds the lease: get_valid_backup.
RequestRestore(p) ==
  /\ backupLease = "free" /\ restore.status \notin ActiveRequest
  /\ p[1] \in Selectable /\ Exists(p) /\ At(p).intact
  /\ p[1] = "protected" => MediumAvailable
  /\ restore' = [status |-> "requested", tier |-> p[1]]
  /\ points' = [points EXCEPT ![p[1]][p[2]][p[3]].chosen = TRUE]
  /\ UNCHANGED <<backupLease, stage, checked, medium>>

\* claim_restore_request, and the runner that goes on to swap the database.
ClaimRestore ==
  /\ backupLease = "free" /\ restore.status = "requested"
  /\ restore' = [restore EXCEPT !.status = "in_progress"]
  /\ UNCHANGED <<points, backupLease, stage, checked, medium>>

\* The request expires, fails, or is completed or rolled back.
Settle ==
  /\ backupLease = "free" /\ restore.status \in ActiveRequest
  /\ restore' = [status |-> "none", tier |-> "degraded"]
  /\ points' = Every(LAMBDA p : [p EXCEPT !.chosen = FALSE])
  /\ UNCHANGED <<backupLease, stage, checked, medium>>

(***************************************************************************)
(* The rest of the world.                                                  *)
(***************************************************************************)

Older(p) == [p EXCEPT !.age = IF @ < Interval THEN @ + 1 ELSE @]

\* An hour passes.
Hour ==
  /\ points' = [t \in Tiers |-> [points[t] EXCEPT !["scheduled"] = [i \in DOMAIN @ |-> Older(@[i])]]]
  /\ points' # points
  /\ UNCHANGED <<backupLease, stage, checked, medium, restore>>

\* The protected medium is filled, removed or put back.
MediumChanges ==
  /\ medium' \in {"usable", "full", "missing"} \ {medium}
  /\ UNCHANGED <<points, backupLease, stage, checked, restore>>

\* A file no longer matches its manifest: the newest scheduled one of a tier,
\* which is the one that decides.
Damage(t) ==
  /\ \A u \in Tiers : \A i \in DOMAIN points[u]["scheduled"] : points[u]["scheduled"][i].intact
  /\ HasNewest(t)
  /\ points' = [points EXCEPT ![t]["scheduled"][Len(points[t]["scheduled"])].intact = FALSE]
  /\ UNCHANGED <<backupLease, stage, checked, medium, restore>>

\* The machine dies: jobs and lease are gone, files stay.
MachineDies ==
  /\ backupLease # "free" \/ checked # {}
  /\ Release
  /\ checked' = {}
  /\ UNCHANGED <<points, medium, restore>>
  /\ \A t \in Tiers : Room(t)

BackupsInit ==
  /\ points = [t \in Tiers |-> [o \in Origins |-> <<>>]]
  /\ backupLease = "free" /\ stage = "none"
  /\ checked = {}
  /\ medium \in {"usable", "missing"}
  /\ restore = [status |-> "none", tier |-> "degraded"]

BackupsNext ==
  \/ \E job \in Checkers : DueCheck(job)
  \/ \E o \in Origins : BeginBackup(o)
  \/ \E job \in Checkers : CatchUp(job)
  \/ Choose \/ Write \/ WriteFails
  \/ \E t \in Tiers : Prune(t)
  \/ \E p \in Places : RequestRestore(p)
  \/ ClaimRestore \/ Settle
  \/ Hour \/ MediumChanges \/ MachineDies
  \/ \E t \in Tiers : Damage(t)

Unoccupied     == backupLease = "free" /\ ~RestoreRuns
ScheduledHolds == backupLease = "scheduled"

\* The hourly job keeps polling, and other backups and restores do not hold
\* the lease, or keep a restore open, at every one of its polls; the stages
\* of a backup run; a disk that is asked again and again takes a scheduled
\* backup at last.
BackupsFairness ==
  /\ SF_backupsVars(DueCheck("poll") /\ Unoccupied)
  /\ SF_backupsVars(CatchUp("poll") /\ Unoccupied)
  /\ WF_backupsVars(Choose)
  /\ SF_backupsVars(Choose /\ ScheduledHolds /\ ~RestoreRuns)
  /\ WF_backupsVars(Write \/ WriteFails)
  /\ SF_backupsVars(Write /\ ScheduledHolds)
  /\ WF_backupsVars(\E t \in Tiers : Prune(t))
  /\ SF_backupsVars(Settle)

BackupsSpec     == BackupsInit /\ [][BackupsNext]_backupsVars
BackupsFairSpec == BackupsSpec /\ BackupsFairness

(***************************************************************************)
(* Properties.                                                             *)
(***************************************************************************)

Point == [age: 0..Interval, intact: BOOLEAN, chosen: BOOLEAN]

\* The stage belongs to the lease, and points come in the order of their age.
BackupsTypeOK ==
  /\ points \in [Tiers -> [Origins -> Seq(Point)]]
  /\ backupLease \in Origins \cup {"free"}
  /\ stage \in {"none", "begin", "prune_protected", "prune_degraded"} \cup Tiers
  /\ backupLease = "free" <=> stage = "none"
  /\ checked \subseteq Checkers
  /\ medium \in {"usable", "full", "missing"}
  /\ restore \in [status: ActiveRequest \cup {"none"}, tier: Tiers]
  /\ \A t \in Tiers : \A i, j \in DOMAIN points[t]["scheduled"] :
       i < j => points[t]["scheduled"][i].age >= points[t]["scheduled"][j].age

\* Retention never takes the newest of its kind: when points disappear, also
\* when the removal stops half-way, as many of the newest as the settings say
\* are what they were before.
NewestIsKept ==
  [][\A t \in Tiers, o \in Origins :
       LET old == points[t][o]
           new == points'[t][o]
       IN Len(new) < Len(old) =>
            /\ Len(new) >= Keep(o)
            /\ \A k \in 0..(Keep(o) - 1) : new[Len(new) - k] = old[Len(old) - k]]_backupsVars

\* The restore point that an active request names stays on the local tier
\* until the request is settled, whatever backups are made meanwhile.
SelectedLocalStays ==
  restore.status \in ActiveRequest /\ restore.tier = "degraded"
    => \E o \in Origins : \E i \in DOMAIN points["degraded"][o] : points["degraded"][o][i].chosen

\* No manual or scheduled restore point is published between the claim of a
\* restore and its end, although the claim gives the lease back.
NoBackupInsideRestore ==
  [][\A t \in Tiers, o \in Origins :
       Len(points'[t][o]) > Len(points[t][o])
         => restore.status \notin {"in_progress", "db_restored"}]_backupsVars

\* Whenever continuity is lost (no scheduled backup within the interval, or
\* the newest one damaged), it comes back, through failed writes, a medium
\* that comes and goes, busy leases and crashes.
ContinuityLost    == \A t \in Tiers : (t = "protected" => MediumAvailable) => ~FreshIn(t)
ContinuityReturns == ContinuityLost ~> ~ContinuityLost

\* What _active_restore_protected_ids promises, for either tier: an active
\* request's selected artifacts are kept out of retention pruning.
SelectedArtifactStays ==
  restore.status \in ActiveRequest
    => \E o \in Origins : \E i \in DOMAIN points[restore.tier][o] : points[restore.tier][o][i].chosen
=============================================================================
