------------------------------ MODULE Restore ------------------------------
(***************************************************************************)
(* A restore of the database: the request that an administrator publishes, *)
(* the coordinator that claims it, the runner that stops the services,     *)
(* replaces the database and brings the services back or rolls back, and   *)
(* the state file through which they meet.                                 *)
(*                                                                         *)
(* The content of the database is named by the attempt that put it there,  *)
(* 0 for what the users wrote.  The lease is held by a CLI process over    *)
(* all its file work, and by the short operations within one step; "other" *)
(* is a backup in the services, or a foreign process, that has it.         *)
(***************************************************************************)
EXTENDS Naturals, FiniteSets

CONSTANTS KeepReserves, \* BACKUP_PRE_RESTORE_RETENTION
          MaxRequests,  \* bound: requests of a behaviour
          MaxAttempts,  \* bound: runs of the offline restore
          MaxCrashes    \* bound: crashes of the host or the coordinator

ASSUME KeepAssumption   == KeepReserves \in Nat \ {0}
ASSUME BoundsAssumption == MaxRequests \in Nat /\ MaxAttempts \in Nat /\ MaxCrashes \in Nat

VARIABLES
  file,        \* restore_state.json
  age,         \* of its request: in its grace period, executable, expired
  database,    \* the attempt whose content the live database has
  reserves,    \* pre-restore points: per id, the content they hold
  lease,       \* who holds maintenance.lock
  services,    \* the backend, which has the database open, is up
  coordinator, \* its process: state of the heartbeat, the child it waits for
  runner,      \* the runner: where it is
  owned,       \* the CLI process's copy of the state: request and reserve
  attempt,     \* attempts so far
  before,      \* history: the content that a roll-back is to bring back
  crashes

vars == <<file, age, database, reserves, lease, services, coordinator, runner,
          owned, attempt, before, crashes>>

Active   == {"requested", "in_progress", "db_restored"}
Terminal == {"completed", "failed", "rolled_back", "manual_intervention"}

Fresh == [status |-> "none", request |-> 0, reserve |-> 0]

\* The runner's places.  The CLI that it calls holds the lease from "begin"
\* to "swapped", and in a roll-back.
Offline  == {"begin", "saved", "reserved", "verified", "swapped"}
Rollback == {"back_begin", "back_verified", "back_swapped"}

(***************************************************************************)
(* The request and the coordinator.                                        *)
(***************************************************************************)

\* get_coordinator_availability.  The heartbeat of a coordinator that died
\* stays fresh for a while.
Available == coordinator.beat = "idle" /\ file.status # "manual_intervention"

\* trigger_restore and write_restore_request.
Request ==
  /\ services /\ Available /\ lease = "free"
  /\ file.status \notin Active
  /\ file.request < MaxRequests /\ attempt < MaxAttempts
  /\ file' = [status |-> "requested", request |-> file.request + 1, reserve |-> 0]
  /\ age' = "grace" /\ before' = database
  /\ UNCHANGED <<database, reserves, lease, services, coordinator, runner, owned, attempt,
                 crashes>>

Ages ==
  /\ file.status = "requested"
  /\ \/ age = "grace" /\ age' = "ready"
     \/ age = "ready" /\ age' = "expired"
  /\ UNCHANGED <<file, database, reserves, lease, services, coordinator, runner, owned,
                 attempt, before, crashes>>

\* The coordinator's loop when it has no child.
Watching == coordinator.up /\ coordinator.child = 0

\* Mutant: an expired request waits for the services to be ready.
ExpireWhenReady ==
  /\ Watching /\ lease = "free" /\ services
  /\ file.status = "requested" /\ age = "expired"
  /\ file' = [file EXCEPT !.status = "failed"]
  /\ UNCHANGED <<age, database, reserves, lease, services, coordinator, runner, owned,
                 attempt, before, crashes>>

\* expire_restore_request.
Expire ==
  /\ Watching /\ lease = "free"
  /\ file.status = "requested" /\ age = "expired"
  /\ file' = [file EXCEPT !.status = "failed"]
  /\ UNCHANGED <<age, database, reserves, lease, services, coordinator, runner, owned,
                 attempt, before, crashes>>

\* The loop publishes what it finds.  A failed request stops the loop
\* before the heartbeat is looked at.
Beat ==
  /\ Watching
  /\ \/ file.status \in {"in_progress", "db_restored"} /\ coordinator.beat # "error"
        /\ coordinator' = [coordinator EXCEPT !.beat = "error"]
     \/ /\ file.status = "failed" => lease # "free"
        /\ file.status \notin {"in_progress", "db_restored"} /\ coordinator.beat # "idle"
        /\ coordinator' = [coordinator EXCEPT !.beat = "idle"]
  /\ UNCHANGED <<file, age, database, reserves, lease, services, runner, owned, attempt,
                 before, crashes>>

\* claim_restore_request by a loop that saw the services ready.  (A runner
\* that outlives its coordinator and meets the next one is left out.)
Claim ==
  /\ Watching /\ services /\ lease = "free" /\ runner = "none"
  /\ file.status = "requested" /\ age = "ready"
  /\ file' = [file EXCEPT !.status = "in_progress"]
  /\ coordinator' = [coordinator EXCEPT !.child = file.request, !.beat = "executing"]
  /\ runner' = "spawn"
  /\ UNCHANGED <<age, database, reserves, lease, services, owned, attempt, before, crashes>>

\* mark_restore_failed, which gives up on a busy lease; a newer request and
\* an outcome are left alone.
MarkFailed(request) ==
  IF lease = "free" /\ file.request = request /\ file.status \notin Terminal
    THEN file' = [file EXCEPT !.status = "failed"] ELSE UNCHANGED file

\* popen_factory fails, or the runner starts.
Spawn ==
  /\ runner = "spawn" /\ coordinator.up
  /\ \/ runner' = "stop" /\ UNCHANGED <<file, coordinator>>
     \/ /\ runner' = "none"
        /\ MarkFailed(coordinator.child)
        /\ coordinator' = [coordinator EXCEPT !.child = 0, !.beat = "error"]
  /\ UNCHANGED <<age, database, reserves, lease, services, owned, attempt, before, crashes>>

\* The loop finds that its child has ended.
Reap ==
  /\ coordinator.up /\ coordinator.child # 0 /\ runner = "none"
  /\ IF file.status \in Terminal
       THEN /\ coordinator' = [coordinator EXCEPT !.child = 0,
                 !.beat = IF file.status \in {"failed", "manual_intervention"}
                            THEN "error" ELSE "idle"]
            /\ UNCHANGED file
       ELSE /\ MarkFailed(coordinator.child)
            /\ coordinator' = [coordinator EXCEPT !.child = 0, !.beat = "error"]
  /\ UNCHANGED <<age, database, reserves, lease, services, runner, owned, attempt, before,
                 crashes>>

(***************************************************************************)
(* The runner: restore_requested.sh and the CLI commands it calls.         *)
(***************************************************************************)

\* A backup in the services loses its lease with them.
StopServices ==
  /\ services' = FALSE
  /\ lease' \in IF lease = "other" THEN {"free", "other"} ELSE {lease}

\* Mutant: nobody looks whether the services have stopped.
StopUnchecked(next) == services' \in BOOLEAN /\ runner' \in {next, "none"} /\ UNCHANGED lease

\* The services stop and the runner goes on, or one of them is still active
\* and it gives up.
StopAnd(next) ==
  \/ StopServices /\ runner' \in {next, "none"}
  \/ runner' = "none" /\ UNCHANGED <<services, lease>>

Stop ==
  /\ runner = "stop" /\ StopAnd("begin?")
  /\ UNCHANGED <<file, age, database, reserves, coordinator, owned, attempt, before, crashes>>

\* perform_offline_restore: the lease, the state, the status in_progress.
Begin ==
  /\ runner = "begin?" /\ lease = "free"
  /\ file.status \in {"requested", "in_progress", "failed"}
  /\ lease' = "cli" /\ runner' = "begin"
  /\ file' = [file EXCEPT !.status = "in_progress"]
  /\ owned' = [request |-> file.request, reserve |-> file.reserve]
  /\ attempt' = attempt + 1
  /\ UNCHANGED <<age, database, reserves, services, coordinator, before, crashes>>

\* ... or the configuration, a busy lease or the state forbids it, and the
\* state is left as it is.
BeginRefused ==
  /\ runner = "begin?"
  /\ runner' = "restart"
  /\ UNCHANGED <<file, age, database, reserves, lease, services, coordinator, owned,
                 attempt, before, crashes>>

With(all, id, content) == [i \in DOMAIN all \cup {id} |-> IF i = id THEN content ELSE all[i]]
Without(all, id) == [i \in DOMAIN all \ {id} |-> all[i]]

\* Step 3: the emergency backup ...
Save ==
  /\ runner = "begin"
  /\ reserves' = With(reserves, attempt, database)
  /\ runner' = "saved"
  /\ UNCHANGED <<file, age, database, lease, services, coordinator, owned, attempt, before,
                 crashes>>

\* Mutant: the reserve is not written to the state file.
RecordInMemory ==
  /\ runner = "saved"
  /\ owned' = [owned EXCEPT !.reserve = attempt]
  /\ runner' = "reserved"
  /\ UNCHANGED <<file, age, database, reserves, lease, services, coordinator, attempt,
                 before, crashes>>

\* ... is verified and recorded in the state.
Record ==
  /\ runner = "saved"
  /\ owned' = [owned EXCEPT !.reserve = attempt]
  /\ file' = [file EXCEPT !.reserve = attempt]
  /\ runner' = "reserved"
  /\ UNCHANGED <<age, database, reserves, lease, services, coordinator, attempt, before,
                 crashes>>

\* The state cannot be written.
RecordFails ==
  /\ runner = "saved"
  /\ owned' = [owned EXCEPT !.reserve = attempt]
  /\ lease' = "free" /\ runner' = "failing"
  /\ UNCHANGED <<file, age, database, reserves, services, coordinator, attempt, before,
                 crashes>>

\* Steps 4 and 5: the selected backup is verified, copied and transformed.
Verify ==
  /\ runner = "reserved"
  /\ runner' = "verified"
  /\ UNCHANGED <<file, age, database, reserves, lease, services, coordinator, owned,
                 attempt, before, crashes>>

\* Steps 6 and 7.  Removing the write-ahead log of the old database is not a step of
\* its own: services that have stopped left none, and the reserve has what it held.
Swap ==
  /\ runner = "verified"
  /\ database' = attempt
  /\ runner' = "swapped"
  /\ UNCHANGED <<file, age, reserves, lease, services, coordinator, owned, attempt, before,
                 crashes>>

\* The status db_restored is written and the CLI ends.
Swapped ==
  /\ runner = "swapped"
  /\ file' = [file EXCEPT !.status = "db_restored"]
  /\ lease' = "free" /\ runner' = "start"
  /\ UNCHANGED <<age, database, reserves, services, coordinator, owned, attempt, before,
                 crashes>>

\* A step fails: the lease is released; an emergency backup that is not
\* recorded is removed, unless the state still has an earlier one; then the
\* failure is recorded.
StepFails ==
  /\ runner \in Offline
  /\ lease' = "free" /\ runner' = "failing"
  /\ reserves' = IF runner = "saved" /\ owned.reserve = 0
                   THEN Without(reserves, attempt) ELSE reserves
  /\ UNCHANGED <<file, age, database, services, coordinator, owned, attempt, before, crashes>>

\* Mutant: an outcome is overwritten by the failure.
RecordAlways(status) ==
  IF lease = "free" /\ file.request = owned.request
    THEN file' = [file EXCEPT !.status = status, !.reserve = owned.reserve]
    ELSE UNCHANGED file

\* _record_failed_state_if_current.
RecordFailed(status) ==
  IF lease = "free" /\ file.request = owned.request /\ file.status \notin Terminal
    THEN file' = [file EXCEPT !.status = status, !.reserve = owned.reserve]
    ELSE UNCHANGED file

Failing ==
  /\ runner = "failing"
  /\ RecordFailed("failed")
  /\ runner' = "restart"
  /\ UNCHANGED <<age, database, reserves, lease, services, coordinator, owned, attempt,
                 before, crashes>>

\* The original services are started and waited for.
Restart ==
  /\ runner = "restart"
  /\ services' \in BOOLEAN
  /\ runner' = "none"
  /\ UNCHANGED <<file, age, database, reserves, lease, coordinator, owned, attempt, before,
                 crashes>>

\* The restored services are started and become ready, or do not.
Start ==
  /\ runner = "start"
  /\ \/ services' = TRUE /\ runner' = "finalize"
     \/ services' \in BOOLEAN /\ runner' = "unready"
  /\ UNCHANGED <<file, age, database, reserves, lease, coordinator, owned, attempt, before,
                 crashes>>

\* The newest KeepReserves pre-restore points stay (the file is terminal).
Pruned(all) == {i \in DOMAIN all : Cardinality({j \in DOMAIN all : j > i}) < KeepReserves}
PruneReserves == reserves' = [i \in Pruned(reserves) |-> reserves[i]]

\* finalize_restore.  When the pruning fails the restore is over and the
\* runner takes it for one that could not be finalized.
Finalize ==
  /\ runner = "finalize"
  /\ IF lease = "free" /\ file.status = "db_restored"
       THEN /\ file' = [file EXCEPT !.status = "completed"]
            /\ \/ PruneReserves /\ runner' = "none"
               \/ UNCHANGED reserves /\ runner' = "unready"
       ELSE runner' = "unready" /\ UNCHANGED <<file, reserves>>
  /\ UNCHANGED <<age, database, lease, services, coordinator, owned, attempt, before, crashes>>

Unready ==
  /\ runner = "unready" /\ StopAnd("back?")
  /\ UNCHANGED <<file, age, database, reserves, coordinator, owned, attempt, before, crashes>>

\* perform_rollback, whatever the status is; refused as a restore is.
BackBegin ==
  /\ runner = "back?"
  /\ \/ /\ lease = "free"
        /\ lease' = "cli" /\ runner' = "back_begin"
        /\ owned' = [request |-> file.request, reserve |-> file.reserve]
     \/ runner' = "none" /\ UNCHANGED <<lease, owned>>
  /\ UNCHANGED <<file, age, database, reserves, services, coordinator, attempt, before,
                 crashes>>

HasReserve == file.reserve \in DOMAIN reserves

BackVerify ==
  /\ runner = "back_begin" /\ HasReserve
  /\ runner' = "back_verified"
  /\ UNCHANGED <<file, age, database, reserves, lease, services, coordinator, owned,
                 attempt, before, crashes>>

\* Mutant: the newest pre-restore point is taken, not the named one.
BackSwapNewest ==
  /\ runner = "back_verified"
  /\ database' = reserves[CHOOSE i \in DOMAIN reserves : \A j \in DOMAIN reserves : j <= i]
  /\ runner' = "back_swapped"
  /\ UNCHANGED <<file, age, reserves, lease, services, coordinator, owned, attempt, before,
                 crashes>>

BackSwap ==
  /\ runner = "back_verified"
  /\ database' = reserves[file.reserve]
  /\ runner' = "back_swapped"
  /\ UNCHANGED <<file, age, reserves, lease, services, coordinator, owned, attempt, before,
                 crashes>>

BackDone ==
  /\ runner = "back_swapped"
  /\ file' = [file EXCEPT !.status = "rolled_back"]
  /\ \/ PruneReserves /\ runner' = "restart"
     \/ UNCHANGED reserves /\ runner' = "none"
  /\ lease' = "free"
  /\ UNCHANGED <<age, database, services, coordinator, owned, attempt, before, crashes>>

BackFails ==
  /\ runner \in Rollback
  /\ lease' = "free" /\ runner' = "back_failing"
  /\ UNCHANGED <<file, age, database, reserves, services, coordinator, owned, attempt,
                 before, crashes>>

BackFailing ==
  /\ runner = "back_failing"
  /\ RecordFailed("manual_intervention")
  /\ runner' = "none"
  /\ UNCHANGED <<age, database, reserves, lease, services, coordinator, owned, attempt,
                 before, crashes>>

(***************************************************************************)
(* The rest of the world.                                                  *)
(***************************************************************************)

\* A backup, or a command line by hand, takes the lease; in the backend
\* _ensure_restore_not_active makes it short while a restore runs.
OtherTakes ==
  /\ lease = "free"
  /\ lease' = "other"
  /\ UNCHANGED <<file, age, database, reserves, services, coordinator, runner, owned,
                 attempt, before, crashes>>

OtherGives ==
  /\ lease = "other"
  /\ lease' = "free"
  /\ UNCHANGED <<file, age, database, reserves, services, coordinator, runner, owned,
                 attempt, before, crashes>>

\* An administrator runs the restore script again, from what the database is
\* now, or the roll-back alone, to what the state names.
ByHand ==
  /\ runner = "none" /\ coordinator.child = 0
  /\ \/ /\ file.status \in {"in_progress", "failed"} /\ attempt < MaxAttempts
        /\ runner' = "stop" /\ before' = database
     \/ /\ file.status \in {"in_progress", "db_restored", "failed", "manual_intervention"}
        /\ runner' = "unready"
        /\ before' = IF HasReserve THEN reserves[file.reserve] ELSE before
  /\ UNCHANGED <<file, age, database, reserves, lease, services, coordinator, owned,
                 attempt, crashes>>

\* The coordinator is killed; its runner survives it or does not.
CoordinatorDies ==
  /\ coordinator.up /\ crashes < MaxCrashes
  /\ coordinator' = [up |-> FALSE, child |-> 0, beat |-> coordinator.beat]
  /\ \/ runner = "spawn" /\ runner' = "none" /\ UNCHANGED lease
     \/ runner # "spawn" /\ UNCHANGED <<runner, lease>>
     \/ /\ runner # "spawn" /\ runner # "none" /\ runner' = "none"
        /\ lease' = IF lease = "cli" THEN "free" ELSE lease
  /\ crashes' = crashes + 1
  /\ UNCHANGED <<file, age, database, reserves, services, owned, attempt, before>>

CoordinatorStarts ==
  /\ ~coordinator.up
  /\ coordinator' = [up |-> TRUE, child |-> 0, beat |-> "idle"]
  /\ UNCHANGED <<file, age, database, reserves, lease, services, runner, owned, attempt,
                 before, crashes>>

HostCrash ==
  /\ crashes < MaxCrashes
  /\ coordinator' = [up |-> FALSE, child |-> 0, beat |-> coordinator.beat]
  /\ runner' = "none" /\ lease' = "free" /\ services' = FALSE
  /\ crashes' = crashes + 1
  /\ UNCHANGED <<file, age, database, reserves, owned, attempt, before>>

\* The services are started outside a restore.
Boot ==
  /\ ~services /\ runner = "none"
  /\ services' = TRUE
  /\ UNCHANGED <<file, age, database, reserves, lease, coordinator, runner, owned, attempt,
                 before, crashes>>

Init ==
  /\ file = Fresh /\ age = "grace"
  /\ database = 0 /\ before = 0
  /\ reserves = [i \in {} |-> 0]
  /\ lease = "free" /\ services = TRUE
  /\ coordinator = [up |-> TRUE, child |-> 0, beat |-> "idle"]
  /\ runner = "none"
  /\ owned = [request |-> 0, reserve |-> 0] /\ attempt = 0 /\ crashes = 0

RequestStep     == Request \/ Ages
CoordinatorStep == Expire \/ Beat \/ Claim \/ Spawn \/ Reap
RunnerStep      == Stop \/ Begin \/ BeginRefused \/ Save \/ Record \/ RecordFails \/ Verify
                     \/ Swap \/ Swapped \/ StepFails \/ Failing \/ Restart \/ Start
                     \/ Finalize \/ Unready
RollbackStep    == BackBegin \/ BackVerify \/ BackSwap \/ BackDone \/ BackFails \/ BackFailing
WorldStep       == OtherTakes \/ OtherGives \/ ByHand \/ CoordinatorDies \/ CoordinatorStarts
                     \/ HostCrash \/ Boot

Next == RequestStep \/ CoordinatorStep \/ RunnerStep \/ RollbackStep \/ WorldStep

\* Time passes; the coordinator is started again after a crash and its loop
\* goes on; a runner ends what it began and a backup gives the lease back, so
\* that not every turn of the loop finds it busy.
Fairness ==
  /\ WF_vars(CoordinatorStarts) /\ WF_vars(Ages)
  /\ SF_vars(Expire) /\ WF_vars(RunnerStep \/ RollbackStep) /\ WF_vars(OtherGives)

Spec     == Init /\ [][Next]_vars
FairSpec == Spec /\ Fairness

(***************************************************************************)
(* Properties.                                                             *)
(***************************************************************************)

Runner == {"none", "spawn", "stop", "begin?", "failing", "restart", "start", "finalize",
           "unready", "back?", "back_failing"} \cup Offline \cup Rollback

\* A CLI process holds the lease exactly in its file work.
TypeOK ==
  /\ file \in [status: Active \cup Terminal \cup {"none"}, request: 0..MaxRequests,
               reserve: 0..MaxAttempts]
  /\ age \in {"grace", "ready", "expired"}
  /\ database \in 0..MaxAttempts /\ before \in 0..MaxAttempts
  /\ DOMAIN reserves \subseteq 1..MaxAttempts
  /\ \A i \in DOMAIN reserves : reserves[i] \in 0..MaxAttempts
  /\ lease \in {"free", "cli", "other"}
  /\ services \in BOOLEAN
  /\ coordinator \in [up: BOOLEAN, child: 0..MaxRequests,
                      beat: {"idle", "executing", "error"}]
  /\ runner \in Runner
  /\ lease = "cli" <=> runner \in Offline \cup Rollback
  /\ owned \in [request: 0..MaxRequests, reserve: 0..MaxAttempts]
  /\ attempt \in 0..MaxAttempts /\ crashes \in 0..MaxCrashes

\* The state file keeps what it promises to its readers.
Requests  == INSTANCE RestoreRequests WITH status <- file.status, request <- file.request
Lifecycle == Requests!Spec

\* The database is only replaced while the services are down, also by a
\* runner whose coordinator died and was started again.
SwapOnlyOffline == [][database' # database => ~services]_vars

\* As long as a restore is not over and the database is no longer what it was
\* when it was asked for, the state names a pre-restore point that exists
\* and has that content: whatever crashes or fails, it can be rolled back.
ReserveCoversSwap ==
  file.status \in {"in_progress", "db_restored", "failed", "manual_intervention"}
    /\ database # before
    => file.reserve \in DOMAIN reserves /\ reserves[file.reserve] = before

\* rolled_back means that the users' data are back.
RolledBackIsBack == file.status = "rolled_back" => database = before

\* A request that was accepted is claimed or fails, it does not wait for ever.
RequestIsAnswered == file.status = "requested" ~> file.status # "requested"
=============================================================================
