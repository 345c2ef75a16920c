# A verification of ADAS: incidents, engine, dashboards, accounts and operations

ADAS watches road cameras with an AI engine, asks human operators to judge each
detected accident, and shows the result on dashboards. This directory holds
TLA+ models of the parts in which several threads, processes or restarts meet
over shared state, TLC configurations that check them on small instances, and
proofs (TLAPS) of the results that hold for every instance.

Paths below are relative to the repository root.

## 1. Inventory of the system

| Part | State it keeps | Operations | Talks to |
| --- | --- | --- | --- |
| **Incident lifecycle** `backend/app/services/incidents.py`, `api/routes/alerts.py`, `models/detection.py` | `detection_log` rows: status, who verified and closed it, snooze | ingest, confirm, dismiss, correct, clear | camera rows (same transaction), realtime manager, scheduler |
| **Snooze** `services/snoozes.py` | `snoozed_until`, `snoozed_by_id` | snooze, one-shot expiry, sweep, startup reconciliation | scheduler |
| **Camera desired state** `services/cameras.py`, `api/routes/cameras.py` | `desired_ai_state`, `desired_state_reason`, `cooldown_until`, `config_version` | create, PATCH, DELETE, resume job, sweep, reconciliation | incidents; the engine through the heartbeat |
| **Camera observed state** `services/cameras.py` `apply_observed` | connection and AI status as reported | heartbeat report | engine, dashboards |
| **Scheduler** `core/scheduler.py`, `main.py` lifespan | registered jobs, in memory | interval sweeps, one-shot jobs, startup | all services |
| **Internal API** `api/routes/internal.py` | last engine seen | `/alert`, `/heartbeat` | engine |
| **Engine pipeline** `ai_engine/pipeline.py`, `accident.py` | accumulators, isolated cameras | tick: collect, infer, fire, pause, enqueue | streams, outbox |
| **Engine outbox** `ai_engine/outbox.py`, `backend_client.py` | one file per undelivered event | enqueue, deliver, back off, quarantine | `/alert` |
| **Engine supervisor** `ai_engine/supervisor.py` | the stream dictionary | heartbeat, `compute_actions`, apply | `/heartbeat`, streams, outbox |
| **Engine streams** `ai_engine/camera.py`, `gpu_camera.py` | pause flag, segment, fps window | read, pause, resume, reconnect | pipeline, supervisor |
| **Evidence accumulator** `ai_engine/accumulate.py` | regions with evidence | update, fire | pipeline |
| **Realtime** `services/realtime.py`, `realtime_revalidation.py` | connections, bounded queues, sender tasks | connect, broadcast, disconnect, revalidate | dashboards, sessions |
| **Sessions, login, MFA** `services/sessions.py`, `services/mfa.py`, `api/routes/mfa.py`, `auth.py` | sessions, challenges, factors, recovery codes, attempt windows | password stage, verify, enrol, replace, recover, rotate, revoke, expire | realtime |
| **Users** `api/routes/users.py` | accounts and roles | create, update, delete | sessions, realtime |
| **Exports** `services/reports/jobs.py` | job rows, queue, workers, artifacts | create, process, recover, clean up, download | file system, audit trail |
| **Backup and restore** `maintenance/*`, `services/maintenance_schedule.py`, `api/routes/maintenance.py` | restore points on two tiers, lease, restore state, coordinator heartbeat | backup, prune, list, request, claim, restore, roll back, finalize, schedule | database file, services, protected medium |
| **Lists, figures, files** `api/routes/alerts.py`, `audit.py`, `analytics.py`, `exports.py`, `services/filters.py`, `services/reports/*` | a cache of dashboard answers | filter, sort, page, count, export | every table, audit trail |
| **Monitor, rate limiter** `core/monitor.py`, `core/rate_limit.py`, `api/routes/system_health.py` | sliding windows, live sample, raw and hourly rows | allow, sample, persist, roll up, prune | login, health routes |
| **Dashboard** `frontend/src/components/RealtimeAlertsBridge.tsx`, `store/useAlertStore.ts` | alert queue, snoozes and timers, siren, buffer | merge of socket events and REST snapshots, operator actions | realtime, alerts API |

The detector, the video decoding, the rendering, the report layout, the help
pages, the developer tools and the migrations have no concurrent control of
their own and are left out; `PROJECT.json` lists them with the reason.

### How the parts interact

1. The pipeline fires on a camera, pauses it in memory, and writes an event file.
2. The delivery worker posts the file until it gets a final answer. The ingest
   inserts an incident and pauses the camera row in one transaction.
3. Operators confirm, dismiss, clear or snooze the incident over REST, from
   several request threads at once. Each decision re-derives the camera's desired
   state; a dismissed false positive starts a 60 s cooldown and registers a job.
4. Scheduler threads end cooldowns and snoozes: a one-shot job each, a 30 s sweep
   for lost jobs, and a reconciliation at startup.
5. Operators see all of it through a socket per tab, which a REST snapshot completes after
   every connection.
6. Administrators change accounts, ask for exports, backups and restores. A restore is a
   file that a coordinator outside the backend claims; it stops the services, replaces the
   database and starts them again.
7. Every few seconds the supervisor reports what runs and gets the desired state
   of every camera, and starts, stops, pauses or resumes streams accordingly.

### What is hard about it

* **Read, derive, write.** A PATCH, a DELETE and the resume job read the camera and the
  incident table with plain SELECTs and write a derived row later. SQLite takes no lock
  before the first write, and the ORM writes only the columns it believes changed.
* **Races between operators.** Confirm, dismiss, clear and snooze meet on one row.
* **Retries.** An event may be served twice, late, after a crash of its sender, and
  after its incident was closed.
* **Lost jobs.** A one-shot job misfires, fails or dies with the process.
* **Shared memory in the engine.** Three threads use the stream dictionary without a lock,
  and the pause of a stream precedes the file that justifies it.
* **Threads beside an event loop.** Most broadcasts run on worker threads, into asyncio
  queues and tasks that belong to the loop and are not thread-safe.
* **Authorised earlier.** A request is authorised, or its password compared, in one transaction and
  decided in another.
* **Half a file, half a restore.** Exports, backups and restores leave files, rows and a state
  file that a crash can part; a failed restore has to be undone with what it saved.
* **One tab, three sources.** Socket events, snapshots and the answers to an operator's own
  requests arrive in any order.
* **The same rule twice.** A status is presented in Python and filtered in SQL, a list is shown,
  exported at once, and exported by a job.
* **Stale snapshots.** A plan computed from a heartbeat is applied after the facts moved on.

`PROJECT.json` lists each hazard at its line with the properties that watch it.

## 2. Modules

| Module | Role |
| --- | --- |
| `CameraDesiredState` | the derived columns of a camera row: `recompute_desired_state`, the version bump, the ORM flush |
| `IncidentLifecycle` | abstract: an incident opens once per event and once per camera, and moves along four transitions that name their operator |
| `IncidentControl` | the incident and camera tables with all handlers and jobs that write them, at the atomicity of SQLite |
| `EventDelivery` | abstract: a stored event opens at most one incident and is let go only on a verdict |
| `EngineDelivery` | the engine's three threads, its disk and process, the network, and the backend as the engine sees it |
| `Realtime` | the WebSocket fan-out: handshake, queues, sender tasks, broadcasts, revocation, revalidation |
| `CameraStreams` | one camera in the engine: reader, inference and supervisor threads, frame queue, evidence, segments |
| `Accounts` | accounts, factors, challenges, sessions and the limit on failed second factors |
| `Backups` | restore points on two tiers: backups, retention, due checks, the point a restore has selected |
| `RestoreRequests` | abstract: one restore request at a time, and the statuses it may pass to |
| `Restore` | request, coordinator, runner, replacement, roll-back and finalization of a restore |
| `ExportJobs` | asynchronous exports: rows, queue, workers, artifacts, sweep, restarts, a restored database |
| `DashboardAlerts` | one dashboard tab: store, recovery after a connection, siren, operator actions |
| `Lists` | what the lists of the API share: pages, order by creation, the filter for deleted rows |
| `HealthRules` | functions: reported and presented camera status, KPIs, live health, history |
| `Reports` | functions: filters, order, lists, audit bursts, exports, what a job's file holds |
| `Analytics` | functions (extends `Reports`): dashboard and AI performance figures, their cache and exports |
| `RestorePoints` | functions: protected medium, list of restore points, protection status, acceptance of a restore, what is verified before the database is replaced |
| `X_proofs` | the theorems about `X`, for the seven state machines `IncidentControl`, `EngineDelivery`, `Realtime`, `CameraStreams`, `Accounts`, `ExportJobs` and `DashboardAlerts` |
| `Maintenance_proofs` | the theorems about `Restore` and about `Backups` |
| `MC...` | per module: symmetry and instances for model checking; `MCHealthRules`, `MCReports` and `MCRestorePoints` hold the assumptions that TLC evaluates about the function modules |

### `IncidentControl`: state and actions

`cam` is the camera table, `log` the `detection_log` table (a row that does not exist
yet is `Absent`), `jobs` the registered `cooldown:{camera_id}` jobs, `ses` what each
worker's handler has read. `edits` only bounds a run.

*Atomicity.* In SQLite a transaction takes the write lock at its first
UPDATE or INSERT, and a SELECT before that holds nothing. So:

* `confirm_alert`, `clear_alert` and the expiry of a snooze start with their conditional
  UPDATE and are single actions, the camera derivation after it included.
* `dismiss_alert` and `snooze_incident` peek at the status first: `DismissPeek`,
  `SnoozePeek`, then the action that writes.
* An ingest reads (`IngestRead`: availability, duplicate) and then commits
  (`IngestCommit`: insert, CASE update on the live row, or rollback on a unique index).
* PATCH, DELETE and the resume job are three actions: load the row (`PatchLoad`,
  `DeleteLoad`, `ResumeJob`, `ResumeSweep`), read the incidents (`ReadOpen`), flush
  (`WriteRow`). `Flush` writes the columns that differ from what the handler read, and the
  three that PATCH flags; every other column keeps what others committed since.

`Abandon` is any failure before the commit. `Restart` is a crash of the backend at any
point followed by the startup sequence, which runs before the first request: sessions and
jobs are gone, desired states are recomputed (without a version bump), running cooldowns
get their job back, expired snoozes are cleared. `LoseJob` is a misfire or a crash between
commit and registration.

*Data abstraction.* A deadline is `none`, `running` or `due`, which is all the code's
comparisons with the clock tell apart. `CooldownElapses` and `SnoozeElapses` are the clock; a stale
handler may write a `running` deadline back after it ran out, which then elapses again: a
superset of what a fixed timestamp allows. Names, channels, snapshots and confidences are
left out; a rename shows as the version bump it causes.

### `EngineDelivery`: state and actions

`cam` is the backend's row as the engine can tell it (enabled, channel, open
incident, cooldown); `opened`, `gone` and `rival` are the history of its answers. `place`
says how far each event has come (`memory`, `outbox`, `done`, `aside`, `lost`), `waiting`
which entries are backing off; these survive a crash. `stream` is the dictionary that
the pipeline (`pipe`), the worker (`worker`) and the supervisor (`sup`) share.

* **Pipeline**: `Collect` takes a batch of unpaused streams, `Fire` pauses and numbers
  the event, `Enqueue` or `DropEvent` ends `handle_event`. `pipe.current` remembers
  which streams of the batch are still those in the dictionary: pausing a replaced
  stream object pauses nothing. `tick_once` does not look at `is_paused` again between
  `Collect` and `Fire`, so neither does the model.
* **Worker**: `BeginCycle`, `Post` (the oldest entry, skipped if it is gone or not due),
  `Reply` or `Reject` at the backend, `Settle` when the answer arrives, `AttemptFails` when none
  does; then a request may be left in `late` and be served at any time by `LateService`.
* **Supervisor**: `Heartbeat` (the snapshot), `Compute` (`compute_actions` on the streams
  and the outbox of that moment), `Apply` camera by camera, `EndHeartbeat` also for
  every failure of the cycle.
* **Process**: `Crash` clears the memory and loses an event that was not stored yet;
  nothing but a delivery cycle runs until the startup drain has ended (`booted`).

An ingest is one step here; its inner races are the subject of `IncidentControl`. Events
are numbered in the order they fire, which is the order of the outbox's file names, as
one thread writes them. An entry of the outbox can be read: it appears by `os.replace`, whole. A
disk that fails to return it (`ai_engine/outbox.py:82`, which puts the entry aside without an answer)
is left out, and `DeliverySpec` does not hold of one. Isolation of a failing camera, stalled
frames and regions that do not fire all appear as a camera that is not collected.

### `Realtime`: state and actions

`registered` is `_by_connection` in its order; the indexes by user and by session are its
images (`Of`), since connect and disconnect change all three between two awaits and
only the loop reads those two. `handshake`, `socket` and `sender` say where the
coroutine of a connection, its TCP connection and its sender task stand; `queue` and
`sending` hold what is on its way. `enqueued`, `received`, `audience`, `cutShort`, `loggedOut`
and `late` are history that properties refer to. `NoGap` says what a client that stays connected
may count on: its socket carries its queue in order, and an event that was broadcast to it and
is neither queued nor still on its way is one of a broadcast that was cut short. That such broadcasts
exist is the divergence that `BroadcastReachesEveryone.cfg` shows; `DeadSocketIsDropped` is therefore
about the connections that are found dead, not about those a thread found full.

*Atomicity.* Coroutines of the loop interleave at awaits only, so an action is what one
of them does between two awaits. `accept()`, `send_json` and `close()` are awaits of the
server and may give way. Threads interleave anywhere: `onLoop` marks the two places
where they can be noticed inside a coroutine's segment, between `connect` and the
ready event, and between a sender's look at its empty queue and its registration as a
getter. A put and the wake-up it causes are one step. `BroadcastStart` and `BroadcastPut`
are a broadcast on a thread (routes declared with `def`, scheduler jobs), `BroadcastOnLoop`
the one in a coroutine (`trigger_restore`). In a thread `asyncio.create_task` raises, which
ends the broadcast; on the loop it makes a `DisconnectTask`. A broadcast that ended so is in
`cutShort`.

*Closing.* `CloseRoute` is a revoking commit together with the first socket that
`close_session` or `close_user` closes, `CloseNext` each further one. `RevokeOutOfBand` is
an expiry, the hourly cleanup, or another process. `SweepStart` and `SweepNext` are the
revalidation job, whose loop gives way only when it closes a socket. The job's second question, whether
the user is still active, is left out: the commit that disables an account revokes its sessions.

### `CameraStreams`: state and actions

`stream` is the `CameraStream` or `GpuCameraStream` object (pause flag, `segment_id`,
whether it is in the dictionary), `reader` its thread, `queue` the frames it has published;
`infer` is the inference thread with the accumulator entry of the camera, `sup` the
supervisor on its way through its plan.

* **Reader**: `Connect`, `NewSegment`, `DiscardQueue`, then `Grab`/`StartRead`/`Publish`, and `Drop`.
  The increment of `segment_id` is a load and a store, as is the supervisor's. One order is
  excluded: that the reader reconnects between the load and the store of `resume`. With it a
  camera could be deaf in theory; the reader cannot lose and regain a connection in that time.
* **Inference**: `Collect`, `InferenceFails` (isolation), `Accumulate` (`resolve` with its three seams,
  then `update`), `Blindfold`, `HandleEvent`, `Prune`. The accumulator is for one location: which
  boxes overlap is data. A frame is timed by what lies between it and the one before.
* **Supervisor**: `Compute`, `StopStream`, `StartStream`, `Attach`, `Pause`, `Resume` and its parts.

### `Accounts`: state and actions

One row per user of `role`, `active`, `password`, `cred` (factor and recovery codes) and `challenge`;
`sessions` holds those that are neither revoked nor expired, `failures` the window of the
MFA limiter, `flight` what each request being served has read so far, `spent` (history) how
often each proof was accepted.

*Atomicity.* The MFA routes open their deciding transaction with BEGIN IMMEDIATE, so each
is one step after the step that read the request's first facts (`PasswordStage` then
`StartChallenge`, `ProofStage` then `VerifyTotp`, `VerifyRecovery`, `ConfirmEnrollment` or
`ConfirmReplacement`, `ManageStage` then `BeginReplacement` or `RotateRecoveryCodes`). The user
routes run on the event loop without an await between check and commit, on an
authorisation that a dependency read earlier (`AuthorizeAdmin`, `AuthorizeSelf`). `Hop` is the
demo login of `routes/dev.py`.

### `Backups`: state and actions

`points` has, per tier and origin, the published restore points, oldest first; `backupLease` the
job that holds `maintenance.lock` and `stage` how far it is (`BeginBackup`, `Choose`, `Write` or
`WriteFails`, `Prune`); `checked` the callers that found a backup due and have not begun it. The
medium fills, vanishes and returns (`MediumChanges`), files are damaged (`Damage`), the host
crashes (`MachineDies`). `RequestRestore`, `ClaimRestore` and `Settle` are a restore as a backup sees
it. Local points from before the tiers (no `storage_tier_explicit`, `backup.py:853`) are never
pruned and are not in the model.

### `Restore`: state and actions

`file` is `restore_state.json`, `database` the content of the live file (named by the attempt
that put it there), `reserves` the pre-restore points, `coordinator` the watching process, `runner`
the place of `restore_requested.sh` and of the CLI it calls, `owned` that CLI's copy of the
state. Every place at which the code writes the state file or replaces the database is a step
of its own; every step can fail (`StepFails`, `RecordFails`, `Unready`), and the host or the coordinator
can die at any place. Removing the sidecar files (`restore.py:778`) and replacing the database
are one step: stopped services leave no write-ahead log, and if they were killed the emergency
backup, which was taken before, has what the log held. `ByHand` is `adas-maintenance restore`
or `rollback` typed by an administrator. Seen in this model, and in the code: a prune that fails after `completed` was
written rolls a good restore back; so does a finalization that meets a busy lease; a
failure that meets a busy lease leaves the request `in_progress`; a retry by hand after a
failure that followed the replacement records a new reserve. None contradicts a sentence
of the repository, and `RolledBackIsBack` and `ReserveCoversSwap` hold all the same.

Limits: one runner at a time; the Windows runner, `offline_restore.sh` and a restore by hand
of a point that was never requested are not modelled; a refusal (`BeginRefused`, `BackBegin`) needs no
cause.

### `ExportJobs`: state and actions

`job` is the row, `queue` and `worker` the memory of `ExportJobQueue`, `creating` a request between its
commit and its `put`, `artifact` the file, `sweep` the hourly removal, `reading` a download after its
checks. `process_export_job` commits twice, `Begin` and `Complete` or `Fail`, with generation and
writing between; `Stop` is a shutdown or a crash at any place and `StartUp` the recovery
before the first request. `Backup` and `RestoreBackup` bring an older database back under newer
files.

### `DashboardAlerts`: state and actions

`server` is the incident table as the tab can see it, `outgoing` events that were committed and not
yet broadcast, `wire` what the socket carries; `store` is `useAlertStore`, `buffer` and `fetches` the
recovery sequence of `RealtimeAlertsBridge` (`Connect`, `ReceiveReady`, `Answer`, `FetchReturns`, `FetchFails`),
`dialog` and `call` what the operator sees and has asked for. JavaScript runs one callback at a
time: an action is a callback, up to its next await.

*Stamps.* A row carries `updated_at` as its `key`. Every handler reads the clock before its UPDATE
takes SQLite's write lock (`services/incidents.py:247`, `services/snoozes.py:44`), and a snooze and its
expiry stamp the row as well (`snoozes.py:69`, `:102`). So a commit may carry a smaller stamp than
the one before it, and two may be equal; `Handle` takes any stamp but the first, which is the
insertion's, and `ReAlarm` any later than the snooze it ends. The tab compares these stamps
(`shouldApplyIncidentEvent`), hence it may keep an older row in place of a newer one. What is claimed
of it holds all the same, as it rests on statuses: an incident never becomes Unverified again.

Left out: the summary after a reconnect, moving between pending incidents by hand, the camera
cache, and the page limit of 100 in the recovery (the repository's own defence notes,
`docs/defense/03-behaviour/21-realtime-websocket.md:316`, call it unverified).

### Function modules

`HealthRules`, `Reports`, `Analytics`, `RestorePoints` and `Lists` translate code that decides from
what it has read and keeps nothing (but one cache). They have operators and no actions. TLC evaluates the
named assumptions of `MCHealthRules`, `MCReports` and `MCRestorePoints`, which quantify over small sets
of tables and requests, whenever it starts the run whose module extends them (`camera_streams`,
`export_jobs`, `restore`):

| Assumption | What it says |
| --- | --- |
| `FiltersSelectWhatIsShown` | the SQL filters for a camera's status select exactly what Python presents |
| `ReportingIsNotSilent`, `WorseIsNeverHealthier` | a camera never counts as reporting in the averages and as silent on its card; a sample that is worse never has a better state |
| `HeartbeatsTouchTheirCameras`, `ReportsAreBroadcastOnce`, `RateOnlyWhileActive` | a report changes the rows of its cameras only, the same report twice is no change, a stream that reports a rate is connected, active and not paused |
| `ListsAgreeWithTheirFigures`, `BreakdownsCountAll` | the camera list, its filters, its pages and the figures above it agree |
| `HoursAreRolledUpOnce`, `NothingIsFabricated` | a raw row counts in one hour, a roll-up made again changes nothing, a retention of two hours spares the hour rolled up next; a raw row is never made of a sample that is missing, stale or incomplete |
| `ExportsMatchTheScreen`, `JobsMatchTheScreens`, `AuditJobsMatchTheScreen` | list, synchronous export and job give the same rows in the same order |
| `AuditExportsAreExact` | rows appended while an audit export streams are not in it |
| `BurstsDivideThePage`, `DirectoryIsDivided`, `JobsListedAreJobsAllowed` | grouping of audit rows, the user directory, the jobs an operator is listed |
| `WindowsAreAdjacent`, `ChartsAddUp`, `TableAddsUp`, `CacheIsBoundedAndFresh` | windows of a comparison neither overlap nor leave a gap, charts and tables add up, the cache is bounded and answers in time |
| `DecidedIncidentsAreLabelled` | the retraining package has every decided incident once, with the operator's label |
| `MediumIsAnotherDisk`, `RootDecidesTheTier`, `ProtectedIsProtected` | a protected medium shares no disk with the database, a manifest cannot promote itself, and "protected" is shown only with a recent intact point there |
| `RestoresComeFromTheList`, `RestoredIsSignedOut` | what replaces the database is a listed point of the tier asked for, one `cmd_verify` agrees with; it comes without sessions and challenges |
| `RestoresAreAcceptedWhenIdle`, `CoordinatorIsAlive`, `RestartsWithoutCameras` | a restore is accepted only with a live idle coordinator and no active request; readiness asks for a camera only where required |

Each assumption was seen to fail under small perturbations of the operators it is about
(a dropped condition, an off-by-one, a filter of the wrong set).

## 3. Runs

Every run finishes in well under five minutes with two workers. Two runs disable deadlock checking,
`accounts` and `dashboard_alerts`, because there nobody has to send a request or
open a page and the bounds on what they do run out.

| Run | Bounds | What it shows |
| --- | --- | --- |
| `incident_control` | 1 camera, 2 incidents, 2 events, 2 users by symmetry, 2 request threads, 1 executor, edits as in the cfg | `TypeOK`, `IncidentsAreUnique`, `SnoozeOnlyMutesUnverified`, `LifecycleSpec` (refinement), `SnoozeRunsItsTime`, `FreshWriteAgrees` |
| `two_cameras` | 2 cameras, 2 incidents, 2 events, 1 thread, 1 executor, no edits, fair | `CooldownEnds`, `SnoozeReAlarms` |
| `engine_delivery` | 1 camera, 2 events, 1 switch off or on, 1 crash | `DeliverySpec` (refinement) |
| `engine_liveness` | 1 camera, 2 channels, 1 event, 1 edit, 1 crash, fair | `EveryEntryLeaves`, `EngineFollowsBackend` |
| `realtime` | 2 connections of 2 sessions of one user, 1 broadcasting thread, queue of 1, 1 broadcast, at most 1 connection per user, fair | `NoGap`, `SendersFollowRegistry`, `RevokedIsClosedOrLate`; `RevokedSocketCloses`, `DeadSocketIsDropped` |
| `camera_streams` | 1 camera, 1 location, queue of 2, gap of 2 units, threshold 3, 1 fault, 1 event, 1 change of orders | `EventsAreCorroborated`, `EvidenceIsContinuous`, `NotDeaf`; `MCHealthRules` |
| `accounts` | 2 users, one of them administrator at first, 2 requests at a time and 6 in all, 1 recovery code, 3 tokens, 2 TOTP steps, 1 password change, 1 attempt | `ActiveAdminRemains`, `SessionsFollowAccount`, `SessionsFollowFactor`, `ProofsAreSpentOnce`, `OvershootIsBounded` |
| `backups` | 4 points, retention of 1 per origin, either tier selected | `SelectedLocalStays`, `NewestIsKept`, `NoBackupInsideRestore` |
| `backup_continuity` | 3 points, no restores, fair | `ContinuityReturns` |
| `restore` | 2 requests, 3 attempts, 2 crashes, 1 reserve kept, fair | `ReserveCoversSwap`, `RolledBackIsBack`, `Lifecycle` (refinement of `RestoreRequests`), `SwapOnlyOffline`, `RequestIsAnswered`; `MCRestorePoints` |
| `export_jobs` | 2 jobs, 2 workers, 1 restored database, fair | `PartIsNeverServed`, `OneOutcome`, `ExpiredIsGone`, `AcceptedEnds`; `MCReports` |
| `dashboard_alerts` | 1 incident, 2 connections, 1 snooze granted, 2 late broadcasts, 1 event on the socket, 3 stamps, 1 request of the operator | `QuietQueueIsComplete`, `StoreIsConsistent`, `PendingStaysUntilDecided` |

*Why the bounds are enough.* The races are between two handlers of one camera, so two
request threads and an executor thread hold every pair, and the interesting triples. Two
incident rows and two events let a second detection follow a closed incident, and a
duplicate meet it. One edit puts a PATCH or DELETE into every other race. In the engine
two events let a later detection overtake an earlier one; one crash hits every step,
and one edit covers switching off, on, or moving a camera under every step. In `Realtime` a queue of one
is full with the ready event or the broadcast, so overflow, a failed handshake and a queue with
an event in flight all occur; a limit of one rejects the second connection and is
still exceeded by two handshakes at once. In `CameraStreams` a threshold of 3 with a gap of 2
needs two frames, so one frame on either side of any seam would show; a queue of 2 holds
frames of both segments; two events with a queue of 1 (7.6 million states) were checked by hand
as well. In `Accounts` two users can demote each other, one of them in two roles of two
requests, and three tokens give a factor its successor while a login under the old one
is open. Retention of 1 is exceeded by every second backup, which four points allow twice per
origin. Two requests, three attempts and two crashes give every failure of a restore a retry, a
roll-back and a second request behind it. Two export jobs and two workers meet in the queue and in
the sweep. One incident and two connections let every event be overtaken by a snapshot of
its connection or of the one before; the last connection stays up, and a page load or a log-out comes
with a further one. Three stamps are the insertion's and two more, which two later commits may carry in
either order or share. Rows of different incidents do not meet in the store but in
the siren's count, which one incident switches on and off.

### Known divergences

In each of these the code does something that a sentence of the repository denies. The first
ones have a counterexample that TLC finds; run it with `tlc -config <cfg> <module>`:

| Configuration, module | What happens |
| --- | --- |
| `StaleReads.cfg`, `MCIncidentControl` | `OpenIncidentHoldsCamera`: the resume job reads "no open incident", an ingest commits, the job writes Active; without that line, `DeletedCameraHasNoOpenIncident`: DELETE checks, an ingest commits, DELETE commits |
| `ConfigVersionIsMonotonic.cfg`, `MCIncidentControl` | a version computed from a stale read is written over a higher one |
| `CooldownEnds.cfg`, `MCIncidentControl` | with edits, two stale writers leave reason `cooldown` without a deadline; no job or sweep selects it |
| `PendingHoldsPause.cfg`, `MCEngineDelivery` | START ignores the pending outbox entries that RESUME and REAPPLY_CONFIG respect (`ai_engine/supervisor.py:63`) |
| `EarlierDetectionWins.cfg`, `MCEngineDelivery` | between the pause and the enqueue the supervisor sees a paused camera with nothing pending and resumes it; the later event wins |
| `BroadcastReachesEveryone.cfg`, `MCRealtime` | a thread meets a full queue; `create_task` raises, the connection stays, and neither it nor those after it get the event (`services/realtime.py:137`: "the event is never silently dropped"; `21-realtime-websocket.md:361`: "A full queue or failed send closes only that connection") |
| `SelectedArtifactStays.cfg`, `MCBackups` | the state file is looked for in the root that is pruned, so a point selected on the protected medium is not shielded (`maintenance/backup.py:316`: "Keep an active request's selected artifacts out of retention pruning.") |
| `DashboardDivergences.cfg`, `MCDashboardAlerts` | `NoticeRemovesDecided`: the button of a conflict notice removes the incident shown now, which another callback may have exchanged for one that is still open (`store/useAlertStore.ts:52`: "log_ids dismissed or confirmed this session"); without that line, `ConfirmedStaysConfirmed`: a confirmed incident turns up as a new one again, because the older row carries the later stamp or was in a snapshot that returned late (`utils/merge.ts:5`: "a monotonic merge key"; `21-realtime-websocket.md:242`) |

The first four have one cause, a derived row written from a stale read. They heal at
the next write that nothing overtakes: `FreshWriteAgrees` (checked and proved) says so.

Others were met while translating and have no run:

* The roll-up of an hour runs at its minute 0, beside the job that persists raw samples: a row
  collected before the hour and committed after the roll-up is in no hourly row, and a missed
  roll-up is not made again (`docs/defense/03-behaviour/23-system-health-telemetry.md:215`).
* `presented_statuses` (`services/cameras.py:74`) says that the engine never emits Unresponsive;
  it does after three failures (`ai_engine/camera.py:101`).
* A camera isolated after a failed inference stays so for the life of the process, also when its
  stream is replaced, and the new stream reports itself Active (`ai_engine/pipeline.py:175`).
* An audit export job that gives an order and no column is given `detected_at`, which the audit trail
  does not have, and fails (`api/routes/exports.py:45`).
* An export asked for with a column that cannot be sorted is audited as a success and then refused
  with 422. An incident export's audited number of rows may differ from its rows if an
  incident changes between the count and the read; an audit export's does not.
* `get_ai_performance` says that only cameras with a detection appear; cameras without one are listed too
  (`api/routes/analytics.py:738`).
* A dashboard PDF made by a job records the number of locations as its row count, the synchronous
  one the number of accidents.
* Users, jobs and cameras are sorted by `created_at` alone, so that pages over rows of one time
  may repeat or skip one.
* A restore can be accepted for a listed point that the restore itself then refuses: the list
  does not look at its schema, its pages or the key of its secrets. `adas-maintenance verify` looks at
  neither the manifest's own checks nor the file's size.
* In the dashboard, two recoveries that overlap can bring a cleared incident back into the tray,
  where `21-realtime-websocket.md:242` says that an older snapshot cannot overwrite a newer event.
* With stamps out of order a dashboard can go on showing a confirmed incident as Unverified, siren
  included, when all is quiet: a snooze that read the clock later than the confirmation and was
  committed before it gives its row the larger stamp, and the confirmation's event is dropped as
  older (`utils/merge.ts:10`). The next snapshot of a new page brings the right status.

### Fairness

`IncidentControl`: a handler that has begun runs on (WF); deadlines pass (WF); the sweeps
are interval jobs that take every due row in turn and log and survive a failure, so a
due camera is swept (SF) and its job does not fail for ever (SF on its two remaining steps).
Nothing is assumed of operators, the engine, one-shot jobs or restarts.

`EngineDelivery`: each thread is a `while True` loop that catches its exceptions (WF). The
worker retries an entry for ever with bounded backoff, and the supervisor repeats its
heartbeat, so strong fairness on an answer that arrives, and on a plan that is
applied, says only that the network does not fail every time. Nothing is assumed of
detections, operators, administrators or crashes.

`Realtime`: the loop runs while a coroutine is ready, which includes the send timeout and the
60 s job, and threads go on. One weak fairness condition for the whole loop is enough.
Nothing is assumed of clients, operators, broadcasts or out-of-band revocations.

`Backups` (`backup_continuity`): the hourly job keeps polling, and not every one of its polls finds
the lease taken or a restore open (SF on the check, on the start and on the choice under these
conditions); the stages of a backup run (WF); a disk that is asked again and again takes a backup
at last (SF). Nothing is assumed of operators, the medium, damage or crashes.

`Restore`: time passes and the coordinator is started again after a crash, as its unit says (WF); its
loop goes on and finds the lease free now and then (SF on the expiry of a request); a runner ends
what it began and a foreign holder gives the lease back (WF). Nothing is assumed of services
becoming ready.

`ExportJobs`: the backend is started again and restarted from time to time (WF); a worker takes
its jobs, and a step of a job that is tried for ever succeeds at last (SF). The restart matters:
a worker that gave up on a job leaves it `processing` until the recovery at startup.

`Accounts`, `CameraStreams` and `DashboardAlerts` have no liveness property: what should happen
there waits for a user, for a detection or for a network that nothing obliges.

## 4. Proofs

All nine state machines have their theorems, checked by TLAPS for every value of the
constants: any numbers of cameras, connections, users, jobs, threads, crashes and events.
Together they state every invariant, every safety action property and every refinement that the
passing runs check. Nothing is assumed but the named assumptions in the modules that declare the
constants; TLC evaluates those in every run. They say that sets of users, requests, jobs and incidents
are finite, that bounds and limits are naturals (a limit, a queue depth, an interval, a number
of reserves or of restore points kept at least 1), that NULL and the other model values are
none of the things they stand beside, and two that come from the code: in `CameraStreams` that one
frame counts for less than the threshold (`EvidenceAssumption`), in `Realtime` that every
connection has a session and every session a user.

| Theorem | Property | In words |
| --- | --- | --- |
| `IncidentControl_proofs` | | |
| `TypeCorrect` | `TypeOK` | |
| `UniqueIncidents` | `IncidentsAreUnique` | one open incident per camera, one incident per event |
| `OnlyUnverifiedIsMuted` | `SnoozeOnlyMutesUnverified` | a muted incident is Unverified |
| `SnoozesRunTheirTime` | `SnoozeRunsItsTime` | only a decision or the deadline ends a snooze |
| `ImplementsLifecycle` | `LifecycleSpec` | refinement of `IncidentLifecycle` |
| `FreshWritesAgree` | `FreshWriteAgrees` | a write made on current facts agrees with them |
| `EngineDelivery_proofs` | | |
| `TypeCorrect` | `TypeOK` | |
| `ImplementsDelivery` | `DeliverySpec` | refinement of `EventDelivery` |
| `Realtime_proofs` | | |
| `TypeCorrect` | `TypeOK` | |
| `NothingIsSkipped` | `NoGap` | a client gets its queue in order, and it missed only what a broadcast cut short |
| `OneSenderEach` | `SendersFollowRegistry` | a sender as long as it is registered |
| `LogoutClosesSockets` | `RevokedIsClosedOrLate` | no socket outlives a log-out unnoticed |
| `CameraStreams_proofs` | | |
| `TypeCorrect` | `TypeOK` | |
| `CorroboratedEvents` | `EventsAreCorroborated` | no event on a single frame |
| `ContinuousEvidence` | `EvidenceIsContinuous` | no event across an outage |
| `NeverDeaf` | `NotDeaf` | no active camera is left fired for ever |
| `Accounts_proofs` | | |
| `TypeCorrect` | `TypeOK` | |
| `AnAdminRemains` | `ActiveAdminRemains` | there is always an active administrator |
| `SessionsOfTheAccount` | `SessionsFollowAccount` | a session has its account's password of now |
| `SessionsOfTheFactor` | `SessionsFollowFactor` | a session has its account's factor of now |
| `ProofsSpentOnce` | `ProofsAreSpentOnce` | no code or challenge is accepted twice |
| `BoundedOvershoot` | `OvershootIsBounded` | concurrent failures pass the limit by a bounded number |
| `Maintenance_proofs` on `Restore` | | |
| `TypeCorrect` | `TypeOK` | |
| `CanAlwaysRollBack` | `ReserveCoversSwap` | a replaced database can be brought back |
| `RollBackRestores` | `RolledBackIsBack` | rolled back means that it was |
| `SwapsOffline` | `SwapOnlyOffline` | the database is replaced under nobody |
| `ImplementsRequests` | `Lifecycle` | refinement of `RestoreRequests` |
| `Maintenance_proofs` on `Backups` | | |
| `BackupTypes` | `BackupsTypeOK` | |
| `ChosenPointStays` | `SelectedLocalStays` | the point a restore waits for is not pruned |
| `NothingPublished` | `NoBackupInsideRestore` | no backup is taken inside a restore |
| `NewestStay` | `NewestIsKept` | retention leaves the newest as they were |
| `ExportJobs_proofs` | | |
| `TypeCorrect` | `TypeOK` | |
| `WholeArtifacts` | `PartIsNeverServed` | no download of half a file |
| `OneAttempt` | `OneOutcome` | one outcome in the audit trail per ended job |
| `ExpiredFilesAreGone` | `ExpiredIsGone` | an expired job has no file |
| `OnePlacePerJob` | `OneWorkerPerJob` | nobody works on a job twice at a time |
| `EndsAreFinal` | `EndedIsFinal` | an end is only undone by a restored database |
| `DashboardAlerts_proofs` | | |
| `TypeCorrect` | `TypeOK` | |
| `FieldsAgree` | `StoreIsConsistent` | the siren agrees with the queue, timers with snoozes |
| `NothingIsMissing` | `QuietQueueIsComplete` | no accident is missing from an up-to-date tab |
| `AlarmsEndForAReason` | `PendingStaysUntilDecided` | a pending incident stays until it is decided, closed or cleared with all |

### The inductive invariants

Hardly any of the properties is inductive alone. Each proof module begins with the
conjuncts that are missing, and the shape of the argument is this.

**`IncidentControl`.** `LogInv` adds `Stamped_OK`, which says which of `verified_by_id` and
`closed_by_id` a row of each status carries; without it `describe_handler` could name the
wrong action, and the refinement step for a correction would fail. `DerivedSessions` says
that a handler that is about to write holds a row that agrees with what it read; without it a fresh
write could carry columns nobody derived. The lemma `LogSteps` sums up every action by what it does
to one incident row (open, move, snooze, unsnooze, elapse, or nothing); uniqueness, the snooze
properties and the refinement are then proved over these cases instead of twenty actions.

**`EngineDelivery`.** `place` is mapped to the status of an event, `gone` and `rival` to what was refused. A step lets
an event go only because `WorkerInv` holds: the worker posts an event that is still in the outbox,
and what it was answered is what the backend has done (`Backed`). `LateInv` covers the request that
arrives after its sender crashed, `PipeInv` the event that is in memory only, and `NumberInv`
(those that fired are the first ones) gives the next event its number.

**`Realtime`.** `StreamInv` follows the events of one connection: enqueued is received, then
sending, then queued, and nothing is queued before the registration. `RegistryInv` ties the sender
task to the registry at every await, also for a connection that a broadcasting thread still has on
its list; `CastInv` says that such a list is not empty. `CoverInv` accounts for every event and every
connection that it was meant for: queued, on the list of its broadcast, cut short, or about
to be disconnected. `LateInv` carries a revocation across `accept()`.

**`CameraStreams`.** Two arguments. *Time is never lost* (`ChainInv`): the time since the last
evidence is in `skipped`, in the `dt` of frames that wait, or in `since`, and only moves between
them when frames are skipped, dropped or discarded. So frames with no gap between them are of one
stretch, and a gap resets the accumulator; one frame is worth at most `MaxGap`, below the
threshold, so that an event needs two (`ScoreInv`). *No increment is lost twice* (`SegmentInv`): the
reader and the supervisor increment `segment_id` without a lock, but whichever increment is lost,
the result is beyond every frame published before. `NotDeaf` was found to hold without regard
to the reader's own increment, and is stated so.

**`Accounts`.** `TokenInv`: a token is handed out once, so no two challenges or factors share one.
`SpentInv`: a proof that was accepted can never be accepted again, because its challenge is
gone, its factor gone or past the step, or its code gone from the batch (`Over`). `LimitInv` counts
the requests that are past the limiter and have not told it the outcome: failures and these
together stay within the bound. `ChallengeInv` keeps the password of a login in progress.

**`Restore`.** `PlaceInv` says for every place of the runner where the users' content is, in the
database or in the pre-restore point that the state file names; `FailingInv` says it of
a process that failed and still writes. `RunnerInv` and `ServicesInv` keep the attempts apart and
the services down between their check and the end of the file work.

**`Backups`.** `ClearInv`: a backup that has chosen its target has seen that no restore runs, and
none is claimed while it holds the lease; the claim gives the lease back, but then every later
backup looks at the state file first. What retention removes (`gone`) is counted: a place that
is left moves down by the places removed below it (`Left`, `LeftPoints`). A place is stale only with
enough newer ones, so nothing goes of the last `Keep` places and these move together
(`LastStay`); a place that `Shields` names is never stale. `OrderInv` is about scheduled points only:
retention keeps the order, and an hour ages all of them alike. `Maintenance_proofs` extends both
`Backups` and `Restore`, which therefore share no name.

**`ExportJobs`.** `PlaceInv`: a job is with its request, once in the queue, or with one worker;
so between its commits a worker is alone with a row that says processing (`WorkInv`). `SavedInv`
is what makes a restored database harmless: a row of the backup that had an artifact is the
row of a job that has since at most expired. `SweepInv` and `FileInv` keep files and rows in step.

**`DashboardAlerts`.** `CompleteInv`: an Unverified incident is in a snapshot that has not been
applied, in an event that is to come, or pending. `Sound` and `Genuine`: a confirmed or decided row that
the tab can still see is of an incident that the server does not hold Unverified any more (`Past`),
and so is a suppressed one, unless it was closed by hand. The proofs say nothing of the stamps:
which row wins a merge does not matter to an incident that has only had Unverified ones.
`ReadyInv`: the snapshot of a connection is asked for by its first event only.

### Lemmas about data

Proofs about recursive functions need an induction. The library's induction theorems take an
operator and cannot be used, so the induction is stated over sets: a set of naturals has a
least element (`Least`, from well-foundedness), hence a set that contains 0 and every successor
is everything. With it `CameraStreams_proofs` shows what the accumulator's fold over skipped frames
returns, and `DashboardAlerts_proofs` that applying a snapshot or replaying a buffer, in whatever
order a set is taken, keeps what every single step keeps (`FoldExists`, `FoldLeads`). Sequences,
bags and cardinalities have lemmas at the head of the module that needs them.

### What is only model-checked

* Every liveness property, and with it fairness and ENABLED: out of the prover's reach.
* What the function modules (`HealthRules`, `Reports`, `Analytics`, `RestorePoints`, `Lists`) compute:
  TLC evaluates the assumptions about them over bounded tables.

`OneWorkerPerJob`, `EndedIsFinal` and the type invariants other than those of `IncidentControl` and
(with `StoreIsConsistent`) `DashboardAlerts` are in no run's configuration: they are proved, and the
runs are kept for what could be wrong. `EndedIsFinal` is stated in `ExportJobs_proofs`.

## 5. Plan

Done: the modules, runs and theorems above. Next, in this order:

1. Lemmas about the function modules for every table: presented status and SQL filter agree, adjacent
   windows, an export's rows are those counted.
2. The health jobs with their timing as a state machine, to put the lost raw row into a run.

## 6. Not modelled

Image processing, decoding and inference; rendering; report layout; help pages;
developer tools, seeds and migrations. Audit rows are appended inside transactions that are
modelled and are left out, but for the exports, where their number matters. Names, texts, snapshots
and confidences are data no property depends on. Of modelled components: profile edits of a
user, the address key of the limiters and the password limiter, cookies, frame rate measurement,
the archive command, the Windows runner and `offline_restore.sh`, the timing of the health
jobs, the dashboard's camera cache. Rounding of ratios, mixtures of naive and aware
dates (which raise in the code), and free-space figures of a probe are abstracted from the function modules.
