----------------------------- MODULE ExportJobs -----------------------------
(***************************************************************************)
(* Asynchronous exports: the job rows in the database, the queue and the   *)
(* workers in the backend's memory, the artifact files, the hourly sweep   *)
(* that removes expired ones, and downloads.  The backend stops and starts *)
(* again, and the database may come back from an earlier backup.           *)
(*                                                                         *)
(* What a generator writes is left out; an artifact is missing, partly     *)
(* written or whole.  A job has its artifact_path while it is completed.   *)
(***************************************************************************)
EXTENDS Naturals, Sequences, FiniteSets

CONSTANTS Jobs,    \* export jobs
          Workers, \* EXPORT_JOB_WORKERS worker tasks
          NoJob,   \* a worker that waits
          Rerun,   \* bound: the jobs whose rows a backup keeps
          MaxRestores \* bound: databases that are brought back

ASSUME JobsAssumption    == IsFiniteSet(Jobs)
ASSUME WorkersAssumption == Workers # {} /\ NoJob \notin Jobs
ASSUME BoundsAssumption  == Rerun \subseteq Jobs /\ MaxRestores \in Nat

VARIABLES
  up,        \* the backend is up
  job,       \* rows: status, "none" before its creation; whether it is past expires_at
  outcomes,  \* export attempts in the audit trail, per job
  queue,     \* ExportJobQueue.queue
  creating,  \* requests that committed a job and have not enqueued it
  worker,    \* per worker: its job and where process_export_job is
  artifact,  \* files in EXPORT_DIR
  sweep,     \* the running sweep: jobs selected, jobs whose file is gone
  reading,   \* downloads that passed their checks
  saved,     \* rows in the backup that a restore would bring back
  restores   \* restores so far

vars == <<up, job, outcomes, queue, creating, worker, artifact, sweep, reading, saved,
          restores>>

Ended   == {"completed", "failed", "expired"}
Idle    == [job |-> NoJob, stage |-> "wait"]
NoSweep == [on |-> FALSE, selected |-> {}, gone |-> {}]

Status(j) == job[j].status
Set(j, s) == job' = [job EXCEPT ![j] = [status |-> s, due |-> FALSE]]

(***************************************************************************)
(* Requests.                                                               *)
(***************************************************************************)

\* create_export_job and create_retraining_export up to the commit ...
Create(j) ==
  /\ up /\ Status(j) = "none"
  /\ Set(j, "queued")
  /\ creating' = creating \cup {j}
  /\ UNCHANGED <<up, outcomes, queue, worker, artifact, sweep, reading, saved, restores>>

\* ... and its enqueue, which the request may not reach (the refresh fails).
Enqueue(j) ==
  /\ j \in creating
  /\ creating' = creating \ {j}
  /\ \/ queue' = Append(queue, j)
     \/ UNCHANGED queue
  /\ UNCHANGED <<up, job, outcomes, worker, artifact, sweep, reading, saved, restores>>

\* download_export_job checks the row and the file ...
Download(j) ==
  /\ up /\ Status(j) = "completed" /\ artifact[j] # "missing"
  /\ reading' = reading \cup {j}
  /\ UNCHANGED <<up, job, outcomes, queue, creating, worker, artifact, sweep, saved, restores>>

\* ... and the response opens it, or fails when it is gone by now.
Serve(j) ==
  /\ j \in reading
  /\ reading' = reading \ {j}
  /\ UNCHANGED <<up, job, outcomes, queue, creating, worker, artifact, sweep, saved, restores>>

(***************************************************************************)
(* A worker and process_export_job.                                        *)
(***************************************************************************)

At(w, stage)   == worker[w].stage = stage
GoTo(w, stage) == worker' = [worker EXCEPT ![w].stage = stage]

Wait(w) == worker' = [worker EXCEPT ![w] = Idle]

Take(w) ==
  /\ At(w, "wait") /\ queue # <<>>
  /\ worker' = [worker EXCEPT ![w] = [job |-> Head(queue), stage |-> "begin"]]
  /\ queue' = Tail(queue)
  /\ UNCHANGED <<up, job, outcomes, creating, artifact, sweep, reading, saved, restores>>

\* The first commit.  A job that has ended is not processed again.
Begin(w) ==
  /\ At(w, "begin")
  /\ LET j == worker[w].job
     IN IF Status(j) \in {"queued", "processing"}
          THEN Set(j, "processing") /\ GoTo(w, "generate")
          ELSE Wait(w) /\ UNCHANGED job
  /\ UNCHANGED <<up, outcomes, queue, creating, artifact, sweep, reading, saved, restores>>

GenerateFails(w) ==
  /\ At(w, "generate")
  /\ GoTo(w, "fail")
  /\ UNCHANGED <<up, job, outcomes, queue, creating, artifact, sweep, reading, saved, restores>>

\* The content is there; write_bytes opens and truncates the file ...
Generate(w) ==
  /\ At(w, "generate")
  /\ artifact' = [artifact EXCEPT ![worker[w].job] = "part"]
  /\ GoTo(w, "writing")
  /\ UNCHANGED <<up, job, outcomes, queue, creating, sweep, reading, saved, restores>>

\* Mutant: the row is completed before the content is written.
CompleteWhileWriting(w) ==
  /\ At(w, "writing")
  /\ Set(worker[w].job, "completed")
  /\ GoTo(w, "finish")
  /\ UNCHANGED <<up, outcomes, queue, creating, artifact, sweep, reading, saved, restores>>

\* ... and writes it, ...
Write(w) ==
  /\ At(w, "writing")
  /\ artifact' = [artifact EXCEPT ![worker[w].job] = "whole"]
  /\ GoTo(w, "finish")
  /\ UNCHANGED <<up, job, outcomes, queue, creating, sweep, reading, saved, restores>>

\* ... or the disk is full; the partial file is removed, if it can be.
WriteFails(w) ==
  /\ At(w, "writing")
  /\ \/ artifact' = [artifact EXCEPT ![worker[w].job] = "missing"]
     \/ UNCHANGED artifact
  /\ GoTo(w, "fail")
  /\ UNCHANGED <<up, job, outcomes, queue, creating, sweep, reading, saved, restores>>

\* The last commit: the outcome and its audit row.
Finish(w, stage, s) ==
  /\ At(w, stage)
  /\ Set(worker[w].job, s)
  /\ outcomes' = [outcomes EXCEPT ![worker[w].job] = @ + 1]
  /\ Wait(w)
  /\ UNCHANGED <<up, queue, creating, artifact, sweep, reading, saved, restores>>

Complete(w) == Finish(w, "finish", "completed")
Fail(w)     == Finish(w, "fail", "failed")

\* A commit fails, or EXPORT_DIR cannot be made: the worker logs it and takes
\* the next job.
WorkerError(w) ==
  /\ worker[w].job # NoJob
  /\ Wait(w)
  /\ UNCHANGED <<up, job, outcomes, queue, creating, artifact, sweep, reading, saved, restores>>

(***************************************************************************)
(* cleanup_expired_artifacts.                                              *)
(***************************************************************************)

\* EXPORT_ARTIFACT_TTL_HOURS pass.
Age(j) ==
  /\ Status(j) = "completed" /\ ~job[j].due
  /\ job' = [job EXCEPT ![j].due = TRUE]
  /\ UNCHANGED <<up, outcomes, queue, creating, worker, artifact, sweep, reading, saved,
                 restores>>

Due == {j \in Jobs : Status(j) = "completed" /\ job[j].due}

SweepBegin ==
  /\ up /\ ~sweep.on /\ Due # {}
  /\ sweep' = [on |-> TRUE, selected |-> Due, gone |-> {}]
  /\ UNCHANGED <<up, job, outcomes, queue, creating, worker, artifact, reading, saved, restores>>

SweepUnlink(j) ==
  /\ j \in sweep.selected
  /\ artifact' = [artifact EXCEPT ![j] = "missing"]
  /\ sweep' = [sweep EXCEPT !.selected = @ \ {j}, !.gone = @ \cup {j}]
  /\ UNCHANGED <<up, job, outcomes, queue, creating, worker, reading, saved, restores>>

\* Mutant: a file that cannot be deleted is counted as gone.
SkipAsGone(j) ==
  /\ j \in sweep.selected
  /\ sweep' = [sweep EXCEPT !.selected = @ \ {j}, !.gone = @ \cup {j}]
  /\ UNCHANGED <<up, job, outcomes, queue, creating, worker, artifact, reading, saved, restores>>

\* The file cannot be deleted now: the row is left for the next sweep.
SweepSkip(j) ==
  /\ j \in sweep.selected
  /\ sweep' = [sweep EXCEPT !.selected = @ \ {j}]
  /\ UNCHANGED <<up, job, outcomes, queue, creating, worker, artifact, reading, saved, restores>>

\* One commit for all rows, or none of them.
SweepCommit ==
  /\ sweep.on /\ sweep.selected = {}
  /\ \/ job' = [j \in Jobs |-> IF j \in sweep.gone THEN [status |-> "expired", due |-> FALSE]
                               ELSE job[j]]
     \/ UNCHANGED job
  /\ sweep' = NoSweep
  /\ UNCHANGED <<up, outcomes, queue, creating, worker, artifact, reading, saved, restores>>

(***************************************************************************)
(* Stops, starts, backups.                                                 *)
(***************************************************************************)

\* A stop, a crash or the daily restart: what is in memory is gone.
Stop ==
  /\ up
  /\ up' = FALSE
  /\ queue' = <<>> /\ creating' = {} /\ reading' = {}
  /\ worker' = [w \in Workers |-> Idle]
  /\ sweep' = NoSweep
  /\ UNCHANGED <<job, outcomes, artifact, saved, restores>>

\* Mutant: what failed is tried again.
InterruptedOrFailed == {j \in Jobs : Status(j) \in {"queued", "processing", "failed"}}

Interrupted == {j \in Jobs : Status(j) \in {"queued", "processing"}}

\* Mutant: the reset rows are not enqueued.
StartUpForgets ==
  /\ ~up
  /\ up' = TRUE
  /\ job' = [j \in Jobs |-> IF j \in Interrupted THEN [job[j] EXCEPT !.status = "queued"]
                            ELSE job[j]]
  /\ UNCHANGED <<outcomes, queue, creating, worker, artifact, sweep, reading, saved, restores>>

\* lifespan: recover_interrupted_jobs, whose ids are enqueued.
StartUp ==
  /\ ~up
  /\ up' = TRUE
  /\ job' = [j \in Jobs |-> IF j \in Interrupted THEN [job[j] EXCEPT !.status = "queued"]
                            ELSE job[j]]
  /\ \E order \in [1..Cardinality(Interrupted) -> Interrupted] :
       /\ \A j \in Interrupted : \E i \in DOMAIN order : order[i] = j
       /\ queue' = order
  /\ UNCHANGED <<outcomes, creating, worker, artifact, sweep, reading, saved, restores>>

\* The database is backed up, and later replaced by that backup while the
\* backend is down; the artifacts stay as they are.
Backup ==
  /\ up /\ saved = {} /\ restores < MaxRestores /\ \A j \in Rerun : Status(j) # "none"
  /\ saved' = {[job |-> j, row |-> job[j], outcomes |-> outcomes[j]] : j \in Rerun}
  /\ UNCHANGED <<up, job, outcomes, queue, creating, worker, artifact, sweep, reading,
                 restores>>

RestoreBackup ==
  /\ ~up /\ saved # {}
  /\ job' = [j \in Jobs |-> IF \E s \in saved : s.job = j
                              THEN (CHOOSE s \in saved : s.job = j).row ELSE job[j]]
  /\ outcomes' = [j \in Jobs |-> IF \E s \in saved : s.job = j
                              THEN (CHOOSE s \in saved : s.job = j).outcomes ELSE outcomes[j]]
  /\ saved' = {} /\ restores' = restores + 1
  /\ UNCHANGED <<up, queue, creating, worker, artifact, sweep, reading>>

Init ==
  /\ up = FALSE
  /\ job = [j \in Jobs |-> [status |-> "none", due |-> FALSE]]
  /\ outcomes = [j \in Jobs |-> 0]
  /\ queue = <<>> /\ creating = {} /\ reading = {} /\ saved = {} /\ restores = 0
  /\ worker = [w \in Workers |-> Idle]
  /\ artifact = [j \in Jobs |-> "missing"]
  /\ sweep = NoSweep

Request(j) == Create(j) \/ Enqueue(j) \/ Download(j) \/ Serve(j)
Work(w)    == Take(w) \/ Begin(w) \/ Generate(w) \/ GenerateFails(w) \/ Write(w)
                \/ WriteFails(w) \/ Complete(w) \/ Fail(w) \/ WorkerError(w)
Sweep(j)   == SweepUnlink(j) \/ SweepSkip(j)

Next ==
  \/ \E j \in Jobs : Request(j) \/ Age(j) \/ Sweep(j)
  \/ \E w \in Workers : Work(w)
  \/ SweepBegin \/ SweepCommit
  \/ Stop \/ StartUp \/ Backup \/ RestoreBackup

Holds(w, j) == worker[w].job = j

\* The backend is started again, and restarted once a day; a worker takes its
\* jobs, and a job that is begun again after every fault gets one step further
\* each time, when the step is tried for ever.
Fairness ==
  /\ WF_vars(StartUp) /\ WF_vars(Stop)
  /\ SF_vars(\E w \in Workers : Take(w))
  /\ \A j \in Jobs :
       LET Step(A(_)) == \E w \in Workers : Holds(w, j) /\ A(w)
       IN /\ SF_vars(Step(Begin)) /\ SF_vars(Step(Generate))
          /\ SF_vars(Step(Write)) /\ SF_vars(Step(Complete))

Spec     == Init /\ [][Next]_vars
FairSpec == Spec /\ Fairness

(***************************************************************************)
(* Properties.                                                             *)
(***************************************************************************)

Stages == {"wait", "begin", "generate", "writing", "finish", "fail"}
Row    == [status: {"none", "queued", "processing"} \cup Ended, due: BOOLEAN]

\* A worker that waits has no job.
TypeOK ==
  /\ up \in BOOLEAN
  /\ job \in [Jobs -> Row]
  /\ outcomes \in [Jobs -> Nat]
  /\ queue \in Seq(Jobs) /\ creating \subseteq Jobs /\ reading \subseteq Jobs
  /\ worker \in [Workers -> [job: Jobs \cup {NoJob}, stage: Stages]]
  /\ \A w \in Workers : At(w, "wait") <=> worker[w].job = NoJob
  /\ artifact \in [Jobs -> {"missing", "part", "whole"}]
  /\ sweep \in [on: BOOLEAN, selected: SUBSET Jobs, gone: SUBSET Jobs]
  /\ saved \subseteq [job: Jobs, row: Row, outcomes: Nat] /\ restores \in 0..MaxRestores

\* Nobody works on a job twice at a time: it is with its request, once in the
\* queue or with one worker.
Places(j) ==
  Cardinality({i \in DOMAIN queue : queue[i] = j})
    + Cardinality({w \in Workers : Holds(w, j)}) + Cardinality({j} \cap creating)
OneWorkerPerJob == \A j \in Jobs : Places(j) <= 1

\* An artifact that a download is given is whole: a run that was cut short, a
\* full disk, or a database from an older backup never show half of one.
PartIsNeverServed ==
  \A j \in Jobs : Status(j) = "completed" \/ j \in reading => artifact[j] # "part"

\* The audit trail has one attempt for a job that has ended and none before,
\* however often the job was begun again.
OneOutcome ==
  \A j \in Jobs : outcomes[j] = IF Status(j) \in Ended THEN 1 ELSE 0

\* A row that says expired has no file left.
ExpiredIsGone == \A j \in Jobs : Status(j) = "expired" => artifact[j] = "missing"

\* An export that was accepted ends, also when its worker gave up on it.
AcceptedEnds == \A j \in Jobs : Status(j) = "queued" ~> Status(j) \in Ended
=============================================================================
