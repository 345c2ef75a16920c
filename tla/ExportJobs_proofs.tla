-------------------------- MODULE ExportJobs_proofs --------------------------
(***************************************************************************)
(* Proofs about ExportJobs, for any finite set of jobs, any workers and    *)
(* any number of crashes, restarts and restored databases.                 *)
(***************************************************************************)
EXTENDS ExportJobs, FiniteSetTheorems, SequenceTheorems, TLAPS

USE WorkersAssumption, BoundsAssumption

-----------------------------------------------------------------------------
(* The inductive invariant *)

\* What the backend keeps in memory does not outlive it.
MemoryInv ==
  ~up => /\ queue = <<>> /\ creating = {} /\ reading = {} /\ sweep = NoSweep
         /\ \A w \in Workers : worker[w] = Idle

\* A job is in at most one place, and a job that is somewhere has a row.
PlaceInv ==
  /\ \A i, k \in DOMAIN queue : queue[i] = queue[k] => i = k
  /\ \A i \in DOMAIN queue : /\ queue[i] \notin creating /\ Status(queue[i]) # "none"
                             /\ \A w \in Workers : ~Holds(w, queue[i])
  /\ \A v, w \in Workers : worker[v].job = worker[w].job /\ worker[v].job # NoJob => v = w
  /\ \A w \in Workers : worker[w].job \in Jobs =>
       worker[w].job \notin creating /\ Status(worker[w].job) # "none"
  /\ \A j \in creating : Status(j) # "none"

\* Behind its first commit, and up to its last, a worker is alone with a row that
\* says processing.  What it is about to complete is written.
WorkInv ==
  \A w \in Workers :
    /\ worker[w].stage \in {"generate", "writing", "finish", "fail"} =>
         Status(worker[w].job) = "processing"
    /\ worker[w].stage = "finish" => artifact[worker[w].job] = "whole"

\* What the sweep has selected is completed until it commits.
SweepInv ==
  /\ sweep.on => up
  /\ ~sweep.on => sweep.selected = {} /\ sweep.gone = {}
  /\ \A j \in sweep.selected \cup sweep.gone : Status(j) = "completed"
  /\ \A j \in sweep.gone : artifact[j] = "missing"

FileInv ==
  /\ \A j \in Jobs : Status(j) = "completed" => artifact[j] # "part"
  /\ \A j \in Jobs : Status(j) = "expired" => artifact[j] = "missing"
  /\ \A j \in reading : Status(j) \in {"completed", "expired"}

\* A row in the backup that had an artifact, or had lost it, is the row of a job
\* that has gone no further since than to expire.
SavedInv ==
  \A s \in saved :
    /\ s.outcomes = IF s.row.status \in Ended THEN 1 ELSE 0
    /\ s.row.status = "completed" => Status(s.job) \in {"completed", "expired"}
    /\ s.row.status = "expired" => Status(s.job) = "expired"

IInv == MemoryInv /\ PlaceInv /\ WorkInv /\ SweepInv /\ FileInv /\ SavedInv /\ OneOutcome

-----------------------------------------------------------------------------
(* Type correctness *)

LEMMA RowTypes ==
  ASSUME NEW r \in Row
  PROVE  /\ [r EXCEPT !.due = TRUE] \in Row /\ [r EXCEPT !.status = "queued"] \in Row
         /\ [status |-> "expired", due |-> FALSE] \in Row
BY DEF Row, Ended

LEMMA SetType ==
  ASSUME NEW j \in Jobs, NEW s \in {"none", "queued", "processing"} \cup Ended,
         job \in [Jobs -> Row], Set(j, s)
  PROVE  job' \in [Jobs -> Row]
BY DEF Set, Row

WorkerType == /\ worker \in [Workers -> [job: Jobs \cup {NoJob}, stage: Stages]]
              /\ \A w \in Workers : At(w, "wait") <=> worker[w].job = NoJob

SweepType == sweep \in [on: BOOLEAN, selected: SUBSET Jobs, gone: SUBSET Jobs]

LEMMA EnqueueType ==
  ASSUME queue \in Seq(Jobs), NEW j \in Jobs, Enqueue(j)
  PROVE  queue' \in Seq(Jobs)
BY DEF Enqueue

LEMMA WorkerHasJob ==
  ASSUME TypeOK, NEW w \in Workers, ~At(w, "wait")
  PROVE  worker[w].job \in Jobs
BY DEF TypeOK, At

LEMMA WaitType ==
  ASSUME TypeOK, NEW w \in Workers, Wait(w)
  PROVE  WorkerType'
<1>1. worker' \in [Workers -> [job: Jobs \cup {NoJob}, stage: Stages]]
  BY DEF TypeOK, Wait, Idle, Stages
<1>2. \A v \in Workers : At(v, "wait")' <=> worker'[v].job = NoJob
  BY DEF TypeOK, Wait, Idle, At
<1> QED BY <1>1, <1>2 DEF WorkerType

LEMMA GoToType ==
  ASSUME TypeOK, NEW w \in Workers, NEW s \in Stages \ {"wait"}, ~At(w, "wait"), GoTo(w, s)
  PROVE  WorkerType'
<1>1. worker' \in [Workers -> [job: Jobs \cup {NoJob}, stage: Stages]]
  BY DEF TypeOK, GoTo
<1>2. \A v \in Workers : At(v, "wait")' <=> worker'[v].job = NoJob
  BY DEF TypeOK, GoTo, At
<1> QED BY <1>1, <1>2 DEF WorkerType

LEMMA GoToEffect ==
  ASSUME TypeOK, NEW w \in Workers, NEW s, GoTo(w, s)
  PROVE  worker'[w].job = worker[w].job /\ worker'[w].stage = s
BY DEF TypeOK, GoTo

\* recover_interrupted_jobs enqueues every interrupted job once.
LEMMA RecoveredOnce ==
  ASSUME NEW order \in [1..Cardinality(Interrupted) -> Interrupted],
         \A j \in Interrupted : \E i \in DOMAIN order : order[i] = j
  PROVE  /\ order \in Seq(Jobs)
         /\ \A i, k \in DOMAIN order : order[i] = order[k] => i = k
<1> DEFINE n == Cardinality(Interrupted)
<1>1. IsFiniteSet(Interrupted) /\ n \in Nat
  BY JobsAssumption, FS_Subset, FS_CardinalityType DEF Interrupted
<1>2. IsFiniteSet(1..n) /\ Cardinality(1..n) = n
  BY <1>1, FS_Interval
<1>3. order \in Surjection(1..n, Interrupted)
  BY DEF Surjection
<1>4. order \in Injection(1..n, Interrupted)
  BY <1>1, <1>2, <1>3, FS_SurjSameCardinalityImpliesInj
<1>5. order \in [1..n -> Jobs]
  BY DEF Interrupted
<1> QED BY <1>1, <1>4, <1>5 DEF Injection, IsInjective

\* A backup waits for its restore only while another restore is possible.
TypeInv == TypeOK /\ (saved # {} => restores < MaxRestores)

LEMMA TypeInit == Init => TypeInv
<1> SUFFICES ASSUME Init PROVE TypeInv
  OBVIOUS
<1>1. WorkerType
  BY DEF Init, Idle, Stages, At, WorkerType
<1>2. SweepType
  BY DEF Init, NoSweep, SweepType
<1>3. job \in [Jobs -> Row]
  BY DEF Init, Row
<1>4. queue \in Seq(Jobs) /\ outcomes \in [Jobs -> Nat] /\ restores \in 0..MaxRestores
  BY DEF Init
<1>5. artifact \in [Jobs -> {"missing", "part", "whole"}]
  BY DEF Init
<1> QED BY <1>1, <1>2, <1>3, <1>4, <1>5 DEF Init, TypeOK, TypeInv, WorkerType, SweepType

LEMMA TypeNext == TypeInv /\ [Next]_vars => TypeInv'
<1> SUFFICES ASSUME TypeInv, [Next]_vars PROVE TypeInv'
  OBVIOUS
<1> USE DEF TypeOK, TypeInv
<1>1. ASSUME NEW j \in Jobs, Request(j) PROVE TypeInv'
  <2>1. CASE Create(j)
    <3>1. job' \in [Jobs -> Row]
      BY <2>1, SetType DEF Create
    <3> QED BY <2>1, <3>1 DEF Create, At
  <2>2. CASE Enqueue(j)
    <3>1. queue' \in Seq(Jobs)
      BY <2>2, EnqueueType
    <3> QED BY <2>2, <3>1 DEF Enqueue, At
  <2>3. CASE Download(j)
    BY <2>3 DEF Download, At
  <2>4. CASE Serve(j)
    BY <2>4 DEF Serve, At
  <2> QED BY <1>1, <2>1, <2>2, <2>3, <2>4 DEF Request
<1>2. ASSUME NEW j \in Jobs, Age(j) PROVE TypeInv'
  <2>1. job' \in [Jobs -> Row]
    BY <1>2, RowTypes DEF Age
  <2> QED BY <1>2, <2>1 DEF Age, At
<1>3. ASSUME NEW j \in Jobs, Sweep(j) PROVE TypeInv'
  <2>1. CASE SweepUnlink(j)
    <3>1. SweepType'
      BY <2>1 DEF SweepUnlink, SweepType
    <3> QED BY <2>1, <3>1 DEF SweepUnlink, SweepType, At
  <2>2. CASE SweepSkip(j)
    <3>1. SweepType'
      BY <2>2 DEF SweepSkip, SweepType
    <3> QED BY <2>2, <3>1 DEF SweepSkip, SweepType, At
  <2> QED BY <1>3, <2>1, <2>2 DEF Sweep
<1>4. ASSUME NEW w \in Workers, Work(w) PROVE TypeInv'
  <2>1. CASE Take(w)
    <3>1. WorkerType'
      BY <2>1 DEF Take, Stages, At, WorkerType
    <3>2. queue' \in Seq(Jobs)
      BY <2>1 DEF Take
    <3> QED BY <2>1, <3>1, <3>2 DEF Take, WorkerType
  <2>2. CASE Begin(w)
    <3>1. worker[w].job \in Jobs
      BY <2>2, WorkerHasJob DEF Begin, At
    <3>2. job' \in [Jobs -> Row]
      BY <2>2, <3>1, SetType DEF Begin
    <3>3. WorkerType'
      BY <2>2, WaitType, GoToType DEF Begin, At, Stages
    <3> QED BY <2>2, <3>2, <3>3 DEF Begin, WorkerType
  <2>3. ASSUME GenerateFails(w) \/ Generate(w) \/ Write(w) \/ WriteFails(w) PROVE TypeInv'
    <3>1. artifact' \in [Jobs -> {"missing", "part", "whole"}]
      BY <2>3 DEF GenerateFails, Generate, Write, WriteFails
    <3>2. WorkerType'
      BY <2>3, GoToType DEF GenerateFails, Generate, Write, WriteFails, At, Stages
    <3>3. UNCHANGED <<up, job, outcomes, queue, creating, sweep, reading, saved, restores>>
      BY <2>3 DEF GenerateFails, Generate, Write, WriteFails
    <3> QED BY <3>1, <3>2, <3>3 DEF WorkerType
  <2>4. ASSUME Complete(w) \/ Fail(w) PROVE TypeInv'
    <3>1. worker[w].job \in Jobs
      BY <2>4, WorkerHasJob DEF Complete, Fail, Finish, At
    <3>2. job' \in [Jobs -> Row]
      BY <2>4, <3>1, SetType DEF Complete, Fail, Finish, Ended
    <3>3. outcomes' \in [Jobs -> Nat]
      BY <2>4, <3>1 DEF Complete, Fail, Finish
    <3>4. WorkerType'
      BY <2>4, WaitType DEF Complete, Fail, Finish
    <3> QED BY <2>4, <3>2, <3>3, <3>4 DEF Complete, Fail, Finish, WorkerType
  <2>5. CASE WorkerError(w)
    BY <2>5, WaitType DEF WorkerError, WorkerType
  <2> QED BY <1>4, <2>1, <2>2, <2>3, <2>4, <2>5 DEF Work
<1>5. CASE SweepBegin
  <2>1. SweepType'
    BY <1>5 DEF SweepBegin, Due, SweepType
  <2> QED BY <1>5, <2>1 DEF SweepBegin, SweepType, At
<1>6. CASE SweepCommit
  <2>1. SweepType'
    BY <1>6 DEF SweepCommit, NoSweep, SweepType
  <2>2. job' \in [Jobs -> Row]
    BY <1>6, RowTypes DEF SweepCommit
  <2> QED BY <1>6, <2>1, <2>2 DEF SweepCommit, SweepType, At
<1>7. CASE Stop
  <2>1. WorkerType'
    BY <1>7 DEF Stop, Idle, Stages, At, WorkerType
  <2>2. SweepType'
    BY <1>7 DEF Stop, NoSweep, SweepType
  <2>3. queue' \in Seq(Jobs)
    BY <1>7 DEF Stop
  <2> QED BY <1>7, <2>1, <2>2, <2>3 DEF Stop, WorkerType, SweepType
<1>8. CASE StartUp
  <2>1. queue' \in Seq(Jobs)
    <3>1. PICK order \in [1..Cardinality(Interrupted) -> Interrupted] :
            /\ \A j \in Interrupted : \E i \in DOMAIN order : order[i] = j
            /\ queue' = order
      BY <1>8 DEF StartUp
    <3> QED BY <3>1, RecoveredOnce
  <2>2. job' \in [Jobs -> Row]
    BY <1>8, RowTypes DEF StartUp
  <2> QED BY <1>8, <2>1, <2>2 DEF StartUp, At
<1>9. CASE Backup
  <2>1. \A j \in Rerun : [job |-> j, row |-> job[j], outcomes |-> outcomes[j]]
                           \in [job: Jobs, row: Row, outcomes: Nat]
    OBVIOUS
  <2>2. saved' \subseteq [job: Jobs, row: Row, outcomes: Nat]
    BY <1>9, <2>1 DEF Backup
  <2> QED BY <1>9, <2>2 DEF Backup, At
<1>10. CASE RestoreBackup
  <2>1. \A j \in Jobs : (\E s \in saved : s.job = j) =>
          (CHOOSE s \in saved : s.job = j) \in [job: Jobs, row: Row, outcomes: Nat]
    OBVIOUS
  <2>2. job' \in [Jobs -> Row]
    BY <1>10, <2>1 DEF RestoreBackup
  <2>3. outcomes' \in [Jobs -> Nat]
    BY <1>10, <2>1 DEF RestoreBackup
  <2> QED BY <1>10, <2>2, <2>3 DEF RestoreBackup, At
<1>11. CASE UNCHANGED vars
  BY <1>11 DEF vars, At
<1> QED BY <1>1, <1>2, <1>3, <1>4, <1>5, <1>6, <1>7, <1>8, <1>9, <1>10, <1>11 DEF Next

\* Every variable keeps its type.
THEOREM TypeCorrect == Spec => []TypeOK
BY TypeInit, TypeNext, PTL DEF Spec, TypeInv

-----------------------------------------------------------------------------
(* What the steps of a worker change *)

LEMMA WorkEffect ==
  ASSUME TypeOK, NEW w \in Workers, Work(w)
  PROVE  /\ UNCHANGED <<up, creating, sweep, reading, saved, restores>>
         /\ \A v \in Workers : v # w => worker'[v] = worker[v]
         /\ ~Take(w) => /\ queue' = queue /\ worker[w].job \in Jobs
                        /\ worker'[w].job \in {worker[w].job, NoJob}
         /\ \A j \in Jobs : j # worker[w].job =>
              job'[j] = job[j] /\ outcomes'[j] = outcomes[j] /\ artifact'[j] = artifact[j]
<1> USE DEF TypeOK
<1>1. CASE Take(w)
  BY <1>1 DEF Take
<1>2. CASE Begin(w)
  <2>1. worker[w].job \in Jobs
    BY <1>2, WorkerHasJob DEF Begin, At
  <2> QED BY <1>2, <2>1 DEF Begin, Set, GoTo, Wait, Idle
<1>3. ASSUME GenerateFails(w) \/ Generate(w) \/ Write(w) \/ WriteFails(w)
      PROVE  /\ UNCHANGED <<up, creating, sweep, reading, saved, restores, queue, job, outcomes>>
             /\ worker[w].job \in Jobs
             /\ \E s \in Stages : GoTo(w, s)
             /\ \A j \in Jobs : j # worker[w].job => artifact'[j] = artifact[j]
  <2>1. worker[w].job \in Jobs
    BY <1>3, WorkerHasJob DEF GenerateFails, Generate, Write, WriteFails, At
  <2>2. \E s \in Stages : GoTo(w, s)
    BY <1>3 DEF GenerateFails, Generate, Write, WriteFails, Stages
  <2> QED BY <1>3, <2>1, <2>2 DEF GenerateFails, Generate, Write, WriteFails
<1>4. CASE GenerateFails(w) \/ Generate(w) \/ Write(w) \/ WriteFails(w)
  BY <1>3, <1>4 DEF GoTo
<1>5. ASSUME Complete(w) \/ Fail(w)
      PROVE  /\ UNCHANGED <<up, creating, sweep, reading, saved, restores, queue, artifact>>
             /\ worker[w].job \in Jobs /\ Wait(w)
             /\ \A j \in Jobs : j # worker[w].job =>
                  job'[j] = job[j] /\ outcomes'[j] = outcomes[j]
  <2>1. worker[w].job \in Jobs
    BY <1>5, WorkerHasJob DEF Complete, Fail, Finish, At
  <2> QED BY <1>5, <2>1 DEF Complete, Fail, Finish, Set
<1>6. CASE Complete(w) \/ Fail(w)
  BY <1>5, <1>6 DEF Wait, Idle
<1>7. CASE WorkerError(w)
  <2>1. worker[w].job \in Jobs
    BY <1>7 DEF WorkerError
  <2> QED BY <1>7, <2>1 DEF WorkerError, Wait, Idle
<1> QED BY <1>1, <1>2, <1>4, <1>6, <1>7 DEF Work

\* A worker leaves the job alone that has ended, and never unmakes a row.
LEMMA WorkKeepsEnded ==
  ASSUME TypeOK, WorkInv, NEW w \in Workers, Work(w), NEW j \in Jobs
  PROVE  /\ Status(j) \in Ended =>
              job'[j] = job[j] /\ outcomes'[j] = outcomes[j] /\ artifact'[j] = artifact[j]
         /\ Status(j) # "none" => Status(j)' # "none"
<1> USE DEF TypeOK
<1>1. CASE j # worker[w].job
  BY <1>1, WorkEffect DEF Status
<1>2. CASE Take(w) \/ WorkerError(w)
  BY <1>2 DEF Take, WorkerError, Status
<1>3. CASE j = worker[w].job /\ Begin(w)
  BY <1>3 DEF Begin, Set, Status, Ended
<1>4. CASE j = worker[w].job /\ (GenerateFails(w) \/ Generate(w) \/ Write(w) \/ WriteFails(w))
  BY <1>4 DEF WorkInv, GenerateFails, Generate, Write, WriteFails, At, Status, Ended
<1>5. CASE j = worker[w].job /\ (Complete(w) \/ Fail(w))
  BY <1>5 DEF WorkInv, Complete, Fail, Finish, Set, At, Status, Ended
<1> QED BY <1>1, <1>2, <1>3, <1>4, <1>5 DEF Work

\* A job that has ended stays ended, except that a completed one may expire;
\* only a restored database takes it back.
LEMMA EndedStays ==
  ASSUME TypeOK, WorkInv, SweepInv, [Next]_vars, ~RestoreBackup, NEW j \in Jobs
  PROVE  /\ Status(j) \in Ended =>
              Status(j)' = Status(j) \/ (Status(j) = "completed" /\ Status(j)' = "expired")
         /\ Status(j) # "none" => Status(j)' # "none"
<1> USE DEF TypeOK
<1>1. CASE \E k \in Jobs : Create(k)
  BY <1>1 DEF Create, Set, Status, Ended
<1>2. CASE \E k \in Jobs : Enqueue(k) \/ Download(k) \/ Serve(k) \/ Sweep(k)
  BY <1>2 DEF Enqueue, Download, Serve, Sweep, SweepUnlink, SweepSkip, Status
<1>3. CASE \E k \in Jobs : Age(k)
  <2>1. PICK k \in Jobs : job' = [job EXCEPT ![k] = [job[k] EXCEPT !.due = TRUE]]
    BY <1>3 DEF Age
  <2> QED BY <2>1, RowTypes DEF Status, Row
<1>4. CASE \E w \in Workers : Work(w)
  BY <1>4, WorkKeepsEnded DEF Status
<1>5. CASE SweepCommit
  BY <1>5 DEF SweepCommit, SweepInv, Status
<1>6. CASE StartUp
  BY <1>6 DEF StartUp, Interrupted, Status, Ended
<1>7. CASE SweepBegin \/ Stop \/ Backup \/ UNCHANGED vars
  BY <1>7 DEF SweepBegin, Stop, Backup, vars, Status
<1> QED BY <1>1, <1>2, <1>3, <1>4, <1>5, <1>6, <1>7 DEF Next, Request

-----------------------------------------------------------------------------
(* The parts of the invariant *)

LEMMA IInvInit == Init => IInv
<1> SUFFICES ASSUME Init PROVE IInv
  OBVIOUS
<1>1. MemoryInv /\ PlaceInv /\ WorkInv
  BY DEF Init, MemoryInv, PlaceInv, WorkInv, Idle, Holds
<1>2. SweepInv
  BY DEF Init, SweepInv, NoSweep
<1>3. FileInv /\ SavedInv /\ OneOutcome
  BY DEF Init, FileInv, SavedInv, OneOutcome, Status, Ended
<1> QED BY <1>1, <1>2, <1>3 DEF IInv

LEMMA MemoryNext == TypeOK /\ MemoryInv /\ SweepInv /\ [Next]_vars => MemoryInv'
<1> SUFFICES ASSUME TypeOK, MemoryInv, SweepInv, [Next]_vars PROVE MemoryInv'
  OBVIOUS
<1> USE DEF MemoryInv
<1>1. CASE \E j \in Jobs : Request(j) \/ Age(j)
  BY <1>1 DEF Request, Create, Enqueue, Download, Serve, Age
<1>2. CASE \E j \in Jobs : Sweep(j)
  BY <1>2 DEF Sweep, SweepUnlink, SweepSkip, NoSweep
<1>3. CASE \E w \in Workers : Work(w)
  <2>1. PICK w \in Workers : Work(w)
    BY <1>3
  <2>2. ~(queue = <<>> /\ worker[w] = Idle)
    BY <2>1 DEF Work, Take, Begin, Generate, GenerateFails, Write, WriteFails, Complete, Fail,
                Finish, WorkerError, At, Idle
  <2>3. up' = up
    BY <2>1, WorkEffect
  <2> QED BY <2>2, <2>3
<1>4. CASE SweepBegin \/ SweepCommit
  BY <1>4 DEF SweepBegin, SweepCommit, SweepInv
<1>5. CASE Stop \/ StartUp
  BY <1>5 DEF Stop, StartUp
<1>6. CASE Backup \/ RestoreBackup \/ UNCHANGED vars
  BY <1>6 DEF Backup, RestoreBackup, vars
<1> QED BY <1>1, <1>2, <1>3, <1>4, <1>5, <1>6 DEF Next

LEMMA PlaceNext ==
  TypeOK /\ MemoryInv /\ PlaceInv /\ WorkInv /\ SweepInv /\ [Next]_vars => PlaceInv'
<1> SUFFICES ASSUME TypeOK, MemoryInv, PlaceInv, WorkInv, SweepInv, [Next]_vars
             PROVE  PlaceInv'
  OBVIOUS
<1>0. queue \in Seq(Jobs) /\ creating \subseteq Jobs
  BY DEF TypeOK
<1>1. ~RestoreBackup => \A j \in Jobs : Status(j) # "none" => Status(j)' # "none"
  BY EndedStays
<1>2. ASSUME UNCHANGED <<queue, creating, worker>>, ~RestoreBackup PROVE PlaceInv'
  BY <1>0, <1>1, <1>2 DEF PlaceInv, Holds
<1>3. ASSUME NEW j \in Jobs, Create(j) PROVE PlaceInv'
  <2>1. Status(j) = "none" /\ Status(j)' # "none" /\ ~RestoreBackup
    BY <1>3 DEF Create, Set, Status, TypeOK, RestoreBackup
  <2>2. creating' = creating \cup {j} /\ UNCHANGED <<queue, worker>>
    BY <1>3 DEF Create
  <2> QED BY <1>0, <1>1, <2>1, <2>2 DEF PlaceInv, Holds
<1>4. ASSUME NEW j \in Jobs, Enqueue(j) PROVE PlaceInv'
  <2>1. j \in creating /\ creating' = creating \ {j} /\ UNCHANGED <<job, worker>>
    BY <1>4 DEF Enqueue
  <2>2. CASE queue' = queue
    BY <2>1, <2>2 DEF PlaceInv, Holds, Status
  <2>3. CASE queue' = Append(queue, j)
    <3>1. /\ DOMAIN queue' = 1..(Len(queue) + 1) /\ DOMAIN queue = 1..Len(queue)
          /\ \A i \in DOMAIN queue : queue'[i] = queue[i]
          /\ queue'[Len(queue) + 1] = j
      BY <1>0, <2>3, AppendProperties, LenProperties
    <3>2. \A i \in DOMAIN queue : queue[i] # j
      BY <2>1 DEF PlaceInv
    <3>3. Len(queue) \in Nat
      BY <1>0
    <3>4. \A i \in DOMAIN queue' : i \in DOMAIN queue \/ i = Len(queue) + 1
      BY <3>1, <3>3
    <3> QED BY <2>1, <3>1, <3>2, <3>4 DEF PlaceInv, Holds, Status
  <2> QED BY <1>4, <2>2, <2>3 DEF Enqueue
<1>5. ASSUME NEW w \in Workers, Work(w) PROVE PlaceInv'
  <2>1. /\ UNCHANGED creating /\ ~RestoreBackup
        /\ \A v \in Workers : v # w => worker'[v] = worker[v]
    BY <1>5, WorkEffect DEF RestoreBackup, TypeOK
  <2>2. CASE Take(w)
    <3>1. queue # <<>> /\ worker'[w].job = queue[1] /\ worker[w].job = NoJob
      BY <1>0, <2>2 DEF Take, TypeOK, At
    <3>2. /\ DOMAIN queue' = 1..(Len(queue) - 1) /\ Len(queue) \in Nat \ {0}
          /\ DOMAIN queue = 1..Len(queue)
          /\ \A i \in DOMAIN queue' : queue'[i] = queue[i + 1] /\ i + 1 \in DOMAIN queue
      BY <1>0, <2>2, HeadTailProperties, LenProperties DEF Take
    <3>3. \A i \in DOMAIN queue' : i + 1 # 1 /\ (\A k \in DOMAIN queue' : i + 1 = k + 1 => i = k)
      BY <3>2
    <3>4. 1 \in DOMAIN queue
      BY <3>2
    <3> QED BY <1>0, <1>1, <2>1, <3>1, <3>2, <3>3, <3>4 DEF PlaceInv, Holds
  <2>3. CASE ~Take(w)
    <3>1. /\ queue' = queue /\ worker[w].job \in Jobs
          /\ worker'[w].job \in {worker[w].job, NoJob}
      BY <1>5, <2>3, WorkEffect
    <3> QED BY <1>0, <1>1, <2>1, <3>1 DEF PlaceInv, Holds
  <2> QED BY <2>2, <2>3
<1>6. CASE Stop
  BY <1>6 DEF Stop, PlaceInv, Idle, Holds
<1>7. CASE StartUp
  <2>1. PICK order \in [1..Cardinality(Interrupted) -> Interrupted] :
          /\ \A j \in Interrupted : \E i \in DOMAIN order : order[i] = j
          /\ queue' = order
    BY <1>7 DEF StartUp
  <2>2. creating' = {} /\ \A w \in Workers : worker'[w] = Idle
    BY <1>7 DEF StartUp, MemoryInv
  <2>3. \A i, k \in DOMAIN queue' : queue'[i] = queue'[k] => i = k
    BY <2>1, RecoveredOnce
  <2>4. \A i \in DOMAIN queue' : queue'[i] \in Jobs /\ Status(queue'[i]) # "none"
    BY <2>1 DEF Interrupted
  <2>5. ~RestoreBackup
    BY <1>7 DEF StartUp, RestoreBackup
  <2> QED BY <1>1, <2>2, <2>3, <2>4, <2>5 DEF PlaceInv, Idle, Holds
<1>8. CASE RestoreBackup
  BY <1>8 DEF RestoreBackup, MemoryInv, PlaceInv, Idle, Holds
<1>9. CASE \/ \E j \in Jobs : Download(j) \/ Serve(j) \/ Age(j) \/ Sweep(j)
           \/ SweepBegin \/ SweepCommit \/ Backup \/ UNCHANGED vars
  <2>1. UNCHANGED <<queue, creating, worker>>
    BY <1>9 DEF Download, Serve, Age, Sweep, SweepUnlink, SweepSkip, SweepBegin, SweepCommit,
                Backup, vars
  <2> QED BY <1>2, <1>8, <2>1
<1> QED BY <1>3, <1>4, <1>5, <1>6, <1>7, <1>8, <1>9 DEF Next, Request

LEMMA WorkNext ==
  TypeOK /\ MemoryInv /\ PlaceInv /\ WorkInv /\ SweepInv /\ [Next]_vars => WorkInv'
<1> SUFFICES ASSUME TypeOK, MemoryInv, PlaceInv, WorkInv, SweepInv, [Next]_vars
             PROVE  WorkInv'
  OBVIOUS
<1> DEFINE Busy == {"generate", "writing", "finish", "fail"}
<1>1. \A w \in Workers : worker[w].stage \in Busy =>
        worker[w].job \in Jobs /\ Status(worker[w].job) = "processing"
  BY WorkerHasJob DEF WorkInv, At
<1>2. ASSUME UNCHANGED worker,
             \A w \in Workers : worker[w].stage \in Busy =>
               /\ job'[worker[w].job] = job[worker[w].job]
               /\ artifact'[worker[w].job] = artifact[worker[w].job]
      PROVE  WorkInv'
  BY <1>2 DEF WorkInv, Status
<1>3. CASE \E j \in Jobs : Request(j)
  <2>1. PICK j \in Jobs : Request(j)
    BY <1>3
  <2>2. UNCHANGED <<worker, artifact>>
    BY <2>1 DEF Request, Create, Enqueue, Download, Serve
  <2>3. \A k \in Jobs : Status(k) = "processing" => job'[k] = job[k]
    BY <2>1 DEF Request, Create, Enqueue, Download, Serve, Set, TypeOK, Status
  <2> QED BY <1>1, <1>2, <2>2, <2>3
<1>4. CASE \E j \in Jobs : Age(j)
  <2>1. UNCHANGED <<worker, artifact>>
    BY <1>4 DEF Age
  <2>2. \A k \in Jobs : Status(k) = "processing" => job'[k] = job[k]
    BY <1>4 DEF Age, TypeOK, Status
  <2> QED BY <1>1, <1>2, <2>1, <2>2
<1>5. CASE \E j \in Jobs : Sweep(j)
  <2>1. UNCHANGED <<worker, job>>
    BY <1>5 DEF Sweep, SweepUnlink, SweepSkip
  <2>2. \A k \in Jobs : Status(k) = "processing" => artifact'[k] = artifact[k]
    BY <1>5 DEF Sweep, SweepUnlink, SweepSkip, SweepInv, TypeOK
  <2> QED BY <1>1, <1>2, <2>1, <2>2
<1>6. CASE \E w \in Workers : Work(w)
  <2>1. PICK w \in Workers : Work(w)
    BY <1>6
  <2>2. ASSUME NEW v \in Workers, v # w, worker[v].stage \in Busy
        PROVE  worker[v].job # worker[w].job
    BY <1>1, <2>2 DEF PlaceInv, TypeOK
  <2>3. ASSUME NEW v \in Workers, v # w
        PROVE  /\ worker'[v].stage \in Busy => job'[worker'[v].job].status = "processing"
               /\ worker'[v].stage = "finish" => artifact'[worker'[v].job] = "whole"
    BY <1>1, <2>1, <2>2, <2>3, WorkEffect DEF WorkInv, Status
  <2>4. /\ worker'[w].stage \in Busy => job'[worker'[w].job].status = "processing"
        /\ worker'[w].stage = "finish" => artifact'[worker'[w].job] = "whole"
    <3> USE DEF TypeOK
    <3>1. CASE Take(w)
      BY <3>1 DEF Take
    <3>2. CASE Begin(w)
      <4>1. worker[w].job \in Jobs
        BY <3>2, WorkerHasJob DEF Begin, At
      <4>2. CASE Wait(w)
        BY <4>2 DEF Wait, Idle
      <4>3. CASE Set(worker[w].job, "processing") /\ GoTo(w, "generate")
        <5>1. worker'[w].job = worker[w].job /\ worker'[w].stage = "generate"
          BY <4>3, GoToEffect
        <5>2. job'[worker[w].job].status = "processing"
          BY <4>1, <4>3 DEF Set, Status
        <5> QED BY <5>1, <5>2
      <4> QED BY <3>2, <4>2, <4>3 DEF Begin
    <3>3. ASSUME GenerateFails(w) \/ Generate(w) \/ WriteFails(w) \/ Write(w)
          PROVE  /\ worker'[w].stage \in Busy => job'[worker'[w].job].status = "processing"
                 /\ worker'[w].stage = "finish" => artifact'[worker'[w].job] = "whole"
      <4>1. Status(worker[w].job) = "processing" /\ worker[w].job \in Jobs
        BY <1>1, <3>3 DEF GenerateFails, Generate, WriteFails, Write, At
      <4>2. job' = job /\ worker'[w].job = worker[w].job
        BY <3>3, GoToEffect DEF GenerateFails, Generate, WriteFails, Write
      <4>3. ~Write(w) => worker'[w].stage # "finish"
        BY <3>3, GoToEffect DEF GenerateFails, Generate, WriteFails
      <4>4. Write(w) => artifact'[worker[w].job] = "whole"
        BY <4>1 DEF Write
      <4> QED BY <4>1, <4>2, <4>3, <4>4 DEF Status
    <3>4. CASE GenerateFails(w) \/ Generate(w) \/ WriteFails(w) \/ Write(w)
      BY <3>3, <3>4
    <3>5. CASE Complete(w) \/ Fail(w) \/ WorkerError(w)
      BY <3>5 DEF Complete, Fail, Finish, WorkerError, Wait, Idle
    <3> QED BY <2>1, <3>1, <3>2, <3>3, <3>4, <3>5 DEF Work
  <2>5. \A v \in Workers :
          /\ worker'[v].stage \in Busy => job'[worker'[v].job].status = "processing"
          /\ worker'[v].stage = "finish" => artifact'[worker'[v].job] = "whole"
    BY <2>3, <2>4
  <2> QED BY <2>5 DEF WorkInv, Status
<1>7. CASE SweepBegin
  BY <1>2, <1>7 DEF SweepBegin
<1>8. CASE SweepCommit
  <2>1. UNCHANGED <<worker, artifact>>
    BY <1>8 DEF SweepCommit
  <2>2. \A k \in Jobs : Status(k) = "processing" => job'[k] = job[k]
    BY <1>8 DEF SweepCommit, SweepInv, TypeOK
  <2> QED BY <1>1, <1>2, <2>1, <2>2
<1>9. CASE Stop \/ StartUp \/ RestoreBackup
  <2>1. \A w \in Workers : worker'[w] = Idle
    BY <1>9 DEF Stop, StartUp, RestoreBackup, MemoryInv
  <2> QED BY <2>1 DEF WorkInv, Idle
<1>10. CASE Backup \/ UNCHANGED vars
  BY <1>2, <1>10 DEF Backup, vars
<1> QED BY <1>3, <1>4, <1>5, <1>6, <1>7, <1>8, <1>9, <1>10 DEF Next

LEMMA SweepNext ==
  TypeOK /\ MemoryInv /\ WorkInv /\ SweepInv /\ [Next]_vars => SweepInv'
<1> SUFFICES ASSUME TypeOK, MemoryInv, WorkInv, SweepInv, [Next]_vars PROVE SweepInv'
  OBVIOUS
<1>1. sweep.selected \subseteq Jobs /\ sweep.gone \subseteq Jobs
  BY DEF TypeOK
<1>2. ASSUME UNCHANGED <<up, sweep>>,
             \A j \in Jobs : Status(j) = "completed" =>
               Status(j)' = "completed" /\ (artifact[j] = "missing" => artifact'[j] = "missing")
      PROVE  SweepInv'
  BY <1>1, <1>2 DEF SweepInv
<1>3. CASE \E j \in Jobs : Request(j)
  <2>1. UNCHANGED <<up, sweep, artifact>>
    BY <1>3 DEF Request, Create, Enqueue, Download, Serve
  <2>2. \A k \in Jobs : Status(k) = "completed" => Status(k)' = "completed"
    BY <1>3 DEF Request, Create, Enqueue, Download, Serve, Set, TypeOK, Status
  <2> QED BY <1>2, <2>1, <2>2
<1>4. CASE \E j \in Jobs : Age(j)
  <2>1. PICK j \in Jobs : job' = [job EXCEPT ![j] = [job[j] EXCEPT !.due = TRUE]]
    BY <1>4 DEF Age
  <2>2. \A k \in Jobs : Status(k) = "completed" => Status(k)' = "completed"
    BY <2>1 DEF TypeOK, Row, Status
  <2>3. UNCHANGED <<up, sweep, artifact>>
    BY <1>4 DEF Age
  <2> QED BY <1>2, <2>2, <2>3
<1>5. CASE \E j \in Jobs : SweepUnlink(j)
  <2>1. PICK j \in Jobs : SweepUnlink(j)
    BY <1>5
  <2>2. /\ sweep'.on = sweep.on /\ sweep'.selected = sweep.selected \ {j}
        /\ sweep'.gone = sweep.gone \cup {j} /\ j \in sweep.selected
    BY <2>1 DEF SweepUnlink, TypeOK
  <2>3. \A k \in Jobs : artifact'[k] = IF k = j THEN "missing" ELSE artifact[k]
    BY <2>1 DEF SweepUnlink, TypeOK
  <2>4. UNCHANGED <<up, job>>
    BY <2>1 DEF SweepUnlink
  <2> QED BY <1>1, <2>2, <2>3, <2>4 DEF SweepInv, Status
<1>6. CASE \E j \in Jobs : SweepSkip(j)
  <2>1. /\ sweep'.on = sweep.on /\ sweep'.selected \subseteq sweep.selected
        /\ sweep'.gone = sweep.gone
    BY <1>6 DEF SweepSkip, TypeOK
  <2>2. UNCHANGED <<up, job, artifact>>
    BY <1>6 DEF SweepSkip
  <2> QED BY <1>1, <2>1, <2>2 DEF SweepInv, Status
<1>7. CASE \E w \in Workers : Work(w)
  <2>1. PICK w \in Workers : Work(w)
    BY <1>7
  <2>2. UNCHANGED <<up, sweep>>
    BY <2>1, WorkEffect
  <2> QED BY <1>2, <2>1, <2>2, WorkKeepsEnded DEF Status, Ended
<1>8. CASE SweepBegin
  BY <1>8 DEF SweepBegin, SweepInv, Due, Status
<1>9. CASE SweepCommit \/ Stop
  BY <1>9 DEF SweepCommit, Stop, NoSweep, SweepInv
<1>10. CASE StartUp \/ RestoreBackup
  BY <1>10 DEF StartUp, RestoreBackup, MemoryInv, NoSweep, SweepInv
<1>11. CASE Backup \/ UNCHANGED vars
  BY <1>2, <1>11 DEF Backup, vars, Status
<1> QED BY <1>3, <1>4, <1>5, <1>6, <1>7, <1>8, <1>9, <1>10, <1>11 DEF Next, Sweep

\* Only a worker that completes a job makes it completed, and only the sweep's
\* commit makes it expired.
LEMMA EndingSteps ==
  ASSUME TypeOK, WorkInv, NEW w \in Workers, Work(w), NEW j \in Jobs, Status(j) \notin Ended
  PROVE  /\ Status(j)' # "expired"
         /\ Status(j)' = "completed" => artifact'[j] = "whole"
         /\ outcomes'[j] = outcomes[j] + (IF Status(j)' \in Ended THEN 1 ELSE 0)
<1> USE DEF TypeOK
<1>1. outcomes[j] \in Nat
  OBVIOUS
<1>2. CASE j # worker[w].job \/ Take(w) \/ WorkerError(w)
  <2>1. job'[j] = job[j] /\ outcomes'[j] = outcomes[j]
    BY <1>2, WorkEffect DEF Take, WorkerError
  <2> QED BY <1>1, <2>1 DEF Status, Ended
<1>3. CASE j = worker[w].job /\ Begin(w)
  BY <1>1, <1>3 DEF Begin, Set, Status, Ended
<1>4. CASE GenerateFails(w) \/ Generate(w) \/ Write(w) \/ WriteFails(w)
  <2>1. job' = job /\ outcomes' = outcomes
    BY <1>4 DEF GenerateFails, Generate, Write, WriteFails
  <2> QED BY <1>1, <2>1 DEF Status, Ended
<1>5. CASE j = worker[w].job /\ Complete(w)
  BY <1>1, <1>5 DEF WorkInv, Complete, Finish, Set, At, Status, Ended
<1>6. CASE j = worker[w].job /\ Fail(w)
  BY <1>1, <1>6 DEF WorkInv, Fail, Finish, Set, At, Status, Ended
<1> QED BY <1>2, <1>3, <1>4, <1>5, <1>6 DEF Work

LEMMA FileNext ==
  TypeOK /\ MemoryInv /\ WorkInv /\ SweepInv /\ FileInv /\ SavedInv /\ [Next]_vars => FileInv'
<1> SUFFICES ASSUME TypeOK, MemoryInv, WorkInv, SweepInv, FileInv, SavedInv, [Next]_vars
             PROVE  FileInv'
  OBVIOUS
<1>0. reading \subseteq Jobs
  BY DEF TypeOK
<1>1. ASSUME reading' \subseteq reading,
             \A j \in Jobs : \/ Status(j)' \notin {"completed", "expired"}
                                /\ Status(j) \notin {"completed", "expired"}
                             \/ Status(j)' = Status(j) /\ artifact'[j] \in {artifact[j], "missing"}
                             \/ Status(j)' = "completed" /\ artifact'[j] = "whole"
                             \/ Status(j)' = "expired" /\ artifact'[j] = "missing"
      PROVE  FileInv'
  BY <1>0, <1>1 DEF FileInv
<1>2. CASE \E j \in Jobs : Create(j) \/ Enqueue(j) \/ Serve(j)
  <2>1. reading' \subseteq reading /\ artifact' = artifact
    BY <1>2 DEF Create, Enqueue, Serve
  <2>2. \A k \in Jobs : Status(k)' = Status(k) \/ (Status(k) = "none" /\ Status(k)' = "queued")
    <3>1. (\E k \in Jobs : Create(k)) \/ job' = job
      BY <1>2 DEF Enqueue, Serve
    <3>2. ASSUME NEW j \in Jobs, Create(j)
          PROVE  \A k \in Jobs : job'[k] = job[k] \/ (Status(k) = "none" /\ Status(k)' = "queued")
      BY <3>2 DEF Create, Set, Status, TypeOK
    <3> QED BY <3>1, <3>2 DEF Status
  <2> QED BY <1>1, <2>1, <2>2
<1>3. CASE \E j \in Jobs : Download(j)
  BY <1>3 DEF Download, FileInv, Status
<1>4. CASE \E j \in Jobs : Age(j)
  <2>1. PICK j \in Jobs : job' = [job EXCEPT ![j] = [job[j] EXCEPT !.due = TRUE]]
    BY <1>4 DEF Age
  <2>2. \A k \in Jobs : Status(k)' = Status(k)
    BY <2>1 DEF TypeOK, Row, Status
  <2>3. UNCHANGED <<reading, artifact>>
    BY <1>4 DEF Age
  <2> QED BY <1>1, <2>2, <2>3
<1>5. CASE \E j \in Jobs : Sweep(j)
  <2>1. UNCHANGED <<job, reading>>
    BY <1>5 DEF Sweep, SweepUnlink, SweepSkip
  <2>2. \A k \in Jobs : artifact'[k] \in {artifact[k], "missing"}
    BY <1>5 DEF Sweep, SweepUnlink, SweepSkip, TypeOK
  <2> QED BY <1>1, <2>1, <2>2 DEF Status
<1>6. CASE \E w \in Workers : Work(w)
  <2>1. PICK w \in Workers : Work(w)
    BY <1>6
  <2>2. reading' = reading
    BY <2>1, WorkEffect
  <2> QED BY <1>1, <2>1, <2>2, EndingSteps, WorkKeepsEnded DEF Status, Ended
<1>7. CASE SweepBegin \/ Backup \/ UNCHANGED vars
  BY <1>1, <1>7 DEF SweepBegin, Backup, vars, Status
<1>8. CASE SweepCommit
  BY <1>1, <1>8 DEF SweepCommit, SweepInv, Status
<1>9. CASE Stop
  BY <1>1, <1>9 DEF Stop, Status
<1>10. CASE StartUp
  <2>1. UNCHANGED <<reading, artifact>>
    BY <1>10 DEF StartUp
  <2>2. \A j \in Jobs : Status(j)' = IF j \in Interrupted THEN "queued" ELSE Status(j)
    BY <1>10 DEF StartUp, TypeOK, Row, Status
  <2> QED BY <1>1, <2>1, <2>2 DEF Interrupted
<1>11. CASE RestoreBackup
  <2>1. reading' = {} /\ artifact' = artifact
    BY <1>11 DEF RestoreBackup, MemoryInv
  <2>2. ASSUME NEW j \in Jobs
        PROVE  \/ Status(j)' = Status(j)
               \/ \E s \in saved : s.job = j /\ Status(j)' = s.row.status
    <3>1. CASE \E s \in saved : s.job = j
      <4>1. (CHOOSE s \in saved : s.job = j) \in saved /\ (CHOOSE s \in saved : s.job = j).job = j
        BY <3>1
      <4>2. job'[j] = (CHOOSE s \in saved : s.job = j).row
        BY <1>11, <3>1 DEF RestoreBackup
      <4> QED BY <4>1, <4>2 DEF Status
    <3>2. CASE ~\E s \in saved : s.job = j
      BY <1>11, <3>2 DEF RestoreBackup, Status
    <3> QED BY <3>1, <3>2
  <2> QED BY <2>1, <2>2 DEF FileInv, SavedInv
<1> QED BY <1>2, <1>3, <1>4, <1>5, <1>6, <1>7, <1>8, <1>9, <1>10, <1>11 DEF Next, Request

LEMMA SavedNext ==
  TypeOK /\ MemoryInv /\ WorkInv /\ SweepInv /\ SavedInv /\ OneOutcome /\ [Next]_vars => SavedInv'
<1> SUFFICES ASSUME TypeOK, MemoryInv, WorkInv, SweepInv, SavedInv, OneOutcome, [Next]_vars
             PROVE  SavedInv'
  OBVIOUS
<1>1. \A s \in saved : s.job \in Jobs
  BY DEF TypeOK
<1>2. CASE Backup
  <2>1. \A j \in Rerun : outcomes[j] = IF job[j].status \in Ended THEN 1 ELSE 0
    BY DEF OneOutcome, Status
  <2>2. \A s \in saved' : \E j \in Rerun :
          s = [job |-> j, row |-> job[j], outcomes |-> outcomes[j]]
    BY <1>2 DEF Backup
  <2>3. job' = job
    BY <1>2 DEF Backup
  <2> QED BY <2>1, <2>2, <2>3 DEF SavedInv, Status
<1>3. CASE RestoreBackup
  BY <1>3 DEF RestoreBackup, SavedInv
<1>4. CASE ~Backup /\ ~RestoreBackup
  <2>1. saved' = saved
    <3>1. (\E w \in Workers : Work(w)) => saved' = saved
      BY WorkEffect
    <3> QED BY <1>4, <3>1 DEF Next, Request, Create, Enqueue, Download, Serve, Age, Sweep,
               SweepUnlink, SweepSkip, SweepBegin, SweepCommit, Stop, StartUp, vars
  <2> QED BY <1>1, <1>4, <2>1, EndedStays DEF SavedInv, Ended
<1> QED BY <1>2, <1>3, <1>4

LEMMA OutcomeNext ==
  TypeOK /\ WorkInv /\ SweepInv /\ SavedInv /\ OneOutcome /\ [Next]_vars => OneOutcome'
<1> SUFFICES ASSUME TypeOK, WorkInv, SweepInv, SavedInv, OneOutcome, [Next]_vars,
                    NEW j \in Jobs
             PROVE  outcomes'[j] = IF Status(j)' \in Ended THEN 1 ELSE 0
  BY DEF OneOutcome
<1>0. outcomes[j] = IF Status(j) \in Ended THEN 1 ELSE 0
  BY DEF OneOutcome
<1>1. CASE \E w \in Workers : Work(w)
  BY <1>0, <1>1, EndingSteps, WorkKeepsEnded DEF Status
<1>2. CASE RestoreBackup
  <2>1. CASE \E s \in saved : s.job = j
    <3>1. (CHOOSE s \in saved : s.job = j) \in saved
      BY <2>1
    <3>2. /\ job'[j] = (CHOOSE s \in saved : s.job = j).row
          /\ outcomes'[j] = (CHOOSE s \in saved : s.job = j).outcomes
      BY <1>2, <2>1 DEF RestoreBackup
    <3> QED BY <3>1, <3>2 DEF Status, SavedInv
  <2>2. CASE ~\E s \in saved : s.job = j
    BY <1>0, <1>2, <2>2 DEF RestoreBackup, Status
  <2> QED BY <2>1, <2>2
<1>3. CASE ~RestoreBackup /\ ~\E w \in Workers : Work(w)
  <2>1. outcomes' = outcomes
    BY <1>3 DEF Next, Request, Create, Enqueue, Download, Serve, Age, Sweep, SweepUnlink,
                SweepSkip, SweepBegin, SweepCommit, Stop, StartUp, Backup, vars
  <2>2. Status(j) \notin Ended => Status(j)' \notin Ended
    <3>1. CASE \E k \in Jobs : Create(k)
      BY <3>1 DEF Create, Set, Status, TypeOK, Ended
    <3>2. CASE SweepCommit
      BY <3>2 DEF SweepCommit, SweepInv, Status, Ended
    <3>3. CASE StartUp
      BY <3>3 DEF StartUp, Interrupted, Status, TypeOK, Row, Ended
    <3>4. CASE \E k \in Jobs : Age(k)
      BY <3>4 DEF Age, Status, TypeOK, Ended
    <3>5. CASE job' = job
      BY <3>5 DEF Status
    <3> QED BY <1>3, <3>1, <3>2, <3>3, <3>4, <3>5
            DEF Next, Request, Enqueue, Download, Serve, Sweep, SweepUnlink, SweepSkip,
                SweepBegin, Stop, Backup, vars
  <2> QED BY <1>0, <1>3, <2>1, <2>2, EndedStays DEF Ended
<1> QED BY <1>1, <1>2, <1>3

LEMMA IInvNext == TypeOK /\ IInv /\ [Next]_vars => IInv'
BY MemoryNext, PlaceNext, WorkNext, SweepNext, FileNext, SavedNext, OutcomeNext DEF IInv

LEMMA Invariant == Spec => [](TypeOK /\ IInv)
<1>1. TypeInv => TypeOK
  BY DEF TypeInv
<1> QED BY <1>1, TypeInit, TypeNext, IInvInit, IInvNext, PTL DEF Spec

-----------------------------------------------------------------------------
(* Theorems *)

\* A download is never given half an artifact: not after a worker was cut short
\* at any point, not after a full disk, not when an older database came back.
THEOREM WholeArtifacts == Spec => []PartIsNeverServed
<1>1. TypeOK /\ IInv => PartIsNeverServed
  BY DEF TypeOK, IInv, FileInv, PartIsNeverServed
<1> QED BY <1>1, Invariant, PTL

\* An ended job has one attempt in the audit trail, and any other has none.
THEOREM OneAttempt == Spec => []OneOutcome
<1>1. IInv => OneOutcome
  BY DEF IInv
<1> QED BY <1>1, Invariant, PTL

\* An expired job has no file.
THEOREM ExpiredFilesAreGone == Spec => []ExpiredIsGone
<1>1. IInv => ExpiredIsGone
  BY DEF IInv, FileInv, ExpiredIsGone
<1> QED BY <1>1, Invariant, PTL

\* A job is with its request, once in the queue, or with one worker: never in two
\* of these places at a time.
THEOREM OnePlacePerJob == Spec => []OneWorkerPerJob
<1>1. ASSUME NEW S, \A x, y \in S : x = y
      PROVE  IsFiniteSet(S) /\ Cardinality(S) = IF S = {} THEN 0 ELSE 1
  <2>1. CASE S = {}
    BY <2>1, FS_EmptySet
  <2>2. CASE S # {}
    <3>1. PICK x : S = {x}
      BY <1>1, <2>2
    <3> QED BY <3>1, FS_Singleton
  <2> QED BY <2>1, <2>2
<1>2. ASSUME TypeOK, PlaceInv, NEW j \in Jobs PROVE Places(j) <= 1
  <2> DEFINE Q == {i \in DOMAIN queue : queue[i] = j}
             W == {w \in Workers : Holds(w, j)}
             C == {j} \cap creating
  <2>1. /\ \A x, y \in Q : x = y
        /\ \A x, y \in W : x = y
        /\ \A x, y \in C : x = y
    BY <1>2 DEF PlaceInv, Holds
  <2>2. /\ Q = {} \/ W = {}
        /\ Q = {} \/ C = {}
        /\ W = {} \/ C = {}
    BY <1>2 DEF PlaceInv, Holds
  <2>3. /\ Cardinality(Q) = IF Q = {} THEN 0 ELSE 1
        /\ Cardinality(W) = IF W = {} THEN 0 ELSE 1
        /\ Cardinality(C) = IF C = {} THEN 0 ELSE 1
    BY <1>1, <2>1
  <2> QED BY <2>2, <2>3 DEF Places
<1>3. TypeOK /\ IInv => OneWorkerPerJob
  BY <1>2 DEF IInv, OneWorkerPerJob
<1> QED BY <1>3, Invariant, PTL

\* The last commit is final: an ended job keeps its outcome in every step, a
\* completed one expires at most, and no job loses its row.  Only a database that
\* comes back from a backup undoes an end.
EndedIsFinal ==
  [][~RestoreBackup =>
       \A j \in Jobs :
         /\ Status(j) \in Ended =>
              Status(j)' = Status(j) \/ (Status(j) = "completed" /\ Status(j)' = "expired")
         /\ Status(j) # "none" => Status(j)' # "none"]_vars

THEOREM EndsAreFinal == Spec => EndedIsFinal
<1>1. TypeOK /\ IInv /\ [Next]_vars =>
        (~RestoreBackup =>
           \A j \in Jobs :
             /\ Status(j) \in Ended =>
                  Status(j)' = Status(j) \/ (Status(j) = "completed" /\ Status(j)' = "expired")
             /\ Status(j) # "none" => Status(j)' # "none")
  BY EndedStays DEF IInv
<1> QED BY <1>1, Invariant, PTL DEF Spec, EndedIsFinal

=============================================================================
