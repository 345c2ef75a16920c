------------------------- MODULE Maintenance_proofs -------------------------
(***************************************************************************)
(* Proofs about Restore, for any number of requests, attempts and crashes, *)
(* and about Backups, for any retention, interval and number of points.    *)
(***************************************************************************)
EXTENDS Restore, Backups, FiniteSetTheorems, SequenceTheorems, TLAPS

-----------------------------------------------------------------------------
(* Restore: the inductive invariant *)

\* The state file of a fresh installation has no runner; a request that waits has
\* not touched anything yet; a CLI process knows no request the file has not seen.
StatusInv ==
  /\ file.status = "none" => file.request = 0 /\ runner = "none"
  /\ file.status = "requested" =>
       /\ file.request # 0 /\ file.reserve = 0
       /\ database = before /\ attempt < MaxAttempts
  /\ runner \in Offline => file.status = "in_progress"
  /\ owned.request <= file.request

\* A runner that is being started has its coordinator; one that is about to run the
\* restore has an attempt left, and one that works under the lease has taken it.
RunnerInv ==
  /\ runner = "spawn" => coordinator.up /\ coordinator.child # 0
  /\ runner \in {"spawn", "stop", "begin?"} => attempt < MaxAttempts
  /\ runner \in Offline => attempt # 0

\* The services are down from the check of the runner to the end of the file work.
ServicesInv == runner \in {"begin?", "back?"} \cup Offline \cup Rollback => ~services

\* The point with an id holds what the roll-back is to bring back.
Covers(id) == id \in DOMAIN reserves /\ reserves[id] = before

\* Where the database and the reserve are at each place of the runner.
PlaceInv ==
  /\ runner \in {"spawn", "stop", "begin?", "begin", "saved", "reserved", "verified"} =>
       database = before
  /\ runner \in {"saved", "reserved", "verified", "swapped"} => Covers(attempt)
  /\ runner \in {"reserved", "verified", "swapped"} =>
       file.reserve = attempt /\ owned.reserve = attempt
  /\ runner \in {"start", "finalize", "unready", "back?"} \cup Rollback /\ HasReserve =>
       Covers(file.reserve)
  /\ runner \in {"back_verified", "back_swapped"} => HasReserve
  /\ runner = "back_swapped" => database = before

\* What a CLI process that failed still writes.
FailingInv ==
  owned.request = file.request =>
    /\ runner = "failing" => database = before \/ Covers(owned.reserve)
    /\ runner \in Rollback \cup {"back_failing"} => owned.reserve = file.reserve

IInv == StatusInv /\ RunnerInv /\ ServicesInv /\ PlaceInv /\ FailingInv /\ ReserveCoversSwap
          /\ RolledBackIsBack

-----------------------------------------------------------------------------
(* Type correctness *)

FileType        == file \in [status: Active \cup Terminal \cup {"none"}, request: 0..MaxRequests,
                             reserve: 0..MaxAttempts]
ReservesType    == /\ DOMAIN reserves \subseteq 1..MaxAttempts
                   /\ \A i \in DOMAIN reserves : reserves[i] \in 0..MaxAttempts
LeaseType       == /\ lease \in {"free", "cli", "other"} /\ runner \in Runner
                   /\ lease = "cli" <=> runner \in Offline \cup Rollback
CoordinatorType == coordinator \in [up: BOOLEAN, child: 0..MaxRequests,
                                    beat: {"idle", "executing", "error"}]
OwnedType       == owned \in [request: 0..MaxRequests, reserve: 0..MaxAttempts]
CountersType    == /\ attempt \in 0..MaxAttempts /\ crashes \in 0..MaxCrashes
                   /\ database \in 0..MaxAttempts /\ before \in 0..MaxAttempts
                   /\ age \in {"grace", "ready", "expired"} /\ services \in BOOLEAN

Types == FileType /\ ReservesType /\ LeaseType /\ CoordinatorType /\ OwnedType /\ CountersType

LEMMA TypeParts == (TypeOK <=> Types) /\ (TypeOK' <=> Types')
BY DEF TypeOK, Types, FileType, ReservesType, LeaseType, CoordinatorType, OwnedType, CountersType

\* A point that is added, removed or kept.
LEMMA WithFacts ==
  ASSUME NEW all, NEW id, NEW content
  PROVE  /\ DOMAIN With(all, id, content) = DOMAIN all \cup {id}
         /\ With(all, id, content)[id] = content
         /\ \A i \in DOMAIN all : i # id => With(all, id, content)[i] = all[i]
BY DEF With

LEMMA WithoutFacts ==
  ASSUME NEW all, NEW id
  PROVE  /\ DOMAIN Without(all, id) = DOMAIN all \ {id}
         /\ \A i \in DOMAIN Without(all, id) : Without(all, id)[i] = all[i]
BY DEF Without

LEMMA PruneFacts ==
  PruneReserves => /\ DOMAIN reserves' \subseteq DOMAIN reserves
                   /\ \A i \in DOMAIN reserves' : reserves'[i] = reserves[i]
BY DEF PruneReserves, Pruned

LEMMA FileFacts ==
  ASSUME FileType
  PROVE  /\ file.status \in Active \cup Terminal \cup {"none"}
         /\ file.request \in 0..MaxRequests /\ file.reserve \in 0..MaxAttempts
         /\ \A s \in Active \cup Terminal \cup {"none"} :
              /\ [file EXCEPT !.status = s]
                   \in [status: Active \cup Terminal \cup {"none"}, request: 0..MaxRequests,
                        reserve: 0..MaxAttempts]
              /\ [file EXCEPT !.status = s].status = s
              /\ [file EXCEPT !.status = s].request = file.request
              /\ [file EXCEPT !.status = s].reserve = file.reserve
BY DEF FileType

LEMMA CoordinatorFacts ==
  ASSUME CoordinatorType
  PROVE  /\ coordinator.up \in BOOLEAN /\ coordinator.child \in 0..MaxRequests
         /\ coordinator.beat \in {"idle", "executing", "error"}
         /\ \A up \in BOOLEAN, child \in 0..MaxRequests, beat \in {"idle", "executing", "error"} :
              [up |-> up, child |-> child, beat |-> beat]
                \in [up: BOOLEAN, child: 0..MaxRequests, beat: {"idle", "executing", "error"}]
BY DEF CoordinatorType

\* The coordinator has no child any more.
LEMMA NoChildType ==
  ASSUME CoordinatorType, NEW beat \in {"idle", "executing", "error"}, MaxRequests \in Nat
  PROVE  [coordinator EXCEPT !.child = 0, !.beat = beat]
           \in [up: BOOLEAN, child: 0..MaxRequests, beat: {"idle", "executing", "error"}]
<1>1. 0 \in 0..MaxRequests
  OBVIOUS
<1>2. [coordinator EXCEPT !.child = 0]
        \in [up: BOOLEAN, child: 0..MaxRequests, beat: {"idle", "executing", "error"}]
  BY <1>1 DEF CoordinatorType
<1> QED BY <1>2

LEMMA MarkFailedType ==
  ASSUME FileType, NEW request, MarkFailed(request)
  PROVE  FileType'
BY DEF FileType, MarkFailed, Active, Terminal

LEMMA PruneType ==
  ASSUME ReservesType, PruneReserves
  PROVE  ReservesType'
BY PruneFacts DEF ReservesType

LEMMA TypeInit == Init => TypeOK
BY KeepAssumption, BoundsAssumption
   DEF Init, TypeOK, Fresh, Active, Terminal, Runner, Offline, Rollback

LEMMA TypeNext == TypeOK /\ RunnerInv /\ PlaceInv /\ [Next]_vars => TypeOK'
<1> SUFFICES ASSUME TypeOK, RunnerInv, PlaceInv, [Next]_vars PROVE TypeOK'
  OBVIOUS
<1> USE DEF Active, Terminal, Offline, Rollback, Runner
<1>0. FileType /\ ReservesType /\ LeaseType /\ CoordinatorType /\ OwnedType /\ CountersType
      /\ MaxRequests \in Nat /\ MaxAttempts \in Nat /\ MaxCrashes \in Nat
  BY TypeParts, BoundsAssumption DEF Types
<1> SUFFICES Types'
  BY TypeParts
<1> USE DEF Types, FileType, ReservesType, LeaseType, CoordinatorType, OwnedType, CountersType
<1>1. CASE Request
  BY <1>0, <1>1 DEF Request
<1>2. CASE Ages
  BY <1>0, <1>2 DEF Ages
<1>3. CASE Expire
  BY <1>0, <1>3 DEF Expire
<1>4. CASE Beat
  BY <1>0, <1>4 DEF Beat
<1>5. CASE Claim
  BY <1>0, <1>5 DEF Claim
<1>6. CASE Spawn
  <2>1. FileType'
    BY <1>0, <1>6, MarkFailedType DEF Spawn
  <2>2. CoordinatorType'
    BY <1>0, <1>6, NoChildType DEF Spawn
  <2>3. LeaseType' /\ ReservesType' /\ OwnedType' /\ CountersType'
    BY <1>0, <1>6 DEF Spawn
  <2> QED BY <2>1, <2>2, <2>3
<1>7. CASE Reap
  <2>1. FileType'
    BY <1>0, <1>7, MarkFailedType DEF Reap
  <2>2. CoordinatorType'
    BY <1>0, <1>7, NoChildType DEF Reap
  <2>3. LeaseType' /\ ReservesType' /\ OwnedType' /\ CountersType'
    BY <1>0, <1>7 DEF Reap
  <2> QED BY <2>1, <2>2, <2>3
<1>8. CASE Stop
  BY <1>0, <1>8 DEF Stop, StopAnd, StopServices
<1>9. CASE Begin
  <2>1. FileType' /\ OwnedType'
    BY <1>0, <1>9, FileFacts DEF Begin
  <2>2. attempt < MaxAttempts /\ attempt' = attempt + 1
    BY <1>9 DEF Begin, RunnerInv
  <2>3. LeaseType' /\ ReservesType' /\ CoordinatorType' /\ CountersType'
    BY <1>0, <1>9, <2>2 DEF Begin
  <2> QED BY <2>1, <2>3
<1>10. CASE BeginRefused
  BY <1>0, <1>10 DEF BeginRefused
<1>11. CASE Save
  <2>1. attempt # 0
    BY <1>11 DEF Save, RunnerInv
  <2>2. ReservesType'
    <3>1. attempt \in 1..MaxAttempts /\ database \in 0..MaxAttempts
      BY <1>0, <2>1
    <3>2. reserves' = With(reserves, attempt, database)
      BY <1>11 DEF Save
    <3>3. DOMAIN reserves' = DOMAIN reserves \cup {attempt}
      BY <3>2, WithFacts, Zenon
    <3>4. With(reserves, attempt, database)[attempt] = database
      BY DEF With
    <3>5. \A i \in DOMAIN reserves :
            i # attempt => With(reserves, attempt, database)[i] = reserves[i]
      BY DEF With
    <3> QED BY <1>0, <3>1, <3>2, <3>3, <3>4, <3>5
  <2>3. FileType' /\ LeaseType' /\ CoordinatorType' /\ OwnedType' /\ CountersType'
    BY <1>0, <1>11 DEF Save
  <2> QED BY <2>2, <2>3
<1>12. CASE Record
  BY <1>0, <1>12 DEF Record
<1>13. CASE RecordFails
  BY <1>0, <1>13 DEF RecordFails
<1>14. CASE Verify
  BY <1>0, <1>14 DEF Verify
<1>15. CASE Swap
  BY <1>0, <1>15 DEF Swap
<1>16. CASE Swapped
  BY <1>0, <1>16 DEF Swapped
<1>17. CASE StepFails
  <2>1. ReservesType'
    <3>1. CASE reserves' = reserves
      BY <1>0, <3>1
    <3>2. CASE reserves' = Without(reserves, attempt)
      <4>1. DOMAIN reserves' = DOMAIN reserves \ {attempt}
        BY <3>2, WithoutFacts
      <4>2. \A i \in DOMAIN reserves' : reserves'[i] = reserves[i]
        BY <3>2, WithoutFacts
      <4> QED BY <1>0, <4>1, <4>2
    <3> QED BY <1>17, <3>1, <3>2 DEF StepFails
  <2>2. FileType' /\ LeaseType' /\ CoordinatorType' /\ OwnedType' /\ CountersType'
    BY <1>0, <1>17 DEF StepFails
  <2> QED BY <2>1, <2>2
<1>18. CASE Failing
  BY <1>0, <1>18 DEF Failing, RecordFailed
<1>19. CASE Restart
  BY <1>0, <1>19 DEF Restart
<1>20. CASE Start
  BY <1>0, <1>20 DEF Start
<1>21. CASE Finalize
  <2>1. FileType'
    BY <1>0, <1>21, FileFacts DEF Finalize
  <2>2. ReservesType'
    BY <1>0, <1>21, PruneType DEF Finalize
  <2>3. LeaseType' /\ CoordinatorType' /\ OwnedType' /\ CountersType'
    BY <1>0, <1>21 DEF Finalize
  <2> QED BY <2>1, <2>2, <2>3
<1>22. CASE Unready
  BY <1>0, <1>22 DEF Unready, StopAnd, StopServices
<1>23. CASE BackBegin
  BY <1>0, <1>23 DEF BackBegin
<1>24. CASE BackVerify
  BY <1>0, <1>24 DEF BackVerify
<1>25. CASE BackSwap
  <2>1. HasReserve
    BY <1>25 DEF BackSwap, PlaceInv
  <2>2. CountersType'
    BY <1>0, <1>25, <2>1 DEF BackSwap, HasReserve
  <2>3. FileType' /\ LeaseType' /\ ReservesType' /\ CoordinatorType' /\ OwnedType'
    BY <1>0, <1>25 DEF BackSwap
  <2> QED BY <2>2, <2>3
<1>26. CASE BackDone
  <2>1. FileType'
    BY <1>0, <1>26, FileFacts DEF BackDone
  <2>2. ReservesType'
    BY <1>0, <1>26, PruneType DEF BackDone
  <2>3. LeaseType' /\ CoordinatorType' /\ OwnedType' /\ CountersType'
    BY <1>0, <1>26 DEF BackDone
  <2> QED BY <2>1, <2>2, <2>3
<1>27. CASE BackFails
  BY <1>0, <1>27 DEF BackFails
<1>28. CASE BackFailing
  BY <1>0, <1>28 DEF BackFailing, RecordFailed
<1>29. CASE OtherTakes
  BY <1>0, <1>29 DEF OtherTakes
<1>30. CASE OtherGives
  BY <1>0, <1>30 DEF OtherGives
<1>31. CASE ByHand
  <2>1. HasReserve => reserves[file.reserve] \in 0..MaxAttempts
    BY <1>0 DEF HasReserve
  <2>2. before' \in 0..MaxAttempts
    BY <1>0, <1>31, <2>1 DEF ByHand
  <2>3. FileType' /\ ReservesType' /\ CoordinatorType' /\ OwnedType' /\ CountersType'
    BY <1>0, <1>31, <2>2 DEF ByHand
  <2>4. LeaseType'
    BY <1>0, <1>31 DEF ByHand
  <2> QED BY <2>3, <2>4
<1>32. CASE CoordinatorDies
  BY <1>0, <1>32 DEF CoordinatorDies
<1>33. CASE CoordinatorStarts
  BY <1>0, <1>33 DEF CoordinatorStarts
<1>34. CASE HostCrash
  <2>1. CoordinatorType'
    BY <1>0, <1>34, CoordinatorFacts DEF HostCrash
  <2>2. FileType' /\ ReservesType' /\ OwnedType'
    BY <1>0, <1>34 DEF HostCrash
  <2>3. LeaseType'
    BY <1>0, <1>34 DEF HostCrash
  <2>4. CountersType'
    <3>1. crashes < MaxCrashes /\ crashes' = crashes + 1 /\ services' = FALSE
          /\ UNCHANGED <<age, database, attempt, before>>
      BY <1>34 DEF HostCrash
    <3>2. crashes + 1 \in 0..MaxCrashes
      BY <1>0, <3>1
    <3>3. FALSE \in BOOLEAN
      OBVIOUS
    <3> QED BY <1>0, <3>1, <3>2, <3>3, Zenon
  <2> QED BY <2>1, <2>2, <2>3, <2>4
<1>35. CASE Boot
  BY <1>0, <1>35 DEF Boot
<1>36. CASE UNCHANGED vars
  BY <1>0, <1>36 DEF vars
<1> QED BY <1>1, <1>2, <1>3, <1>4, <1>5, <1>6, <1>7, <1>8, <1>9, <1>10, <1>11, <1>12, <1>13,
       <1>14, <1>15, <1>16, <1>17, <1>18, <1>19, <1>20, <1>21, <1>22, <1>23, <1>24, <1>25,
       <1>26, <1>27, <1>28, <1>29, <1>30, <1>31, <1>32, <1>33, <1>34, <1>35, <1>36
   DEF Next, RequestStep, CoordinatorStep, RunnerStep, RollbackStep, WorldStep
-----------------------------------------------------------------------------
(* The invariant *)

LEMMA InvInit == Init => IInv
BY KeepAssumption, BoundsAssumption
   DEF Init, IInv, StatusInv, RunnerInv, ServicesInv, PlaceInv, FailingInv, ReserveCoversSwap,
       RolledBackIsBack, Fresh, Offline, Rollback, HasReserve, Covers

LEMMA InvNext == TypeOK /\ IInv /\ [Next]_vars => IInv'
<1> SUFFICES ASSUME TypeOK, IInv, [Next]_vars PROVE IInv'
  OBVIOUS
<1> USE DEF Active, Terminal, Offline, Rollback, Covers, HasReserve
<1>0. /\ FileType /\ OwnedType /\ attempt \in Nat
      /\ DOMAIN reserves \subseteq Nat \ {0}
      /\ lease = "cli" <=> runner \in Offline \cup Rollback
      /\ CoordinatorType /\ StatusInv /\ RunnerInv /\ ServicesInv /\ PlaceInv /\ FailingInv /\ ReserveCoversSwap
      /\ RolledBackIsBack
  BY TypeParts, BoundsAssumption
     DEF Types, IInv, ReservesType, LeaseType, CountersType
<1> USE DEF FileType, OwnedType, IInv, StatusInv, RunnerInv, ServicesInv, PlaceInv, FailingInv,
            ReserveCoversSwap, RolledBackIsBack
<1>1. CASE Request
  BY <1>0, <1>1 DEF Request
<1>2. CASE Ages
  BY <1>0, <1>2 DEF Ages
<1>3. CASE Expire
  BY <1>0, <1>3 DEF Expire
<1>4. CASE Beat
  <2>1. runner # "spawn"
    BY <1>0, <1>4 DEF Beat, Watching
  <2> QED BY <1>0, <1>4, <2>1 DEF Beat
<1>5. CASE Claim
  <2>1. coordinator.up /\ coordinator'.up /\ coordinator'.child = file.request
    BY <1>0, <1>5 DEF Claim, Watching, CoordinatorType
  <2> QED BY <1>0, <1>5, <2>1 DEF Claim
<1>6. CASE Spawn
  BY <1>0, <1>6 DEF Spawn, MarkFailed
<1>7. CASE Reap
  BY <1>0, <1>7 DEF Reap, MarkFailed
<1>8. CASE Stop
  BY <1>0, <1>8 DEF Stop, StopAnd, StopServices
<1>9. CASE Begin
  BY <1>0, <1>9 DEF Begin
<1>10. CASE BeginRefused
  BY <1>0, <1>10 DEF BeginRefused
<1>11. CASE Save
  <2>1. reserves' = With(reserves, attempt, database)
    BY <1>11 DEF Save
  <2>2. DOMAIN reserves' = DOMAIN reserves \cup {attempt}
    BY <2>1 DEF With
  <2>3. reserves'[attempt] = database
    BY <2>1 DEF With
  <2>4. \A i \in DOMAIN reserves : i # attempt => reserves'[i] = reserves[i]
    BY <2>1 DEF With
  <2> QED BY <1>0, <1>11, <2>2, <2>3, <2>4 DEF Save
<1>12. CASE Record
  BY <1>0, <1>12 DEF Record
<1>13. CASE RecordFails
  BY <1>0, <1>13 DEF RecordFails
<1>14. CASE Verify
  BY <1>0, <1>14 DEF Verify
<1>15. CASE Swap
  BY <1>0, <1>15 DEF Swap
<1>16. CASE Swapped
  BY <1>0, <1>16 DEF Swapped
<1>17. CASE StepFails
  BY <1>0, <1>17 DEF StepFails
<1>18. CASE Failing
  <2>1. CASE UNCHANGED file
    BY <1>0, <1>18, <2>1 DEF Failing
  <2>2. CASE file' = [file EXCEPT !.status = "failed", !.reserve = owned.reserve]
             /\ file.request = owned.request
    BY <1>0, <1>18, <2>2 DEF Failing
  <2> QED BY <1>18, <2>1, <2>2 DEF Failing, RecordFailed
<1>19. CASE Restart
  BY <1>0, <1>19 DEF Restart
<1>20. CASE Start
  BY <1>0, <1>20 DEF Start
<1>21. CASE Finalize
  BY <1>0, <1>21 DEF Finalize
<1>22. CASE Unready
  BY <1>0, <1>22 DEF Unready, StopAnd, StopServices
<1>23. CASE BackBegin
  BY <1>0, <1>23 DEF BackBegin
<1>24. CASE BackVerify
  BY <1>0, <1>24 DEF BackVerify
<1>25. CASE BackSwap
  BY <1>0, <1>25 DEF BackSwap
<1>26. CASE BackDone
  BY <1>0, <1>26 DEF BackDone
<1>27. CASE BackFails
  BY <1>0, <1>27 DEF BackFails
<1>28. CASE BackFailing
  <2>1. CASE UNCHANGED file
    BY <1>0, <1>28, <2>1 DEF BackFailing
  <2>2. CASE file' = [file EXCEPT !.status = "manual_intervention", !.reserve = owned.reserve]
             /\ file.request = owned.request /\ file.status \notin Terminal
    <3>1. file'.status = "manual_intervention" /\ file'.reserve = owned.reserve
          /\ file'.request = file.request
      BY <1>0, <2>2
    <3>2. file'.reserve = file.reserve
      BY <1>0, <1>28, <2>2, <3>1 DEF BackFailing
    <3>3. runner = "back_failing" /\ runner' = "none" /\ file.status # "none"
          /\ UNCHANGED <<database, reserves, services, coordinator, owned, attempt, before>>
      BY <1>0, <1>28 DEF BackFailing
    <3>4. StatusInv' /\ RunnerInv' /\ ServicesInv' /\ PlaceInv' /\ FailingInv' /\ RolledBackIsBack'
      BY <1>0, <3>1, <3>2, <3>3
    <3>5. ReserveCoversSwap'
      <4>1. file.status \in {"requested", "in_progress", "db_restored"}
        BY <1>0, <1>28, <2>2, <3>3 DEF BackFailing
      <4>2. database = before \/ Covers(file.reserve)
        BY <1>0, <4>1
      <4> QED BY <3>1, <3>2, <3>3, <4>2
    <3> QED BY <3>4, <3>5
  <2> QED BY <1>28, <2>1, <2>2 DEF BackFailing, RecordFailed
<1>29. CASE OtherTakes
  BY <1>0, <1>29 DEF OtherTakes
<1>30. CASE OtherGives
  BY <1>0, <1>30 DEF OtherGives
<1>31. CASE ByHand
  BY <1>0, <1>31 DEF ByHand
<1>32. CASE CoordinatorDies
  BY <1>0, <1>32 DEF CoordinatorDies
<1>33. CASE CoordinatorStarts
  BY <1>0, <1>33 DEF CoordinatorStarts
<1>34. CASE HostCrash
  BY <1>0, <1>34 DEF HostCrash
<1>35. CASE Boot
  BY <1>0, <1>35 DEF Boot
<1>36. CASE UNCHANGED vars
  BY <1>0, <1>36 DEF vars
<1> QED BY <1>1, <1>2, <1>3, <1>4, <1>5, <1>6, <1>7, <1>8, <1>9, <1>10, <1>11, <1>12, <1>13,
       <1>14, <1>15, <1>16, <1>17, <1>18, <1>19, <1>20, <1>21, <1>22, <1>23, <1>24, <1>25,
       <1>26, <1>27, <1>28, <1>29, <1>30, <1>31, <1>32, <1>33, <1>34, <1>35, <1>36
   DEF Next, RequestStep, CoordinatorStep, RunnerStep, RollbackStep, WorldStep
-----------------------------------------------------------------------------
(* The state file keeps its promises: each step is one of RestoreRequests *)

LEMMA LifecycleInit == Init => Requests!Init
BY DEF Init, Requests!Init, Fresh

LEMMA LifecycleNext ==
  TypeOK /\ IInv /\ [Next]_vars
    => [Requests!Publish \/ Requests!Move]_<<file.status, file.request>>
<1> DEFINE Abstract == [Requests!Publish \/ Requests!Move]_<<file.status, file.request>>
<1> SUFFICES ASSUME TypeOK, IInv, [Next]_vars PROVE Abstract
  OBVIOUS
<1> USE DEF Active, Terminal, Offline, Rollback, HasReserve
<1>0. /\ FileType /\ DOMAIN reserves \subseteq Nat \ {0}
      /\ StatusInv /\ RunnerInv /\ PlaceInv
  BY TypeParts, BoundsAssumption DEF Types, IInv, ReservesType
<1> USE DEF FileType, StatusInv, RunnerInv, PlaceInv, Requests!Publish, Requests!Move,
            Requests!Follows, Requests!Active
<1>1. CASE Request
  BY <1>0, <1>1 DEF Request
<1>2. CASE Ages
  BY <1>0, <1>2 DEF Ages
<1>3. CASE Expire
  BY <1>0, <1>3 DEF Expire
<1>4. CASE Beat
  BY <1>0, <1>4 DEF Beat
<1>5. CASE Claim
  BY <1>0, <1>5 DEF Claim
<1>6. CASE Spawn
  BY <1>0, <1>6 DEF Spawn, MarkFailed
<1>7. CASE Reap
  BY <1>0, <1>7 DEF Reap, MarkFailed
<1>8. CASE Stop
  BY <1>0, <1>8 DEF Stop, StopAnd, StopServices
<1>9. CASE Begin
  BY <1>0, <1>9 DEF Begin
<1>10. CASE BeginRefused
  BY <1>0, <1>10 DEF BeginRefused
<1>11. CASE Save
  BY <1>0, <1>11 DEF Save
<1>12. CASE Record
  BY <1>0, <1>12 DEF Record
<1>13. CASE RecordFails
  BY <1>0, <1>13 DEF RecordFails
<1>14. CASE Verify
  BY <1>0, <1>14 DEF Verify
<1>15. CASE Swap
  BY <1>0, <1>15 DEF Swap
<1>16. CASE Swapped
  BY <1>0, <1>16 DEF Swapped
<1>17. CASE StepFails
  BY <1>0, <1>17 DEF StepFails
<1>18. CASE Failing
  BY <1>0, <1>18 DEF Failing, RecordFailed
<1>19. CASE Restart
  BY <1>0, <1>19 DEF Restart
<1>20. CASE Start
  BY <1>0, <1>20 DEF Start
<1>21. CASE Finalize
  BY <1>0, <1>21 DEF Finalize
<1>22. CASE Unready
  BY <1>0, <1>22 DEF Unready, StopAnd, StopServices
<1>23. CASE BackBegin
  BY <1>0, <1>23 DEF BackBegin
<1>24. CASE BackVerify
  BY <1>0, <1>24 DEF BackVerify
<1>25. CASE BackSwap
  BY <1>0, <1>25 DEF BackSwap
<1>26. CASE BackDone
  BY <1>0, <1>26 DEF BackDone
<1>27. CASE BackFails
  BY <1>0, <1>27 DEF BackFails
<1>28. CASE BackFailing
  BY <1>0, <1>28 DEF BackFailing, RecordFailed
<1>29. CASE OtherTakes
  BY <1>0, <1>29 DEF OtherTakes
<1>30. CASE OtherGives
  BY <1>0, <1>30 DEF OtherGives
<1>31. CASE ByHand
  BY <1>0, <1>31 DEF ByHand
<1>32. CASE CoordinatorDies
  BY <1>0, <1>32 DEF CoordinatorDies
<1>33. CASE CoordinatorStarts
  BY <1>0, <1>33 DEF CoordinatorStarts
<1>34. CASE HostCrash
  BY <1>0, <1>34 DEF HostCrash
<1>35. CASE Boot
  BY <1>0, <1>35 DEF Boot
<1>36. CASE UNCHANGED vars
  BY <1>0, <1>36 DEF vars
<1> QED BY <1>1, <1>2, <1>3, <1>4, <1>5, <1>6, <1>7, <1>8, <1>9, <1>10, <1>11, <1>12, <1>13,
       <1>14, <1>15, <1>16, <1>17, <1>18, <1>19, <1>20, <1>21, <1>22, <1>23, <1>24, <1>25,
       <1>26, <1>27, <1>28, <1>29, <1>30, <1>31, <1>32, <1>33, <1>34, <1>35, <1>36
   DEF Next, RequestStep, CoordinatorStep, RunnerStep, RollbackStep, WorldStep

-----------------------------------------------------------------------------
(* The theorems *)

LEMMA InvCorrect == Spec => [](TypeOK /\ IInv)
<1>1. TypeOK /\ IInv /\ [Next]_vars => TypeOK'
  BY TypeNext DEF IInv
<1> QED BY TypeInit, InvInit, InvNext, <1>1, PTL DEF Spec

\* The variables keep their types, and a CLI process of the runner holds the lease
\* exactly in its file work.
THEOREM TypeCorrect == Spec => []TypeOK
BY InvCorrect, PTL

\* Whatever crashes or fails in whatever step: as long as a restore is not over and the
\* database is not what it was when the restore was asked for, restore_state.json names
\* a pre-restore point that exists and holds the users' content.
THEOREM CanAlwaysRollBack == Spec => []ReserveCoversSwap
BY InvCorrect, PTL DEF IInv

\* A state that says rolled_back is only written with the users' content in place.
THEOREM RollBackRestores == Spec => []RolledBackIsBack
BY InvCorrect, PTL DEF IInv

\* No step of any process replaces the database while the backend has it open.
THEOREM SwapsOffline == Spec => SwapOnlyOffline
<1>1. IInv /\ [Next]_vars => [database' # database => ~services]_vars
  <2> SUFFICES ASSUME IInv, [Next]_vars, database' # database PROVE ~services
    OBVIOUS
  <2>1. Swap \/ BackSwap
    BY DEF Next, RequestStep, CoordinatorStep, RunnerStep, RollbackStep, WorldStep, vars,
           Request, Ages, Expire, Beat, Claim, Spawn, Reap, Stop, Begin, BeginRefused, Save,
           Record, RecordFails, Verify, Swapped, StepFails, Failing, Restart, Start, Finalize,
           Unready, BackBegin, BackVerify, BackDone, BackFails, BackFailing, OtherTakes,
           OtherGives, ByHand, CoordinatorDies, CoordinatorStarts, HostCrash, Boot
  <2>2. runner \in {"verified", "back_verified"}
    BY <2>1 DEF Swap, BackSwap
  <2> QED BY <2>2 DEF IInv, ServicesInv, Offline, Rollback
<1> QED BY <1>1, InvCorrect, PTL DEF Spec, SwapOnlyOffline

\* The state file is an implementation of RestoreRequests: one request at a time, no
\* outcome that is overwritten by another one it cannot pass to.
THEOREM ImplementsRequests == Spec => Lifecycle
BY LifecycleInit, LifecycleNext, InvCorrect, PTL DEF Spec, Lifecycle, Requests!Spec

-----------------------------------------------------------------------------
(* Backups: what is left of a sequence of points *)

\* Of the first i places, those that are left, and how many these are.
Below(gone, i) == (1..i) \ gone
Left(gone, i)  == Cardinality(Below(gone, i))

LEMMA BelowFacts ==
  ASSUME NEW n \in Nat, NEW gone \in SUBSET (1..n), NEW i \in 0..n
  PROVE  /\ IsFiniteSet(Below(gone, i)) /\ Left(gone, i) \in Nat /\ Left(gone, i) <= i
         /\ \A j \in 0..n : i <= j => Left(gone, i) <= Left(gone, j)
         /\ \A j \in Below(gone, n) : i < j => Left(gone, i) < Left(gone, j)
<1>1. \A j \in 0..n : /\ IsFiniteSet(1..j) /\ Cardinality(1..j) = j
                      /\ Below(gone, j) \in SUBSET (1..j)
  <2> TAKE j \in 0..n
  <2>1. 0 \in Int /\ 1 \in Int /\ j \in Int /\ (1 > j => j = 0) /\ j - 1 + 1 = j
    OBVIOUS
  <2>2. IsFiniteSet(1..j) /\ Cardinality(1..j) = IF 1 > j THEN 0 ELSE j - 1 + 1
    BY <2>1, FS_Interval
  <2> QED BY <2>1, <2>2 DEF Below
<1>2. \A j \in 0..n : /\ IsFiniteSet(Below(gone, j)) /\ Left(gone, j) \in Nat
                      /\ Left(gone, j) <= j
  BY <1>1, FS_Subset, FS_CardinalityType DEF Left
<1>3. ASSUME NEW j \in 0..n, i <= j PROVE Left(gone, i) <= Left(gone, j)
  <2>1. Below(gone, i) \in SUBSET Below(gone, j)
    BY <1>3 DEF Below
  <2> QED BY <1>2, <2>1, FS_Subset DEF Left
<1>4. ASSUME NEW j \in Below(gone, n), i < j PROVE Left(gone, i) < Left(gone, j)
  <2>0. j \in 0..n
    BY DEF Below
  <2>1. Below(gone, i) \in SUBSET Below(gone, j)
    BY <1>4, <2>0 DEF Below
  <2>2. j \in Below(gone, j) /\ j \notin Below(gone, i)
    BY <1>4, <2>0 DEF Below
  <2>3. Left(gone, i) <= Left(gone, j) /\ Left(gone, j) # Left(gone, i)
    BY <1>2, <2>0, <2>1, <2>2, FS_Subset DEF Left
  <2> QED BY <1>2, <2>0, <2>3
<1> QED BY <1>2, <1>3, <1>4

LEMMA LeftFacts ==
  ASSUME NEW n \in Nat, NEW gone \in SUBSET (1..n)
  PROVE  /\ Left(gone, n) = n - Cardinality(gone)
         /\ \A i \in Below(gone, n) : Left(gone, i) \in 1..Left(gone, n)
         /\ \A i, j \in Below(gone, n) : Left(gone, i) = Left(gone, j) => i = j
         /\ \A k \in 1..Left(gone, n) : \E i \in Below(gone, n) : Left(gone, i) = k
<1>0. Below(gone, n) \subseteq 1..n /\ 1..n \subseteq 0..n /\ 0 \in 0..n /\ n \in 0..n
  BY DEF Below
<1>1. Left(gone, n) = n - Cardinality(gone)
  <2>1. (1..n) \cap gone = gone
    OBVIOUS
  <2>2. IsFiniteSet(1..n) /\ Cardinality(1..n) = IF 1 > n THEN 0 ELSE n - 1 + 1
    BY FS_Interval
  <2>3. Cardinality(1..n) = n
    BY <2>2
  <2>4. Left(gone, n) = Cardinality(1..n) - Cardinality((1..n) \cap gone)
    BY <2>2, FS_Difference, Zenon DEF Left, Below
  <2> QED BY <2>1, <2>3, <2>4
<1>2. ASSUME NEW i \in Below(gone, n) PROVE Left(gone, i) \in 1..Left(gone, n)
  <2>1. i \in 1..n
    BY <1>0
  <2>2. /\ Left(gone, 0) \in Nat /\ Left(gone, i) \in Nat /\ Left(gone, n) \in Nat
        /\ Left(gone, 0) < Left(gone, i) /\ Left(gone, i) <= Left(gone, n)
    BY <1>0, <2>1, BelowFacts
  <2> QED BY <2>2
<1>3. \A i, j \in Below(gone, n) : Left(gone, i) = Left(gone, j) => i = j
  <2> TAKE i, j \in Below(gone, n)
  <2>1. i \in 1..n /\ j \in 1..n
    BY <1>0
  <2>2. /\ Left(gone, i) \in Nat /\ Left(gone, j) \in Nat
        /\ i < j => Left(gone, i) < Left(gone, j)
        /\ j < i => Left(gone, j) < Left(gone, i)
    BY <1>0, <2>1, BelowFacts
  <2> QED BY <2>1, <2>2
<1>4. ASSUME NEW k \in 1..Left(gone, n)
      PROVE  \E i \in Below(gone, n) : Left(gone, i) = k
  <2> DEFINE f == [i \in Below(gone, n) |-> Left(gone, i)]
             T == 1..Left(gone, n)
  <2>1. f \in [Below(gone, n) -> T]
    BY <1>2
  <2>2. \A i, j \in Below(gone, n) : f[i] = f[j] => i = j
    BY <1>3
  <2>3. f \in Injection(Below(gone, n), T)
    BY <2>1, <2>2 DEF Injection, IsInjective
  <2>4. Left(gone, n) \in Nat
    BY <1>0, BelowFacts
  <2>5. IsFiniteSet(T) /\ Cardinality(T) = IF 1 > Left(gone, n) THEN 0 ELSE Left(gone, n) - 1 + 1
    <3>1. Left(gone, n) \in Int /\ 1 \in Int
      BY <2>4
    <3> QED BY <3>1, FS_Interval
  <2>6. Cardinality(T) = Left(gone, n)
    BY <2>4, <2>5
  <2>7. f \in Surjection(Below(gone, n), T)
    BY <2>3, <2>5, <2>6, FS_Injection DEF Left
  <2> QED BY <2>7 DEF Surjection
<1> QED BY <1>1, <1>2, <1>3, <1>4

\* The points that are left keep their content and their order.
LEMMA LeftPoints ==
  ASSUME NEW S, NEW s \in Seq(S), NEW gone \in SUBSET (1..Len(s)),
         NEW w, w = Remaining(s, gone)
  PROVE  /\ w \in Seq(S) /\ Len(w) = Left(gone, Len(s))
         /\ \A i \in Below(gone, Len(s)) : Left(gone, i) \in 1..Len(w) /\ w[Left(gone, i)] = s[i]
         /\ \A k \in 1..Len(w) : \E i \in Below(gone, Len(s)) : Left(gone, i) = k
<1> DEFINE n == Len(s)
           m == Left(gone, n)
           P(k) == CHOOSE i \in DOMAIN s \ gone : Cardinality((1..i) \ gone) = k
<1>1. n \in Nat /\ DOMAIN s = 1..n /\ \A i \in 1..n : s[i] \in S
  BY ElementOfSeq, LenProperties
<1>2. m = n - Cardinality(gone) /\ m \in Nat /\ Below(gone, n) \subseteq 1..n
  <2>1. n \in 0..n
    BY <1>1
  <2>2. m = n - Cardinality(gone)
    BY <1>1, LeftFacts
  <2>3. m \in Nat
    BY <1>1, <2>1, BelowFacts
  <2> QED BY <2>2, <2>3 DEF Below
<1>3. w = [k \in 1..m |-> s[P(k)]]
  <2>1. w = [k \in 1..(Len(s) - Cardinality(gone)) |-> s[P(k)]]
    BY Zenon DEF Remaining
  <2>2. 1..(Len(s) - Cardinality(gone)) = 1..m
    BY <1>2
  <2> HIDE DEF m, P
  <2> QED BY <2>1, <2>2, Zenon
<1>4. \A k \in 1..m : P(k) \in Below(gone, n) /\ Left(gone, P(k)) = k
  <2> TAKE k \in 1..m
  <2>1. \E i \in Below(gone, n) : Left(gone, i) = k
    BY <1>1, LeftFacts
  <2>2. \E i \in DOMAIN s \ gone : Cardinality((1..i) \ gone) = k
    BY <1>1, <2>1, Zenon DEF Left, Below
  <2>3. P(k) \in DOMAIN s \ gone /\ Cardinality((1..P(k)) \ gone) = k
    BY <2>2, Zenon
  <2> HIDE DEF P
  <2> QED BY <1>1, <2>3, Zenon DEF Left, Below
<1>5. w \in Seq(S) /\ Len(w) = m
  <2> HIDE DEF m, P
  <2> QED BY <1>1, <1>2, <1>3, <1>4
<1>6. ASSUME NEW i \in Below(gone, n) PROVE Left(gone, i) \in 1..m /\ w[Left(gone, i)] = s[i]
  <2>1. Left(gone, i) \in 1..m
    BY <1>1, LeftFacts
  <2>2. P(Left(gone, i)) \in Below(gone, n) /\ Left(gone, P(Left(gone, i))) = Left(gone, i)
    BY <1>4, <2>1
  <2>3. P(Left(gone, i)) = i
    <3> HIDE DEF P
    <3> QED BY <1>1, <2>2, LeftFacts
  <2> HIDE DEF P
  <2> QED BY <1>3, <2>1, <2>3
<1>7. \A k \in 1..m : \E i \in Below(gone, n) : Left(gone, i) = k
  BY <1>1, LeftFacts
<1> QED BY <1>5, <1>6, <1>7

\* When nothing goes of the last m places, these stay the last ones.
LEMMA LastStay ==
  ASSUME NEW n \in Nat, NEW gone \in SUBSET (1..n), NEW m \in Nat, m <= n,
         \A i \in gone : i <= n - m
  PROVE  \A k \in 0..m : Left(gone, n - k) = Left(gone, n) - k
<1> TAKE k \in 0..m
<1> DEFINE A == Below(gone, n - k)
           Z == (n - k + 1)..n
<1>1. n - k \in 0..n
  OBVIOUS
<1>2. Below(gone, n) = A \cup Z /\ A \cap Z = {}
  BY <1>1 DEF Below
<1>3. IsFiniteSet(A) /\ Cardinality(A) \in Nat
  BY <1>1, BelowFacts DEF Left
<1>4. IsFiniteSet(Z) /\ Cardinality(Z) = IF n - k + 1 > n THEN 0 ELSE n - (n - k + 1) + 1
  BY FS_Interval
<1>5. Cardinality(Z) = k
  BY <1>4
<1>6. Cardinality(A \cup Z) = Cardinality(A) + k
  <2> HIDE DEF A, Z
  <2>1. Cardinality(A \cup Z) = Cardinality(A) + Cardinality(Z) - Cardinality(A \cap Z)
    BY <1>3, <1>4, FS_Union
  <2>2. Cardinality(A \cap Z) = 0
    BY <1>2, FS_EmptySet
  <2> QED BY <1>3, <1>5, <2>1, <2>2
<1> QED BY <1>2, <1>3, <1>6 DEF Left

-----------------------------------------------------------------------------
(* Backups: the steps, by what they do to the points of a tier and an origin *)

PointsType == points \in [Tiers -> [Origins -> Seq(Point)]]
StateType  == /\ backupLease \in Origins \cup {"free"}
              /\ stage \in {"none", "begin", "prune_protected", "prune_degraded"} \cup Tiers
              /\ backupLease = "free" <=> stage = "none"
              /\ checked \subseteq Checkers
              /\ medium \in {"usable", "full", "missing"}
              /\ restore \in [status: ActiveRequest \cup {"none"}, tier: Tiers]

\* Points come in the order of their age.
Ordered(q) == \A i, j \in 1..Len(q) : i < j => q[i].age >= q[j].age

\* The same points, as old or as chosen as before.
SamePoints(q, r) == r \in Seq(Point) /\ Len(r) = Len(q)
SameAges(q, r)   == \A i \in 1..Len(q) : r[i].age = q[i].age
SameChoice(q, r) == \A i \in 1..Len(q) : r[i].chosen = q[i].chosen

LEMMA PointIs ==
  ASSUME NEW p \in Point
  PROVE  /\ p.age \in 0..Interval /\ p.intact \in BOOLEAN /\ p.chosen \in BOOLEAN
         /\ \A b \in BOOLEAN : /\ [p EXCEPT !.intact = b] \in Point
                               /\ [p EXCEPT !.intact = b].age = p.age
                               /\ [p EXCEPT !.intact = b].chosen = p.chosen
                               /\ [p EXCEPT !.chosen = b] \in Point
                               /\ [p EXCEPT !.chosen = b].age = p.age
                               /\ [p EXCEPT !.chosen = b].chosen = b
         /\ \A a \in 0..Interval : /\ [p EXCEPT !.age = a] \in Point
                                   /\ [p EXCEPT !.age = a].age = a
                                   /\ [p EXCEPT !.age = a].chosen = p.chosen
BY IntervalAssumption DEF Point

LEMMA PlaceIs ==
  ASSUME PointsType, NEW t \in Tiers, NEW o \in Origins
  PROVE  /\ points[t][o] \in Seq(Point) /\ Len(points[t][o]) \in Nat
         /\ DOMAIN points[t][o] = 1..Len(points[t][o])
         /\ \A i \in 1..Len(points[t][o]) : points[t][o][i] \in Point
<1>1. points[t][o] \in Seq(Point)
  BY DEF PointsType
<1> HIDE DEF PointsType
<1> QED BY <1>1, ElementOfSeq, LenProperties

\* A backup adds one point.
LEMMA WriteIs ==
  ASSUME PointsType, StateType, Write
  PROVE  /\ stage \in Tiers /\ backupLease \in Origins
         /\ NewPoint \in Point /\ NewPoint.age = 0
         /\ points' \in [Tiers -> [Origins -> Seq(Point)]]
         /\ \A t \in Tiers, o \in Origins :
              points'[t][o] = IF t = stage /\ o = backupLease THEN Append(points[t][o], NewPoint)
                                                               ELSE points[t][o]
<1>1. stage \in Tiers /\ backupLease \in Origins
  BY DEF Write, StateType, Tiers, Origins
<1>2. NewPoint \in Point /\ NewPoint.age = 0
  BY IntervalAssumption DEF NewPoint, Point
<1>3. points' = [points EXCEPT ![stage][backupLease] =
                   Append(points[stage][backupLease], NewPoint)]
  BY DEF Write
<1>4. points[stage][backupLease] \in Seq(Point)
  BY <1>1 DEF PointsType
<1>5. Append(points[stage][backupLease], NewPoint) \in Seq(Point)
  BY <1>2, <1>4, AppendProperties
<1> QED BY <1>1, <1>2, <1>3, <1>5 DEF PointsType

\* What is stale has as many points of its kind after it as are to be kept.
LEMMA StaleIs ==
  ASSUME PointsType, NEW t \in Tiers, NEW o \in Origins
  PROVE  /\ Keep(o) \in Nat \ {0}
         /\ Stale(t, o) \in SUBSET (1..Len(points[t][o]))
         /\ \A i \in Stale(t, o) : /\ i <= Len(points[t][o]) - Keep(o)
                                   /\ ~Shields(t, points[t][o][i])
<1> DEFINE n == Len(points[t][o])
<1>1. n \in Nat /\ DOMAIN points[t][o] = 1..n
  BY PlaceIs
<1>2. Keep(o) \in Nat \ {0}
  BY RetentionAssumption DEF Keep
<1>3. Candidates(t, o) \subseteq 1..n
  BY <1>1 DEF Candidates
<1>4. ASSUME NEW i \in Stale(t, o)
      PROVE  i \in 1..n /\ i <= n - Keep(o) /\ ~Shields(t, points[t][o][i])
  <2> DEFINE L == {j \in Candidates(t, o) : j > i}
  <2>1. i \in Candidates(t, o) /\ i \in 1..n /\ Cardinality(L) >= Keep(o)
    BY <1>3, <1>4 DEF Stale
  <2>2. L \in SUBSET ((i + 1)..n)
    BY <1>1, <1>3, <2>1
  <2>3. i + 1 \in Int /\ n \in Int
    BY <1>1, <2>1
  <2>4. /\ IsFiniteSet((i + 1)..n)
        /\ Cardinality((i + 1)..n) = IF i + 1 > n THEN 0 ELSE n - (i + 1) + 1
    BY <2>3, FS_Interval
  <2>5. Cardinality((i + 1)..n) = n - i
    BY <1>1, <2>1, <2>4
  <2>6. Cardinality(L) \in Nat /\ Cardinality(L) <= n - i
    BY <2>2, <2>4, <2>5, FS_Subset, FS_CardinalityType
  <2> HIDE DEF L, n
  <2> QED BY <1>1, <1>2, <2>1, <2>6 DEF Candidates
<1> QED BY <1>2, <1>4

\* Retention takes stale points of one tier.
LEMMA PruneIs ==
  ASSUME PointsType, StateType, NEW t \in Tiers, Prune(t)
  PROVE  /\ points' \in [Tiers -> [Origins -> Seq(Point)]]
         /\ \A u \in Tiers \ {t}, o \in Origins : points'[u][o] = points[u][o]
         /\ \A o \in Origins : \E gone \in SUBSET Stale(t, o) :
              points'[t][o] = Remaining(points[t][o], gone)
<1>1. PICK m \in SUBSET Stale(t, "manual"), s \in SUBSET Stale(t, "scheduled") :
        points' = [points EXCEPT ![t] = [manual |-> Remaining(points[t]["manual"], m),
                                         scheduled |-> Remaining(points[t]["scheduled"], s)]]
  BY DEF Prune
<1> DEFINE a == Remaining(points[t]["manual"], m)
           b == Remaining(points[t]["scheduled"], s)
           new == [manual |-> a, scheduled |-> b]
<1>2. "manual" \in Origins /\ "scheduled" \in Origins
  BY DEF Origins
<1>3. a \in Seq(Point)
  <2>1. points[t]["manual"] \in Seq(Point) /\ m \in SUBSET (1..Len(points[t]["manual"]))
    BY <1>2, PlaceIs, StaleIs
  <2> QED BY <2>1, LeftPoints
<1>4. b \in Seq(Point)
  <2>1. points[t]["scheduled"] \in Seq(Point) /\ s \in SUBSET (1..Len(points[t]["scheduled"]))
    BY <1>2, PlaceIs, StaleIs
  <2> QED BY <2>1, LeftPoints
<1>5. new \in [Origins -> Seq(Point)] /\ new["manual"] = a /\ new["scheduled"] = b
  <2> HIDE DEF a, b
  <2> QED BY <1>3, <1>4 DEF Origins
<1>6. points' = [points EXCEPT ![t] = new]
  BY <1>1
<1> HIDE DEF new
<1>7. points' \in [Tiers -> [Origins -> Seq(Point)]] /\ points'[t] = new
  BY <1>5, <1>6 DEF PointsType
<1>8. \A u \in Tiers \ {t}, o \in Origins : points'[u][o] = points[u][o]
  BY <1>6 DEF PointsType
<1>9. ASSUME NEW o \in Origins
      PROVE  \E gone \in SUBSET Stale(t, o) : points'[t][o] = Remaining(points[t][o], gone)
  <2>1. CASE o = "manual"
    BY <1>5, <1>7, <2>1
  <2>2. CASE o = "scheduled"
    BY <1>5, <1>7, <2>2
  <2> QED BY <2>1, <2>2 DEF Origins
<1> QED BY <1>7, <1>8, <1>9

\* A request chooses a point that exists.
LEMMA RequestIs ==
  ASSUME PointsType, StateType, NEW p \in Places, RequestRestore(p)
  PROVE  /\ points' \in [Tiers -> [Origins -> Seq(Point)]]
         /\ p[1] \in Tiers /\ p[2] \in Origins
         /\ restore' = [status |-> "requested", tier |-> p[1]]
         /\ p[3] \in 1..Len(points'[p[1]][p[2]]) /\ points'[p[1]][p[2]][p[3]].chosen
         /\ \A t \in Tiers, o \in Origins : /\ SamePoints(points[t][o], points'[t][o])
                                            /\ SameAges(points[t][o], points'[t][o])
<1> DEFINE t == p[1]
           o == p[2]
           i == p[3]
           q == points[t][o]
           r == [q EXCEPT ![i] = [q[i] EXCEPT !.chosen = TRUE]]
<1>1. t \in Tiers /\ o \in Origins
  BY DEF Places
<1>2. q \in Seq(Point) /\ i \in 1..Len(q) /\ q[i] \in Point
  BY <1>1, PlaceIs DEF RequestRestore, Exists
<1>3. points' = [points EXCEPT ![t] = [points[t] EXCEPT ![o] = r]]
  BY DEF RequestRestore
<1> HIDE DEF t, o, i
<1>4. [q[i] EXCEPT !.chosen = TRUE] \in Point /\ [q[i] EXCEPT !.chosen = TRUE].age = q[i].age
      /\ [q[i] EXCEPT !.chosen = TRUE].chosen = TRUE
  <2> HIDE DEF q
  <2> QED BY <1>2, PointIs
<1>5. r \in Seq(Point) /\ Len(r) = Len(q) /\ r[i].chosen
      /\ \A k \in 1..Len(q) : r[k].age = q[k].age
  <2> HIDE DEF q
  <2>1. r \in Seq(Point) /\ Len(r) = Len(q) /\ DOMAIN r = 1..Len(q)
    BY <1>2, <1>4, ExceptSeq
  <2> QED BY <1>2, <1>4, <2>1, ElementOfSeq, LenProperties
<1> HIDE DEF r
<1>6. /\ points' \in [Tiers -> [Origins -> Seq(Point)]]
      /\ points'[t][o] = r
      /\ \A u \in Tiers, v \in Origins : u # t \/ v # o => points'[u][v] = points[u][v]
  BY <1>1, <1>3, <1>5 DEF PointsType
<1>7. ASSUME NEW u \in Tiers, NEW v \in Origins
      PROVE  SamePoints(points[u][v], points'[u][v]) /\ SameAges(points[u][v], points'[u][v])
  <2>1. CASE u = t /\ v = o
    BY <1>5, <1>6, <2>1 DEF SamePoints, SameAges
  <2>2. CASE u # t \/ v # o
    BY <1>6, <2>2, PlaceIs DEF SamePoints, SameAges
  <2> QED BY <2>1, <2>2
<1>8. restore' = [status |-> "requested", tier |-> t]
  BY DEF RequestRestore, t
<1> QED BY <1>1, <1>2, <1>5, <1>6, <1>7, <1>8 DEF t, o, i

\* The end of a request lets go of its point.
LEMMA SettleIs ==
  ASSUME PointsType, StateType, Settle
  PROVE  /\ points' \in [Tiers -> [Origins -> Seq(Point)]]
         /\ \A t \in Tiers, o \in Origins : /\ SamePoints(points[t][o], points'[t][o])
                                            /\ SameAges(points[t][o], points'[t][o])
<1> DEFINE New(t, o) == [i \in DOMAIN points[t][o] |-> [points[t][o][i] EXCEPT !.chosen = FALSE]]
<1>1. points' = [t \in Tiers |-> [o \in Origins |-> New(t, o)]]
  BY DEF Settle, Every
<1>2. ASSUME NEW t \in Tiers, NEW o \in Origins
      PROVE  SamePoints(points[t][o], New(t, o)) /\ SameAges(points[t][o], New(t, o))
  <2> DEFINE q == points[t][o]
  <2>1. q \in Seq(Point) /\ DOMAIN q = 1..Len(q) /\ Len(q) \in Nat
        /\ \A i \in 1..Len(q) : q[i] \in Point
    BY PlaceIs
  <2> HIDE DEF q
  <2>2. \A i \in 1..Len(q) : [q[i] EXCEPT !.chosen = FALSE] \in Point
                             /\ [q[i] EXCEPT !.chosen = FALSE].age = q[i].age
    BY <2>1, PointIs
  <2>3. New(t, o) = [i \in 1..Len(q) |-> [q[i] EXCEPT !.chosen = FALSE]]
    BY <2>1 DEF q
  <2> HIDE DEF New
  <2> QED BY <2>1, <2>2, <2>3 DEF SamePoints, SameAges, q
<1> HIDE DEF New
<1> QED BY <1>1, <1>2 DEF SamePoints

\* An hour makes every scheduled point older, up to the interval.
LEMMA HourIs ==
  ASSUME PointsType, StateType, Hour
  PROVE  /\ points' \in [Tiers -> [Origins -> Seq(Point)]]
         /\ \A t \in Tiers, o \in Origins : /\ SamePoints(points[t][o], points'[t][o])
                                            /\ SameChoice(points[t][o], points'[t][o])
         /\ \A t \in Tiers : \A i \in 1..Len(points[t]["scheduled"]) :
              points'[t]["scheduled"][i].age =
                IF points[t]["scheduled"][i].age < Interval
                  THEN points[t]["scheduled"][i].age + 1 ELSE points[t]["scheduled"][i].age
<1> DEFINE Up(x)  == IF x < Interval THEN x + 1 ELSE x
           New(t) == [i \in DOMAIN points[t]["scheduled"] |-> Older(points[t]["scheduled"][i])]
<1>0. "manual" \in Origins /\ "scheduled" \in Origins
  BY DEF Origins
<1>1. points' = [t \in Tiers |-> [points[t] EXCEPT !["scheduled"] = New(t)]]
  BY Zenon DEF Hour
<1>2. ASSUME NEW t \in Tiers
      PROVE  /\ SamePoints(points[t]["scheduled"], New(t))
             /\ SameChoice(points[t]["scheduled"], New(t))
             /\ \A i \in 1..Len(points[t]["scheduled"]) :
                  New(t)[i].age = Up(points[t]["scheduled"][i].age)
  <2> DEFINE q == points[t]["scheduled"]
             r == New(t)
  <2>1. q \in Seq(Point) /\ DOMAIN q = 1..Len(q) /\ Len(q) \in Nat
        /\ \A i \in 1..Len(q) : q[i] \in Point
    BY <1>0, PlaceIs
  <2>2. r = [i \in 1..Len(q) |-> Older(q[i])]
    BY <2>1
  <2> HIDE DEF q, r
  <2>3. ASSUME NEW i \in 1..Len(q)
        PROVE  /\ Older(q[i]) \in Point /\ Older(q[i]).age = Up(q[i].age)
               /\ Older(q[i]).chosen = q[i].chosen
    <3>1. q[i] \in Point
      BY <2>1
    <3>2. Up(q[i].age) \in 0..Interval
      BY <3>1, PointIs, IntervalAssumption
    <3>3. Older(q[i]) = [q[i] EXCEPT !.age = Up(q[i].age)]
      BY DEF Older
    <3> HIDE DEF Up
    <3> QED BY <3>1, <3>2, <3>3, PointIs
  <2> HIDE DEF Up
  <2>4. SamePoints(q, r) /\ SameChoice(q, r) /\ \A i \in 1..Len(q) : r[i].age = Up(q[i].age)
    BY <2>1, <2>2, <2>3 DEF SamePoints, SameChoice
  <2> QED BY <2>4 DEF q, r
<1> HIDE DEF New
<1>3. ASSUME NEW t \in Tiers
      PROVE  /\ points'[t] \in [Origins -> Seq(Point)]
             /\ points'[t]["scheduled"] = New(t)
             /\ \A o \in Origins : o # "scheduled" => points'[t][o] = points[t][o]
  <2>1. points'[t] = [points[t] EXCEPT !["scheduled"] = New(t)]
    BY <1>1
  <2> QED BY <1>0, <1>2, <2>1 DEF PointsType, SamePoints
<1>4. points' \in [Tiers -> [Origins -> Seq(Point)]]
  BY <1>1, <1>3
<1>5. ASSUME NEW t \in Tiers, NEW o \in Origins
      PROVE  SamePoints(points[t][o], points'[t][o]) /\ SameChoice(points[t][o], points'[t][o])
  <2>1. CASE o = "scheduled"
    BY <1>2, <1>3, <2>1
  <2>2. CASE o # "scheduled"
    BY <1>3, <2>2, PlaceIs DEF SamePoints, SameChoice
  <2> QED BY <2>1, <2>2
<1> QED BY <1>2, <1>3, <1>4, <1>5

\* Damage changes no age and no choice.
LEMMA DamageIs ==
  ASSUME PointsType, StateType, NEW t \in Tiers, Damage(t)
  PROVE  /\ points' \in [Tiers -> [Origins -> Seq(Point)]]
         /\ \A u \in Tiers, o \in Origins : /\ SamePoints(points[u][o], points'[u][o])
                                            /\ SameAges(points[u][o], points'[u][o])
                                            /\ SameChoice(points[u][o], points'[u][o])
<1> DEFINE q == points[t]["scheduled"]
           n == Len(q)
           r == [q EXCEPT ![n] = [q[n] EXCEPT !.intact = FALSE]]
<1>0. "scheduled" \in Origins
  BY DEF Origins
<1>1. q \in Seq(Point) /\ n \in 1..n /\ q[n] \in Point
  <2>1. q \in Seq(Point) /\ n \in Nat /\ q # <<>> /\ \A i \in 1..n : q[i] \in Point
    BY <1>0, PlaceIs DEF Damage, HasNewest
  <2>2. n # 0
    BY <2>1, EmptySeq
  <2> QED BY <2>1, <2>2
<1>2. points' = [points EXCEPT ![t] = [points[t] EXCEPT !["scheduled"] = r]]
  BY DEF Damage
<1>3. SamePoints(q, r) /\ SameAges(q, r) /\ SameChoice(q, r)
  <2> HIDE DEF q, n
  <2>1. [q[n] EXCEPT !.intact = FALSE] \in Point /\ [q[n] EXCEPT !.intact = FALSE].age = q[n].age
        /\ [q[n] EXCEPT !.intact = FALSE].chosen = q[n].chosen
    BY <1>1, PointIs
  <2>2. r \in Seq(Point) /\ Len(r) = n
        /\ \A i \in 1..n : r[i] = IF i = n THEN [q[n] EXCEPT !.intact = FALSE] ELSE q[i]
    BY <1>1, <2>1, ExceptSeq DEF n
  <2> HIDE DEF r
  <2> QED BY <1>1, <2>1, <2>2 DEF SamePoints, SameAges, SameChoice, n
<1> HIDE DEF r
<1>4. /\ points' \in [Tiers -> [Origins -> Seq(Point)]]
      /\ points'[t]["scheduled"] = r
      /\ \A u \in Tiers, o \in Origins :
           u # t \/ o # "scheduled" => points'[u][o] = points[u][o]
  BY <1>0, <1>2, <1>3 DEF PointsType, SamePoints
<1>5. ASSUME NEW u \in Tiers, NEW o \in Origins
      PROVE  /\ SamePoints(points[u][o], points'[u][o])
             /\ SameAges(points[u][o], points'[u][o])
             /\ SameChoice(points[u][o], points'[u][o])
  <2>1. CASE u = t /\ o = "scheduled"
    BY <1>3, <1>4, <2>1
  <2>2. CASE u # t \/ o # "scheduled"
    BY <1>4, <2>2, PlaceIs DEF SamePoints, SameAges, SameChoice
  <2> QED BY <2>1, <2>2
<1> QED BY <1>4, <1>5

\* All other steps leave the points alone.
LEMMA PointsMove ==
  ASSUME [BackupsNext]_backupsVars
  PROVE  \/ Write \/ Settle \/ Hour
         \/ \E t \in Tiers : Prune(t) \/ Damage(t)
         \/ \E p \in Places : RequestRestore(p)
         \/ UNCHANGED points
BY DEF BackupsNext, backupsVars, DueCheck, BeginBackup, CatchUp, Choose, WriteFails, ClaimRestore,
       MediumChanges, MachineDies

-----------------------------------------------------------------------------
(* Backups: type correctness *)

LEMMA StateNext == PointsType /\ StateType /\ [BackupsNext]_backupsVars => StateType'
<1> SUFFICES ASSUME PointsType, StateType, [BackupsNext]_backupsVars PROVE StateType'
  OBVIOUS
<1>0. /\ backupLease \in Origins \cup {"free"}
      /\ stage \in {"none", "begin", "prune_protected", "prune_degraded"} \cup Tiers
      /\ backupLease = "free" <=> stage = "none"
      /\ checked \subseteq Checkers
      /\ medium \in {"usable", "full", "missing"}
      /\ restore \in [status: ActiveRequest \cup {"none"}, tier: Tiers]
  BY DEF StateType
<1>1. ASSUME NEW job \in Checkers, DueCheck(job) PROVE StateType'
  BY <1>0, <1>1 DEF StateType, DueCheck
<1>2. ASSUME NEW o \in Origins, BeginBackup(o) PROVE StateType'
  BY <1>0, <1>2 DEF StateType, BeginBackup, Acquire, Origins, Tiers
<1>3. ASSUME NEW job \in Checkers, CatchUp(job) PROVE StateType'
  BY <1>0, <1>3 DEF StateType, CatchUp, Acquire, Origins, Tiers
<1>4. CASE Choose
  BY <1>0, <1>4 DEF StateType, Choose, Release, Origins, Tiers
<1>5. CASE Write
  BY <1>0, <1>5 DEF StateType, Write, Pruning, Origins, Tiers
<1>6. CASE WriteFails
  BY <1>0, <1>6 DEF StateType, WriteFails, Release, Origins, Tiers
<1>7. ASSUME NEW t \in Tiers, Prune(t) PROVE StateType'
  BY <1>0, <1>7 DEF StateType, Prune, Release, Origins, Tiers
<1>8. ASSUME NEW p \in Places, RequestRestore(p) PROVE StateType'
  <2>1. p[1] \in Tiers /\ restore' = [status |-> "requested", tier |-> p[1]]
    BY <1>8, RequestIs
  <2>2. restore' \in [status: ActiveRequest \cup {"none"}, tier: Tiers]
    BY <2>1 DEF ActiveRequest
  <2> QED BY <1>0, <1>8, <2>2 DEF StateType, RequestRestore
<1>9. CASE ClaimRestore
  <2>1. restore' \in [status: ActiveRequest \cup {"none"}, tier: Tiers]
    BY <1>0, <1>9 DEF ClaimRestore, ActiveRequest
  <2> QED BY <1>0, <1>9, <2>1 DEF StateType, ClaimRestore
<1>10. CASE Settle
  <2>1. restore' \in [status: ActiveRequest \cup {"none"}, tier: Tiers]
    BY <1>10 DEF Settle, Tiers
  <2> QED BY <1>0, <1>10, <2>1 DEF StateType, Settle
<1>11. CASE Hour
  BY <1>0, <1>11 DEF StateType, Hour
<1>12. CASE MediumChanges
  BY <1>0, <1>12 DEF StateType, MediumChanges
<1>13. CASE MachineDies
  BY <1>0, <1>13 DEF StateType, MachineDies, Release, Origins, Tiers
<1>14. ASSUME NEW t \in Tiers, Damage(t) PROVE StateType'
  BY <1>0, <1>14 DEF StateType, Damage
<1>15. CASE UNCHANGED backupsVars
  BY <1>0, <1>15 DEF StateType, backupsVars
<1> QED BY <1>1, <1>2, <1>3, <1>4, <1>5, <1>6, <1>7, <1>8, <1>9, <1>10, <1>11, <1>12, <1>13,
           <1>14, <1>15 DEF BackupsNext

LEMMA PointsNext == PointsType /\ StateType /\ [BackupsNext]_backupsVars => PointsType'
BY PointsMove, WriteIs, PruneIs, RequestIs, SettleIs, HourIs, DamageIs DEF PointsType

OrderInv == \A t \in Tiers : Ordered(points[t]["scheduled"])

LEMMA OrderNext ==
  ASSUME PointsType, StateType, OrderInv, [BackupsNext]_backupsVars
  PROVE  OrderInv'
<1> SUFFICES ASSUME NEW t \in Tiers PROVE Ordered(points'[t]["scheduled"])
  BY DEF OrderInv
<1> DEFINE q == points[t]["scheduled"]
           r == points'[t]["scheduled"]
<1>0. "scheduled" \in Origins
  BY DEF Origins
<1>1. /\ Ordered(q) /\ q \in Seq(Point) /\ Len(q) \in Nat
      /\ \A i \in 1..Len(q) : q[i].age \in 0..Interval
  BY <1>0, PlaceIs, PointIs DEF OrderInv
<1>2. ASSUME SamePoints(q, r), SameAges(q, r) PROVE Ordered(r)
  BY <1>1, <1>2 DEF Ordered, SamePoints, SameAges
<1>3. ASSUME Write PROVE Ordered(r)
  <2>1. NewPoint \in Point /\ NewPoint.age = 0 /\ (r = q \/ r = Append(q, NewPoint))
    BY <1>0, <1>3, WriteIs
  <2>2. CASE r = Append(q, NewPoint)
    <3>1. Len(r) = Len(q) + 1 /\ r[Len(q) + 1] = NewPoint /\ \A i \in 1..Len(q) : r[i] = q[i]
      BY <1>1, <2>1, <2>2, AppendProperties
    <3> HIDE DEF q, r
    <3> SUFFICES ASSUME NEW k \in 1..Len(r), NEW l \in 1..Len(r), k < l
                 PROVE  r[k].age >= r[l].age
      BY DEF Ordered
    <3>2. k \in 1..Len(q) /\ (l \in 1..Len(q) \/ l = Len(q) + 1)
      BY <1>1, <3>1
    <3>3. CASE l \in 1..Len(q)
      BY <1>1, <3>1, <3>2, <3>3 DEF Ordered
    <3>4. CASE l = Len(q) + 1
      BY <1>1, <2>1, <3>1, <3>2, <3>4
    <3> QED BY <3>2, <3>3, <3>4
  <2> QED BY <1>1, <2>1, <2>2
<1>4. ASSUME NEW u \in Tiers, Prune(u) PROVE Ordered(r)
  <2>1. CASE u # t
    BY <1>0, <1>1, <1>4, <2>1, PruneIs
  <2>2. CASE u = t
    <3>1. PICK gone \in SUBSET Stale(t, "scheduled") : r = Remaining(q, gone)
      BY <1>0, <1>4, <2>2, PruneIs
    <3>2. gone \in SUBSET (1..Len(q))
      BY <1>0, <3>1, StaleIs
    <3> HIDE DEF q, r
    <3>3. /\ Len(r) = Left(gone, Len(q))
          /\ \A i \in Below(gone, Len(q)) : Left(gone, i) \in 1..Len(r) /\ r[Left(gone, i)] = q[i]
          /\ \A k \in 1..Len(r) : \E i \in Below(gone, Len(q)) : Left(gone, i) = k
      <4>1. q \in Seq(Point)
        BY <1>1
      <4>2. Len(r) = Left(gone, Len(q))
        BY <3>1, <3>2, <4>1, LeftPoints
      <4>3. \A i \in Below(gone, Len(q)) : Left(gone, i) \in 1..Len(r) /\ r[Left(gone, i)] = q[i]
        BY <3>1, <3>2, <4>1, LeftPoints
      <4>4. \A k \in 1..Len(r) : \E i \in Below(gone, Len(q)) : Left(gone, i) = k
        BY <3>1, <3>2, <4>1, LeftPoints
      <4> QED BY <4>2, <4>3, <4>4
    <3> SUFFICES ASSUME NEW k \in 1..Len(r), NEW l \in 1..Len(r), k < l
                 PROVE  r[k].age >= r[l].age
      BY DEF Ordered
    <3>4. PICK i \in Below(gone, Len(q)) : Left(gone, i) = k
      BY <3>3
    <3>5. PICK j \in Below(gone, Len(q)) : Left(gone, j) = l
      BY <3>3
    <3>6. i \in 1..Len(q) /\ j \in 1..Len(q) /\ i \in 0..Len(q) /\ j \in 0..Len(q)
      BY <1>1 DEF Below
    <3>7. j < i => Left(gone, j) < Left(gone, i)
      BY <1>1, <3>2, <3>6, BelowFacts
    <3>8. i < j
      BY <3>4, <3>5, <3>6, <3>7
    <3> QED BY <1>1, <3>3, <3>4, <3>5, <3>6, <3>8 DEF Ordered
  <2> QED BY <2>1, <2>2
<1>5. ASSUME NEW u \in Tiers, Damage(u) PROVE Ordered(r)
  BY <1>0, <1>2, <1>5, DamageIs
<1>6. ASSUME NEW p \in Places, RequestRestore(p) PROVE Ordered(r)
  BY <1>0, <1>2, <1>6, RequestIs
<1>7. CASE Settle
  BY <1>0, <1>2, <1>7, SettleIs
<1>8. ASSUME Hour PROVE Ordered(r)
  <2>1. /\ SamePoints(q, r)
        /\ \A i \in 1..Len(q) : r[i].age = IF q[i].age < Interval THEN q[i].age + 1 ELSE q[i].age
    BY <1>0, <1>8, HourIs
  <2> HIDE DEF q, r
  <2> SUFFICES ASSUME NEW k \in 1..Len(r), NEW l \in 1..Len(r), k < l
               PROVE  r[k].age >= r[l].age
    BY DEF Ordered
  <2>2. k \in 1..Len(q) /\ l \in 1..Len(q)
    BY <2>1 DEF SamePoints
  <2>3. q[k].age >= q[l].age /\ q[k].age \in 0..Interval /\ q[l].age \in 0..Interval
    BY <1>1, <2>2 DEF Ordered
  <2> QED BY <2>1, <2>2, <2>3, IntervalAssumption
<1>9. CASE UNCHANGED points
  BY <1>1, <1>9
<1> QED BY <1>3, <1>4, <1>5, <1>6, <1>7, <1>8, <1>9, PointsMove

-----------------------------------------------------------------------------
(* Backups: the inductive invariant *)

\* A backup that has chosen its target has seen that no restore runs, and none
\* is claimed while it holds the lease.
ClearInv == stage \in Tiers => ~RestoreRuns

BackupInv == PointsType /\ StateType /\ OrderInv /\ ClearInv /\ SelectedLocalStays

LEMMA BackupInit == BackupsInit => BackupInv
<1> SUFFICES ASSUME BackupsInit PROVE BackupInv
  OBVIOUS
<1>1. points = [t \in Tiers |-> [o \in Origins |-> <<>>]] /\ <<>> \in Seq(Point)
  BY EmptySeq DEF BackupsInit
<1>2. PointsType
  BY <1>1 DEF PointsType
<1>3. OrderInv
  <2>1. "scheduled" \in Origins
    BY DEF Origins
  <2>2. Len(<<>>) = 0
    BY EmptySeq
  <2>3. \A t \in Tiers : points[t]["scheduled"] = <<>>
    BY <1>1, <2>1
  <2> QED BY <2>2, <2>3 DEF OrderInv, Ordered
<1>4. restore = [status |-> "none", tier |-> "degraded"]
  BY DEF BackupsInit
<1>5. StateType
  <2>1. restore \in [status: ActiveRequest \cup {"none"}, tier: Tiers]
    BY <1>4 DEF Tiers
  <2> QED BY <2>1 DEF BackupsInit, StateType
<1>6. ClearInv /\ SelectedLocalStays
  BY <1>4 DEF ClearInv, RestoreRuns, SelectedLocalStays, ActiveRequest
<1> QED BY <1>2, <1>3, <1>5, <1>6 DEF BackupInv

LEMMA ClearNext ==
  ASSUME StateType, ClearInv, [BackupsNext]_backupsVars
  PROVE  ClearInv'
<1>0. /\ backupLease = "free" <=> stage = "none"
      /\ backupLease = "free" => stage \notin Tiers
  BY DEF StateType, Tiers
<1>1. CASE Choose
  BY <1>1 DEF ClearInv, Choose, RestoreRuns, Release, Tiers
<1>2. CASE WriteFails
  BY <1>2 DEF ClearInv, WriteFails, RestoreRuns, Release, Tiers
<1>3. CASE Write
  BY <1>3 DEF ClearInv, Write, Pruning, Tiers
<1>4. ASSUME NEW o \in Origins, BeginBackup(o) PROVE ClearInv'
  BY <1>4 DEF ClearInv, BeginBackup, Acquire, Tiers
<1>5. ASSUME NEW job \in Checkers, CatchUp(job) PROVE ClearInv'
  BY <1>5 DEF ClearInv, RestoreRuns, CatchUp, Acquire, Tiers
<1>6. ASSUME NEW t \in Tiers, Prune(t) PROVE ClearInv'
  BY <1>6 DEF ClearInv, Prune, Release, Tiers
<1>7. ASSUME NEW p \in Places, RequestRestore(p) PROVE ClearInv'
  BY <1>0, <1>7 DEF ClearInv, RequestRestore
<1>8. CASE ClaimRestore
  BY <1>0, <1>8 DEF ClearInv, ClaimRestore
<1>9. CASE Settle
  BY <1>0, <1>9 DEF ClearInv, Settle
<1>10. CASE MachineDies
  BY <1>10 DEF ClearInv, MachineDies, Release, Tiers
<1>11. CASE Hour \/ MediumChanges \/ (\E t \in Tiers : Damage(t))
            \/ (\E job \in Checkers : DueCheck(job)) \/ UNCHANGED backupsVars
  BY <1>11 DEF ClearInv, RestoreRuns, Hour, MediumChanges, Damage, DueCheck, backupsVars
<1> QED BY <1>1, <1>2, <1>3, <1>4, <1>5, <1>6, <1>7, <1>8, <1>9, <1>10, <1>11 DEF BackupsNext

\* A request is active for a point of the local tier, and the point that is chosen is
\* among those with an origin.
LocalChosen == restore.status \in ActiveRequest /\ restore.tier = "degraded"
ChosenIn(o) == \E i \in 1..Len(points["degraded"][o]) : points["degraded"][o][i].chosen

LEMMA ChosenIs ==
  ASSUME PointsType
  PROVE  SelectedLocalStays <=>
           (LocalChosen => \E o \in Origins : ChosenIn(o))
<1>1. "degraded" \in Tiers
  BY DEF Tiers
<1>2. \A o \in Origins : DOMAIN points["degraded"][o] = 1..Len(points["degraded"][o])
  BY <1>1, PlaceIs
<1> QED BY <1>2, Zenon DEF SelectedLocalStays, ChosenIn, LocalChosen

LEMMA ChosenNext ==
  ASSUME PointsType, StateType, SelectedLocalStays, [BackupsNext]_backupsVars
  PROVE  SelectedLocalStays'
<1>0. PointsType' /\ "degraded" \in Tiers
  BY PointsNext DEF Tiers
<1>1. /\ LocalChosen => \E o \in Origins : ChosenIn(o)
      /\ SelectedLocalStays' <=>
           (LocalChosen' => \E o \in Origins : ChosenIn(o)')
  <2>1. SelectedLocalStays' <=>
           (LocalChosen' => \E o \in Origins : ChosenIn(o)')
    <3>1. \A o \in Origins : DOMAIN points'["degraded"][o] = 1..Len(points'["degraded"][o])
      BY <1>0, LenProperties DEF PointsType
    <3> QED BY <3>1, Zenon DEF SelectedLocalStays, ChosenIn, LocalChosen
  <2> QED BY <2>1, ChosenIs
\* A step that changes neither the request nor what is chosen.
<1>2. ASSUME LocalChosen' => LocalChosen,
             \A o \in Origins : /\ Len(points'["degraded"][o]) = Len(points["degraded"][o])
                                /\ SameChoice(points["degraded"][o], points'["degraded"][o])
      PROVE  SelectedLocalStays'
  <2>1. ASSUME NEW o \in Origins, ChosenIn(o) PROVE ChosenIn(o)'
    BY <1>2, <2>1 DEF ChosenIn, SameChoice
  <2> QED BY <1>1, <1>2, <2>1
<1>3. CASE UNCHANGED points /\ ~(\E p \in Places : RequestRestore(p)) /\ ~Settle
  <2>1. \/ restore' = restore
        \/ restore.status = "requested" /\ restore' = [restore EXCEPT !.status = "in_progress"]
    BY <1>3 DEF BackupsNext, backupsVars, DueCheck, BeginBackup, CatchUp, Choose, Write, WriteFails,
                Prune, ClaimRestore, Hour, MediumChanges, MachineDies, Damage
  <2>2. LocalChosen' => LocalChosen
    BY <2>1 DEF StateType, LocalChosen, ActiveRequest
  <2> QED BY <1>2, <1>3, <2>2 DEF SameChoice
<1>4. CASE Write
  <2>1. UNCHANGED restore
    BY <1>4 DEF Write
  <2>2. ASSUME NEW o \in Origins, ChosenIn(o) PROVE ChosenIn(o)'
    <3> DEFINE q == points["degraded"][o]
               r == points'["degraded"][o]
    <3>1. q \in Seq(Point) /\ NewPoint \in Point /\ Len(q) \in Nat
          /\ (r = q \/ r = Append(q, NewPoint))
      BY <1>0, <1>4, PlaceIs, WriteIs
    <3>2. r = q \/ (Len(r) = Len(q) + 1 /\ \A i \in 1..Len(q) : r[i] = q[i])
      BY <3>1, AppendProperties
    <3> QED BY <2>2, <3>1, <3>2 DEF ChosenIn
  <2> QED BY <1>1, <2>1, <2>2 DEF LocalChosen
<1>5. ASSUME NEW t \in Tiers, Prune(t) PROVE SelectedLocalStays'
  <2>1. UNCHANGED restore
    BY <1>5 DEF Prune
  <2>2. ASSUME NEW o \in Origins, ChosenIn(o), LocalChosen PROVE ChosenIn(o)'
    <3>1. CASE t # "degraded"
      <4>1. points'["degraded"][o] = points["degraded"][o]
        BY <1>0, <1>5, <3>1, PruneIs
      <4> QED BY <2>2, <4>1 DEF ChosenIn
    <3>2. CASE t = "degraded"
      <4> DEFINE q == points["degraded"][o]
                 r == points'["degraded"][o]
      <4>1. PICK gone \in SUBSET Stale("degraded", o) : r = Remaining(q, gone)
        BY <1>5, <3>2, PruneIs
      <4>2. PICK i \in 1..Len(q) : q[i].chosen
        BY <2>2 DEF ChosenIn
      <4>3. Shields("degraded", q[i])
        BY <2>2, <4>2 DEF Shields, LocalChosen
      <4>4. gone \in SUBSET (1..Len(q)) /\ i \notin gone
        BY <1>0, <4>1, <4>3, StaleIs
      <4>5. i \in Below(gone, Len(q))
        BY <4>4 DEF Below
      <4>6. q \in Seq(Point)
        BY <1>0, PlaceIs
      <4> HIDE DEF q, r
      <4>7. Left(gone, i) \in 1..Len(r) /\ r[Left(gone, i)] = q[i]
        BY <4>1, <4>4, <4>5, <4>6, LeftPoints
      <4>8. r[Left(gone, i)].chosen
        BY <4>2, <4>7
      <4> QED BY <4>7, <4>8 DEF ChosenIn, r
    <3> QED BY <3>1, <3>2
  <2> QED BY <1>1, <2>1, <2>2 DEF LocalChosen
<1>6. ASSUME NEW p \in Places, RequestRestore(p) PROVE SelectedLocalStays'
  <2>1. /\ p[1] \in Tiers /\ p[2] \in Origins
        /\ restore' = [status |-> "requested", tier |-> p[1]]
        /\ p[3] \in 1..Len(points'[p[1]][p[2]]) /\ points'[p[1]][p[2]][p[3]].chosen
    BY <1>6, RequestIs
  <2>2. ASSUME restore'.tier = "degraded" PROVE ChosenIn(p[2])'
    <3>1. p[1] = "degraded"
      BY <2>1, <2>2
    <3> QED BY <2>1, <3>1 DEF ChosenIn
  <2> QED BY <1>1, <2>1, <2>2 DEF LocalChosen
<1>7. CASE Settle
  BY <1>1, <1>7 DEF Settle, ActiveRequest, LocalChosen
<1>8. CASE Hour
  <2>1. UNCHANGED restore
    BY <1>8 DEF Hour
  <2> QED BY <1>0, <1>2, <1>8, <2>1, HourIs DEF SamePoints, LocalChosen
<1>9. ASSUME NEW t \in Tiers, Damage(t) PROVE SelectedLocalStays'
  <2>1. UNCHANGED restore
    BY <1>9 DEF Damage
  <2> QED BY <1>0, <1>2, <1>9, <2>1, DamageIs DEF SamePoints, LocalChosen
<1> QED BY <1>3, <1>4, <1>5, <1>6, <1>7, <1>8, <1>9, PointsMove

LEMMA BackupNext == BackupInv /\ [BackupsNext]_backupsVars => BackupInv'
BY PointsNext, StateNext, OrderNext, ClearNext, ChosenNext DEF BackupInv

LEMMA BackupCorrect == BackupsSpec => []BackupInv
BY BackupInit, BackupNext, PTL DEF BackupsSpec

\* The lease and the stage of a backup go together, and the points of a kind come in the
\* order of their age.
THEOREM BackupTypes == BackupsSpec => []BackupsTypeOK
<1>1. BackupInv => BackupsTypeOK
  <2> SUFFICES ASSUME BackupInv PROVE BackupsTypeOK
    OBVIOUS
  <2>1. "scheduled" \in Origins
    BY DEF Origins
  <2>2. \A t \in Tiers : DOMAIN points[t]["scheduled"] = 1..Len(points[t]["scheduled"])
    BY <2>1, PlaceIs DEF BackupInv
  <2>3. \A t \in Tiers : \A i, j \in DOMAIN points[t]["scheduled"] :
       i < j => points[t]["scheduled"][i].age >= points[t]["scheduled"][j].age
    BY <2>2 DEF BackupInv, OrderInv, Ordered
  <2> QED BY <2>3 DEF BackupInv, PointsType, StateType, BackupsTypeOK
<1> QED BY <1>1, BackupCorrect, PTL

\* The restore point that an active request names stays on the local tier
\* (_active_restore_protected_ids), whatever is backed up and pruned.
THEOREM ChosenPointStays == BackupsSpec => []SelectedLocalStays
<1>1. BackupInv => SelectedLocalStays
  BY DEF BackupInv
<1> QED BY <1>1, BackupCorrect, PTL

\* Only a backup adds a point, and only retention takes any.
LEMMA PruneShrinks ==
  ASSUME PointsType, StateType, NEW t \in Tiers, Prune(t),
         NEW u \in Tiers, NEW o \in Origins
  PROVE  Len(points'[u][o]) <= Len(points[u][o])
<1>0. points[u][o] \in Seq(Point) /\ Len(points[u][o]) \in Nat
  BY PlaceIs
<1>1. CASE u # t
  BY <1>0, <1>1, PruneIs
<1>2. CASE u = t
  <2> DEFINE q == points[u][o]
  <2>1. PICK gone \in SUBSET Stale(u, o) : points'[u][o] = Remaining(q, gone)
    BY <1>2, PruneIs
  <2>2. gone \in SUBSET (1..Len(q))
    BY StaleIs
  <2>3. Len(points'[u][o]) = Left(gone, Len(q))
    BY <1>0, <2>1, <2>2, LeftPoints
  <2>4. Left(gone, Len(q)) <= Len(q)
    <3>1. Len(q) \in 0..Len(q)
      BY <1>0
    <3> HIDE DEF q
    <3> QED BY <1>0, <2>2, <3>1, BelowFacts DEF q
  <2> QED BY <2>3, <2>4
<1> QED BY <1>1, <1>2

LEMMA LengthStays ==
  ASSUME PointsType, StateType, [BackupsNext]_backupsVars, NEW t \in Tiers, NEW o \in Origins,
         ~Write, \A u \in Tiers : ~Prune(u)
  PROVE  Len(points'[t][o]) = Len(points[t][o])
<1>1. CASE Settle
  BY <1>1, SettleIs DEF SamePoints
<1>2. CASE Hour
  BY <1>2, HourIs DEF SamePoints
<1>3. ASSUME NEW u \in Tiers, Damage(u) PROVE Len(points'[t][o]) = Len(points[t][o])
  BY <1>3, DamageIs DEF SamePoints
<1>4. ASSUME NEW p \in Places, RequestRestore(p) PROVE Len(points'[t][o]) = Len(points[t][o])
  BY <1>4, RequestIs DEF SamePoints
<1>5. CASE UNCHANGED points
  BY <1>5
<1> QED BY <1>1, <1>2, <1>3, <1>4, <1>5, PointsMove

\* No backup publishes a point between the claim of a restore and its end
\* (_ensure_restore_not_active), although the claim gives the lease back.
THEOREM NothingPublished == BackupsSpec => NoBackupInsideRestore
<1>1. BackupInv /\ [BackupsNext]_backupsVars =>
        \A t \in Tiers, o \in Origins :
          Len(points'[t][o]) > Len(points[t][o])
            => restore.status \notin {"in_progress", "db_restored"}
  <2> SUFFICES ASSUME BackupInv, [BackupsNext]_backupsVars, NEW t \in Tiers, NEW o \in Origins,
                      Len(points'[t][o]) > Len(points[t][o])
               PROVE  restore.status \notin {"in_progress", "db_restored"}
    OBVIOUS
  <2>1. PointsType /\ StateType /\ ClearInv /\ Len(points[t][o]) \in Nat
    BY PlaceIs DEF BackupInv
  <2>2. CASE Write
    BY <2>1, <2>2 DEF Write, ClearInv, RestoreRuns
  <2>3. ASSUME NEW u \in Tiers, Prune(u) PROVE FALSE
    <3>1. Len(points'[t][o]) <= Len(points[t][o]) /\ points'[t][o] \in Seq(Point)
      BY <2>1, <2>3, PruneShrinks, PruneIs
    <3>2. Len(points'[t][o]) \in Nat
      BY <3>1, LenProperties
    <3> QED BY <2>1, <3>1, <3>2
  <2>4. CASE ~Write /\ \A u \in Tiers : ~Prune(u)
    <3>1. Len(points'[t][o]) = Len(points[t][o])
      BY <2>1, <2>4, LengthStays
    <3> QED BY <2>1, <3>1
  <2> QED BY <2>2, <2>3, <2>4
<1> QED BY <1>1, BackupCorrect, PTL DEF BackupsSpec, NoBackupInsideRestore

\* Retention leaves as many of the newest points of a kind as the settings say, and
\* leaves them what they were, also when it ends half-way.
THEOREM NewestStay == BackupsSpec => NewestIsKept
<1>1. BackupInv /\ [BackupsNext]_backupsVars =>
        \A t \in Tiers, o \in Origins :
          LET old == points[t][o]
              new == points'[t][o]
          IN Len(new) < Len(old) =>
               /\ Len(new) >= Keep(o)
               /\ \A k \in 0..(Keep(o) - 1) : new[Len(new) - k] = old[Len(old) - k]
  <2> SUFFICES ASSUME BackupInv, [BackupsNext]_backupsVars, NEW t \in Tiers, NEW o \in Origins,
                      Len(points'[t][o]) < Len(points[t][o])
               PROVE  /\ Len(points'[t][o]) >= Keep(o)
                      /\ \A k \in 0..(Keep(o) - 1) :
                           points'[t][o][Len(points'[t][o]) - k] = points[t][o][Len(points[t][o]) - k]
    OBVIOUS
  <2> DEFINE q == points[t][o]
             r == points'[t][o]
  <2>1. PointsType /\ StateType /\ q \in Seq(Point) /\ Len(q) \in Nat
    BY PlaceIs DEF BackupInv
  <2>2. ~Write
    <3> SUFFICES ASSUME Write PROVE FALSE
      OBVIOUS
    <3>1. NewPoint \in Point /\ (r = q \/ r = Append(q, NewPoint))
      BY <2>1, WriteIs
    <3>2. r = q \/ Len(r) = Len(q) + 1
      BY <2>1, <3>1, AppendProperties
    <3> QED BY <2>1, <3>2
  <2>3. PICK u \in Tiers : Prune(u)
    BY <2>1, <2>2, LengthStays
  <2>4. u = t
    BY <2>1, <2>3, PruneIs
  <2>5. PICK gone \in SUBSET Stale(t, o) : r = Remaining(q, gone)
    BY <2>1, <2>3, <2>4, PruneIs
  <2> DEFINE n == Len(q)
             m == Keep(o)
  <2>6. m \in Nat \ {0} /\ gone \in SUBSET (1..n) /\ \A i \in gone : i <= n - m
    BY <2>1, StaleIs
  <2> Len(r) < Len(q)
    OBVIOUS
  <2> HIDE DEF q, r, m
  <2>7. /\ Len(r) = Left(gone, n)
        /\ \A i \in Below(gone, n) : Left(gone, i) \in 1..Len(r) /\ r[Left(gone, i)] = q[i]
    BY <2>1, <2>5, <2>6, LeftPoints
  <2>8. gone # {}
    <3> SUFFICES ASSUME gone = {} PROVE FALSE
      OBVIOUS
    <3>1. Left(gone, n) = n - Cardinality(gone)
      BY <2>1, <2>6, LeftFacts
    <3> QED BY <2>1, <2>7, <3>1, FS_EmptySet
  <2>9. m <= n
    <3>1. PICK i \in gone : i \in 1..n /\ i <= n - m
      BY <2>6, <2>8
    <3> HIDE DEF n
    <3> QED BY <2>1, <2>6, <3>1 DEF n
  <2> HIDE DEF n
  <2>10. n \in Nat /\ \A k \in 0..m : Left(gone, n - k) = Left(gone, n) - k
    BY <2>1, <2>6, <2>9, LastStay DEF n
  <2>11. Len(r) >= m
    <3>1. Left(gone, n - m) \in Nat /\ Left(gone, n) \in Nat
      <4>1. n - m \in 0..n /\ n \in 0..n
        BY <2>6, <2>9, <2>10
      <4> QED BY <2>6, <2>10, <4>1, BelowFacts
    <3>2. Left(gone, n - m) = Left(gone, n) - m
      BY <2>6, <2>10
    <3> QED BY <2>6, <2>7, <3>1, <3>2
  <2>12. ASSUME NEW k \in 0..(m - 1) PROVE r[Len(r) - k] = q[n - k]
    <3>1. n - k \in Below(gone, n)
      <4>1. n - k \in 1..n /\ n - k \notin gone
        BY <2>6, <2>9, <2>10
      <4> QED BY <4>1 DEF Below
    <3>2. Left(gone, n - k) = Len(r) - k
      BY <2>6, <2>7, <2>10
    <3> QED BY <2>7, <3>1, <3>2
  <2> QED BY <2>11, <2>12 DEF q, r, m, n
<1> QED BY <1>1, BackupCorrect, PTL DEF BackupsSpec, NewestIsKept
=============================================================================
