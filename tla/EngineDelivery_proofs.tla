------------------------ MODULE EngineDelivery_proofs ------------------------
(***************************************************************************)
(* Proofs about EngineDelivery, for any cameras and channels and any       *)
(* number of events, edits and crashes.                                    *)
(***************************************************************************)
EXTENDS EngineDelivery, FiniteSetTheorems, TLAPS

-----------------------------------------------------------------------------
(* The inductive invariant *)

\* The events that fired are the first ones.
NumberInv == \E n \in 0..MaxEvents : Fired = 1..n

\* An event that fired has a camera, and it is not served twice.
EventInv ==
  \A e \in Events : /\ place[e] # "unfired" => site[e] \in Cameras
                    /\ opened[e] \in {0, 1}

\* The inference thread stores the event that is still in its memory, and a camera whose
\* stream it takes for the one of the batch has a stream.
PipeInv ==
  /\ pipe.pc = "firing" => pipe.event \in Events /\ place[pipe.event] = "memory"
  /\ pipe.pc # "idle" => \A c \in pipe.current : stream[c] # NULL

\* The backend has done what it answers.
Backed(e, answer) ==
  /\ answer \in {"CREATED", "DUPLICATE"} => opened[e] = 1
  /\ answer = "CONFLICT" => rival[e] # NoEvent
  /\ answer = "CAMERA_GONE" => e \in gone

\* The worker posts an event that stays in the outbox until it has the answer.
WorkerInv ==
  /\ WorkerAt("posted") => /\ worker.event \in Events /\ place[worker.event] = "outbox"
                           /\ Backed(worker.event, worker.answer)
  /\ WorkerAt("cycle") => worker.answer = "none"

\* A request that is still under way is of an event that was durable when it was sent.
LateInv == \A e \in late : place[e] \in {"outbox", "done", "aside"}

ThreadInv == EventInv /\ PipeInv /\ WorkerInv /\ LateInv

IInv == NumberInv /\ ThreadInv

-----------------------------------------------------------------------------
(* Type correctness *)

CamType    == cam \in [Cameras -> CameraRow]
EventsType == /\ opened \in [Events -> Nat]
              /\ gone \subseteq Events
              /\ rival \in [Events -> Events \cup {NoEvent}]
              /\ place \in [Events -> Places]
              /\ waiting \subseteq Events /\ late \subseteq Events
              /\ site \in [Events -> Cameras \cup {NULL}]
StreamType == stream \in [Cameras -> Stream \cup {NULL}]
PipeType   == pipe \in {Idle} \cup [pc : {"batch", "firing"}, batch : SUBSET Cameras,
                                   current : SUBSET Cameras, event : Events \cup {NoEvent}]
Answers    == {"none", "CREATED", "DUPLICATE", "CONFLICT", "CAMERA_GONE", "QUARANTINE"}
Working    == [pc : {"cycle", "posted"}, todo : SUBSET Events, event : Events \cup {NoEvent},
               answer : Answers]
WorkerType == worker \in {Idle} \cup Working
SupType    == sup \in {Idle} \cup
                [pc : {"answered"}, snap : [Cameras -> [desired : AIStates, channel : Channels]]]
                \cup [pc : {"applying"}, plan : [Cameras -> Plan]]
BoundsType == booted \in BOOLEAN /\ changes \in 0..MaxChanges /\ crashes \in 0..MaxCrashes

Types == CamType /\ EventsType /\ StreamType /\ PipeType /\ WorkerType /\ SupType /\ BoundsType

LEMMA TypeParts == (TypeOK <=> Types) /\ (TypeOK' <=> Types')
BY DEF TypeOK, Types, CamType, EventsType, StreamType, PipeType, WorkerType, SupType, BoundsType,
       Working, Answers

LEMMA SetIncident ==
  ASSUME NEW rows \in [Cameras -> CameraRow], NEW c \in Cameras, NEW e \in Events \cup {NoEvent}
  PROVE  [rows EXCEPT ![c].incident = e] \in [Cameras -> CameraRow]
BY DEF CameraRow

LEMMA SetCooldown ==
  ASSUME NEW rows \in [Cameras -> CameraRow], NEW c \in Cameras, NEW b \in BOOLEAN
  PROVE  [rows EXCEPT ![c].cooldown = b] \in [Cameras -> CameraRow]
BY DEF CameraRow

LEMMA SetEnabled ==
  ASSUME NEW rows \in [Cameras -> CameraRow], NEW c \in Cameras
  PROVE  [rows EXCEPT ![c].enabled = ~rows[c].enabled] \in [Cameras -> CameraRow]
BY DEF CameraRow

LEMMA SetChannel ==
  ASSUME NEW rows \in [Cameras -> CameraRow], NEW c \in Cameras, NEW h \in Channels
  PROVE  [rows EXCEPT ![c].channel = h] \in [Cameras -> CameraRow]
BY DEF CameraRow

LEMMA SetPaused ==
  ASSUME NEW streams \in [Cameras -> Stream \cup {NULL}], NEW c \in Cameras
  PROVE  streams[c] # NULL =>
           [streams EXCEPT ![c].paused = TRUE] \in [Cameras -> Stream \cup {NULL}]
BY DEF Stream

LEMMA AnswerType == \A e : Answer(e) \in {"CREATED", "DUPLICATE", "CONFLICT", "CAMERA_GONE"}
BY DEF Answer

\* What the service of a request writes.
LEMMA ServeType ==
  ASSUME CamType, EventsType, NEW e \in Events, site[e] \in Cameras, Serve(e)
  PROVE  /\ CamType'
         /\ opened' \in [Events -> Nat] /\ gone' \subseteq Events
         /\ rival' \in [Events -> Events \cup {NoEvent}]
<1>1. CamType'
  <2>1. [cam EXCEPT ![site[e]].incident = e] \in [Cameras -> CameraRow]
    BY SetIncident DEF CamType
  <2>2. [cam EXCEPT ![site[e]].incident = e, ![site[e]].cooldown = FALSE]
          \in [Cameras -> CameraRow]
    BY <2>1, SetCooldown
  <2> QED BY <2>2 DEF CamType, Serve
<1>2. cam[site[e]].incident \in Events \cup {NoEvent}
  BY DEF CamType, CameraRow
<1> QED BY <1>1, <1>2 DEF EventsType, Serve

LEMMA NotIdle ==
  /\ WorkerType /\ worker.pc # "idle" => worker \in Working
  /\ PipeType /\ pipe.pc # "idle" =>
       pipe \in [pc : {"batch", "firing"}, batch : SUBSET Cameras,
                current : SUBSET Cameras, event : Events \cup {NoEvent}]
BY DEF WorkerType, PipeType, Idle

\* A record of a thread with some of its fields changed.
LEMMA WorkingUpdate ==
  ASSUME NEW w \in Working
  PROVE  /\ \A todo \in SUBSET Events : [w EXCEPT !.todo = todo] \in Working
         /\ \A pc \in {"cycle", "posted"} : [w EXCEPT !.pc = pc] \in Working
         /\ \A event \in Events \cup {NoEvent} : [w EXCEPT !.event = event] \in Working
         /\ \A answer \in Answers : [w EXCEPT !.answer = answer] \in Working
BY DEF Working

LEMMA DetachedType ==
  ASSUME PipeType, NEW c
  PROVE  Detached(c) \in {Idle} \cup [pc : {"batch", "firing"}, batch : SUBSET Cameras,
                                      current : SUBSET Cameras, event : Events \cup {NoEvent}]
BY DEF PipeType, Detached

LEMMA NextEntryType ==
  ASSUME WorkerType, WorkerAt("posted")
  PROVE  NextEntry \in Working
<1>1. worker \in Working
  BY NotIdle DEF WorkerAt
<1>2. [worker EXCEPT !.pc = "cycle"] \in Working
  BY <1>1, WorkingUpdate
<1>3. [worker EXCEPT !.pc = "cycle", !.event = NoEvent] \in Working
  BY <1>2, WorkingUpdate
<1> QED BY <1>3, WorkingUpdate DEF NextEntry, Answers

LEMMA PostType ==
  ASSUME WorkerType, Post
  PROVE  WorkerType'
<1> DEFINE e == Min(worker.todo)
<1>1. worker \in Working /\ worker.todo \ {e} \in SUBSET Events
  BY NotIdle DEF Post, WorkerAt, Working
<1> HIDE DEF e
<1>2. CASE worker' = [worker EXCEPT !.todo = worker.todo \ {e}]
  BY <1>1, <1>2, WorkingUpdate DEF WorkerType
<1>3. CASE /\ e \in Outbox
           /\ worker' = [worker EXCEPT !.pc = "posted", !.event = e, !.todo = worker.todo \ {e}]
  <2>1. [worker EXCEPT !.pc = "posted"] \in Working
    BY <1>1, WorkingUpdate
  <2>2. [worker EXCEPT !.pc = "posted", !.event = e] \in Working
    BY <1>3, <2>1, WorkingUpdate DEF Outbox
  <2> QED BY <1>1, <1>3, <2>2, WorkingUpdate DEF WorkerType
<1> QED BY <1>2, <1>3 DEF Post, e

LEMMA PlanType ==
  ASSUME NEW snap \in [desired : AIStates, channel : Channels], NEW local \in Stream \cup {NULL},
         NEW pending \in BOOLEAN
  PROVE  compute_actions(snap, local, pending) \in Plan
BY DEF compute_actions, AIStates, Keep, Stop, Start, Pause, Resume, Plan, Stream

\* The number that the next event gets is one of the events that did not fire yet.
LEMMA NextNumber ==
  ASSUME NumberInv, Cardinality(Fired) < MaxEvents, MaxEvents \in Nat
  PROVE  /\ Cardinality(Fired) \in Nat /\ Fired = 1..Cardinality(Fired)
         /\ Cardinality(Fired) + 1 \in Events
         /\ place[Cardinality(Fired) + 1] = "unfired"
<1>1. PICK n \in 0..MaxEvents : Fired = 1..n
  BY DEF NumberInv
<1>2. Cardinality(1..n) = n
  BY FS_Interval
<1>3. n + 1 \in Events /\ n + 1 \notin Fired /\ Cardinality(Fired) = n
  BY <1>1, <1>2 DEF Events
<1>4. place[n + 1] = "unfired"
  BY <1>3 DEF Fired
<1> QED BY <1>1, <1>3, <1>4

LEMMA TypeInit == Init => TypeOK
<1> SUFFICES ASSUME Init PROVE Types
  BY TypeParts
<1>1. CamType
  BY DEF Init, CamType, CameraRow
<1>2. EventsType
  BY DEF Init, EventsType, NoEvent, Places
<1>3. StreamType /\ PipeType /\ WorkerType /\ SupType
  BY DEF Init, StreamType, PipeType, WorkerType, SupType
<1>4. BoundsType
  <2>1. 0 \in 0..MaxChanges /\ 0 \in 0..MaxCrashes
    BY BoundsAssumption
  <2> QED BY <2>1 DEF Init, BoundsType
<1> QED BY <1>1, <1>2, <1>3, <1>4 DEF Types

LEMMA TypeNext == TypeOK /\ IInv /\ [Next]_vars => TypeOK'
<1> SUFFICES ASSUME TypeOK, IInv, [Next]_vars PROVE TypeOK'
  OBVIOUS
<1>0. /\ CamType /\ EventsType /\ StreamType /\ PipeType /\ WorkerType /\ SupType /\ BoundsType
      /\ NumberInv /\ EventInv /\ PipeInv /\ WorkerInv /\ LateInv
      /\ MaxChanges \in Nat /\ MaxCrashes \in Nat /\ MaxEvents \in Nat
  BY TypeParts, BoundsAssumption DEF Types, IInv, ThreadInv
<1> SUFFICES Types'
  BY TypeParts
<1>1. ASSUME NEW c \in Cameras, CloseIncident(c) PROVE Types'
  <2>1. CamType'
    <3>1. PICK b \in BOOLEAN :
            cam' = [cam EXCEPT ![c].incident = NoEvent, ![c].cooldown = b /\ cam[c].enabled]
      BY <1>1 DEF CloseIncident
    <3>2. (b /\ cam[c].enabled) \in BOOLEAN
      OBVIOUS
    <3>3. [cam EXCEPT ![c].incident = NoEvent] \in [Cameras -> CameraRow]
      BY <1>0, SetIncident DEF CamType
    <3> QED BY <3>1, <3>2, <3>3, SetCooldown DEF CamType
  <2>2. EventsType' /\ StreamType' /\ PipeType' /\ WorkerType' /\ SupType' /\ BoundsType'
    BY <1>0, <1>1 DEF CloseIncident, backend, disk, threads, EventsType, StreamType,
       PipeType, WorkerType, SupType, BoundsType
  <2> QED BY <2>1, <2>2 DEF Types
<1>2. ASSUME NEW c \in Cameras, CooldownOver(c) PROVE Types'
  <2>1. CamType'
    BY <1>0, <1>2, SetCooldown DEF CooldownOver, CamType
  <2>2. EventsType' /\ StreamType' /\ PipeType' /\ WorkerType' /\ SupType' /\ BoundsType'
    BY <1>0, <1>2 DEF CooldownOver, backend, disk, threads, EventsType, StreamType,
       PipeType, WorkerType, SupType, BoundsType
  <2> QED BY <2>1, <2>2 DEF Types
<1>3. ASSUME NEW c \in Cameras, EditCamera(c) PROVE Types'
  <2>1. CamType'
    <3>1. CASE cam' = [cam EXCEPT ![c].enabled = ~cam[c].enabled, ![c].cooldown = FALSE]
      <4>1. [cam EXCEPT ![c].enabled = ~cam[c].enabled] \in [Cameras -> CameraRow]
        BY <1>0, SetEnabled DEF CamType
      <4> QED BY <3>1, <4>1, SetCooldown DEF CamType
    <3>2. ASSUME NEW h \in Channels, cam' = [cam EXCEPT ![c].channel = h]
          PROVE  CamType'
      BY <1>0, <3>2, SetChannel DEF CamType
    <3> QED BY <1>3, <3>1, <3>2 DEF EditCamera
  <2>2. BoundsType'
    BY <1>0, <1>3 DEF EditCamera, BoundsType
  <2>3. EventsType' /\ StreamType' /\ PipeType' /\ WorkerType' /\ SupType'
    BY <1>0, <1>3 DEF EditCamera, backend, disk, threads, EventsType, StreamType, PipeType,
       WorkerType, SupType
  <2> QED BY <2>1, <2>2, <2>3 DEF Types
<1>4. CASE Collect
  <2>1. PipeType'
    BY <1>0, <1>4 DEF Collect, PipeType
  <2>2. CamType' /\ EventsType' /\ StreamType' /\ WorkerType' /\ SupType' /\ BoundsType'
    BY <1>0, <1>4 DEF Collect, backend, disk, threads, CamType, EventsType, StreamType,
       WorkerType, SupType, BoundsType
  <2> QED BY <2>1, <2>2 DEF Types
<1>5. ASSUME NEW c \in Cameras, Fire(c) PROVE Types'
  <2>1. EventsType'
    <3>1. Cardinality(Fired) + 1 \in Events
      BY <1>0, <1>5, NextNumber DEF Fire
    <3> QED BY <1>0, <1>5, <3>1 DEF Fire, EventsType, Places, backend, disk
  <2>2. StreamType'
    <3>1. c \in pipe.current => stream[c] # NULL
      BY <1>0, <1>5 DEF Fire, PipeInv
    <3> QED BY <1>0, <1>5, <3>1, SetPaused DEF Fire, StreamType
  <2>3. PipeType'
    <3>1. pipe \in [pc : {"batch", "firing"}, batch : SUBSET Cameras,
                   current : SUBSET Cameras, event : Events \cup {NoEvent}]
      BY <1>0, <1>5, NotIdle DEF Fire
    <3>2. Cardinality(Fired) + 1 \in Events
      BY <1>0, <1>5, NextNumber DEF Fire
    <3> DEFINE n == Cardinality(Fired) + 1
    <3> HIDE DEF n
    <3>3. pipe' = [pipe EXCEPT !.pc = "firing", !.event = n, !.batch = pipe.batch \ {c}]
      BY <1>5 DEF Fire, n
    <3> QED BY <3>1, <3>2, <3>3 DEF PipeType, n
  <2>4. CamType' /\ WorkerType' /\ SupType' /\ BoundsType'
    BY <1>0, <1>5 DEF Fire, backend, disk, threads, CamType, WorkerType, SupType, BoundsType
  <2> QED BY <2>1, <2>2, <2>3, <2>4 DEF Types
<1>6. CASE Enqueue
  <2>1. EventsType'
    BY <1>0, <1>6 DEF Enqueue, Persist, EventsType, Places, backend, disk
  <2>2. PipeType'
    <3>1. pipe \in [pc : {"batch", "firing"}, batch : SUBSET Cameras,
                   current : SUBSET Cameras, event : Events \cup {NoEvent}]
      BY <1>0, <1>6, NotIdle DEF Enqueue, Persist
    <3> QED BY <1>6, <3>1 DEF Enqueue, Persist, PipeType
  <2>3. CamType' /\ StreamType' /\ WorkerType' /\ SupType' /\ BoundsType'
    BY <1>0, <1>6 DEF Enqueue, Persist, backend, disk, threads, CamType, StreamType,
       WorkerType, SupType, BoundsType
  <2> QED BY <2>1, <2>2, <2>3 DEF Types
<1>7. CASE DropEvent
  <2>1. EventsType'
    BY <1>0, <1>7 DEF DropEvent, Persist, EventsType, Places, backend, disk
  <2>2. PipeType'
    <3>1. pipe \in [pc : {"batch", "firing"}, batch : SUBSET Cameras,
                   current : SUBSET Cameras, event : Events \cup {NoEvent}]
      BY <1>0, <1>7, NotIdle DEF DropEvent, Persist
    <3> QED BY <1>7, <3>1 DEF DropEvent, Persist, PipeType
  <2>3. CamType' /\ StreamType' /\ WorkerType' /\ SupType' /\ BoundsType'
    BY <1>0, <1>7 DEF DropEvent, Persist, backend, disk, threads, CamType, StreamType,
       WorkerType, SupType, BoundsType
  <2> QED BY <2>1, <2>2, <2>3 DEF Types
<1>8. CASE EndTick
  <2>1. PipeType'
    BY <1>0, <1>8 DEF EndTick, PipeType
  <2>2. CamType' /\ EventsType' /\ StreamType' /\ WorkerType' /\ SupType' /\ BoundsType'
    BY <1>0, <1>8 DEF EndTick, backend, disk, threads, CamType, EventsType, StreamType,
       WorkerType, SupType, BoundsType
  <2> QED BY <2>1, <2>2 DEF Types
<1>9. CASE BeginCycle
  <2>1. WorkerType'
    BY <1>0, <1>9 DEF BeginCycle, WorkerType, Working, Answers, Outbox
  <2>2. CamType' /\ EventsType' /\ StreamType' /\ PipeType' /\ SupType' /\ BoundsType'
    BY <1>0, <1>9 DEF BeginCycle, backend, disk, threads, CamType, EventsType, StreamType,
       PipeType, SupType, BoundsType
  <2> QED BY <2>1, <2>2 DEF Types
<1>10. CASE Post
  <2>1. WorkerType'
    BY <1>0, <1>10, PostType DEF Post
  <2>2. CamType' /\ EventsType' /\ StreamType' /\ PipeType' /\ SupType' /\ BoundsType'
    BY <1>0, <1>10 DEF Post, backend, disk, threads, CamType, EventsType, StreamType,
       PipeType, SupType, BoundsType
  <2> QED BY <2>1, <2>2 DEF Types
<1>11. CASE Reply
  <2>1. CamType'
    BY <1>0, <1>11, ServeType DEF Reply, WorkerInv, EventInv
  <2>2. EventsType'
    BY <1>0, <1>11, ServeType DEF Reply, WorkerInv, EventInv, EventsType, backend, disk
  <2>3. WorkerType'
    <3>1. worker \in Working /\ Answer(worker.event) \in Answers
      BY <1>0, <1>11, NotIdle, AnswerType DEF Reply, WorkerAt, Answers
    <3> QED BY <1>11, <3>1, WorkingUpdate DEF Reply, WorkerType
  <2>4. StreamType' /\ PipeType' /\ SupType' /\ BoundsType'
    BY <1>0, <1>11 DEF Reply, backend, disk, threads, StreamType, PipeType, SupType,
       BoundsType
  <2> QED BY <2>1, <2>2, <2>3, <2>4 DEF Types
<1>12. CASE Reject
  <2>1. WorkerType'
    BY <1>0, <1>12, NotIdle, WorkingUpdate DEF Reject, WorkerAt, WorkerType, Answers
  <2>2. CamType' /\ EventsType' /\ StreamType' /\ PipeType' /\ SupType' /\ BoundsType'
    BY <1>0, <1>12 DEF Reject, backend, disk, threads, CamType, EventsType, StreamType,
       PipeType, SupType, BoundsType
  <2> QED BY <2>1, <2>2 DEF Types
<1>13. CASE Settle
  <2>1. EventsType'
    BY <1>0, <1>13 DEF Settle, WorkerInv, EventsType, Places, backend, disk
  <2>2. StreamType'
    BY <1>0, <1>13 DEF Settle, StreamType
  <2>3. PipeType'
    BY <1>0, <1>13, DetachedType DEF Settle, PipeType
  <2>4. WorkerType'
    BY <1>0, <1>13, NextEntryType DEF Settle, WorkerType
  <2>5. CamType' /\ SupType' /\ BoundsType'
    BY <1>0, <1>13 DEF Settle, backend, disk, threads, CamType, SupType, BoundsType
  <2> QED BY <2>1, <2>2, <2>3, <2>4, <2>5 DEF Types
<1>14. CASE AttemptFails
  <2>1. EventsType'
    BY <1>0, <1>14 DEF AttemptFails, WorkerInv, EventsType, backend, disk
  <2>2. WorkerType'
    BY <1>0, <1>14, NextEntryType DEF AttemptFails, WorkerType
  <2>3. CamType' /\ StreamType' /\ PipeType' /\ SupType' /\ BoundsType'
    BY <1>0, <1>14 DEF AttemptFails, backend, disk, threads, CamType, StreamType, PipeType,
       SupType, BoundsType
  <2> QED BY <2>1, <2>2, <2>3 DEF Types
<1>15. CASE EndCycle
  <2>1. WorkerType'
    BY <1>15 DEF EndCycle, WorkerType
  <2>2. BoundsType'
    BY <1>0, <1>15 DEF EndCycle, BoundsType
  <2>3. CamType' /\ EventsType' /\ StreamType' /\ PipeType' /\ SupType'
    BY <1>0, <1>15 DEF EndCycle, backend, disk, threads, CamType, EventsType, StreamType,
       PipeType, SupType
  <2> QED BY <2>1, <2>2, <2>3 DEF Types
<1>16. CASE Heartbeat
  <2>1. SupType'
    <3>1. \A c \in Cameras : Desired(c) \in AIStates /\ cam[c].channel \in Channels
      BY <1>0 DEF CamType, CameraRow, Desired, AIStates
    <3>2. [c \in Cameras |-> [desired |-> Desired(c), channel |-> cam[c].channel]]
            \in [Cameras -> [desired : AIStates, channel : Channels]]
      BY <3>1
    <3> QED BY <1>16, <3>2 DEF Heartbeat, SupType
  <2>2. CamType' /\ EventsType' /\ StreamType' /\ PipeType' /\ WorkerType' /\ BoundsType'
    BY <1>0, <1>16 DEF Heartbeat, backend, disk, threads, CamType, EventsType, StreamType,
       PipeType, WorkerType, BoundsType
  <2> QED BY <2>1, <2>2 DEF Types
<1>17. CASE Compute
  <2>1. SupType'
    <3>1. sup.snap \in [Cameras -> [desired : AIStates, channel : Channels]]
      BY <1>0, <1>17 DEF Compute, SupType, Idle
    <3>2. \A c \in Cameras : compute_actions(sup.snap[c], stream[c], c \in Pending) \in Plan
      <4> TAKE c \in Cameras
      <4>1. sup.snap[c] \in [desired : AIStates, channel : Channels]
            /\ stream[c] \in Stream \cup {NULL}
        BY <1>0, <3>1 DEF StreamType
      <4>2. (c \in Pending) \in BOOLEAN
        OBVIOUS
      <4> QED BY <4>1, <4>2, PlanType
    <3>3. [c \in Cameras |-> compute_actions(sup.snap[c], stream[c], c \in Pending)]
            \in [Cameras -> Plan]
      BY <3>2
    <3> QED BY <1>17, <3>3 DEF Compute, SupType
  <2>2. CamType' /\ EventsType' /\ StreamType' /\ PipeType' /\ WorkerType' /\ BoundsType'
    BY <1>0, <1>17 DEF Compute, backend, disk, threads, CamType, EventsType, StreamType,
       PipeType, WorkerType, BoundsType
  <2> QED BY <2>1, <2>2 DEF Types
<1>18. ASSUME NEW c \in Cameras, Apply(c) PROVE Types'
  <2>1. StreamType'
    <3>1. sup.plan[c] \in Plan /\ stream[c] \in Stream \cup {NULL}
      BY <1>0, <1>18 DEF Apply, SupType, StreamType, Idle
    <3> DEFINE new == CASE sup.plan[c].act \in {"start", "stop"} -> sup.plan[c].stream
                        [] sup.plan[c].act = "pause" /\ stream[c] # NULL ->
                             [stream[c] EXCEPT !.paused = TRUE]
                        [] sup.plan[c].act = "resume" /\ stream[c] # NULL ->
                             [stream[c] EXCEPT !.paused = FALSE]
                        [] OTHER -> stream[c]
    <3>2. new \in Stream \cup {NULL}
      BY <3>1 DEF Plan, Stream
    <3>3. stream' = [stream EXCEPT ![c] = new]
      BY <1>18 DEF Apply
    <3> HIDE DEF new
    <3> QED BY <1>0, <3>2, <3>3 DEF StreamType
  <2>2. PipeType'
    BY <1>0, <1>18, DetachedType DEF Apply, PipeType
  <2>3. SupType'
    <3>1. sup \in [pc : {"applying"}, plan : [Cameras -> Plan]] /\ Keep \in Plan
      BY <1>0, <1>18 DEF Apply, SupType, Idle, Keep, Plan
    <3>2. [sup EXCEPT !.plan[c] = Keep] \in [pc : {"applying"}, plan : [Cameras -> Plan]]
      BY <3>1
    <3> QED BY <1>18, <3>2 DEF Apply, SupType
  <2>4. CamType' /\ EventsType' /\ WorkerType' /\ BoundsType'
    BY <1>0, <1>18 DEF Apply, backend, disk, threads, CamType, EventsType, WorkerType,
       BoundsType
  <2> QED BY <2>1, <2>2, <2>3, <2>4 DEF Types
<1>19. CASE EndHeartbeat
  <2>1. SupType'
    BY <1>19 DEF EndHeartbeat, SupType
  <2>2. CamType' /\ EventsType' /\ StreamType' /\ PipeType' /\ WorkerType' /\ BoundsType'
    BY <1>0, <1>19 DEF EndHeartbeat, backend, disk, threads, CamType, EventsType, StreamType,
       PipeType, WorkerType, BoundsType
  <2> QED BY <2>1, <2>2 DEF Types
<1>20. ASSUME NEW e \in Events, BackoffElapses(e) PROVE Types'
  <2>1. EventsType'
    BY <1>0, <1>20 DEF BackoffElapses, EventsType, backend, disk
  <2>2. CamType' /\ StreamType' /\ PipeType' /\ WorkerType' /\ SupType' /\ BoundsType'
    BY <1>0, <1>20 DEF BackoffElapses, backend, disk, threads, CamType, StreamType, PipeType,
       WorkerType, SupType, BoundsType
  <2> QED BY <2>1, <2>2 DEF Types
<1>21. ASSUME NEW e \in Events, LateService(e) PROVE Types'
  <2>1. CamType'
    BY <1>0, <1>21, ServeType DEF LateService, LateInv, EventInv
  <2>2. EventsType'
    BY <1>0, <1>21, ServeType DEF LateService, LateInv, EventInv, EventsType, backend, disk
  <2>3. StreamType' /\ PipeType' /\ WorkerType' /\ SupType' /\ BoundsType'
    BY <1>0, <1>21 DEF LateService, backend, disk, threads, StreamType, PipeType, WorkerType,
       SupType, BoundsType
  <2> QED BY <2>1, <2>2, <2>3 DEF Types
<1>22. CASE Crash
  <2>1. EventsType'
    <3>1. place' \in [Events -> Places]
      BY <1>0, <1>22 DEF Crash, EventsType, Places
    <3>2. late' \subseteq Events
      BY <1>0, <1>22 DEF Crash, EventsType, WorkerInv
    <3> QED BY <1>0, <1>22, <3>1, <3>2 DEF Crash, EventsType, backend, disk
  <2>2. StreamType'
    BY <1>22 DEF Crash, StreamType
  <2>3. PipeType'
    BY <1>22 DEF Crash, PipeType
  <2>4. WorkerType'
    BY <1>22 DEF Crash, WorkerType
  <2>5. SupType'
    BY <1>22 DEF Crash, SupType
  <2>6. BoundsType'
    <3>1. crashes' = crashes + 1 /\ crashes < MaxCrashes /\ booted' = FALSE /\ changes' = changes
      BY <1>22 DEF Crash
    <3>2. crashes + 1 \in 0..MaxCrashes
      BY <1>0, <3>1 DEF BoundsType
    <3> QED BY <1>0, <3>1, <3>2 DEF BoundsType
  <2>7. CamType'
    BY <1>0, <1>22 DEF Crash, backend, disk, threads, CamType
  <2> QED BY <2>1, <2>2, <2>3, <2>4, <2>5, <2>6, <2>7 DEF Types
<1>23. CASE UNCHANGED vars
  BY <1>0, <1>23 DEF vars, backend, disk, threads, Types, CamType, EventsType, StreamType,
                     PipeType, WorkerType, SupType, BoundsType
<1> QED BY <1>1, <1>2, <1>3, <1>4, <1>5, <1>6, <1>7, <1>8, <1>9, <1>10, <1>11, <1>12, <1>13,
       <1>14, <1>15, <1>16, <1>17, <1>18, <1>19, <1>20, <1>21, <1>22, <1>23
   DEF Next, BackendStep, PipelineStep, WorkerStep, SupStep

-----------------------------------------------------------------------------
(* The invariant *)

LEMMA InvInit == Init => IInv
<1>1. Init => NumberInv
  BY BoundsAssumption DEF Init, NumberInv, Fired, Events
<1>2. Init => EventInv /\ PipeInv /\ WorkerInv /\ LateInv
  BY DEF Init, EventInv, PipeInv, WorkerInv, LateInv, WorkerAt, Idle
<1> QED BY <1>1, <1>2 DEF IInv, ThreadInv

\* The fields of the inference thread that a removed stream leaves alone.
LEMMA DetachedFacts ==
  ASSUME PipeType, NEW c
  PROVE  /\ Detached(c).pc = pipe.pc
         /\ pipe.pc # "idle" => /\ Detached(c).event = pipe.event
                                /\ Detached(c).current = pipe.current \ {c}
BY DEF PipeType, Detached, Idle

\* What the service of a request does to the history of the events: it opens an
\* incident for e at most, forgets nothing, and is what the answer says.
Served(e) ==
  /\ \A x \in Events : opened'[x] \in {0, 1} /\ (opened[x] = 1 => opened'[x] = 1)
  /\ \A x \in Events : rival[x] # NoEvent => rival'[x] # NoEvent
  /\ gone \subseteq gone'
  /\ Answer(e) \in {"CREATED", "DUPLICATE"} => opened'[e] = 1
  /\ Answer(e) = "CONFLICT" => rival'[e] # NoEvent
  /\ Answer(e) = "CAMERA_GONE" => e \in gone'

LEMMA ServeFacts ==
  ASSUME CamType, EventsType, EventInv, NEW e \in Events, Serve(e)
  PROVE  Served(e)
<1>1. opened[e] \in {0, 1} /\ opened \in [Events -> Nat]
  BY DEF EventInv, EventsType
<1>2. Answer(e) = "CREATED" => opened[e] = 0
  BY <1>1 DEF Answer
<1>3. Answer(e) = "DUPLICATE" => opened[e] = 1
  BY <1>1 DEF Answer
<1>4. Answer(e) = "CONFLICT" => cam[site[e]].incident # NoEvent
  BY DEF Answer
<1>5. \A x \in Events : opened'[x] =
        IF Answer(e) = "CREATED" /\ x = e THEN opened[x] + 1 ELSE opened[x]
  BY <1>1 DEF Serve
<1>6. \A x \in Events : opened'[x] \in {0, 1} /\ (opened[x] = 1 => opened'[x] = 1)
  BY <1>1, <1>2, <1>5 DEF EventInv
<1>7. Answer(e) \in {"CREATED", "DUPLICATE"} => opened'[e] = 1
  BY <1>1, <1>2, <1>3, <1>5
<1>8. (\A x \in Events : rival[x] # NoEvent => rival'[x] # NoEvent)
      /\ (Answer(e) = "CONFLICT" => rival'[e] # NoEvent)
  BY <1>4 DEF Serve, EventsType
<1>9. gone \subseteq gone' /\ (Answer(e) = "CAMERA_GONE" => e \in gone')
  BY DEF Serve
<1> QED BY <1>6, <1>7, <1>8, <1>9 DEF Served

\* Only Fire makes an event fire.
LEMMA NumberNext == TypeOK /\ IInv /\ [Next]_vars => NumberInv'
<1> SUFFICES ASSUME TypeOK, IInv, [Next]_vars PROVE NumberInv'
  OBVIOUS
<1>0. EventsType /\ NumberInv /\ PipeInv /\ WorkerInv /\ MaxEvents \in Nat
  BY TypeParts, BoundsAssumption DEF Types, IInv, ThreadInv
<1>1. ASSUME NEW c \in Cameras, Fire(c) PROVE NumberInv'
  <2>1. PICK n \in 0..MaxEvents : Fired = 1..n
    BY <1>0 DEF NumberInv
  <2>2. Cardinality(Fired) = n
    BY <2>1, FS_Interval
  <2>3. n < MaxEvents /\ n + 1 \in Events
    BY <1>0, <1>1, <2>1, <2>2 DEF Fire, Events
  <2>4. place' = [place EXCEPT ![n + 1] = "memory"]
    BY <1>1, <2>2 DEF Fire
  <2>5. \A e \in Events : place'[e] = "unfired" <=> place[e] = "unfired" /\ e # n + 1
    BY <1>0, <2>3, <2>4 DEF EventsType
  <2>6. Fired' = 1..(n + 1)
    BY <1>0, <2>1, <2>3, <2>5 DEF Fired, Events
  <2>7. n + 1 \in 0..MaxEvents
    BY <1>0, <2>3
  <2> QED BY <2>6, <2>7 DEF NumberInv
<1>2. CASE \A e \in Events : place'[e] = "unfired" <=> place[e] = "unfired"
  <2>1. Fired' = Fired
    BY <1>2 DEF Fired, Events
  <2> QED BY <1>0, <2>1 DEF NumberInv
<1>3. CASE UNCHANGED place
  BY <1>2, <1>3
<1>4. CASE Enqueue \/ DropEvent
  <2>1. \A e \in Events : place'[e] = "unfired" <=> place[e] = "unfired"
    BY <1>0, <1>4 DEF Enqueue, DropEvent, Persist, PipeInv, EventsType
  <2> QED BY <1>2, <2>1
<1>5. CASE Settle
  <2>1. \A e \in Events : place'[e] = "unfired" <=> place[e] = "unfired"
    BY <1>0, <1>5 DEF Settle, WorkerInv, EventsType
  <2> QED BY <1>2, <2>1
<1>6. CASE Crash
  <2>1. \A e \in Events : place'[e] = "unfired" <=> place[e] = "unfired"
    BY <1>0, <1>6 DEF Crash, EventsType
  <2> QED BY <1>2, <2>1
<1>7. UNCHANGED place \/ (\E c \in Cameras : Fire(c)) \/ Enqueue \/ DropEvent \/ Settle \/ Crash
  BY DEF Next, BackendStep, PipelineStep, WorkerStep, SupStep, CloseIncident, CooldownOver,
         EditCamera, Collect, EndTick, BeginCycle, Post, Reply, Reject, AttemptFails, EndCycle,
         Heartbeat, Compute, Apply, EndHeartbeat, BackoffElapses, LateService, vars, disk
<1> QED BY <1>1, <1>3, <1>4, <1>5, <1>6, <1>7

LEMMA InvNext == TypeOK /\ IInv /\ [Next]_vars => IInv'
<1> SUFFICES ASSUME TypeOK, IInv, [Next]_vars PROVE ThreadInv'
  BY NumberNext DEF IInv
<1> USE DEF ThreadInv
<1>0. /\ CamType /\ EventsType /\ StreamType /\ PipeType /\ WorkerType
      /\ NumberInv /\ EventInv /\ PipeInv /\ WorkerInv /\ LateInv
  BY TypeParts DEF Types, IInv
<1>1. CASE Collect
  BY <1>0, <1>1 DEF Collect, backend, disk, threads, EventInv, PipeInv, WorkerInv, LateInv,
     Backed, WorkerAt, EventsType
<1>2. ASSUME NEW c \in Cameras, Fire(c) PROVE ThreadInv'
  <2> DEFINE n == Cardinality(Fired) + 1
  <2>1. n \in Events /\ place[n] = "unfired"
    BY <1>0, <1>2, NextNumber, BoundsAssumption DEF Fire
  <2> HIDE DEF n
  <2>2. /\ place' = [place EXCEPT ![n] = "memory"] /\ site' = [site EXCEPT ![n] = c]
        /\ pipe' = [pipe EXCEPT !.pc = "firing", !.event = n, !.batch = pipe.batch \ {c}]
        /\ stream' = IF c \in pipe.current THEN [stream EXCEPT ![c].paused = TRUE] ELSE stream
        /\ UNCHANGED <<opened, gone, rival, worker, late>>
    BY <1>2 DEF Fire, n, backend
  <2>3. pipe'.pc = "firing" /\ pipe'.event = n /\ pipe'.current = pipe.current
    BY <1>0, <1>2, <2>2, NotIdle DEF Fire
  <2>4. EventInv'
    BY <1>0, <2>1, <2>2 DEF EventInv, EventsType
  <2>5. PipeInv'
    <3>1. \A d \in pipe.current : stream'[d] # NULL
      <4> TAKE d \in pipe.current
      <4>1. stream[d] # NULL /\ d \in Cameras
        BY <1>0, <1>2, NotIdle DEF Fire, PipeInv
      <4>2. [stream[d] EXCEPT !.paused = TRUE] \in Stream
        BY <1>0, <4>1 DEF StreamType, Stream
      <4>3. NULL \notin Stream
        BY NullAssumption DEF Stream
      <4> QED BY <1>0, <2>2, <4>1, <4>2, <4>3 DEF StreamType
    <3> QED BY <1>0, <2>1, <2>2, <2>3, <3>1 DEF PipeInv, EventsType
  <2>6. WorkerInv'
    BY <1>0, <2>1, <2>2 DEF WorkerInv, WorkerAt, Backed, EventsType
  <2>7. LateInv'
    BY <1>0, <2>1, <2>2 DEF LateInv, EventsType
  <2> QED BY <2>4, <2>5, <2>6, <2>7
<1>3. CASE Enqueue
  BY <1>0, <1>3 DEF Enqueue, Persist, backend, disk, threads, EventInv, PipeInv, WorkerInv,
     LateInv, Backed, WorkerAt, EventsType
<1>4. CASE DropEvent
  BY <1>0, <1>4 DEF DropEvent, Persist, backend, disk, threads, EventInv, PipeInv,
     WorkerInv, LateInv, Backed, WorkerAt, EventsType
<1>5. CASE EndTick
  <2>1. pipe'.pc = "idle"
    BY <1>5 DEF EndTick, Idle
  <2> QED BY <1>0, <1>5, <2>1
          DEF EndTick, backend, disk, EventInv, PipeInv, WorkerInv, LateInv, WorkerAt, Backed
<1>6. CASE BeginCycle
  BY <1>0, <1>6 DEF BeginCycle, Outbox, backend, disk, threads, EventInv, PipeInv,
     WorkerInv, LateInv, Backed, WorkerAt, EventsType
<1>7. CASE Post
  <2> DEFINE e == Min(worker.todo)
  <2>1. worker \in Working /\ WorkerAt("cycle")
    BY <1>0, <1>7, NotIdle DEF Post, WorkerAt
  <2>2. UNCHANGED <<opened, gone, rival, place, site, stream, pipe, late>>
    BY <1>7 DEF Post, backend, disk
  <2> HIDE DEF e
  <2>3. CASE worker' = [worker EXCEPT !.todo = worker.todo \ {e}]
    <3>1. worker'.pc = "cycle" /\ worker'.answer = "none"
      BY <1>0, <2>1, <2>3 DEF WorkerAt, Working, WorkerInv
    <3> QED BY <1>0, <2>2, <3>1 DEF EventInv, PipeInv, WorkerInv, LateInv, WorkerAt
  <2>4. CASE /\ e \in Outbox
             /\ worker' = [worker EXCEPT !.pc = "posted", !.event = e, !.todo = worker.todo \ {e}]
    <3>1. worker'.event = e /\ worker'.answer = "none"
      BY <1>0, <2>1, <2>4 DEF WorkerAt, Working, WorkerInv
    <3>2. worker'.pc = "posted"
      BY <2>1, <2>4 DEF Working
    <3> QED BY <1>0, <2>2, <2>4, <3>1, <3>2
            DEF EventInv, PipeInv, WorkerInv, LateInv, Backed, Outbox, WorkerAt
  <2> QED BY <1>7, <2>3, <2>4 DEF Post, e
<1>8. CASE Reply
  <2>1. worker \in Working /\ worker.event \in Events /\ place[worker.event] = "outbox"
        /\ Serve(worker.event) /\ WorkerAt("posted")
    BY <1>0, <1>8, NotIdle DEF Reply, WorkerAt, WorkerInv
  <2>2. worker'.pc = "posted" /\ worker'.event = worker.event
        /\ worker'.answer = Answer(worker.event)
    BY <1>8, <2>1 DEF Reply, Working, WorkerAt
  <2>3. Served(worker.event)
    BY <1>0, <2>1, ServeFacts
  <2>4. UNCHANGED <<place, site>>
    BY <1>8 DEF Reply, disk
  <2>5. EventInv'
    BY <1>0, <2>3, <2>4 DEF Served, EventInv
  <2>6. WorkerInv'
    BY <1>0, <1>8, <2>1, <2>2, <2>3 DEF Reply, WorkerInv, WorkerAt, Backed, Served, disk
  <2> QED BY <1>0, <1>8, <2>5, <2>6 DEF Reply, PipeInv, LateInv, disk
<1>9. CASE Reject
  BY <1>0, <1>9 DEF Reject, backend, disk, threads, EventInv, PipeInv, WorkerInv, LateInv,
     Backed, WorkerAt, EventsType
<1>10. CASE Settle
  <2>1. /\ worker \in Working /\ WorkerAt("posted") /\ worker.event \in Events
        /\ place[worker.event] = "outbox"
    BY <1>0, <1>10, NotIdle DEF Settle, WorkerAt, WorkerInv
  <2>2. worker'.pc = "cycle" /\ worker'.answer = "none"
    BY <1>10, <2>1 DEF Settle, NextEntry, Working
  <2>3. /\ \A x \in Events : place'[x] = IF x = worker.event THEN place'[x] ELSE place[x]
        /\ place'[worker.event] \in {"done", "aside"}
        /\ UNCHANGED <<opened, gone, rival, site, late>>
    <3>1. PICK p \in {"done", "aside"} : place' = [place EXCEPT ![worker.event] = p]
      BY <1>10 DEF Settle
    <3>2. UNCHANGED <<opened, gone, rival, site, late>>
      BY <1>10 DEF Settle, backend
    <3> QED BY <1>0, <2>1, <3>1, <3>2 DEF EventsType
  <2>4. EventInv' /\ LateInv' /\ WorkerInv'
    BY <1>0, <2>1, <2>2, <2>3 DEF EventInv, LateInv, WorkerInv, WorkerAt, EventsType
  <2>5. PipeInv'
    <3>1. pipe'.pc = pipe.pc /\ (pipe.pc = "firing" => pipe'.event = pipe.event)
      BY <1>0, <1>10, DetachedFacts DEF Settle
    <3>2. pipe'.pc # "idle" => \A d \in pipe'.current : stream'[d] # NULL
      <4>1. CASE UNCHANGED <<stream, pipe>>
        BY <1>0, <4>1 DEF PipeInv
      <4>2. CASE stream' = [stream EXCEPT ![site[worker.event]] = NULL]
                 /\ pipe' = Detached(site[worker.event])
        BY <1>0, <3>1, <4>2, DetachedFacts DEF PipeInv, StreamType
      <4> QED BY <1>10, <4>1, <4>2 DEF Settle
    <3> QED BY <1>0, <2>1, <2>3, <3>1, <3>2 DEF PipeInv
  <2> QED BY <2>4, <2>5
<1>11. CASE AttemptFails
  BY <1>0, <1>11 DEF AttemptFails, NextEntry, backend, disk, threads, EventInv, PipeInv,
     WorkerInv, LateInv, Backed, WorkerAt, EventsType
<1>12. CASE EndCycle
  BY <1>0, <1>12 DEF EndCycle, backend, disk, threads, EventInv, PipeInv, WorkerInv,
     LateInv, Backed, WorkerAt, EventsType, Idle
<1>13. ASSUME NEW c \in Cameras, Apply(c) PROVE ThreadInv'
  <2>1. UNCHANGED <<opened, gone, rival, place, site, late, worker>>
    BY <1>13 DEF Apply, backend, disk
  <2>2. EventInv' /\ LateInv' /\ WorkerInv'
    BY <1>0, <2>1 DEF EventInv, LateInv, WorkerInv, WorkerAt, Backed
  <2>3. pipe'.pc = pipe.pc /\ (pipe.pc = "firing" => pipe'.event = pipe.event)
    BY <1>0, <1>13, DetachedFacts DEF Apply
  <2>4. pipe'.pc # "idle" => \A d \in pipe'.current : stream'[d] # NULL
    <3> SUFFICES ASSUME pipe.pc # "idle", NEW d \in pipe'.current PROVE stream'[d] # NULL
      BY <2>3
    <3>1. d \in Cameras /\ d \in pipe.current /\ stream[d] # NULL
          /\ (d = c => sup.plan[c].act \notin {"start", "stop"})
      BY <1>0, <1>13, NotIdle, DetachedFacts DEF Apply, PipeInv
    <3>2. CASE d = c
      <4>1. stream[d] \in Stream /\ NULL \notin Stream
        BY <1>0, <3>1, NullAssumption DEF StreamType, Stream
      <4>2. [stream[d] EXCEPT !.paused = TRUE] \in Stream
            /\ [stream[d] EXCEPT !.paused = FALSE] \in Stream
        BY <4>1 DEF Stream
      <4>3. stream'[d] \in {stream[d], [stream[d] EXCEPT !.paused = TRUE],
                            [stream[d] EXCEPT !.paused = FALSE]}
        BY <1>0, <1>13, <3>1, <3>2 DEF Apply, StreamType
      <4> QED BY <4>1, <4>2, <4>3
    <3>3. CASE d # c
      BY <1>0, <1>13, <3>1, <3>3 DEF Apply, StreamType
    <3> QED BY <3>2, <3>3
  <2>5. PipeInv'
    BY <1>0, <2>1, <2>3, <2>4 DEF PipeInv
  <2> QED BY <2>2, <2>5
<1>14. ASSUME NEW e \in Events, LateService(e) PROVE ThreadInv'
  <2>1. Serve(e) /\ place[e] # "unfired"
    BY <1>0, <1>14 DEF LateService, LateInv
  <2>2. Served(e)
    BY <1>0, <2>1, ServeFacts
  <2>3. UNCHANGED <<place, site, worker, pipe, stream>> /\ late' \subseteq late
    BY <1>14 DEF LateService, disk, threads
  <2>4. EventInv'
    BY <1>0, <2>2, <2>3 DEF Served, EventInv
  <2>5. WorkerInv'
    BY <1>0, <2>2, <2>3 DEF Served, WorkerInv, WorkerAt, Backed
  <2>6. PipeInv' /\ LateInv'
    BY <1>0, <2>3 DEF PipeInv, LateInv
  <2> QED BY <2>4, <2>5, <2>6
<1>15. CASE Crash
  <2>1. pipe'.pc = "idle" /\ worker'.pc = "idle" /\ UNCHANGED <<opened, site>>
    BY <1>15 DEF Crash, Idle, backend
  <2>2. \A x \in Events : place'[x] = IF place[x] = "memory" THEN "lost" ELSE place[x]
    BY <1>15 DEF Crash
  <2>3. \A x \in late' : x \in Events /\ place[x] \in {"outbox", "done", "aside"}
    BY <1>0, <1>15 DEF Crash, LateInv, WorkerInv, EventsType
  <2> QED BY <1>0, <2>1, <2>2, <2>3 DEF EventInv, PipeInv, WorkerInv, LateInv, WorkerAt
<1>16. CASE UNCHANGED <<opened, gone, rival, place, site, late, pipe, stream, worker>>
  BY <1>0, <1>16 DEF EventInv, PipeInv, WorkerInv, LateInv, WorkerAt, Backed
<1>17. \/ UNCHANGED <<opened, gone, rival, place, site, late, pipe, stream, worker>>
       \/ Collect \/ (\E c \in Cameras : Fire(c)) \/ Enqueue \/ DropEvent \/ EndTick
       \/ WorkerStep \/ (\E c \in Cameras : Apply(c))
       \/ (\E e \in Events : LateService(e)) \/ Crash
  BY DEF Next, BackendStep, PipelineStep, SupStep, CloseIncident, CooldownOver, EditCamera,
         Heartbeat, Compute, EndHeartbeat, BackoffElapses, vars, backend, disk, threads
<1> QED BY <1>1, <1>2, <1>3, <1>4, <1>5, <1>6, <1>7, <1>8, <1>9, <1>10, <1>11, <1>12,
           <1>13, <1>14, <1>15, <1>16, <1>17 DEF WorkerStep

-----------------------------------------------------------------------------
(* The refinement of EventDelivery *)

\* What EventDelivery calls the places of an event, and the events refused.
Name(p) == CASE p = "outbox" -> "stored"
             [] p = "done"   -> "settled"
             [] p = "aside"  -> "aside"
             [] OTHER        -> "unseen"

Status  == [e \in Events |-> Name(place[e])]
Refused == gone \cup {e \in Events : rival[e] # NoEvent}

\* The mapping of the model is this one.
LEMMA Mapping ==
  /\ UNCHANGED Delivery!vars <=> UNCHANGED <<Status, opened, Refused>>
  /\ \A e : Delivery!Store(e) <=> /\ Status[e] = "unseen"
                                  /\ Status' = [Status EXCEPT ![e] = "stored"]
                                  /\ UNCHANGED <<opened, Refused>>
  /\ \A e : Delivery!Open(e) <=> /\ Status[e] # "unseen" /\ opened[e] = 0
                                 /\ opened' = [opened EXCEPT ![e] = 1]
                                 /\ UNCHANGED <<Status, Refused>>
  /\ \A e : Delivery!Refuse(e) <=> /\ Status[e] # "unseen"
                                   /\ Refused' = Refused \cup {e}
                                   /\ UNCHANGED <<Status, opened>>
  /\ \A e : Delivery!Settle(e) <=> /\ Status[e] = "stored"
                                   /\ opened[e] = 1 \/ e \in Refused
                                   /\ Status' = [Status EXCEPT ![e] = "settled"]
                                   /\ UNCHANGED <<opened, Refused>>
  /\ \A e : Delivery!SetAside(e) <=> /\ Status[e] = "stored"
                                     /\ Status' = [Status EXCEPT ![e] = "aside"]
                                     /\ UNCHANGED <<opened, Refused>>
BY DEF Delivery!vars, Delivery!Store, Delivery!Open, Delivery!Refuse, Delivery!Settle,
       Delivery!SetAside, Status, Refused, Name

LEMMA OneOf ==
  ASSUME NEW e \in Events,
         \/ Delivery!Store(e) \/ Delivery!Open(e) \/ Delivery!Refuse(e)
         \/ Delivery!Settle(e) \/ Delivery!SetAside(e)
  PROVE  Delivery!Next
BY DEF Delivery!Next

LEMMA SameRefused == UNCHANGED <<gone, rival>> => Refused' = Refused
BY DEF Refused

\* An event that comes to another place.
LEMMA Moved ==
  ASSUME EventsType, NEW e \in Events, NEW p, place' = [place EXCEPT ![e] = p]
  PROVE  Status' = [Status EXCEPT ![e] = Name(p)]
BY DEF EventsType, Status

\* Nothing comes to another place that EventDelivery tells apart.
LEMMA Stayed ==
  ASSUME \A e \in Events : Name(place'[e]) = Name(place[e])
  PROVE  Status' = Status
BY DEF Status

LEMMA DeliveryInit == Init => Delivery!Init
BY DEF Init, Delivery!Init

\* The backend serves a request, late or not.
LEMMA DeliveryServe ==
  ASSUME CamType, EventsType, EventInv, NEW e \in Events, Serve(e), UNCHANGED place,
         place[e] \in {"outbox", "done", "aside"}
  PROVE  Delivery!Open(e) \/ Delivery!Refuse(e) \/ UNCHANGED Delivery!vars
<1>1. Status' = Status /\ Status[e] # "unseen"
  BY DEF Status, Name
<1>2. CASE Answer(e) = "CREATED"
  <2>1. opened[e] = 0
    BY <1>2 DEF Answer, EventInv, EventsType
  <2>2. opened' = [opened EXCEPT ![e] = 1]
    BY <1>2, <2>1 DEF Serve, EventsType
  <2>3. Refused' = Refused
    BY <1>2 DEF Serve, Refused
  <2> QED BY <1>1, <2>1, <2>2, <2>3, Mapping
<1>3. CASE Answer(e) \in {"CONFLICT", "CAMERA_GONE"}
  <2>1. opened' = opened
    BY <1>3 DEF Serve
  <2>2. CASE Answer(e) = "CONFLICT"
    <3>1. cam[site[e]].incident # NoEvent /\ gone' = gone
          /\ rival' = [rival EXCEPT ![e] = cam[site[e]].incident]
      BY <2>2 DEF Answer, Serve
    <3> QED BY <1>1, <2>1, <3>1, Mapping DEF Refused, EventsType
  <2>3. CASE Answer(e) = "CAMERA_GONE"
    <3>1. gone' = gone \cup {e} /\ rival' = rival
      BY <2>3 DEF Serve
    <3>2. Refused' = Refused \cup {e}
      BY <3>1 DEF Refused
    <3> QED BY <1>1, <2>1, <3>2, Mapping
  <2> QED BY <1>3, <2>2, <2>3
<1>4. CASE Answer(e) = "DUPLICATE"
  <2>1. UNCHANGED <<opened, gone, rival>>
    BY <1>4 DEF Serve
  <2> QED BY <1>1, <2>1, SameRefused, Mapping
<1> QED BY <1>2, <1>3, <1>4, AnswerType

\* Every step is one of EventDelivery, or none to it.
LEMMA DeliveryNext == TypeOK /\ IInv /\ [Next]_vars => [Delivery!Next]_(Delivery!vars)
<1> SUFFICES ASSUME TypeOK, IInv, [Next]_vars PROVE Delivery!Next \/ UNCHANGED Delivery!vars
  OBVIOUS
<1>0. /\ CamType /\ EventsType /\ PipeType /\ WorkerType
      /\ NumberInv /\ EventInv /\ PipeInv /\ WorkerInv /\ LateInv /\ MaxEvents \in Nat
  BY TypeParts, BoundsAssumption DEF Types, IInv, ThreadInv
<1>1. ASSUME NEW c \in Cameras, Fire(c) PROVE UNCHANGED Delivery!vars
  <2> DEFINE n == Cardinality(Fired) + 1
  <2>1. n \in Events /\ place[n] = "unfired"
    BY <1>0, <1>1, NextNumber DEF Fire
  <2>2. place' = [place EXCEPT ![n] = "memory"] /\ UNCHANGED <<opened, gone, rival>>
    BY <1>1 DEF Fire, backend
  <2> HIDE DEF n
  <2>3. \A e \in Events : Name(place'[e]) = Name(place[e])
    BY <1>0, <2>1, <2>2 DEF EventsType, Name
  <2> QED BY <2>2, <2>3, Stayed, SameRefused, Mapping
<1>2. CASE Enqueue
  <2>1. PICK e \in Events : e = pipe.event /\ place[e] = "memory"
    BY <1>0, <1>2 DEF Enqueue, Persist, PipeInv
  <2>2. place' = [place EXCEPT ![e] = "outbox"] /\ UNCHANGED <<opened, gone, rival>>
    BY <1>2, <2>1 DEF Enqueue, Persist, backend
  <2>3. Status[e] = "unseen" /\ Status' = [Status EXCEPT ![e] = "stored"]
    BY <1>0, <2>1, <2>2, Moved DEF Status, Name
  <2>4. Delivery!Store(e)
    BY <2>2, <2>3, SameRefused, Mapping
  <2> QED BY <2>1, <2>4, OneOf
<1>3. CASE DropEvent
  <2>1. pipe.event \in Events /\ place[pipe.event] = "memory"
    BY <1>0, <1>3 DEF DropEvent, Persist, PipeInv
  <2>2. place' = [place EXCEPT ![pipe.event] = "lost"] /\ UNCHANGED <<opened, gone, rival>>
    BY <1>3 DEF DropEvent, Persist, backend
  <2>3. \A e \in Events : Name(place'[e]) = Name(place[e])
    BY <1>0, <2>1, <2>2 DEF EventsType, Name
  <2> QED BY <2>2, <2>3, Stayed, SameRefused, Mapping
<1>4. CASE Reply
  <2>1. worker.event \in Events /\ place[worker.event] = "outbox" /\ Serve(worker.event)
        /\ UNCHANGED place
    BY <1>0, <1>4 DEF Reply, WorkerInv, disk
  <2> QED BY <1>0, <2>1, DeliveryServe, OneOf
<1>5. ASSUME NEW e \in Events, LateService(e) PROVE Delivery!Next \/ UNCHANGED Delivery!vars
  <2>1. place[e] \in {"outbox", "done", "aside"} /\ Serve(e) /\ UNCHANGED place
    BY <1>0, <1>5 DEF LateService, LateInv, disk
  <2> QED BY <1>0, <2>1, DeliveryServe, OneOf
<1>6. CASE Settle
  <2>1. PICK e \in Events :
          /\ e = worker.event /\ worker \in Working /\ worker.answer # "none"
          /\ place[e] = "outbox" /\ Backed(e, worker.answer)
          /\ UNCHANGED <<opened, gone, rival>>
    BY <1>0, <1>6, NotIdle DEF Settle, WorkerAt, WorkerInv, backend
  <2>2. Status[e] = "stored" /\ UNCHANGED <<opened, Refused>>
    BY <2>1, SameRefused DEF Status, Name
  <2>3. CASE worker.answer = "QUARANTINE"
    <3>1. place' = [place EXCEPT ![e] = "aside"]
      BY <1>6, <2>1, <2>3 DEF Settle
    <3>2. Status' = [Status EXCEPT ![e] = "aside"]
      BY <1>0, <2>1, <3>1, Moved DEF Name
    <3>3. Delivery!SetAside(e)
      BY <2>2, <3>2, Mapping
    <3> QED BY <2>1, <3>3, OneOf
  <2>4. CASE worker.answer # "QUARANTINE"
    <3>1. place' = [place EXCEPT ![e] = "done"]
      BY <1>6, <2>1, <2>4 DEF Settle
    <3>2. Status' = [Status EXCEPT ![e] = "settled"]
      BY <1>0, <2>1, <3>1, Moved DEF Name
    <3>3. worker.answer \in {"CREATED", "DUPLICATE", "CONFLICT", "CAMERA_GONE"}
      BY <2>1, <2>4 DEF Working, Answers
    <3>4. opened[e] = 1 \/ e \in Refused
      BY <2>1, <3>3 DEF Backed, Refused
    <3>5. Delivery!Settle(e)
      BY <2>2, <3>2, <3>4, Mapping
    <3> QED BY <2>1, <3>5, OneOf
  <2> QED BY <2>3, <2>4
<1>7. CASE Crash
  <2>1. \A e \in Events : Name(place'[e]) = Name(place[e])
    BY <1>0, <1>7 DEF Crash, EventsType, Name
  <2> QED BY <1>7, <2>1, Stayed, SameRefused, Mapping DEF Crash, backend
<1>8. CASE UNCHANGED <<place, opened, gone, rival>>
  BY <1>8, Stayed, SameRefused, Mapping
<1>9. \/ UNCHANGED <<place, opened, gone, rival>> \/ (\E c \in Cameras : Fire(c))
      \/ Enqueue \/ DropEvent \/ Reply \/ (\E e \in Events : LateService(e)) \/ Settle \/ Crash
  BY DEF Next, BackendStep, PipelineStep, WorkerStep, SupStep, CloseIncident, CooldownOver,
         EditCamera, Collect, EndTick, BeginCycle, Post, Reject, AttemptFails, EndCycle,
         Heartbeat, Compute, Apply, EndHeartbeat, BackoffElapses, vars, disk, backend
<1> QED BY <1>1, <1>2, <1>3, <1>4, <1>5, <1>6, <1>7, <1>8, <1>9

-----------------------------------------------------------------------------
(* The theorems *)

LEMMA InvCorrect == Spec => [](TypeOK /\ IInv)
BY TypeInit, TypeNext, InvInit, InvNext, PTL DEF Spec

\* The variables of the backend, the disk and the threads keep their types.
THEOREM TypeCorrect == Spec => []TypeOK
BY InvCorrect, PTL

\* The engine and the backend keep the promise of EventDelivery for any number of
\* events, cameras, edits and crashes: an event opens one incident at most, and leaves the
\* outbox only when the backend has decided on it or it is kept aside.
THEOREM ImplementsDelivery == Spec => DeliverySpec
BY DeliveryInit, DeliveryNext, InvCorrect, PTL DEF Spec, DeliverySpec, Delivery!Spec
=============================================================================
