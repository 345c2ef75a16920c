--------------------------- MODULE EngineDelivery ---------------------------
(***************************************************************************)
(* The AI engine beside the backend: the inference thread that detects and *)
(* stores events, the delivery worker that posts them from a durable       *)
(* outbox, and the supervisor that follows the backend's heartbeat         *)
(* snapshot, over one dictionary of camera streams that all three share.   *)
(*                                                                         *)
(* A step is what one thread does between two looks at shared state.  The  *)
(* backend is modelled as the engine sees it: what an ingest answers and   *)
(* what a heartbeat reports (IncidentControl has its inner concurrency).   *)
(* A frame that is not decoded, a region that does not fire and a camera   *)
(* that the pipeline has isolated all show as a camera that is not         *)
(* collected.  Applied configuration versions only feed reports.           *)
(***************************************************************************)
EXTENDS Naturals, FiniteSets, FiniteSetsExt

CONSTANTS Cameras,
          Channels,
          NULL,
          MaxEvents,   \* detections of a behaviour
          MaxChanges,  \* camera edits by an administrator in a behaviour
          MaxCrashes   \* crashes of the engine in a behaviour

ASSUME NullAssumption    == NULL \notin Cameras \cup Channels \cup [paused : BOOLEAN, channel : Channels]
ASSUME BoundsAssumption  == MaxEvents \in Nat /\ MaxChanges \in Nat /\ MaxCrashes \in Nat

\* Events are numbered as they fire; the timestamps of the outbox files keep
\* that order, one thread writing them.
Events == 1..MaxEvents
NoEvent == 0

VARIABLES
  \* The backend, as far as the engine can tell.
  cam,      \* per camera: enabled, channel, open incident, cooldown
  opened,   \* per event: how many incidents it has opened
  gone,     \* events refused with 404, their camera being unavailable
  rival,    \* per event: the open incident it was last refused for with 409
  \* The engine's disk.
  place,    \* per event: how far it has come
  waiting,  \* stored events whose next attempt is not due yet
  \* The engine's memory.
  booted,   \* the startup drain is over and the threads run
  site,     \* per event: the camera it fired at
  stream,   \* per camera: its runtime, NULL when there is none
  pipe,     \* the inference thread
  worker,   \* the delivery worker
  sup,      \* the supervisor
  \* The network, and the bounds.
  late,     \* requests the engine no longer waits for and the backend may still serve
  changes, crashes

backend == <<cam, opened, gone, rival>>
disk    == <<place, waiting>>
threads == <<pipe, worker, sup>>
vars    == <<backend, disk, booted, site, stream, threads, late, changes, crashes>>

Fired    == {e \in Events : place[e] # "unfired"}
Outbox   == {e \in Events : place[e] = "outbox"}
Pending  == {site[e] : e \in Outbox}

Places   == {"unfired", "memory", "outbox", "done", "aside", "lost"}
AIStates == {"Active", "Paused", "Inactive"}
Stream   == [paused : BOOLEAN, channel : Channels]

CameraRow == [enabled : BOOLEAN, channel : Channels, incident : Events \cup {NoEvent},
              cooldown : BOOLEAN]

Idle == [pc |-> "idle"]

Plan == [act : {"keep", "stop", "start", "pause", "resume"}, stream : Stream \cup {NULL}]

-----------------------------------------------------------------------------
(* The backend *)

Desired(c) ==
  IF ~cam[c].enabled THEN "Inactive"
  ELSE IF cam[c].incident # NoEvent \/ cam[c].cooldown THEN "Paused"
  ELSE "Active"

\* Mutant of Answer: the source_event_id is not looked up.
Answer_NoDuplicateCheck(e) ==
  LET c == site[e]
  IN  IF ~cam[c].enabled THEN "CAMERA_GONE"
      ELSE IF cam[c].incident # NoEvent THEN "CONFLICT"
      ELSE "CREATED"

\* What ingest_detection and the route around it answer to a request for e.
Answer(e) ==
  LET c == site[e]
  IN  IF ~cam[c].enabled THEN "CAMERA_GONE"
      ELSE IF opened[e] > 0 THEN "DUPLICATE"
      ELSE IF cam[c].incident # NoEvent THEN "CONFLICT"
      ELSE "CREATED"

Serve(e) ==
  LET c == site[e]
      answer == Answer(e)
  IN  /\ opened' = IF answer = "CREATED" THEN [opened EXCEPT ![e] = @ + 1] ELSE opened
      /\ cam'    = IF answer = "CREATED"
                   THEN [cam EXCEPT ![c].incident = e, ![c].cooldown = FALSE] ELSE cam
      /\ gone'   = IF answer = "CAMERA_GONE" THEN gone \cup {e} ELSE gone
      /\ rival'  = IF answer = "CONFLICT"
                   THEN [rival EXCEPT ![e] = cam[c].incident] ELSE rival

\* An operator clears or corrects the open incident, or dismisses it as a
\* false positive and so starts the cooldown.
CloseIncident(c) ==
  /\ cam[c].incident # NoEvent
  /\ \E cooldown \in BOOLEAN :
       cam' = [cam EXCEPT ![c].incident = NoEvent,
                          ![c].cooldown = cooldown /\ cam[c].enabled]
  /\ UNCHANGED <<opened, gone, rival, disk, booted, site, stream, threads, late, changes, crashes>>

CooldownOver(c) ==
  /\ cam[c].cooldown
  /\ cam' = [cam EXCEPT ![c].cooldown = FALSE]
  /\ UNCHANGED <<opened, gone, rival, disk, booted, site, stream, threads, late, changes, crashes>>

\* An administrator switches a camera on or off (or deletes or restores it),
\* or moves it to another channel.
EditCamera(c) ==
  /\ changes < MaxChanges
  /\ changes' = changes + 1
  /\ \/ cam' = [cam EXCEPT ![c].enabled = ~@, ![c].cooldown = FALSE]
     \/ \E channel \in Channels \ {cam[c].channel} : cam' = [cam EXCEPT ![c].channel = channel]
  /\ UNCHANGED <<opened, gone, rival, disk, booted, site, stream, threads, late, crashes>>

-----------------------------------------------------------------------------
(* The inference thread *)

\* One tick's batch.  "current" are the cameras of it whose stream object is
\* still the one the dictionary holds.
Collect ==
  /\ booted
  /\ pipe = Idle
  /\ \E batch \in SUBSET {c \in Cameras : stream[c] # NULL /\ ~stream[c].paused} :
       /\ batch # {}
       /\ pipe' = [pc |-> "batch", batch |-> batch, current |-> batch, event |-> NoEvent]
  /\ UNCHANGED <<backend, disk, booted, site, stream, worker, sup, late, changes, crashes>>

\* A region fires: the camera is blindfolded before any disk or network work.
\* Whether the camera was paused or stopped since it was collected is not
\* looked at, and a stream that was replaced is paused in vain.
Fire(c) ==
  /\ pipe.pc = "batch"
  /\ c \in pipe.batch
  /\ Cardinality(Fired) < MaxEvents
  /\ LET e == Cardinality(Fired) + 1
     IN  /\ place' = [place EXCEPT ![e] = "memory"]
         /\ site' = [site EXCEPT ![e] = c]
         /\ pipe' = [pipe EXCEPT !.pc = "firing", !.event = e, !.batch = @ \ {c}]
  /\ stream' = IF c \in pipe.current THEN [stream EXCEPT ![c].paused = TRUE] ELSE stream
  /\ UNCHANGED <<backend, waiting, booted, worker, sup, late, changes, crashes>>

\* handle_event: the snapshot cannot be encoded and the event is dropped, or
\* the event is written to the outbox in one atomic replace.
Persist(result) ==
  /\ pipe.pc = "firing"
  /\ place' = [place EXCEPT ![pipe.event] = result]
  /\ pipe' = [pipe EXCEPT !.pc = "batch", !.event = NoEvent]
  /\ UNCHANGED <<backend, waiting, booted, site, stream, worker, sup, late, changes, crashes>>

Enqueue  == Persist("outbox")
DropEvent == Persist("lost")

EndTick ==
  /\ pipe.pc = "batch"
  /\ pipe' = Idle
  /\ UNCHANGED <<backend, disk, booted, site, stream, worker, sup, late, changes, crashes>>

\* The dictionary entry of c is removed or replaced.
Detached(c) == IF pipe = Idle THEN pipe ELSE [pipe EXCEPT !.current = @ \ {c}]
-----------------------------------------------------------------------------
(* The delivery worker *)

WorkerAt(pc) == worker.pc = pc

\* One oldest-first pass over the files that are pending now.
BeginCycle ==
  /\ worker = Idle
  /\ Outbox # {} \/ ~booted
  /\ worker' = [pc |-> "cycle", todo |-> Outbox, event |-> NoEvent, answer |-> "none"]
  /\ UNCHANGED <<backend, disk, booted, site, stream, pipe, sup, late, changes, crashes>>

\* Mutant of Post: the due test the wrong way round.
Post_NotDue ==
  /\ WorkerAt("cycle")
  /\ worker.todo # {}
  /\ LET e == Min(worker.todo)
     IN  worker' = IF e \in Outbox \cap waiting
                   THEN [worker EXCEPT !.pc = "posted", !.event = e, !.todo = @ \ {e}]
                   ELSE [worker EXCEPT !.todo = @ \ {e}]
  /\ UNCHANGED <<backend, disk, booted, site, stream, pipe, sup, late, changes, crashes>>

\* The oldest entry of the pass is posted if it is still there and due.  It can be
\* read: a file appears by os.replace, whole, and a failing disk is left out (_load
\* would put the entry aside unanswered).
Post ==
  /\ WorkerAt("cycle")
  /\ worker.todo # {}
  /\ LET e == Min(worker.todo)
     IN  worker' = IF e \in Outbox \ waiting
                   THEN [worker EXCEPT !.pc = "posted", !.event = e, !.todo = @ \ {e}]
                   ELSE [worker EXCEPT !.todo = @ \ {e}]
  /\ UNCHANGED <<backend, disk, booted, site, stream, pipe, sup, late, changes, crashes>>

\* The backend serves the request the worker is waiting on.
Reply ==
  /\ WorkerAt("posted")
  /\ worker.answer = "none"
  /\ Serve(worker.event)
  /\ worker' = [worker EXCEPT !.answer = Answer(worker.event)]
  /\ UNCHANGED <<disk, booted, site, stream, pipe, sup, late, changes, crashes>>

\* The backend rejects the payload as malformed.
Reject ==
  /\ WorkerAt("posted")
  /\ worker.answer = "none"
  /\ worker' = [worker EXCEPT !.answer = "QUARANTINE"]
  /\ UNCHANGED <<backend, disk, booted, site, stream, pipe, sup, late, changes, crashes>>

NextEntry == [worker EXCEPT !.pc = "cycle", !.event = NoEvent, !.answer = "none"]

\* The answer arrives in time.  A 404 also stops the camera's stream.
Settle ==
  /\ WorkerAt("posted")
  /\ worker.answer # "none"
  /\ LET e == worker.event
     IN  /\ place' = [place EXCEPT ![e] = IF worker.answer = "QUARANTINE" THEN "aside" ELSE "done"]
         /\ IF worker.answer = "CAMERA_GONE"
            THEN /\ stream' = [stream EXCEPT ![site[e]] = NULL]
                 /\ pipe' = Detached(site[e])
            ELSE UNCHANGED <<stream, pipe>>
  /\ worker' = NextEntry
  /\ UNCHANGED <<backend, waiting, booted, site, sup, late, changes, crashes>>

\* No usable answer: the request was lost or refused (5xx, 401), its answer
\* was lost, or it is slow and will yet be served.  The entry backs off.
AttemptFails ==
  /\ WorkerAt("posted")
  /\ waiting' = waiting \cup {worker.event}
  /\ \/ late' = late
     \/ worker.answer = "none" /\ late' = late \cup {worker.event}
  /\ worker' = NextEntry
  /\ UNCHANGED <<backend, place, booted, site, stream, pipe, sup, changes, crashes>>

\* The startup drain is a cycle too; the other threads start after it.
EndCycle ==
  /\ WorkerAt("cycle")
  /\ worker.todo = {}
  /\ worker' = Idle
  /\ booted' = TRUE
  /\ UNCHANGED <<backend, disk, site, stream, pipe, sup, late, changes, crashes>>

BackoffElapses(e) ==
  /\ e \in waiting
  /\ waiting' = waiting \ {e}
  /\ UNCHANGED <<backend, place, booted, site, stream, threads, late, changes, crashes>>

\* A request outlives the worker's patience, or the engine itself.
LateService(e) ==
  /\ e \in late
  /\ Serve(e)
  /\ late' = late \ {e}
  /\ UNCHANGED <<disk, booted, site, stream, threads, changes, crashes>>

-----------------------------------------------------------------------------
(* The supervisor *)

Keep                   == [act |-> "keep",   stream |-> NULL]
Stop                   == [act |-> "stop",   stream |-> NULL]
Pause                  == [act |-> "pause",  stream |-> NULL]
Resume                 == [act |-> "resume", stream |-> NULL]
Start(channel, paused) == [act |-> "start", stream |-> [paused |-> paused, channel |-> channel]]

\* Mutant of compute_actions: a paused stream is never resumed.
compute_actions_NoResume(snap, local, pending) ==
  CASE snap.desired = "Inactive" -> IF local = NULL THEN Keep ELSE Stop
    [] snap.desired # "Inactive" /\ local = NULL -> Start(snap.channel, snap.desired = "Paused")
    [] OTHER -> Keep

\* What the plan holds for one camera, given its line of the snapshot, its
\* local runtime and whether the outbox holds an event of it.  A restart for
\* a new channel is a stop and a start.
compute_actions(snap, local, pending) ==
  CASE snap.desired = "Inactive" -> IF local = NULL THEN Keep ELSE Stop
    [] snap.desired # "Inactive" /\ local = NULL ->
         Start(snap.channel, snap.desired = "Paused")
    [] snap.desired # "Inactive" /\ local # NULL /\ local.channel # snap.channel ->
         Start(snap.channel, snap.desired = "Paused" \/ pending)
    [] snap.desired = "Paused" /\ local # NULL /\ ~local.paused -> Pause
    [] snap.desired = "Active" /\ local # NULL /\ local.paused /\ ~pending -> Resume
    [] OTHER -> Keep

\* The heartbeat is answered with a snapshot of every camera.
Heartbeat ==
  /\ booted
  /\ sup = Idle
  /\ sup' = [pc |-> "answered",
             snap |-> [c \in Cameras |-> [desired |-> Desired(c), channel |-> cam[c].channel]]]
  /\ UNCHANGED <<backend, disk, booted, site, stream, pipe, worker, late, changes, crashes>>

\* Local runtimes and pending entries are read when the answer is in.
Compute ==
  /\ sup.pc = "answered"
  /\ sup' = [pc |-> "applying",
             plan |-> [c \in Cameras |->
                         compute_actions(sup.snap[c], stream[c], c \in Pending)]]
  /\ UNCHANGED <<backend, disk, booted, site, stream, pipe, worker, late, changes, crashes>>

\* One camera's action, on whatever stream the dictionary holds by now.
Apply(c) ==
  /\ sup.pc = "applying"
  /\ LET p == sup.plan[c]
         s == stream[c]
     IN  /\ p.act # "keep"
         /\ stream' = [stream EXCEPT ![c] =
              CASE p.act \in {"start", "stop"}          -> p.stream
                [] p.act = "pause"  /\ s # NULL         -> [s EXCEPT !.paused = TRUE]
                [] p.act = "resume" /\ s # NULL         -> [s EXCEPT !.paused = FALSE]
                [] OTHER                                -> s]
         /\ pipe' = IF p.act \in {"start", "stop"} THEN Detached(c) ELSE pipe
  /\ sup' = [sup EXCEPT !.plan[c] = Keep]
  /\ UNCHANGED <<backend, disk, booted, site, worker, late, changes, crashes>>

\* The plan is done, or the cycle failed on the way: whatever is left of the
\* plan is dropped and the next heartbeat starts over.
EndHeartbeat ==
  /\ sup # Idle
  /\ sup' = Idle
  /\ UNCHANGED <<backend, disk, booted, site, stream, pipe, worker, late, changes, crashes>>

-----------------------------------------------------------------------------
(* The engine process *)

\* The process dies, with everything in memory, and is started again.  An
\* event that fired and was not stored yet dies with it; a request in flight
\* may still be served.
Crash ==
  /\ crashes < MaxCrashes
  /\ crashes' = crashes + 1
  /\ booted' = FALSE
  /\ place' = [e \in Events |-> IF place[e] = "memory" THEN "lost" ELSE place[e]]
  /\ stream' = [c \in Cameras |-> NULL]
  /\ pipe' = Idle /\ worker' = Idle /\ sup' = Idle
  /\ \/ late' = late
     \/ WorkerAt("posted") /\ worker.answer = "none" /\ late' = late \cup {worker.event}
  /\ UNCHANGED <<backend, waiting, site, changes>>

Init ==
  /\ cam \in [Cameras -> [enabled : BOOLEAN, channel : Channels, incident : {NoEvent},
                          cooldown : {FALSE}]]
  /\ opened = [e \in Events |-> 0]
  /\ gone = {}
  /\ rival = [e \in Events |-> NoEvent]
  /\ place = [e \in Events |-> "unfired"]
  /\ waiting = {}
  /\ booted = FALSE
  /\ site = [e \in Events |-> NULL]
  /\ stream = [c \in Cameras |-> NULL]
  /\ pipe = Idle /\ worker = Idle /\ sup = Idle
  /\ late = {}
  /\ changes = 0 /\ crashes = 0

BackendStep  == \E c \in Cameras : CloseIncident(c) \/ CooldownOver(c) \/ EditCamera(c)
PipelineStep == Collect \/ (\E c \in Cameras : Fire(c)) \/ Enqueue \/ DropEvent \/ EndTick
WorkerStep   == BeginCycle \/ Post \/ Reply \/ Reject \/ Settle \/ AttemptFails \/ EndCycle
SupStep      == Heartbeat \/ Compute \/ (\E c \in Cameras : Apply(c)) \/ EndHeartbeat

Next == \/ BackendStep \/ PipelineStep \/ WorkerStep \/ SupStep \/ Crash
        \/ \E e \in Events : BackoffElapses(e) \/ LateService(e)

Spec == Init /\ [][Next]_vars

(***************************************************************************)
(* Each thread runs on.  The network may fail any number of times but not  *)
(* always: an event that is posted again and again is answered in time     *)
(* some day, and a plan that is computed again and again is applied.       *)
(* Nothing is assumed of detections, operators, administrators or crashes. *)
(***************************************************************************)
Fairness ==
  /\ WF_vars(BeginCycle) /\ WF_vars(Post) /\ WF_vars(EndCycle)
  /\ \A e \in Events : /\ SF_vars(Reply /\ worker.event = e)
                       /\ SF_vars(Settle /\ worker.event = e)
                       /\ WF_vars(BackoffElapses(e))
  /\ WF_vars(Heartbeat) /\ SF_vars(Compute) /\ WF_vars(EndHeartbeat)
  /\ \A c \in Cameras : SF_vars(Apply(c))
  /\ \A c \in Cameras : WF_vars(CooldownOver(c))

FairSpec == Spec /\ Fairness

-----------------------------------------------------------------------------
(* Properties *)

TypeOK ==
  /\ cam \in [Cameras -> CameraRow]
  /\ opened \in [Events -> Nat]
  /\ gone \subseteq Events
  /\ rival \in [Events -> Events \cup {NoEvent}]
  /\ place \in [Events -> Places]
  /\ waiting \subseteq Events
  /\ booted \in BOOLEAN
  /\ site \in [Events -> Cameras \cup {NULL}]
  /\ stream \in [Cameras -> Stream \cup {NULL}]
  /\ pipe \in {Idle} \cup [pc : {"batch", "firing"}, batch : SUBSET Cameras,
                           current : SUBSET Cameras, event : Events \cup {NoEvent}]
  /\ worker \in {Idle} \cup
       [pc : {"cycle", "posted"}, todo : SUBSET Events, event : Events \cup {NoEvent},
        answer : {"none", "CREATED", "DUPLICATE", "CONFLICT", "CAMERA_GONE", "QUARANTINE"}]
  /\ sup \in {Idle} \cup
       [pc : {"answered"}, snap : [Cameras -> [desired : AIStates, channel : Channels]]] \cup
       [pc : {"applying"}, plan : [Cameras -> Plan]]
  /\ late \subseteq Events
  /\ changes \in 0..MaxChanges
  /\ crashes \in 0..MaxCrashes

\* Through crashes, lost and late requests and repeated deliveries the engine
\* and the backend keep the promise of EventDelivery: an event opens at most
\* one incident, even when a copy of its request is served after the operator
\* has closed that incident, and it leaves the outbox only once the backend
\* has decided on it or it is quarantined.
Delivery == INSTANCE EventDelivery WITH
  status  <- [e \in Events |-> CASE place[e] = "outbox" -> "stored"
                                 [] place[e] = "done"   -> "settled"
                                 [] place[e] = "aside"  -> "aside"
                                 [] OTHER               -> "unseen"],
  refused <- gone \cup {e \in Events : rival[e] # NoEvent}

DeliverySpec == Delivery!Spec

\* A stored event does not stay in the outbox for ever, whatever crashes.
EveryEntryLeaves == \A e \in Events : place[e] = "outbox" ~> place[e] # "outbox"

Follows(c) ==
  CASE Desired(c) = "Inactive" -> stream[c] = NULL
    [] Desired(c) = "Paused"   -> stream[c] # NULL /\ stream[c].paused
    [] Desired(c) = "Active"   -> stream[c] # NULL /\ ~stream[c].paused

\* Once the backend stops changing its mind about a camera, the engine ends up
\* running it on the right channel in the state asked for, whatever stale
\* snapshot, 404, dropped event or crash came in between.
EngineFollowsBackend ==
  \A c \in Cameras : \A state \in AIStates : \A channel \in Channels :
    <>[](Desired(c) = state /\ cam[c].channel = channel) =>
    <>[](Follows(c) /\ (stream[c] # NULL => stream[c].channel = channel))

-----------------------------------------------------------------------------
(* What compute_actions says of pending events, what its START branch does  *)
(* to it, and what the window between the blindfold and the enqueue does.   *)

\* A plan computed while an event of a camera is pending neither starts nor
\* resumes detection on it: "A camera in this set stays paused regardless of
\* what the snapshot says, until its outbox entry has actually been delivered or
\* given up on."
PendingHoldsPause ==
  [][\A c \in Pending :
       Compute => /\ sup'.plan[c].act # "resume"
                  /\ sup'.plan[c].act = "start" => sup'.plan[c].stream.paused]_vars

\* An event is dropped as redundant only in favour of an earlier one, never
\* "silently losing a genuine, earlier detection".
EarlierDetectionWins ==
  \A e \in Events : place[e] = "done" /\ opened[e] = 0 => rival[e] < e
=============================================================================
