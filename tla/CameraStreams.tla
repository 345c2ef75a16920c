---------------------------- MODULE CameraStreams ----------------------------
(***************************************************************************)
(* One camera inside the AI engine: the reader thread that decodes its     *)
(* stream, the inference thread that collects frames, gathers evidence and *)
(* blindfolds the camera when a region fires, and the supervisor that      *)
(* pauses, resumes, stops and replaces it.  None of the attributes that    *)
(* the three share is locked, only the exchange of frames is.              *)
(*                                                                         *)
(* A frame is timed by what lies between it and the frame before, in units *)
(* of a frame interval, and anything above MaxGap is Gapped: there the     *)
(* accumulator is reset and the amount is never used.  Every detection has *)
(* the same confidence, and evidence counts in detections times units.     *)
(* What is left out: what a stream reports of itself (HealthRules has it), *)
(* the watchdog of the GPU reader (a stall that it ends is a drop), and    *)
(* the frames that a stream still held when it was stopped.                *)
(* EngineDelivery has what becomes of an event afterwards.                 *)
(***************************************************************************)
EXTENDS Naturals, Sequences, FiniteSets, FiniteSetsExt, Functions

CONSTANTS
  Locations,     \* places in the picture, too far apart to be linked by IoU
  NULL,
  QueueDepth,    \* AI_GPU_FRAME_QUEUE_DEPTH
  MaxGap,        \* MAX_FRAME_GAP_SECONDS, in units
  Threshold,     \* ACC_THRESHOLD
  Decay,         \* ACC_DECAY, per unit
  MaxFaults,     \* bound: lost connections, stalls, and times inference falls behind
  MaxEvents,     \* bound: events that are reported
  MaxOrders      \* bound: changes of the camera's channel and of the state it shall have

ASSUME DepthAssumption    == QueueDepth \in Nat \ {0}
ASSUME EvidenceAssumption == /\ MaxGap \in Nat \ {0} /\ Threshold \in Nat /\ Decay \in Nat
                             /\ MaxGap < Threshold
ASSUME BoundsAssumption   == {MaxEvents, MaxFaults, MaxOrders} \subseteq Nat
ASSUME NullAssumption     == NULL \notin [gen : Nat, attached : BOOLEAN, is_paused : BOOLEAN,
                                         segment_id : Nat]

VARIABLES
  gpu,       \* AI_GPU_DECODE, for the whole process
  \* The stream object and its frame exchange.
  stream,    \* its attributes, NULL while the camera has none
  reader,    \* its thread
  queue,     \* published frames, not collected yet
  since,     \* time since the last frame was decoded
  \* The pipeline.
  infer,     \* the inference thread
  skipped,   \* time of collected frames that never reached the accumulator
  entry,     \* AccumulatorRegistry's entry of the camera
  isolated,  \* the camera is in _isolated
  \* The supervisor and the backend.
  sup,
  desired,   \* desired_ai_state in the next snapshot
  pending,   \* the outbox holds an event of the camera
  \* Bounds.
  faults, streams, events, orders

exchange == <<stream, reader, queue, since>>
pipeline == <<infer, skipped, entry, isolated>>
control  == <<sup, desired, pending>>
bounds   == <<faults, streams, events, orders>>
vars     == <<gpu, exchange, pipeline, control, bounds>>

Gapped    == MaxGap + 1
Sum(a, b) == Min({a + b, Gapped})

Idle    == [pc |-> "idle"]
NoEntry == [gen |-> 0]

\* History: the number of the stretch of uninterrupted observation that is
\* going on.
Stretch == streams + faults

NewStream(gen) ==
  [gen |-> gen, attached |-> FALSE, is_paused |-> FALSE, segment_id |-> 0]

\* The object that the inference thread holds is still the camera's stream.
Current(gen) == stream # NULL /\ stream.gen = gen

\* _discard_queued: the time of the frames falls to the next one collected.
DiscardQueue ==
  /\ queue' = <<>>
  /\ skipped' = Min({Gapped, FoldFunction(LAMBDA f, t : f.dt + t, skipped, queue)})

-----------------------------------------------------------------------------
(* The reader thread: _update, _run_connection *)

ReaderAt(pc) == stream # NULL /\ reader.pc = pc

At(pc) == [pc |-> pc]

\* The software reader looks at the pause flag before it blocks in read(); the
\* GPU reader never does.
NextFrame == At(IF gpu THEN "reading" ELSE "loop")

\* A failed connect changes nothing but what the stream reports.
\* segment_id is loaded; += stores it in a step of its own.
Connect ==
  /\ ReaderAt("connect")
  /\ reader' = [pc |-> "bump", segment |-> stream.segment_id]
  /\ UNCHANGED <<gpu, stream, queue, since, pipeline, control, bounds>>

\* Only the GPU reader has frames to discard: the slot of the other one may
\* keep a frame from before the outage.
NewSegment ==
  /\ ReaderAt("bump")
  /\ stream' = [stream EXCEPT !.segment_id = reader.segment + 1]
  /\ IF gpu THEN DiscardQueue ELSE UNCHANGED <<queue, skipped>>
  /\ reader' = NextFrame
  /\ UNCHANGED <<gpu, since, infer, entry, isolated, control, bounds>>

\* The pause bypass: a frame is taken from the socket and not decoded.
Grab ==
  /\ ReaderAt("loop") /\ stream.is_paused
  /\ since' = Sum(since, 1)
  /\ UNCHANGED <<gpu, stream, reader, queue, pipeline, control, bounds>>

StartRead ==
  /\ ReaderAt("loop") /\ ~stream.is_paused
  /\ reader' = At("reading")
  /\ UNCHANGED <<gpu, stream, queue, since, pipeline, control, bounds>>

Eligible == stream.attached /\ ~stream.is_paused /\ ~isolated

Depth == IF gpu THEN QueueDepth ELSE 1

\* _publish_latest and the success after it.  The frame is timed and takes the
\* segment of this moment; the detector will find an accident at the places in
\* hits.  A full queue loses its oldest frame, whose time falls to the next
\* one; that inference is too slow for the accumulator to bridge it is a fault.
Publish(hits) ==
  /\ ReaderAt("reading")
  /\ LET f      == [dt |-> Sum(since, 1), segment |-> stream.segment_id, hits |-> hits,
                    stretch |-> Stretch]
         full   == Len(queue) = Depth
         lost   == IF full THEN Head(queue).dt ELSE 0
         kept   == Append(IF full THEN Tail(queue) ELSE queue, f)
         late   == [kept EXCEPT ![1].dt = Sum(@, lost)]
         behind == full /\ Eligible /\ kept[1].dt <= MaxGap /\ late[1].dt > MaxGap
     IN  /\ behind => faults < MaxFaults
         /\ faults' = IF behind THEN faults + 1 ELSE faults
         /\ queue' = IF behind
                     THEN [k \in DOMAIN late |-> [late[k] EXCEPT !.stretch = Stretch + 1]]
                     ELSE late
  /\ since' = 0
  /\ reader' = NextFrame
  /\ UNCHANGED <<gpu, stream, pipeline, control, streams, events, orders>>

\* A read fails, or a grab does while the camera is paused.  Reconnecting
\* takes longer than MaxGap, and longer than the supervisor takes from the load
\* of segment_id to the store.
Drop ==
  /\ faults < MaxFaults
  /\ sup.pc # "bump"
  /\ ReaderAt("reading") \/ (ReaderAt("loop") /\ stream.is_paused)
  /\ reader' = At("connect")
  /\ since' = Gapped
  /\ faults' = faults + 1
  /\ UNCHANGED <<gpu, stream, queue, pipeline, control, streams, events, orders>>

\* The camera or the machine pauses for longer than MaxGap.
Stall ==
  /\ faults < MaxFaults /\ stream # NULL
  /\ faults' = faults + 1
  /\ since' = Gapped
  /\ UNCHANGED <<gpu, stream, reader, queue, pipeline, control, streams, events, orders>>

-----------------------------------------------------------------------------
(* The inference thread: tick_once *)

\* _collect, and read(): the oldest frame leaves the exchange for good.  One
\* from before a fault or a pause may exceed MAX_FRAME_AGE_SECONDS, and is
\* skipped.
Collect ==
  /\ infer = Idle /\ stream # NULL
  /\ Eligible /\ queue # <<>>
  /\ queue' = Tail(queue)
  /\ LET f == Head(queue)
     IN  \/ /\ infer' = [pc |-> "batch", gen |-> stream.gen, frame |-> f]
            /\ UNCHANGED skipped
         \/ /\ f.stretch # Stretch \/ f.segment # stream.segment_id
            /\ skipped' = Sum(skipped, f.dt)
            /\ UNCHANGED infer
  /\ UNCHANGED <<gpu, stream, reader, since, entry, isolated, control, bounds>>

\* The frame fails in the batch and again on its own.
InferenceFails ==
  /\ infer.pc = "batch" /\ faults < MaxFaults
  /\ faults' = faults + 1
  /\ isolated' = TRUE
  /\ infer' = Idle
  /\ UNCHANGED <<gpu, exchange, skipped, entry, control, streams, events, orders>>

\* A new Accumulator.  seen is history: per region the frames that support it,
\* two standing for more, and the stretches they are from.
Unseen == [frames |-> 0, stretches |-> {}]

NewEntry(gen, segment) ==
  [gen |-> gen, segment |-> segment, started |-> FALSE,
   score |-> [l \in Locations |-> 0], fired |-> {},
   seen |-> [l \in Locations |-> Unseen]]

\* Mutant: a gap between the frames is not looked at.
resolve_NoGapGuard(gen, segment, dt) ==
  IF entry # NoEntry /\ entry.gen = gen /\ entry.segment = segment
  THEN entry ELSE NewEntry(gen, segment)

\* Mutant: only the segment tells one stream of the camera from the next.
resolve_AnyStream(gen, segment, dt) ==
  IF entry # NoEntry /\ entry.segment = segment /\ dt <= MaxGap
  THEN [entry EXCEPT !.gen = gen] ELSE NewEntry(gen, segment)

\* AccumulatorRegistry.resolve: an accumulator goes on with the same stream
\* object and segment, unless the camera was not observed for too long.
resolve(gen, segment, dt) ==
  IF entry # NoEntry /\ entry.gen = gen /\ entry.segment = segment /\ dt <= MaxGap
  THEN entry ELSE NewEntry(gen, segment)

\* The evidence of a region that the frame supports.  No more than the
\* threshold is kept of it: it is compared with nothing else.
grown(acc, l, dt) == Min({acc.score[l] + dt, Threshold})

\* The evidence of a region that it does not support.
decayed(acc, l, dt) == IF acc.score[l] > Decay * dt THEN acc.score[l] - Decay * dt ELSE 0

\* Accumulator.update: regions that neither have evidence nor have fired are
\* dropped; one that has fired stays, takes what is detected there, and never
\* fires again, so that its evidence is not looked at any more.
update(acc, f, dt) ==
  LET t      == IF acc.started THEN dt ELSE 0
      score  == [l \in Locations |-> IF l \in acc.fired THEN 0
                                     ELSE IF l \in f.hits THEN grown(acc, l, t)
                                     ELSE decayed(acc, l, t)]
      firing == {l \in Locations \ acc.fired : score[l] >= Threshold}
      support(l) ==
        IF score[l] = 0 THEN Unseen
        ELSE IF l \notin f.hits THEN acc.seen[l]
        ELSE [frames |-> Min({2, acc.seen[l].frames + 1}),
              stretches |-> acc.seen[l].stretches \cup {f.stretch}]
      seen   == [l \in Locations |-> support(l)]
  IN  [reported |-> {seen[l] : l \in firing},
       acc |-> [acc EXCEPT !.started = TRUE, !.fired = @ \cup firing,
                           !.score = [l \in Locations |-> IF l \in firing THEN 0 ELSE score[l]],
                           !.seen = [l \in Locations |-> IF l \in firing THEN Unseen ELSE seen[l]]]]

\* One of the regions that fire is reported.
Accumulate ==
  /\ infer.pc = "batch"
  /\ LET f    == infer.frame
         dt   == Sum(skipped, f.dt)
         next == update(resolve(infer.gen, f.segment, dt), f, dt)
     IN  /\ entry' = next.acc
         /\ IF next.reported = {}
            THEN infer' = Idle
            ELSE \E evidence \in next.reported :
                   infer' = [pc |-> "fired", gen |-> infer.gen, evidence |-> evidence]
  /\ skipped' = 0
  /\ UNCHANGED <<gpu, exchange, isolated, control, bounds>>

\* pause(), on a stream that may have been replaced meanwhile.
Blindfold ==
  /\ infer.pc = "fired" /\ events < MaxEvents
  /\ events' = events + 1
  /\ stream' = IF Current(infer.gen) THEN [stream EXCEPT !.is_paused = TRUE] ELSE stream
  /\ infer' = [pc |-> "reporting"]
  /\ UNCHANGED <<gpu, reader, queue, since, skipped, entry, isolated, control, faults, streams, orders>>

\* handle_event: the event is stored, or dropped for want of a snapshot.
HandleEvent ==
  /\ infer.pc = "reporting"
  /\ pending' \in {pending, TRUE}
  /\ infer' = Idle
  /\ UNCHANGED <<gpu, exchange, skipped, entry, isolated, sup, desired, bounds>>

\* registry.prune, at the start of a tick that finds the camera gone.
Prune ==
  /\ infer = Idle /\ entry # NoEntry
  /\ stream = NULL
  /\ entry' = NoEntry
  /\ UNCHANGED <<gpu, exchange, infer, skipped, isolated, control, bounds>>

-----------------------------------------------------------------------------
(* The supervisor: heartbeat_loop *)

\* A heartbeat, and compute_actions on the snapshot that it brings back;
\* EngineDelivery has the snapshots that are outdated when they arrive.
Compute ==
  /\ sup = Idle
  /\ sup' =
       CASE desired = "Inactive" ->
              IF stream = NULL THEN Idle ELSE [pc |-> "stop"]
         [] desired # "Inactive" /\ stream = NULL ->
              [pc |-> "start", paused |-> desired = "Paused"]
         [] desired = "Paused" /\ stream # NULL /\ ~stream.is_paused -> [pc |-> "pause"]
         [] desired = "Active" /\ stream # NULL /\ stream.is_paused /\ ~pending ->
              [pc |-> "resume"]
         [] OTHER -> Idle
  /\ UNCHANGED <<gpu, exchange, pipeline, desired, pending, bounds>>

\* The channel changed: the stream is restarted, paused if asked for or if an
\* event is pending.
ComputeRestart ==
  /\ sup = Idle /\ desired # "Inactive" /\ stream # NULL
  /\ orders < MaxOrders
  /\ orders' = orders + 1
  /\ sup' = [pc |-> "restart", paused |-> desired = "Paused" \/ pending]
  /\ UNCHANGED <<gpu, exchange, pipeline, desired, pending, faults, streams, events>>

StopStream ==
  /\ sup.pc = "stop"
  /\ stream' = NULL
  /\ reader' = At("connect") /\ queue' = <<>> /\ since' = 0
  /\ sup' = Idle
  /\ UNCHANGED <<gpu, pipeline, desired, pending, bounds>>

\* stop() of the old stream and _start_stream, up to the constructor: it starts
\* the reader thread before the stream is paused and before the pipeline can
\* see it.
StartStream ==
  /\ sup.pc \in {"start", "restart"}
  /\ streams' = streams + 1
  /\ stream' = NewStream(streams + 1)
  /\ reader' = At("connect")
  /\ queue' = <<>> /\ since' = 0
  /\ sup' = IF sup.paused THEN [pc |-> "pause"] ELSE [pc |-> "attach"]
  /\ UNCHANGED <<gpu, pipeline, desired, pending, faults, events, orders>>

\* pause().
Pause ==
  /\ sup.pc = "pause"
  /\ stream' = [stream EXCEPT !.is_paused = TRUE]
  /\ sup' = IF stream.attached THEN Idle ELSE [pc |-> "attach"]
  /\ UNCHANGED <<gpu, reader, queue, since, pipeline, desired, pending, bounds>>

Attach ==
  /\ sup.pc = "attach"
  /\ stream' = [stream EXCEPT !.attached = TRUE]
  /\ sup' = Idle
  /\ UNCHANGED <<gpu, reader, queue, since, pipeline, desired, pending, bounds>>

\* resume(), attribute by attribute.
Resume ==
  /\ sup.pc = "resume"
  /\ stream' = [stream EXCEPT !.is_paused = FALSE]
  /\ sup' = [pc |-> "bump", segment |-> stream.segment_id]
  /\ UNCHANGED <<gpu, reader, queue, since, pipeline, desired, pending, bounds>>

\* Mutant: a resume goes on in the same segment.
ResumeSameSegment ==
  /\ sup.pc = "bump"
  /\ sup' = Idle
  /\ UNCHANGED <<gpu, exchange, pipeline, desired, pending, bounds>>

ResumeSegment ==
  /\ sup.pc = "bump"
  /\ stream' = [stream EXCEPT !.segment_id = sup.segment + 1]
  /\ sup' = IF gpu THEN [pc |-> "discard"] ELSE Idle
  /\ UNCHANGED <<gpu, reader, queue, since, pipeline, desired, pending, bounds>>

ResumeDiscard ==
  /\ sup.pc = "discard"
  /\ DiscardQueue
  /\ sup' = Idle
  /\ UNCHANGED <<gpu, stream, reader, since, infer, entry, isolated, desired, pending, bounds>>

-----------------------------------------------------------------------------
(* The backend and the operators *)

\* The outbox is rid of the event: it opened an incident, which pauses the
\* camera, or it was refused.
Deliver ==
  /\ pending
  /\ pending' = FALSE
  /\ desired' \in {desired, "Paused"}
  /\ UNCHANGED <<gpu, exchange, pipeline, sup, bounds>>

\* An incident is closed, a cooldown ends, a camera is switched on or off.
Order ==
  /\ orders < MaxOrders
  /\ orders' = orders + 1
  /\ desired' \in {"Active", "Paused", "Inactive"} \ {desired}
  /\ UNCHANGED <<gpu, exchange, pipeline, sup, pending, faults, streams, events>>

-----------------------------------------------------------------------------

Init ==
  /\ gpu \in BOOLEAN
  /\ stream = NULL
  /\ reader = At("connect")
  /\ queue = <<>> /\ since = 0
  /\ infer = Idle /\ skipped = 0 /\ entry = NoEntry /\ isolated = FALSE
  /\ sup = Idle /\ desired = "Active" /\ pending = FALSE
  /\ faults = 0 /\ streams = 0 /\ events = 0 /\ orders = 0

ReaderStep ==
  \/ Connect \/ NewSegment
  \/ Grab \/ StartRead \/ (\E hits \in SUBSET Locations : Publish(hits)) \/ Drop
  \/ Stall

InferenceStep ==
  \/ Collect \/ InferenceFails \/ Accumulate \/ Blindfold \/ HandleEvent
  \/ Prune

SupervisorStep ==
  \/ Compute \/ ComputeRestart \/ StopStream \/ StartStream \/ Pause
  \/ Attach \/ Resume \/ ResumeSegment \/ ResumeDiscard

BackendStep == Deliver \/ Order

Next == ReaderStep \/ InferenceStep \/ SupervisorStep \/ BackendStep

Spec == Init /\ [][Next]_vars

-----------------------------------------------------------------------------
(* Properties *)

Frame  == [dt : 1..Gapped, segment : Nat, hits : SUBSET Locations, stretch : Nat]
Stream == [gen : Nat, attached : BOOLEAN, is_paused : BOOLEAN, segment_id : Nat]

TypeOK ==
  /\ gpu \in BOOLEAN
  /\ stream \in Stream \cup {NULL}
  /\ reader.pc \in {"connect", "bump", "loop", "reading"}
  /\ queue \in Seq(Frame) /\ Len(queue) <= Depth
  /\ since \in 0..Gapped /\ skipped \in 0..Gapped
  /\ infer.pc \in {"idle", "batch", "fired", "reporting"}
  /\ sup.pc \notin {"idle", "start"} => stream # NULL

\* No event is reported on the strength of a single frame, "with no
\* corroboration at all": the time that a frame stands for is bounded by the
\* gap guard of resolve, whatever stalls, drops and slow ticks come before it.
EventsAreCorroborated == infer.pc = "fired" => infer.evidence.frames >= 2

\* No event rests on frames from both sides of an outage, a stall or a restart
\* of the stream: one of the seams of resolve catches each, even when the
\* reader and the supervisor increment segment_id at the same time.
EvidenceIsContinuous == infer.pc = "fired" => Cardinality(infer.evidence.stretches) = 1

\* "so this location can alert again": an active camera with nothing under way
\* has no region in use that has fired and will never fire again.  Whatever the
\* order of blindfold, resume, reconnect and restart, an accumulator that has
\* fired is not the one that the next frame goes to.
NotDeaf ==
  /\ stream # NULL /\ stream.attached /\ ~stream.is_paused
  /\ infer = Idle /\ sup = Idle
  => resolve(stream.gen, stream.segment_id, 1).fired = {}
=============================================================================
