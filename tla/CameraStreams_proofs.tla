------------------------- MODULE CameraStreams_proofs -------------------------
(***************************************************************************)
(* What an event that the inference thread reports rests on, and that a    *)
(* camera does not go deaf, for every queue depth, threshold and number of *)
(* places, and for any number of faults, orders and events.                *)
(*                                                                         *)
(* An event rests on one stretch of observation because the time since the *)
(* last evidence is never lost: it is in skipped, in the dt of the frames  *)
(* that wait, or in since, and moves between them when frames are skipped, *)
(* dropped or discarded.  SegmentInv is the argument for two threads that  *)
(* increment segment_id without a lock.                                    *)
(***************************************************************************)
EXTENDS CameraStreams, FiniteSetTheorems, WellFoundedInduction, TLAPS

Evidence == [frames : 0..2, stretches : SUBSET Nat]

Entry == [gen : Nat \ {0}, segment : Nat, started : BOOLEAN,
          score : [Locations -> 0..Threshold], fired : SUBSET Locations,
          seen : [Locations -> Evidence]]

ObjectType == stream \in Stream \cup {NULL}

ReaderType == reader \in {At("connect"), At("loop"), At("reading")}
                         \cup [pc : {"bump"}, segment : Nat]

QueueType ==
  /\ gpu \in BOOLEAN
  /\ queue \in Seq(Frame) /\ Len(queue) <= Depth
  /\ since \in 0..Gapped

InferType ==
  infer \in {Idle, At("reporting")}
            \cup [pc : {"batch"}, gen : Nat \ {0}, frame : Frame]
            \cup [pc : {"fired"}, gen : Nat \ {0}, evidence : Evidence]

EntryType ==
  /\ skipped \in 0..Gapped
  /\ entry \in Entry \cup {NoEntry}
  /\ isolated \in BOOLEAN

SupType ==
  sup \in {Idle, At("stop"), At("pause"), At("attach"), At("resume"), At("discard")}
          \cup [pc : {"start", "restart"}, paused : BOOLEAN]
          \cup [pc : {"bump"}, segment : Nat]

SupOwns == sup.pc \notin {"idle", "start"} => stream # NULL

CountType ==
  /\ desired \in {"Active", "Paused", "Inactive"} /\ pending \in BOOLEAN
  /\ faults \in Nat /\ streams \in Nat /\ events \in Nat /\ orders \in Nat

StreamType   == ObjectType /\ ReaderType /\ QueueType
PipelineType == InferType /\ EntryType
ControlType  == SupType /\ SupOwns /\ CountType

Types == StreamType /\ PipelineType /\ ControlType

\* The generations of streams only grow, and the accumulator is never ahead of
\* the frame that it gets next; an isolated camera has no frame under way.
GenInv ==
  /\ stream # NULL => stream.gen = streams /\ streams > 0
  /\ entry.gen <= streams
  /\ infer.pc \in {"batch", "fired"} => infer.gen <= streams
  /\ infer.pc = "batch" => entry.gen <= infer.gen
  /\ infer.pc = "fired" => entry.gen = infer.gen
  /\ isolated => infer = Idle

\* Without evidence there is no score, and a single frame is worth no more than
\* the longest gap that the accumulator bridges.
Scored(acc) ==
  \A l \in Locations :
    /\ acc.score[l] = 0 => acc.seen[l] = Unseen
    /\ acc.score[l] > 0 => acc.seen[l].frames > 0 /\ acc.seen[l].stretches # {}
    /\ acc.seen[l].frames = 1 => acc.score[l] <= MaxGap
    /\ ~acc.started => acc.score[l] = 0

ScoreInv == entry # NoEntry => Scored(entry)

\* All the evidence of the accumulator is from the stretch s.
AllFrom(acc, s) == \A l \in Locations : acc.seen[l].stretches \subseteq {s}

Rests(s) == entry # NoEntry => AllFrom(entry, s)

\* The frame that is collected next, published already or not.
NextDt      == IF queue = <<>> THEN since + 1 ELSE queue[1].dt
NextStretch == IF queue = <<>> THEN Stretch ELSE queue[1].stretch

\* Frames with no gap between them are from one stretch.
QueueInv ==
  /\ \A i, j \in 1..Len(queue) :
       i <= j /\ (\A k \in (i + 1)..j : queue[k].dt <= MaxGap) =>
         queue[i].stretch = queue[j].stretch
  /\ queue # <<>> /\ since < MaxGap => queue[Len(queue)].stretch = Stretch

\* What was accumulated, the frame under way, and the frame that comes next are
\* from one stretch as well, unless the time between them adds up to a gap.
BatchRests ==
  infer.pc = "batch" /\ entry.gen = infer.gen /\ skipped + infer.frame.dt <= MaxGap =>
    Rests(infer.frame.stretch)

NextFollows ==
  infer.pc = "batch" /\ infer.gen = stream.gen /\ skipped <= MaxGap /\ NextDt <= MaxGap =>
    NextStretch = infer.frame.stretch

NextRests ==
  infer.pc # "batch" /\ entry.gen = stream.gen /\ skipped + NextDt <= MaxGap =>
    Rests(NextStretch)

ChainInv ==
  ~isolated =>
    /\ BatchRests
    /\ stream # NULL => QueueInv /\ NextFollows /\ NextRests

ReportInv ==
  infer.pc = "fired" =>
    /\ infer.evidence.frames = 2
    /\ \E s \in infer.evidence.stretches : infer.evidence.stretches = {s}

\* The segment that no frame is ahead of.
Newest == IF reader.pc = "bump" THEN reader.segment ELSE stream.segment_id

\* Whichever of two increments is lost, segment_id ends beyond every frame that
\* was published before them.
SegmentInv ==
  stream # NULL =>
    /\ reader.pc = "bump" => reader.segment <= stream.segment_id
    /\ \A k \in 1..Len(queue) : queue[k].segment <= Newest
    /\ infer.pc = "batch" /\ infer.gen = stream.gen => infer.frame.segment <= Newest
    /\ entry # NoEntry /\ entry.gen = stream.gen => entry.segment <= Newest
    /\ sup.pc = "bump" =>
         /\ stream.segment_id <= sup.segment + 1
         /\ reader.pc \in {"connect", "bump"} => stream.segment_id = sup.segment

\* An accumulator that has fired and would take the next frame of the stream:
\* the camera is paused, or is about to be, or its segment is.
FiredInv ==
  /\ stream # NULL /\ entry # NoEntry
  /\ entry.gen = stream.gen /\ entry.segment = stream.segment_id /\ entry.fired # {}
  => \/ stream.is_paused
     \/ infer.pc = "fired"
     \/ sup.pc = "bump" /\ sup.segment = stream.segment_id

IInv == GenInv /\ ScoreInv /\ ChainInv /\ ReportInv /\ SegmentInv /\ FiredInv

-----------------------------------------------------------------------------
(* Folds, by induction over the natural numbers *)

\* A set of naturals has a least element.
LEMMA Least ==
  ASSUME NEW S \in SUBSET Nat, S # {}
  PROVE  \E m \in S : \A k \in S : m <= k
<1> DEFINE R == {ss \in Nat \X Nat : ss[1] < ss[2]}
<1>1. IsWellFoundedOn(R, Nat)
  BY NatLessThanWellFounded DEF OpToRel
<1>2. PICK m \in S : \A k \in S : <<k, m>> \notin R
  <2> HIDE DEF R
  <2> QED BY <1>1, WFMin
<1>3. \A k \in S : ~(k < m)
  BY <1>2
<1> QED BY <1>3

\* Induction over a set.
LEMMA Induction ==
  ASSUME NEW S, 0 \in S, \A n \in Nat : n \in S => n + 1 \in S
  PROVE  Nat \subseteq S
<1> DEFINE T == Nat \ S
<1>1. SUFFICES ASSUME T # {} PROVE FALSE
  OBVIOUS
<1>2. PICK m \in T : \A k \in T : m <= k
  BY Least, <1>1
<1>3. m - 1 \in Nat /\ m - 1 \in S
  BY <1>2
<1> QED BY <1>2, <1>3

\* What FoldFunction builds to add up the dt of the frames of f.
TimeOf(it, a, f, D) ==
  it = [s \in D |-> IF s = {} THEN a
                    ELSE LET x == CHOOSE x \in s : TRUE IN f[x].dt + it[s \ {x}]]

\* The recursion has a solution.
LEMMA TimeExists ==
  ASSUME NEW a, NEW f, NEW I, IsFiniteSet(I)
  PROVE  \E it : TimeOf(it, a, f, SUBSET I)
<1> DEFINE Of(n) == {s \in SUBSET I : Cardinality(s) <= n}
           S == {n \in Nat : \E it : TimeOf(it, a, f, Of(n))}
<1>0. \A s \in SUBSET I : IsFiniteSet(s) /\ Cardinality(s) \in Nat /\ (Cardinality(s) = 0 <=> s = {})
  BY FS_Subset, FS_CardinalityType, FS_EmptySet
<1>1. 0 \in S
  <2> DEFINE it == [s \in Of(0) |-> a]
  <2>1. \A s \in Of(0) : s = {}
    BY <1>0
  <2>2. TimeOf(it, a, f, Of(0))
    BY <2>1 DEF TimeOf
  <2> QED BY <2>2
<1>2. ASSUME NEW n \in Nat, n \in S PROVE n + 1 \in S
  <2>1. PICK it : TimeOf(it, a, f, Of(n))
    BY <1>2
  <2> DEFINE new == [s \in Of(n + 1) |->
                       IF s = {} THEN a
                       ELSE LET x == CHOOSE x \in s : TRUE IN f[x].dt + it[s \ {x}]]
  <2>2. ASSUME NEW s \in Of(n + 1), s # {}, NEW x \in s
        PROVE  s \ {x} \in Of(n)
    BY <1>0, <2>2, FS_RemoveElement
  <2>3. ASSUME NEW s \in Of(n) PROVE s \in Of(n + 1) /\ new[s] = it[s]
    <3>1. s \in Of(n + 1)
      BY <1>0
    <3>2. it[s] = IF s = {} THEN a ELSE LET x == CHOOSE x \in s : TRUE IN f[x].dt + it[s \ {x}]
      BY <2>1 DEF TimeOf
    <3> QED BY <3>1, <3>2
  <2>4. ASSUME NEW s \in Of(n + 1)
        PROVE  new[s] = IF s = {} THEN a
                        ELSE LET x == CHOOSE x \in s : TRUE IN f[x].dt + new[s \ {x}]
    <3>1. CASE s = {}
      BY <3>1
    <3>2. CASE s # {}
      <4> DEFINE x == CHOOSE x \in s : TRUE
      <4>1. x \in s
        BY <3>2
      <4>2. new[s \ {x}] = it[s \ {x}]
        <5> HIDE DEF x, new
        <5> QED BY <3>2, <4>1, <2>2, <2>3
      <4> QED BY <4>2, <3>2
    <3> QED BY <3>1, <3>2
  <2>5. TimeOf(new, a, f, Of(n + 1))
    <3>1. new = [s \in Of(n + 1) |-> new[s]]
      OBVIOUS
    <3> HIDE DEF new
    <3> QED BY <3>1, <2>4 DEF TimeOf
  <2> QED BY <2>5
<1>3. Cardinality(I) \in S
  <2> HIDE DEF S
  <2> QED BY <1>0, <1>1, <1>2, Induction
<1>4. Of(Cardinality(I)) = SUBSET I
  BY <1>0, FS_Subset
<1> QED BY <1>3, <1>4

\* The fold that _discard_queued stands for is one.
LEMMA FoldIsTime ==
  ASSUME NEW a, NEW f, IsFiniteSet(DOMAIN f)
  PROVE  \E it : /\ FoldFunction(LAMBDA x, t : x.dt + t, a, f) = it[DOMAIN f]
                 /\ TimeOf(it, a, f, SUBSET DOMAIN f)
<1>1. FoldFunction(LAMBDA x, t : x.dt + t, a, f) =
        (CHOOSE g : TimeOf(g, a, f, SUBSET DOMAIN f))[DOMAIN f]
  BY Zenon DEF FoldFunction, FoldFunctionOnSet, MapThenFoldSet, TimeOf
<1> DEFINE it == CHOOSE g : TimeOf(g, a, f, SUBSET DOMAIN f)
<1>2. TimeOf(it, a, f, SUBSET DOMAIN f)
  BY TimeExists
<1> QED BY <1>1, <1>2, Zenon

LEMMA OneLess ==
  ASSUME NEW s, NEW x \in s, NEW n \in Nat, IsFiniteSet(s), Cardinality(s) = n + 1
  PROVE  Cardinality(s \ {x}) = n
BY FS_RemoveElement

\* It counts every frame, and nothing else when there is none.
LEMMA TimeBounds ==
  ASSUME NEW a \in Nat, NEW f, IsFiniteSet(DOMAIN f), \A k \in DOMAIN f : f[k].dt \in Nat,
         NEW it, TimeOf(it, a, f, SUBSET DOMAIN f), NEW T, T = it[DOMAIN f]
  PROVE  T \in Nat /\ T >= a /\ \A k \in DOMAIN f : T >= a + f[k].dt
<1> DEFINE D == SUBSET DOMAIN f
<1>2. TimeOf(it, a, f, D)
  OBVIOUS
<1> DEFINE Good(s) == it[s] \in Nat /\ it[s] >= a /\ \A k \in s : it[s] >= a + f[k].dt
           S == {n \in Nat : \A s \in D : Cardinality(s) = n => Good(s)}
<1>3. \A s \in D : IsFiniteSet(s) /\ Cardinality(s) \in Nat /\ (Cardinality(s) = 0 <=> s = {})
  BY FS_Subset, FS_CardinalityType, FS_EmptySet
<1>4. ASSUME NEW s \in D, Cardinality(s) = 0 PROVE Good(s)
  <2>1. s = {}
    BY <1>3, <1>4
  <2>2. it[s] = a
    BY <1>2, <2>1 DEF TimeOf
  <2> QED BY <2>1, <2>2
<1>5. ASSUME NEW n \in Nat, \A s \in D : Cardinality(s) = n => Good(s),
             NEW s \in D, Cardinality(s) = n + 1
      PROVE  Good(s)
  <2>1. IsFiniteSet(s) /\ s # {}
    BY <1>3, <1>5
  <2>2. PICK x \in s : it[s] = f[x].dt + it[s \ {x}]
    BY <2>1, <1>2 DEF TimeOf
  <2>0. Cardinality(s) = n + 1
    BY <1>5
  <2>3. Cardinality(s \ {x}) = n
    BY <2>0, <2>1, OneLess
  <2>4. s \ {x} \in D
    OBVIOUS
  <2>5. Good(s \ {x})
    <3> HIDE DEF Good
    <3> QED BY <2>3, <2>4, <1>5
  <2>6. \A k \in s : f[k].dt \in Nat
    OBVIOUS
  <2>7. \A k \in s : it[s] >= a + f[k].dt
    <3> TAKE k \in s
    <3>1. CASE k = x
      BY <2>2, <2>5, <2>6, <3>1
    <3>2. CASE k # x
      <4>1. it[s \ {x}] >= a + f[k].dt
        BY <2>5, <3>2
      <4> QED BY <4>1, <2>2, <2>5, <2>6
    <3> QED BY <3>1, <3>2
  <2>8. it[s] \in Nat /\ it[s] >= a
    BY <2>2, <2>5, <2>6
  <2> QED BY <2>7, <2>8
<1> HIDE DEF Good
<1>7. 0 \in S /\ \A n \in Nat : n \in S => n + 1 \in S
  BY <1>4, <1>5
<1>6. Cardinality(DOMAIN f) \in S
  <2> HIDE DEF S
  <2> QED BY <1>3, <1>7, Induction
<1> QED BY <1>2, <1>6 DEF Good

-----------------------------------------------------------------------------
(* The amounts *)

LEMMA GapFacts ==
  /\ MaxGap \in Nat /\ MaxGap > 0 /\ Gapped = MaxGap + 1 /\ Gapped \in Nat
  /\ Threshold \in Nat /\ MaxGap < Threshold /\ Decay \in Nat
  /\ QueueDepth \in Nat /\ QueueDepth > 0
BY EvidenceAssumption, DepthAssumption DEF Gapped

LEMMA MinOf ==
  ASSUME NEW a \in Nat, NEW b \in Nat
  PROVE  Min({a, b}) = IF a <= b THEN a ELSE b
BY DEF Min

LEMMA SumOf ==
  ASSUME NEW a \in Nat, NEW b \in Nat
  PROVE  /\ Sum(a, b) = IF a + b <= Gapped THEN a + b ELSE Gapped
         /\ Sum(a, b) \in 0..Gapped
<1>1. a + b \in Nat /\ Sum(a, b) = IF a + b <= Gapped THEN a + b ELSE Gapped
  <2>1. a + b \in Nat
    OBVIOUS
  <2> DEFINE c == a + b
  <2>2. Sum(a, b) = Min({c, Gapped}) /\ c \in Nat
    BY <2>1 DEF Sum
  <2> HIDE DEF c
  <2>3. Sum(a, b) = IF c <= Gapped THEN c ELSE Gapped
    BY <2>2, MinOf, GapFacts
  <2> QED BY <2>1, <2>3 DEF c
<1> QED BY <1>1, GapFacts

LEMMA SumPositive ==
  ASSUME NEW a \in Nat, NEW b \in Nat, a + b > 0
  PROVE  Sum(a, b) \in 1..Gapped
<1>1. Sum(a, b) = IF a + b <= Gapped THEN a + b ELSE Gapped
  BY SumOf
<1>2. a + b \in Nat
  OBVIOUS
<1> QED BY <1>1, <1>2, GapFacts

\* Discarding counts every frame that was queued.
LEMMA DiscardCounts ==
  ASSUME DiscardQueue, queue \in Seq(Frame), skipped \in 0..Gapped
  PROVE  /\ queue' = <<>> /\ skipped' \in 0..Gapped
         /\ skipped' <= MaxGap =>
              skipped <= skipped' /\ \A k \in 1..Len(queue) : skipped + queue[k].dt <= skipped'
<1>1. /\ queue' = <<>>
      /\ skipped' = Min({Gapped, FoldFunction(LAMBDA f, t : f.dt + t, skipped, queue)})
  BY Zenon DEF DiscardQueue
<1>2. IsFiniteSet(DOMAIN queue) /\ DOMAIN queue = 1..Len(queue)
  BY FS_Interval
<1>3. PICK it : /\ FoldFunction(LAMBDA f, t : f.dt + t, skipped, queue) = it[DOMAIN queue]
                /\ TimeOf(it, skipped, queue, SUBSET DOMAIN queue)
  BY <1>2, FoldIsTime, Zenon
<1>4. skipped' = Min({Gapped, it[DOMAIN queue]}) /\ TimeOf(it, skipped, queue, SUBSET DOMAIN queue)
  BY <1>1, <1>3, Zenon
<1> HIDE <1>3
<1>5. \A k \in DOMAIN queue : queue[k].dt \in Nat
  <2>1. \A k \in DOMAIN queue : queue[k] \in Frame
    OBVIOUS
  <2> QED BY <2>1, GapFacts DEF Frame
<1>6. skipped \in Nat
  BY GapFacts
<1>7. /\ it[DOMAIN queue] \in Nat /\ it[DOMAIN queue] >= skipped
      /\ \A k \in DOMAIN queue : it[DOMAIN queue] >= skipped + queue[k].dt
  BY <1>2, <1>4, <1>5, <1>6, TimeBounds
<1>8. skipped' = IF Gapped <= it[DOMAIN queue] THEN Gapped ELSE it[DOMAIN queue]
  BY <1>4, <1>7, MinOf, GapFacts
<1>9. queue' = <<>>
  BY <1>1, Zenon
<1> QED BY <1>2, <1>5, <1>6, <1>7, <1>8, <1>9, GapFacts

-----------------------------------------------------------------------------
(* The accumulator *)

LEMMA EvidenceOf ==
  ASSUME NEW e \in Evidence
  PROVE  e.frames \in 0..2 /\ e.stretches \in SUBSET Nat
BY DEF Evidence

\* What an update does to one region; a region that fires is scored before it
\* is cleared.
LEMMA UpdateRegion ==
  ASSUME NEW acc \in Entry, Scored(acc), NEW f \in Frame, NEW dt \in Nat,
         acc.started => dt <= MaxGap,
         NEW l \in Locations, NEW score, NEW seen,
         score = IF l \in acc.fired THEN 0
                 ELSE IF l \in f.hits THEN grown(acc, l, IF acc.started THEN dt ELSE 0)
                 ELSE decayed(acc, l, IF acc.started THEN dt ELSE 0),
         seen = IF score = 0 THEN Unseen
                ELSE IF l \notin f.hits THEN acc.seen[l]
                ELSE [frames |-> Min({2, acc.seen[l].frames + 1}),
                      stretches |-> acc.seen[l].stretches \cup {f.stretch}]
  PROVE  /\ score \in 0..Threshold /\ seen \in Evidence
         /\ score = 0 => seen = Unseen
         /\ score > 0 => seen.frames > 0 /\ seen.stretches # {}
         /\ seen.frames = 1 => score <= MaxGap
         /\ score >= Threshold => seen.frames = 2
         /\ ~acc.started => score = 0
         /\ seen.stretches \subseteq acc.seen[l].stretches \cup {f.stretch}
<1> DEFINE t == IF acc.started THEN dt ELSE 0
<1>1. /\ acc.score[l] \in 0..Threshold /\ acc.seen[l] \in Evidence /\ acc.started \in BOOLEAN
      /\ f.stretch \in Nat
  BY DEF Entry, Frame
<1>2. acc.seen[l].frames \in 0..2 /\ acc.seen[l].stretches \in SUBSET Nat
  BY <1>1, EvidenceOf
<1>3. /\ acc.score[l] = 0 => acc.seen[l] = Unseen
      /\ acc.score[l] > 0 => acc.seen[l].frames > 0 /\ acc.seen[l].stretches # {}
      /\ acc.seen[l].frames = 1 => acc.score[l] <= MaxGap
      /\ ~acc.started => acc.score[l] = 0
  BY DEF Scored
<1>4. t \in Nat /\ t <= MaxGap /\ (~acc.started => t = 0)
  BY GapFacts
<1>5. Unseen \in Evidence /\ Unseen.frames = 0 /\ Unseen.stretches = {}
  BY DEF Unseen, Evidence
<1> HIDE DEF t
<1>6. Decay * t \in Nat
  BY <1>4, GapFacts
<1>7. grown(acc, l, t) \in 0..Threshold /\ grown(acc, l, t) <= acc.score[l] + t
  BY <1>1, <1>4, MinOf, GapFacts DEF grown
<1>8. decayed(acc, l, t) \in 0..Threshold /\ decayed(acc, l, t) <= acc.score[l]
  <2> DEFINE d == Decay * t
  <2>1. d \in Nat
    BY <1>6
  <2>2. decayed(acc, l, t) = IF acc.score[l] > d THEN acc.score[l] - d ELSE 0
    BY DEF decayed
  <2> HIDE DEF d
  <2> QED BY <2>1, <2>2, <1>1, GapFacts
<1>9. score = IF l \in acc.fired THEN 0
              ELSE IF l \in f.hits THEN grown(acc, l, t) ELSE decayed(acc, l, t)
  BY DEF t
<1>10. CASE score = 0
  BY <1>10, <1>5, <1>4, GapFacts
<1>11. CASE score # 0 /\ l \notin f.hits
  <2>1. /\ score = decayed(acc, l, t) /\ seen = acc.seen[l]
        /\ score <= acc.score[l] /\ score \in 0..Threshold
    BY <1>9, <1>11, <1>8
  <2>2. score > 0 /\ acc.score[l] > 0
    BY <2>1, <1>1, <1>11, GapFacts
  <2>3. acc.started
    BY <2>2, <1>3
  <2>4. seen.frames > 0 /\ seen.stretches # {} /\ (seen.frames = 1 => acc.score[l] <= MaxGap)
    BY <2>1, <2>2, <1>3
  <2>5. seen.frames = 1 => score <= MaxGap
    BY <2>1, <2>4, <1>1, GapFacts
  <2>6. seen.frames \in 0..2 /\ (score >= Threshold => seen.frames = 2)
    BY <2>1, <2>4, <2>5, <1>2, GapFacts
  <2>7. seen \in Evidence /\ seen.stretches \subseteq acc.seen[l].stretches \cup {f.stretch}
    BY <2>1, <1>1
  <2> QED BY <1>11, <2>1, <2>3, <2>4, <2>5, <2>6, <2>7
<1>12. CASE score # 0 /\ l \in f.hits
  <2>1. score = grown(acc, l, t) /\ score \in 0..Threshold /\ score <= acc.score[l] + t
    BY <1>9, <1>12, <1>7
  <2>2. seen = [frames |-> Min({2, acc.seen[l].frames + 1}),
                stretches |-> acc.seen[l].stretches \cup {f.stretch}]
    BY <1>12
  <2>3. Min({2, acc.seen[l].frames + 1}) = IF 2 <= acc.seen[l].frames + 1
                                           THEN 2 ELSE acc.seen[l].frames + 1
    BY <1>2, MinOf
  <2>4. /\ seen.frames = IF 1 <= acc.seen[l].frames THEN 2 ELSE 1
        /\ seen.stretches = acc.seen[l].stretches \cup {f.stretch}
    BY <1>2, <2>2, <2>3
  <2>5. seen \in Evidence
    BY <1>1, <1>2, <2>2, <2>3 DEF Evidence
  <2>6. acc.seen[l].frames = 0 => acc.score[l] = 0
    BY <1>1, <1>3, GapFacts
  <2>7. seen.frames = 1 => score <= MaxGap
    BY <2>1, <2>4, <2>6, <1>1, <1>2, <1>4, GapFacts
  <2>8. score > 0 /\ acc.started
    BY <2>1, <1>1, <1>3, <1>4, <1>12, GapFacts
  <2>9. score >= Threshold => seen.frames = 2
    BY <2>1, <2>4, <2>7, GapFacts
  <2> QED BY <2>1, <2>4, <2>5, <2>7, <2>8, <2>9, <1>1, <1>2
<1> QED BY <1>10, <1>11, <1>12

\* What an update leaves, and what it reports.
LEMMA UpdateFacts ==
  ASSUME NEW acc \in Entry, Scored(acc), NEW f \in Frame, NEW dt \in Nat,
         acc.started => dt <= MaxGap,
         NEW next, next = update(acc, f, dt)
  PROVE  /\ next.acc \in Entry /\ Scored(next.acc)
         /\ next.acc.gen = acc.gen /\ next.acc.segment = acc.segment
         /\ next.reported = {} => next.acc.fired = acc.fired
         /\ next.reported \subseteq Evidence
         /\ \A e \in next.reported : e.frames = 2 /\ e.stretches # {}
         /\ ~acc.started => (\A s : AllFrom(next.acc, s)) /\ next.reported = {}
         /\ AllFrom(acc, f.stretch) =>
              /\ AllFrom(next.acc, f.stretch)
              /\ \A e \in next.reported : e.stretches = {f.stretch}
<1> DEFINE t == IF acc.started THEN dt ELSE 0
           score == [l \in Locations |-> IF l \in acc.fired THEN 0
                                         ELSE IF l \in f.hits THEN grown(acc, l, t)
                                         ELSE decayed(acc, l, t)]
           firing == {l \in Locations \ acc.fired : score[l] >= Threshold}
           seen == [l \in Locations |->
                      IF score[l] = 0 THEN Unseen
                      ELSE IF l \notin f.hits THEN acc.seen[l]
                      ELSE [frames |-> Min({2, acc.seen[l].frames + 1}),
                            stretches |-> acc.seen[l].stretches \cup {f.stretch}]]
           new == [acc EXCEPT !.started = TRUE, !.fired = @ \cup firing,
                              !.score = [l \in Locations |-> IF l \in firing THEN 0 ELSE score[l]],
                              !.seen = [l \in Locations |-> IF l \in firing THEN Unseen ELSE seen[l]]]
<1>1. next = [reported |-> {seen[l] : l \in firing}, acc |-> new]
  BY Zenon DEF update
<1>2. ASSUME NEW l \in Locations
      PROVE  /\ score[l] \in 0..Threshold /\ seen[l] \in Evidence
             /\ score[l] = 0 => seen[l] = Unseen
             /\ score[l] > 0 => seen[l].frames > 0 /\ seen[l].stretches # {}
             /\ seen[l].frames = 1 => score[l] <= MaxGap
             /\ score[l] >= Threshold => seen[l].frames = 2
             /\ ~acc.started => score[l] = 0
             /\ seen[l].stretches \subseteq acc.seen[l].stretches \cup {f.stretch}
  <2>1. /\ score[l] = IF l \in acc.fired THEN 0
                      ELSE IF l \in f.hits THEN grown(acc, l, IF acc.started THEN dt ELSE 0)
                      ELSE decayed(acc, l, IF acc.started THEN dt ELSE 0)
        /\ seen[l] = IF score[l] = 0 THEN Unseen
                     ELSE IF l \notin f.hits THEN acc.seen[l]
                     ELSE [frames |-> Min({2, acc.seen[l].frames + 1}),
                           stretches |-> acc.seen[l].stretches \cup {f.stretch}]
    OBVIOUS
  <2> HIDE DEF score, seen
  <2> QED BY <2>1, UpdateRegion
<1>3. firing \subseteq Locations /\ \A l \in firing : score[l] >= Threshold /\ l \notin acc.fired
  OBVIOUS
<1>4. /\ new.gen = acc.gen /\ new.segment = acc.segment /\ new.started = TRUE
      /\ new.fired = acc.fired \cup firing
      /\ new.score = [l \in Locations |-> IF l \in firing THEN 0 ELSE score[l]]
      /\ new.seen = [l \in Locations |-> IF l \in firing THEN Unseen ELSE seen[l]]
      /\ new = [gen |-> new.gen, segment |-> new.segment, started |-> new.started,
                score |-> new.score, fired |-> new.fired, seen |-> new.seen]
  <2> HIDE DEF firing, score, seen
  <2> DEFINE a1 == [l \in Locations |-> IF l \in firing THEN 0 ELSE score[l]]
             a2 == [l \in Locations |-> IF l \in firing THEN Unseen ELSE seen[l]]
  <2>1. new = [acc EXCEPT !.started = TRUE, !.fired = acc.fired \cup firing, !.score = a1, !.seen = a2]
    OBVIOUS
  <2> HIDE DEF a1, a2, new
  <2>2. acc = [gen |-> acc.gen, segment |-> acc.segment, started |-> acc.started,
               score |-> acc.score, fired |-> acc.fired, seen |-> acc.seen]
    BY DEF Entry
  <2>3. new = [gen |-> acc.gen, segment |-> acc.segment, started |-> TRUE,
               score |-> a1, fired |-> acc.fired \cup firing, seen |-> a2]
    BY <2>1, <2>2
  <2>4. /\ new.gen = acc.gen /\ new.segment = acc.segment /\ new.started = TRUE
        /\ new.fired = acc.fired \cup firing /\ new.score = a1 /\ new.seen = a2
    BY <2>3
  <2> QED BY <2>3, <2>4 DEF a1, a2
<1>5. /\ acc.gen \in Nat \ {0} /\ acc.segment \in Nat /\ acc.fired \subseteq Locations
      /\ f.stretch \in Nat
  BY DEF Entry, Frame
<1>6. Unseen \in Evidence /\ Unseen.frames = 0 /\ Unseen.stretches = {}
  BY DEF Unseen, Evidence
<1> HIDE DEF score, seen, firing, new
<1>7. new \in Entry
  <2>1. new.score \in [Locations -> 0..Threshold]
    BY <1>2, <1>4, GapFacts
  <2>2. new.seen \in [Locations -> Evidence]
    BY <1>2, <1>4, <1>6
  <2>3. new.fired \subseteq Locations
    BY <1>3, <1>4, <1>5
  <2> QED BY <1>4, <1>5, <2>1, <2>2, <2>3 DEF Entry
<1>8. ASSUME NEW l \in Locations
      PROVE  /\ new.score[l] = IF l \in firing THEN 0 ELSE score[l]
             /\ new.seen[l] = IF l \in firing THEN Unseen ELSE seen[l]
  BY <1>4
<1>9. Scored(new)
  <2> SUFFICES ASSUME NEW l \in Locations
               PROVE  /\ new.score[l] = 0 => new.seen[l] = Unseen
                      /\ new.score[l] > 0 => new.seen[l].frames > 0 /\ new.seen[l].stretches # {}
                      /\ new.seen[l].frames = 1 => new.score[l] <= MaxGap
    BY <1>4 DEF Scored
  <2>1. CASE l \in firing
    BY <2>1, <1>8, <1>6, GapFacts
  <2>2. CASE l \notin firing
    BY <2>2, <1>8, <1>2
  <2> QED BY <2>1, <2>2
<1>10. ASSUME NEW e \in next.reported
       PROVE  \E l \in firing : e = seen[l]
  BY <1>1
<1>11. \A e \in next.reported : e \in Evidence /\ e.frames = 2 /\ e.stretches # {}
  <2> SUFFICES ASSUME NEW e \in next.reported PROVE e \in Evidence /\ e.frames = 2 /\ e.stretches # {}
    OBVIOUS
  <2>1. PICK l \in firing : e = seen[l]
    BY <1>10
  <2>2. l \in Locations /\ score[l] >= Threshold
    BY <1>3
  <2>3. score[l] \in 0..Threshold
    BY <1>2, <2>2
  <2>4. score[l] > 0
    BY <2>2, <2>3, GapFacts
  <2> QED BY <1>2, <2>1, <2>2, <2>4
<1>12. next.reported = {} => new.fired = acc.fired
  <2>1. \A l \in firing : seen[l] \in next.reported
    BY <1>1
  <2>2. next.reported = {} => firing = {}
    BY <2>1
  <2> QED BY <2>2, <1>4
<1>13. next.acc = new
  BY <1>1
<1>14. ASSUME AllFrom(acc, f.stretch)
       PROVE  AllFrom(new, f.stretch) /\ \A e \in next.reported : e.stretches = {f.stretch}
  <2>1. \A l \in Locations : seen[l].stretches \subseteq {f.stretch}
    BY <1>2, <1>14 DEF AllFrom
  <2>2. AllFrom(new, f.stretch)
    BY <2>1, <1>6, <1>8 DEF AllFrom
  <2>3. \A e \in next.reported : e.stretches \subseteq {f.stretch} /\ e.stretches # {}
    BY <1>3, <1>10, <1>11, <2>1
  <2> QED BY <2>2, <2>3
<1>15. ASSUME ~acc.started PROVE (\A s : AllFrom(new, s)) /\ next.reported = {}
  <2>1. \A l \in Locations : score[l] = 0 /\ seen[l] = Unseen
    BY <1>2, <1>15
  <2>2. firing = {}
    BY <2>1, <1>3, GapFacts
  <2> QED BY <2>1, <2>2, <1>1, <1>6, <1>8 DEF AllFrom
<1> QED BY <1>4, <1>7, <1>9, <1>11, <1>12, <1>13, <1>14, <1>15

LEMMA ResolveFacts ==
  ASSUME entry \in Entry \cup {NoEntry}, ScoreInv,
         NEW gen \in Nat \ {0}, NEW segment \in Nat, NEW dt \in Nat,
         NEW acc, acc = resolve(gen, segment, dt)
  PROVE  /\ acc \in Entry /\ Scored(acc) /\ acc.gen = gen /\ acc.segment = segment
         /\ acc.started => dt <= MaxGap
         /\ \/ acc = entry /\ entry # NoEntry /\ dt <= MaxGap
            \/ ~acc.started /\ acc.fired = {}
<1>1. CASE entry # NoEntry /\ entry.gen = gen /\ entry.segment = segment /\ dt <= MaxGap
  <2>1. acc = entry
    BY <1>1 DEF resolve
  <2> QED BY <1>1, <2>1 DEF ScoreInv
<1>2. CASE ~(entry # NoEntry /\ entry.gen = gen /\ entry.segment = segment /\ dt <= MaxGap)
  <2>1. acc = NewEntry(gen, segment)
    BY <1>2 DEF resolve
  <2>2. Unseen \in Evidence /\ Unseen.frames = 0
    BY DEF Unseen, Evidence
  <2>3. /\ acc.gen = gen /\ acc.segment = segment /\ acc.started = FALSE /\ acc.fired = {}
        /\ acc.score = [l \in Locations |-> 0] /\ acc.seen = [l \in Locations |-> Unseen]
    BY <2>1 DEF NewEntry
  <2>4. acc.score \in [Locations -> 0..Threshold] /\ acc.seen \in [Locations -> Evidence]
    BY <2>2, <2>3, GapFacts
  <2>5. acc \in Entry
    <3>1. acc = [gen |-> acc.gen, segment |-> acc.segment, started |-> acc.started,
                 score |-> acc.score, fired |-> acc.fired, seen |-> acc.seen]
      BY <2>1 DEF NewEntry
    <3> QED BY <3>1, <2>3, <2>4 DEF Entry
  <2>6. Scored(acc)
    BY <2>2, <2>3 DEF Scored
  <2> QED BY <2>3, <2>5, <2>6
<1> QED BY <1>1, <1>2

\* What the inference thread holds.
LEMMA InferIs ==
  ASSUME PipelineType
  PROVE  /\ infer.pc = "batch" => infer.gen \in Nat \ {0} /\ infer.frame \in Frame
         /\ infer.pc = "fired" => infer.gen \in Nat \ {0} /\ infer.evidence \in Evidence
         /\ infer.pc \in {"idle", "batch", "fired", "reporting"}
         /\ infer.pc = "idle" <=> infer = Idle
BY DEF PipelineType, InferType, Idle, At

LEMMA StreamIs ==
  ASSUME StreamType, stream # NULL
  PROVE  /\ stream \in Stream
         /\ stream.gen \in Nat /\ stream.segment_id \in Nat
         /\ stream.is_paused \in BOOLEAN /\ stream.attached \in BOOLEAN
BY DEF StreamType, ObjectType, Stream

LEMMA FrameIs ==
  ASSUME NEW f \in Frame
  PROVE  f.dt \in 1..Gapped /\ f.dt \in Nat /\ f.segment \in Nat /\ f.stretch \in Nat
BY GapFacts DEF Frame

\* One update of the camera's accumulator, provided that what it goes on with is
\* from the stretch of the frame.
LEMMA AccumulateFacts ==
  ASSUME Accumulate, PipelineType, ScoreInv,
         entry.gen = infer.gen /\ skipped + infer.frame.dt <= MaxGap => Rests(infer.frame.stretch)
  PROVE  /\ entry' \in Entry /\ entry' # NoEntry /\ Scored(entry') /\ skipped' = 0
         /\ entry'.gen = infer.gen /\ entry'.segment = infer.frame.segment
         /\ \/ infer' = Idle
            \/ \E e \in Evidence :
                 /\ infer' = [pc |-> "fired", gen |-> infer.gen, evidence |-> e]
                 /\ e.frames = 2 /\ e.stretches = {infer.frame.stretch}
         /\ infer' = Idle =>
              \/ entry'.fired = {}
              \/ /\ entry # NoEntry /\ entry.gen = infer.gen /\ entry.segment = infer.frame.segment
                 /\ entry'.fired = entry.fired
         /\ AllFrom(entry', infer.frame.stretch)
         /\ skipped + infer.frame.dt > MaxGap => \A s : AllFrom(entry', s)
<1> DEFINE f == infer.frame
           dt == Sum(skipped, f.dt)
           acc == resolve(infer.gen, f.segment, dt)
           next == update(acc, f, dt)
<1>1. infer.pc = "batch" /\ infer.gen \in Nat \ {0} /\ f \in Frame
  BY InferIs DEF Accumulate
<1>2. /\ entry' = next.acc /\ skipped' = 0
      /\ next.reported = {} => infer' = Idle
      /\ next.reported # {} => \E e \in next.reported :
           infer' = [pc |-> "fired", gen |-> infer.gen, evidence |-> e]
  BY Zenon DEF Accumulate
<1>3. f.dt \in Nat /\ f.segment \in Nat /\ f.stretch \in Nat /\ skipped \in Nat
  BY <1>1, FrameIs, GapFacts DEF PipelineType, EntryType
<1>4. dt \in Nat /\ (dt <= MaxGap <=> skipped + f.dt <= MaxGap)
  <2> HIDE DEF f
  <2>1. /\ dt = IF skipped + f.dt <= Gapped THEN skipped + f.dt ELSE Gapped
    BY <1>3, SumOf
  <2> QED BY <2>1, <1>3, GapFacts
<1> HIDE DEF dt
<1>5. entry \in Entry \cup {NoEntry}
  BY DEF PipelineType, EntryType
<1> HIDE DEF f
<1>6. /\ acc \in Entry /\ Scored(acc) /\ acc.gen = infer.gen /\ acc.segment = f.segment
      /\ acc.started => dt <= MaxGap
      /\ \/ acc = entry /\ entry # NoEntry /\ dt <= MaxGap
         \/ ~acc.started /\ acc.fired = {}
  <2> HIDE DEF acc
  <2>1. acc = resolve(infer.gen, f.segment, dt)
    BY DEF acc
  <2>2. infer.gen \in Nat \ {0} /\ f.segment \in Nat /\ dt \in Nat
    BY <1>1, <1>3, <1>4
  <2> QED BY <2>1, <2>2, <1>5, ResolveFacts
<1> HIDE DEF acc
<1>7. /\ next.acc \in Entry /\ Scored(next.acc)
      /\ next.acc.gen = acc.gen /\ next.acc.segment = acc.segment
      /\ next.reported = {} => next.acc.fired = acc.fired
      /\ next.reported \subseteq Evidence
      /\ \A e \in next.reported : e.frames = 2 /\ e.stretches # {}
      /\ ~acc.started => (\A s : AllFrom(next.acc, s)) /\ next.reported = {}
      /\ AllFrom(acc, f.stretch) =>
           /\ AllFrom(next.acc, f.stretch)
           /\ \A e \in next.reported : e.stretches = {f.stretch}
  BY <1>1, <1>4, <1>6, UpdateFacts
<1> HIDE DEF next
<1>8. NoEntry \notin Entry
  BY DEF NoEntry, Entry
<1>9. acc.started => acc = entry /\ entry # NoEntry /\ entry.gen = infer.gen /\ AllFrom(acc, f.stretch)
  <2>1. acc.started => acc = entry /\ entry # NoEntry /\ entry.gen = infer.gen /\ skipped + f.dt <= MaxGap
    BY <1>4, <1>6
  <2> QED BY <2>1 DEF Rests, f
<1>10. AllFrom(next.acc, f.stretch) /\ \A e \in next.reported : e.stretches = {f.stretch}
  BY <1>7, <1>9
<1>11. dt > MaxGap => \A s : AllFrom(next.acc, s)
  BY <1>4, <1>6, <1>7, GapFacts
<1>12. infer' = Idle => next.reported = {}
  <2>1. next.reported # {} => infer'.pc = "fired"
    BY <1>2
  <2> QED BY <2>1 DEF Idle
<1>13. infer' = Idle =>
         \/ entry'.fired = {}
         \/ /\ entry # NoEntry /\ entry.gen = infer.gen /\ entry.segment = f.segment
            /\ entry'.fired = entry.fired
  BY <1>2, <1>6, <1>7, <1>12
<1>14. \/ infer' = Idle
       \/ \E e \in Evidence :
            /\ infer' = [pc |-> "fired", gen |-> infer.gen, evidence |-> e]
            /\ e.frames = 2 /\ e.stretches = {f.stretch}
  BY <1>2, <1>7, <1>10
<1>15. skipped + f.dt > MaxGap => \A s : AllFrom(entry', s)
  BY <1>2, <1>3, <1>4, <1>11, GapFacts
<1> QED BY <1>2, <1>6, <1>7, <1>8, <1>10, <1>13, <1>14, <1>15 DEF f

-----------------------------------------------------------------------------
(* Types *)

LEMMA ControlIs ==
  ASSUME ControlType
  PROVE  /\ sup.pc = "bump" => sup.segment \in Nat
         /\ sup.pc \in {"start", "restart"} => sup.paused \in BOOLEAN
         /\ sup.pc \notin {"idle", "start"} => stream # NULL
         /\ sup.pc = "idle" <=> sup = Idle
BY DEF ControlType, SupType, SupOwns, At, Idle

LEMMA ReaderIs ==
  ASSUME StreamType
  PROVE  /\ reader.pc = "bump" => reader.segment \in Nat
         /\ reader.pc \in {"connect", "bump", "loop", "reading"}
BY DEF StreamType, ReaderType, At

LEMMA QueueIs ==
  ASSUME StreamType
  PROVE  /\ queue \in Seq(Frame) /\ Len(queue) \in Nat /\ Len(queue) <= Depth /\ Depth \in Nat \ {0}
         /\ \A k \in 1..Len(queue) :
              /\ queue[k] \in Frame /\ queue[k].dt \in 1..Gapped /\ queue[k].dt \in Nat
              /\ queue[k].segment \in Nat /\ queue[k].stretch \in Nat
         /\ since \in Nat /\ since <= Gapped
<1>1. \A k \in 1..Len(queue) : queue[k] \in Frame
  BY DEF StreamType, QueueType
<1> QED BY <1>1, FrameIs, GapFacts DEF StreamType, QueueType, Depth

\* The camera's stream keeps its shape when one of its attributes is assigned.
LEMMA StreamSet ==
  ASSUME NEW s \in Stream, NEW n \in Nat, NEW b \in BOOLEAN
  PROVE  /\ [s EXCEPT !.is_paused = b] \in Stream /\ [s EXCEPT !.segment_id = n] \in Stream
         /\ [s EXCEPT !.attached = b] \in Stream
BY DEF Stream

\* A stream is not NULL, whichever attributes it has.
LEMMA StreamIsNotNull == NULL \notin Stream
BY NullAssumption DEF Stream

LEMMA NewStreamIs ==
  ASSUME NEW gen \in Nat
  PROVE  NewStream(gen) \in Stream
BY DEF NewStream, Stream

-----------------------------------------------------------------------------
(* The exchange of frames *)

LEMMA FrameMoved ==
  ASSUME NEW f \in Frame, NEW n \in Nat
  PROVE  LET g == [f EXCEPT !.stretch = n]
         IN  g \in Frame /\ g.stretch = n /\ g.segment = f.segment /\ g.dt = f.dt
BY DEF Frame

\* The queue after a frame f was published, in terms of the queue before: d is
\* 1 when the oldest frame made room.
Published(f, d) ==
  LET kept(k) == IF k = Len(queue') THEN f ELSE queue[k + d]
  IN  /\ Len(queue') = Len(queue) - d + 1
      /\ \A k \in 1..Len(queue') :
           /\ queue'[k] \in Frame /\ queue'[k].segment = kept(k).segment
           /\ k > 1 => queue'[k].dt = kept(k).dt
      /\ queue'[1].dt = IF d = 1 THEN Sum(kept(1).dt, queue[1].dt) ELSE kept(1).dt
      /\ \/ faults' = faults /\ \A k \in 1..Len(queue') : queue'[k].stretch = kept(k).stretch
         \/ /\ faults' = faults + 1 /\ queue'[1].dt > MaxGap
            /\ \A k \in 1..Len(queue') : queue'[k].stretch = Stretch + 1

LEMMA PublishFacts ==
  ASSUME NEW hits \in SUBSET Locations, Publish(hits), StreamType, ControlType
  PROVE  /\ queue' \in Seq(Frame) /\ Len(queue') \in 1..Depth /\ since' = 0
         /\ \E f \in Frame, d \in {0, 1} :
              /\ f.dt = Sum(since, 1) /\ f.segment = stream.segment_id /\ f.stretch = Stretch
              /\ d <= Len(queue) /\ Published(f, d)
<1> DEFINE f      == [dt |-> Sum(since, 1), segment |-> stream.segment_id, hits |-> hits,
                      stretch |-> Stretch]
           full   == Len(queue) = Depth
           d      == IF full THEN 1 ELSE 0
           lost   == IF full THEN Head(queue).dt ELSE 0
           kept   == Append(IF full THEN Tail(queue) ELSE queue, f)
           late   == [kept EXCEPT ![1].dt = Sum(@, lost)]
           behind == full /\ Eligible /\ kept[1].dt <= MaxGap /\ late[1].dt > MaxGap
           moved  == [k \in DOMAIN late |-> [late[k] EXCEPT !.stretch = Stretch + 1]]
<1>1. /\ faults' = IF behind THEN faults + 1 ELSE faults
      /\ queue' = IF behind THEN moved ELSE late
      /\ since' = 0
  BY Zenon DEF Publish
<1>2. stream # NULL
  BY DEF Publish, ReaderAt
<1>3. /\ queue \in Seq(Frame) /\ Len(queue) \in Nat /\ Len(queue) <= Depth /\ Depth \in Nat \ {0}
      /\ \A k \in 1..Len(queue) : queue[k] \in Frame /\ queue[k].dt \in Nat
      /\ since \in Nat
  BY QueueIs
<1>4. Stretch \in Nat
  BY DEF ControlType, CountType, Stretch
<1>5. Sum(since, 1) \in 1..Gapped /\ stream.segment_id \in Nat
  <2>1. since + 1 > 0 /\ 1 \in Nat
    BY <1>3
  <2>2. Sum(since, 1) \in 1..Gapped
    BY <2>1, <1>3, SumPositive
  <2> QED BY <2>2, <1>2, StreamIs
<1>6. /\ f \in Frame
      /\ f.dt = Sum(since, 1) /\ f.segment = stream.segment_id /\ f.stretch = Stretch
  BY <1>4, <1>5 DEF Frame
<1> HIDE DEF f
<1>7. d \in {0, 1} /\ d <= Len(queue) /\ (d = 1 <=> full)
  BY <1>3
<1>8. /\ kept \in Seq(Frame) /\ Len(kept) = Len(queue) - d + 1 /\ Len(kept) \in 1..Depth
      /\ \A k \in 1..Len(kept) : kept[k] = IF k = Len(kept) THEN f ELSE queue[k + d]
  <2>1. CASE full
    <3>1. Tail(queue) \in Seq(Frame) /\ Len(Tail(queue)) = Len(queue) - 1
      BY <2>1, <1>3
    <3>2. \A k \in 1..(Len(queue) - 1) : Tail(queue)[k] = queue[k + 1]
      BY <2>1, <1>3
    <3> QED BY <2>1, <3>1, <3>2, <1>3, <1>6
  <2>2. CASE ~full
    BY <2>2, <1>3, <1>6
  <2> QED BY <2>1, <2>2
<1>9. lost \in Nat /\ (full => lost = queue[1].dt) /\ (~full => lost = 0)
  BY <1>3
<1> HIDE DEF kept, lost, d, full
<1>10. kept[1] \in Frame /\ kept[1].dt \in 1..Gapped /\ kept[1].dt \in Nat
  BY <1>8, FrameIs
<1>11. Sum(kept[1].dt, lost) \in 1..Gapped
  <2>1. kept[1].dt + lost > 0
    BY <1>9, <1>10, GapFacts
  <2> QED BY <2>1, <1>9, <1>10, SumPositive
<1>12. /\ late \in Seq(Frame) /\ Len(late) = Len(kept)
       /\ \A k \in 1..Len(kept) :
            /\ late[k] \in Frame
            /\ late[k].segment = kept[k].segment /\ late[k].stretch = kept[k].stretch
            /\ k > 1 => late[k].dt = kept[k].dt
       /\ late[1].dt = Sum(kept[1].dt, lost)
  <2> DEFINE first == [kept[1] EXCEPT !.dt = Sum(kept[1].dt, lost)]
  <2>1. /\ first \in Frame /\ first.dt = Sum(kept[1].dt, lost)
        /\ first.segment = kept[1].segment /\ first.stretch = kept[1].stretch
    BY <1>10, <1>11 DEF Frame
  <2>2. late = [kept EXCEPT ![1] = first]
    BY <1>8
  <2> HIDE DEF first, late
  <2>3. /\ late \in Seq(Frame) /\ Len(late) = Len(kept) /\ late[1] = first
        /\ \A k \in 1..Len(kept) : late[k] = IF k = 1 THEN first ELSE kept[k]
    BY <1>8, <2>1, <2>2
  <2> QED BY <2>1, <2>3, <1>8
<1>13. late[1].dt = IF d = 1 THEN Sum(kept[1].dt, queue[1].dt) ELSE kept[1].dt
  <2>1. CASE full
    BY <2>1, <1>7, <1>9, <1>12
  <2>2. CASE ~full
    BY <2>2, <1>7, <1>9, <1>10, <1>12, SumOf, GapFacts
  <2> QED BY <2>1, <2>2
<1> HIDE DEF late
<1>14. /\ moved \in Seq(Frame) /\ Len(moved) = Len(late)
       /\ \A k \in 1..Len(late) :
            /\ moved[k] \in Frame /\ moved[k].stretch = Stretch + 1
            /\ moved[k].segment = late[k].segment /\ moved[k].dt = late[k].dt
  <2>1. ASSUME NEW k \in 1..Len(late)
        PROVE  /\ moved[k] \in Frame /\ moved[k].stretch = Stretch + 1
               /\ moved[k].segment = late[k].segment /\ moved[k].dt = late[k].dt
    <3>1. late[k] \in Frame /\ Stretch + 1 \in Nat /\ k \in DOMAIN late
      BY <1>4, <1>12
    <3>2. moved[k] = [late[k] EXCEPT !.stretch = Stretch + 1]
      BY <3>1
    <3> QED BY <3>1, <3>2, FrameMoved
  <2>2. DOMAIN late = 1..Len(late)
    BY <1>12
  <2>3. moved = [k \in 1..Len(late) |-> moved[k]]
    BY <2>2
  <2> HIDE DEF moved
  <2> QED BY <2>1, <2>2, <2>3, <1>12
<1> HIDE DEF moved
<1>15. CASE behind
  <2>1. queue' = moved /\ faults' = faults + 1 /\ late[1].dt > MaxGap
    BY <1>1, <1>15
  <2>2. Published(f, d)
    BY <2>1, <1>8, <1>12, <1>13, <1>14 DEF Published
  <2> QED BY <2>1, <2>2, <1>1, <1>6, <1>7, <1>8, <1>12, <1>14
<1>16. CASE ~behind
  <2>1. queue' = late /\ faults' = faults
    BY <1>1, <1>16
  <2>2. Published(f, d)
    BY <2>1, <1>8, <1>12, <1>13 DEF Published
  <2> QED BY <2>1, <2>2, <1>1, <1>6, <1>7, <1>8, <1>12
<1> QED BY <1>15, <1>16

\* What Accumulate does in a state of the invariant.
LEMMA Accumulated ==
  ASSUME Types, IInv, Accumulate
  PROVE  /\ entry' \in Entry /\ entry' # NoEntry /\ Scored(entry') /\ skipped' = 0
         /\ infer.pc = "batch" /\ infer.frame \in Frame /\ infer.gen \in Nat \ {0} /\ ~isolated
         /\ entry'.gen = infer.gen /\ entry'.segment = infer.frame.segment
         /\ \/ infer' = Idle
            \/ \E e \in Evidence :
                 /\ infer' = [pc |-> "fired", gen |-> infer.gen, evidence |-> e]
                 /\ e.frames = 2 /\ e.stretches = {infer.frame.stretch}
         /\ infer' = Idle =>
              \/ entry'.fired = {}
              \/ /\ entry # NoEntry /\ entry.gen = infer.gen /\ entry.segment = infer.frame.segment
                 /\ entry'.fired = entry.fired
         /\ AllFrom(entry', infer.frame.stretch)
         /\ skipped + infer.frame.dt > MaxGap => \A s : AllFrom(entry', s)
<1>1. PipelineType /\ infer.pc = "batch" /\ infer.frame \in Frame /\ infer.gen \in Nat \ {0}
  BY InferIs DEF Types, Accumulate
<1>2. ~isolated
  BY <1>1 DEF IInv, GenInv, Idle
<1>3. entry.gen = infer.gen /\ skipped + infer.frame.dt <= MaxGap => Rests(infer.frame.stretch)
  BY <1>1, <1>2 DEF IInv, ChainInv, BatchRests
<1> QED BY <1>1, <1>2, <1>3, AccumulateFacts DEF IInv

LEMMA TypeInit == Init => Types
<1> SUFFICES ASSUME Init PROVE Types
  OBVIOUS
<1>1. StreamType
  BY GapFacts DEF Init, StreamType, ObjectType, ReaderType, QueueType, At, Depth
<1>2. infer = Idle /\ skipped = 0 /\ entry = NoEntry /\ isolated = FALSE
  BY DEF Init
<1>3. PipelineType
  <2>1. InferType
    BY <1>2 DEF InferType
  <2>2. EntryType
    <3>1. skipped \in 0..Gapped
      BY <1>2, GapFacts
    <3> QED BY <1>2, <3>1, Zenon DEF EntryType
  <2> QED BY <2>1, <2>2 DEF PipelineType
<1>4. ControlType
  BY DEF Init, ControlType, SupType, SupOwns, CountType, Idle, At
<1> QED BY <1>1, <1>3, <1>4 DEF Types

LEMMA TypeNext == Types /\ IInv /\ [Next]_vars => Types'
<1> SUFFICES ASSUME Types, IInv, [Next]_vars PROVE Types'
  OBVIOUS
<1> USE DEF Types, StreamType, PipelineType, ControlType
<1>0. /\ ObjectType /\ ReaderType /\ QueueType /\ InferType /\ EntryType
      /\ SupType /\ SupOwns /\ CountType
      /\ StreamType /\ PipelineType /\ ControlType
  OBVIOUS
<1>1. CASE Connect
  <2>1. ReaderType'
    BY <1>1, StreamIs DEF Connect, ReaderType, ReaderAt
  <2>2. ObjectType' /\ QueueType' /\ InferType' /\ EntryType' /\ SupType' /\ SupOwns' /\ CountType'
    BY <1>1
       DEF Connect, pipeline, control, bounds, Depth, ObjectType, QueueType, InferType,
           EntryType, SupType, SupOwns, CountType
  <2> QED BY <2>1, <2>2
<1>2. CASE NewSegment
  <2>1. ObjectType'
    <3>1. stream \in Stream /\ reader.segment + 1 \in Nat
      BY <1>2, StreamIs, ReaderIs DEF NewSegment, ReaderAt
    <3>2. stream' = [stream EXCEPT !.segment_id = reader.segment + 1]
      BY <1>2 DEF NewSegment
    <3> QED BY <3>1, <3>2, StreamSet DEF ObjectType
  <2>2. ReaderType'
    BY <1>2 DEF NewSegment, ReaderType, NextFrame
  <2>3. QueueType'
    <3>1. CASE gpu
      <4>1. queue' = <<>>
        BY <1>2, <3>1, DiscardCounts DEF NewSegment, QueueType, EntryType
      <4>2. gpu' = gpu /\ since' = since
        BY <1>2 DEF NewSegment
      <4>3. Len(<<>>) <= Depth /\ <<>> \in Seq(Frame)
        BY <1>0, QueueIs
      <4> QED BY <4>1, <4>2, <4>3 DEF QueueType, Depth
    <3>2. CASE ~gpu
      BY <1>2, <3>2 DEF NewSegment, QueueType, Depth
    <3> QED BY <3>1, <3>2
  <2>4. EntryType'
    <3>1. skipped' \in 0..Gapped
      BY <1>2, DiscardCounts DEF NewSegment, QueueType, EntryType
    <3> QED BY <1>2, <3>1 DEF NewSegment, EntryType
  <2>5. SupOwns'
    <3>1. stream' \in Stream
      <4>1. stream \in Stream /\ reader.segment + 1 \in Nat
        BY <1>2, StreamIs, ReaderIs DEF NewSegment, ReaderAt
      <4>2. stream' = [stream EXCEPT !.segment_id = reader.segment + 1]
        BY <1>2 DEF NewSegment
      <4> QED BY <4>1, <4>2, StreamSet
    <3> QED BY <3>1, StreamIsNotNull DEF SupOwns
  <2>6. InferType' /\ SupType' /\ CountType'
    BY <1>2 DEF NewSegment, control, bounds, InferType, SupType, CountType
  <2> QED BY <2>1, <2>2, <2>3, <2>4, <2>5, <2>6
<1>3. CASE Grab
  <2>1. QueueType'
    BY <1>3, SumOf DEF Grab, QueueType, Depth
  <2>2. ObjectType' /\ ReaderType' /\ InferType' /\ EntryType' /\ SupType' /\ SupOwns' /\ CountType'
    BY <1>3
       DEF Grab, pipeline, control, bounds, ObjectType, ReaderType, InferType, EntryType,
           SupType, SupOwns, CountType
  <2> QED BY <2>1, <2>2
<1>4. CASE StartRead
  <2>1. ReaderType'
    BY <1>4 DEF StartRead, ReaderType
  <2>2. ObjectType' /\ QueueType' /\ InferType' /\ EntryType' /\ SupType' /\ SupOwns' /\ CountType'
    BY <1>4
       DEF StartRead, pipeline, control, bounds, Depth, ObjectType, QueueType, InferType,
           EntryType, SupType, SupOwns, CountType
  <2> QED BY <2>1, <2>2
<1>5. ASSUME NEW hits \in SUBSET Locations, Publish(hits) PROVE Types'
  <2>1. ReaderType'
    BY <1>5 DEF Publish, ReaderType, NextFrame
  <2>2. QueueType'
    <3>1. queue' \in Seq(Frame) /\ Len(queue') \in 1..Depth /\ since' = 0
      BY <1>0, <1>5, PublishFacts
    <3>2. gpu' = gpu
      BY <1>5, Zenon DEF Publish
    <3> QED BY <3>1, <3>2, GapFacts DEF QueueType, Depth
  <2>3. CountType'
    <3>1. faults' = faults \/ faults' = faults + 1
      BY <1>5, PublishFacts DEF Published
    <3>2. UNCHANGED <<desired, pending, streams, events, orders>>
      BY <1>5 DEF Publish, control
    <3> QED BY <3>1, <3>2 DEF CountType
  <2>4. ObjectType' /\ InferType' /\ EntryType' /\ SupType' /\ SupOwns'
    BY <1>5 DEF Publish, pipeline, control, ObjectType, InferType, EntryType, SupType, SupOwns
  <2> QED BY <2>1, <2>2, <2>3, <2>4
<1>6. CASE Drop
  <2>1. ReaderType'
    BY <1>6 DEF Drop, ReaderType
  <2>2. QueueType'
    BY <1>6, GapFacts DEF Drop, QueueType, Depth
  <2>3. CountType'
    BY <1>6 DEF Drop, control, CountType
  <2>4. ObjectType' /\ InferType' /\ EntryType' /\ SupType' /\ SupOwns'
    BY <1>6 DEF Drop, pipeline, control, ObjectType, InferType, EntryType, SupType, SupOwns
  <2> QED BY <2>1, <2>2, <2>3, <2>4
<1>7. CASE Stall
  <2>1. QueueType'
    BY <1>7, GapFacts DEF Stall, QueueType, Depth
  <2>2. CountType'
    BY <1>7 DEF Stall, control, CountType
  <2>3. ObjectType' /\ ReaderType' /\ InferType' /\ EntryType' /\ SupType' /\ SupOwns'
    BY <1>7
       DEF Stall, pipeline, control, ObjectType, ReaderType, InferType, EntryType, SupType,
           SupOwns
  <2> QED BY <2>1, <2>2, <2>3
<1>8. CASE Collect
  <2>1. QueueType'
    <3>1. queue' = Tail(queue) /\ queue # <<>> /\ gpu' = gpu /\ since' = since
      BY <1>8 DEF Collect
    <3>2. Tail(queue) \in Seq(Frame) /\ Len(Tail(queue)) = Len(queue) - 1 /\ Len(queue) \in Nat
      BY <1>0, <3>1 DEF QueueType
    <3> QED BY <3>1, QueueIs DEF QueueType, Depth
  <2>2. InferType'
    <3>1. Head(queue) \in Frame
      BY <1>8 DEF Collect, QueueType
    <3>2. stream.gen \in Nat \ {0}
      BY <1>8, StreamIs DEF Collect, IInv, GenInv
    <3>3. \/ infer' = [pc |-> "batch", gen |-> stream.gen, frame |-> Head(queue)]
          \/ infer' = infer
      BY <1>8 DEF Collect
    <3> QED BY <3>1, <3>2, <3>3 DEF InferType
  <2>3. EntryType'
    <3>1. Head(queue) \in Frame
      BY <1>8 DEF Collect, QueueType
    <3>2. skipped \in Nat /\ Head(queue).dt \in Nat
      BY <3>1, FrameIs DEF EntryType
    <3>3. skipped' = skipped \/ skipped' = Sum(skipped, Head(queue).dt)
      BY <1>8 DEF Collect
    <3>4. skipped' \in 0..Gapped
      BY <3>2, <3>3, SumOf DEF EntryType
    <3> QED BY <1>8, <3>4 DEF Collect, EntryType
  <2>4. ObjectType' /\ ReaderType' /\ SupType' /\ SupOwns' /\ CountType'
    BY <1>8 DEF Collect, control, bounds, ObjectType, ReaderType, SupType, SupOwns, CountType
  <2> QED BY <2>1, <2>2, <2>3, <2>4
<1>9. CASE InferenceFails
  <2>1. InferType'
    BY <1>9 DEF InferenceFails, InferType
  <2>2. EntryType'
    BY <1>9 DEF InferenceFails, EntryType
  <2>3. CountType'
    BY <1>9 DEF InferenceFails, control, CountType
  <2>4. ObjectType' /\ ReaderType' /\ QueueType' /\ SupType' /\ SupOwns'
    BY <1>9
       DEF InferenceFails, exchange, control, Depth, ObjectType, ReaderType, QueueType, SupType,
           SupOwns
  <2> QED BY <2>1, <2>2, <2>3, <2>4
<1>10. CASE Accumulate
  <2>1. InferType'
    BY <1>10, Accumulated DEF InferType
  <2>2. EntryType'
    BY <1>10, Accumulated, GapFacts DEF Accumulate, EntryType
  <2>3. ObjectType' /\ ReaderType' /\ QueueType' /\ SupType' /\ SupOwns' /\ CountType'
    BY <1>10
       DEF Accumulate, exchange, control, bounds, Depth, ObjectType, ReaderType, QueueType,
           SupType, SupOwns, CountType
  <2> QED BY <2>1, <2>2, <2>3
<1>11. CASE Blindfold
  <2>1. ObjectType'
    <3>1. CASE Current(infer.gen)
      <4>1. stream \in Stream
        BY <3>1, StreamIs DEF Current
      <4> QED BY <1>11, <4>1, StreamSet DEF Blindfold, ObjectType
    <3>2. CASE ~Current(infer.gen)
      BY <1>11, <3>2 DEF Blindfold, ObjectType
    <3> QED BY <3>1, <3>2
  <2>2. InferType'
    BY <1>11 DEF Blindfold, InferType, At
  <2>3. SupOwns'
    <3>1. CASE Current(infer.gen)
      <4>1. stream \in Stream /\ stream # NULL
        BY <3>1, StreamIs DEF Current
      <4>2. stream' # NULL
        BY <1>11, <4>1, StreamSet, StreamIsNotNull DEF Blindfold
      <4> QED BY <4>2 DEF SupOwns
    <3>2. CASE ~Current(infer.gen)
      BY <1>11, <3>2 DEF Blindfold, control, SupOwns
    <3> QED BY <3>1, <3>2
  <2>4. CountType'
    BY <1>11 DEF Blindfold, control, CountType
  <2>5. ReaderType' /\ QueueType' /\ EntryType' /\ SupType'
    BY <1>11 DEF Blindfold, control, Depth, ReaderType, QueueType, EntryType, SupType
  <2> QED BY <2>1, <2>2, <2>3, <2>4, <2>5
<1>12. CASE HandleEvent
  <2>1. InferType'
    BY <1>12 DEF HandleEvent, InferType
  <2>2. CountType'
    BY <1>12 DEF HandleEvent, bounds, CountType
  <2>3. ObjectType' /\ ReaderType' /\ QueueType' /\ EntryType' /\ SupType' /\ SupOwns'
    BY <1>12
       DEF HandleEvent, exchange, Depth, ObjectType, ReaderType, QueueType, EntryType, SupType,
           SupOwns
  <2> QED BY <2>1, <2>2, <2>3
<1>13. CASE Prune
  <2>1. EntryType'
    BY <1>13 DEF Prune, EntryType
  <2>2. ObjectType' /\ ReaderType' /\ QueueType' /\ InferType' /\ SupType' /\ SupOwns' /\ CountType'
    BY <1>13
       DEF Prune, exchange, control, bounds, Depth, ObjectType, ReaderType, QueueType,
           InferType, SupType, SupOwns, CountType
  <2> QED BY <2>1, <2>2
<1>14. CASE Compute
  <2>1. SupType'
    BY <1>14 DEF Compute, SupType, At
  <2>2. SupOwns'
    <3>1. sup'.pc \notin {"idle", "start"} => stream # NULL
      BY <1>14 DEF Compute, Idle
    <3> QED BY <1>14 DEF Compute, exchange, SupOwns
  <2>3. ObjectType' /\ ReaderType' /\ QueueType' /\ InferType' /\ EntryType' /\ CountType'
    BY <1>14
       DEF Compute, exchange, pipeline, bounds, Depth, ObjectType, ReaderType, QueueType,
           InferType, EntryType, CountType
  <2> QED BY <2>1, <2>2, <2>3
<1>15. CASE ComputeRestart
  <2>1. SupType'
    BY <1>15 DEF ComputeRestart, SupType
  <2>2. SupOwns'
    BY <1>15 DEF ComputeRestart, exchange, SupOwns
  <2>3. CountType'
    BY <1>15 DEF ComputeRestart, CountType
  <2>4. ObjectType' /\ ReaderType' /\ QueueType' /\ InferType' /\ EntryType'
    BY <1>15
       DEF ComputeRestart, exchange, pipeline, Depth, ObjectType, ReaderType, QueueType,
           InferType, EntryType
  <2> QED BY <2>1, <2>2, <2>3, <2>4
<1>16. CASE StopStream
  <2>1. ObjectType'
    BY <1>16 DEF StopStream, ObjectType
  <2>2. ReaderType'
    BY <1>16 DEF StopStream, ReaderType
  <2>3. QueueType'
    BY <1>16, GapFacts DEF StopStream, QueueType, Depth
  <2>4. SupType'
    BY <1>16 DEF StopStream, SupType
  <2>5. SupOwns'
    BY <1>16 DEF StopStream, SupOwns, Idle
  <2>6. InferType' /\ EntryType' /\ CountType'
    BY <1>16 DEF StopStream, pipeline, bounds, InferType, EntryType, CountType
  <2> QED BY <2>1, <2>2, <2>3, <2>4, <2>5, <2>6
<1>17. CASE StartStream
  <2>1. ObjectType'
    BY <1>17, NewStreamIs DEF StartStream, ObjectType, CountType
  <2>2. ReaderType'
    BY <1>17 DEF StartStream, ReaderType
  <2>3. QueueType'
    BY <1>17, GapFacts DEF StartStream, QueueType, Depth
  <2>4. SupType'
    BY <1>17 DEF StartStream, SupType, At
  <2>5. SupOwns'
    <3>1. stream' \in Stream
      BY <1>17, NewStreamIs DEF StartStream, CountType
    <3> QED BY <3>1, StreamIsNotNull DEF SupOwns
  <2>6. CountType'
    BY <1>17 DEF StartStream, CountType
  <2>7. InferType' /\ EntryType'
    BY <1>17 DEF StartStream, pipeline, InferType, EntryType
  <2> QED BY <2>1, <2>2, <2>3, <2>4, <2>5, <2>6, <2>7
<1>18. CASE Pause
  <2>1. ObjectType'
    BY <1>18, StreamSet, ControlIs DEF Pause, ObjectType
  <2>2. SupType'
    BY <1>18 DEF Pause, SupType, At
  <2>3. SupOwns'
    BY <1>18, StreamIs, StreamSet, StreamIsNotNull DEF Pause, SupOwns
  <2>4. ReaderType' /\ QueueType' /\ InferType' /\ EntryType' /\ CountType'
    BY <1>18
       DEF Pause, pipeline, bounds, Depth, ReaderType, QueueType, InferType, EntryType,
           CountType
  <2> QED BY <2>1, <2>2, <2>3, <2>4
<1>19. CASE Attach
  <2>1. ObjectType'
    BY <1>19, StreamSet, ControlIs DEF Attach, ObjectType
  <2>2. SupType'
    BY <1>19 DEF Attach, SupType
  <2>3. SupOwns'
    BY <1>19 DEF Attach, SupOwns, Idle
  <2>4. ReaderType' /\ QueueType' /\ InferType' /\ EntryType' /\ CountType'
    BY <1>19
       DEF Attach, pipeline, bounds, Depth, ReaderType, QueueType, InferType, EntryType,
           CountType
  <2> QED BY <2>1, <2>2, <2>3, <2>4
<1>20. CASE Resume
  <2>1. ObjectType'
    BY <1>20, StreamSet, ControlIs DEF Resume, ObjectType
  <2>2. SupType'
    BY <1>20, ControlIs, StreamIs DEF Resume, SupType
  <2>3. SupOwns'
    BY <1>20, StreamIs, StreamSet, StreamIsNotNull DEF Resume, SupOwns
  <2>4. ReaderType' /\ QueueType' /\ InferType' /\ EntryType' /\ CountType'
    BY <1>20
       DEF Resume, pipeline, bounds, Depth, ReaderType, QueueType, InferType, EntryType,
           CountType
  <2> QED BY <2>1, <2>2, <2>3, <2>4
<1>21. CASE ResumeSegment
  <2>1. ObjectType'
    <3>1. stream \in Stream /\ sup.segment + 1 \in Nat
      BY <1>21, StreamIs, ControlIs DEF ResumeSegment
    <3> QED BY <3>1, <1>21, StreamSet DEF ResumeSegment, ObjectType
  <2>2. SupType'
    BY <1>21 DEF ResumeSegment, SupType, At
  <2>3. SupOwns'
    <3>1. stream \in Stream /\ sup.segment + 1 \in Nat
      BY <1>21, StreamIs, ControlIs DEF ResumeSegment
    <3>2. stream' \in Stream
      BY <3>1, <1>21, StreamSet DEF ResumeSegment
    <3> QED BY <3>2, StreamIsNotNull DEF SupOwns
  <2>4. ReaderType' /\ QueueType' /\ InferType' /\ EntryType' /\ CountType'
    BY <1>21
       DEF ResumeSegment, pipeline, bounds, Depth, ReaderType, QueueType, InferType, EntryType,
           CountType
  <2> QED BY <2>1, <2>2, <2>3, <2>4
<1>22. CASE ResumeDiscard
  <2>1. QueueType'
    BY <1>22, DiscardCounts, GapFacts DEF ResumeDiscard, QueueType, EntryType, Depth
  <2>2. EntryType'
    BY <1>22, DiscardCounts DEF ResumeDiscard, QueueType, EntryType
  <2>3. SupType'
    BY <1>22 DEF ResumeDiscard, SupType
  <2>4. SupOwns'
    BY <1>22 DEF ResumeDiscard, SupOwns
  <2>5. ObjectType' /\ ReaderType' /\ InferType' /\ CountType'
    BY <1>22 DEF ResumeDiscard, bounds, ObjectType, ReaderType, InferType, CountType
  <2> QED BY <2>1, <2>2, <2>3, <2>4, <2>5
<1>23. CASE Deliver
  <2>1. CountType'
    BY <1>23 DEF Deliver, bounds, CountType
  <2>2. ObjectType' /\ ReaderType' /\ QueueType' /\ InferType' /\ EntryType' /\ SupType' /\ SupOwns'
    BY <1>23
       DEF Deliver, exchange, pipeline, Depth, ObjectType, ReaderType, QueueType, InferType,
           EntryType, SupType, SupOwns
  <2> QED BY <2>1, <2>2
<1>24. CASE Order
  <2>1. CountType'
    BY <1>24 DEF Order, CountType
  <2>2. ObjectType' /\ ReaderType' /\ QueueType' /\ InferType' /\ EntryType' /\ SupType' /\ SupOwns'
    BY <1>24
       DEF Order, exchange, pipeline, Depth, ObjectType, ReaderType, QueueType, InferType,
           EntryType, SupType, SupOwns
  <2> QED BY <2>1, <2>2
<1>25. CASE UNCHANGED vars
  BY <1>25
     DEF vars, exchange, pipeline, control, bounds, Depth, ObjectType, ReaderType, QueueType,
         InferType, EntryType, SupType, SupOwns, CountType
<1> QED BY <1>1, <1>2, <1>3, <1>4, <1>5, <1>6, <1>7, <1>8, <1>9, <1>10, <1>11, <1>12, <1>13,
           <1>14, <1>15, <1>16, <1>17, <1>18, <1>19, <1>20, <1>21, <1>22, <1>23, <1>24, <1>25
           DEF Next, ReaderStep, InferenceStep, SupervisorStep, BackendStep

-----------------------------------------------------------------------------
(* The invariant *)

LEMMA InvInit == Init => IInv
<1> SUFFICES ASSUME Init PROVE IInv
  OBVIOUS
<1>1. /\ stream = NULL /\ infer.pc = "idle" /\ infer = Idle /\ entry = NoEntry /\ entry.gen = 0
      /\ streams = 0 /\ isolated = FALSE
  BY DEF Init, Idle, NoEntry
<1>2. GenInv
  BY <1>1 DEF GenInv
<1>3. ScoreInv /\ ReportInv /\ SegmentInv /\ FiredInv
  BY <1>1 DEF ScoreInv, ReportInv, SegmentInv, FiredInv
<1>4. ChainInv
  BY <1>1 DEF ChainInv, BatchRests
<1> QED BY <1>2, <1>3, <1>4 DEF IInv

\* Assignments to the attributes of the stream.
LEMMA StreamKept ==
  ASSUME Types, stream # NULL, NEW n \in Nat, NEW b \in BOOLEAN,
         NEW new, new \in {[stream EXCEPT !.is_paused = b], [stream EXCEPT !.attached = b],
                           [stream EXCEPT !.segment_id = n]}
  PROVE  /\ new # NULL /\ new.gen = stream.gen
         /\ new = [stream EXCEPT !.is_paused = b] =>
              new.is_paused = b /\ new.segment_id = stream.segment_id
         /\ new = [stream EXCEPT !.attached = b] =>
              new.is_paused = stream.is_paused /\ new.segment_id = stream.segment_id
         /\ new = [stream EXCEPT !.segment_id = n] =>
              new.is_paused = stream.is_paused /\ new.segment_id = n
<1>1. stream \in Stream
  BY StreamIs DEF Types
<1>2. new \in Stream
  BY <1>1, StreamSet
<1> QED BY <1>1, <1>2, StreamIsNotNull DEF Stream

\* The steps that assign to an attribute of the stream.
LEMMA Assigned ==
  ASSUME Types
  PROVE  /\ NewSegment => /\ stream # NULL /\ stream' # NULL /\ stream'.gen = stream.gen
                          /\ stream'.is_paused = stream.is_paused
                          /\ stream'.segment_id = reader.segment + 1
         /\ ResumeSegment => /\ stream # NULL /\ stream' # NULL /\ stream'.gen = stream.gen
                             /\ stream'.is_paused = stream.is_paused
                             /\ stream'.segment_id = sup.segment + 1
         /\ Pause \/ Resume \/ Attach =>
              /\ stream # NULL /\ stream' # NULL /\ stream'.gen = stream.gen
              /\ stream'.segment_id = stream.segment_id
         /\ Pause => stream'.is_paused = TRUE
         /\ Resume => stream'.is_paused = FALSE
         /\ Attach => stream'.is_paused = stream.is_paused
         /\ Blindfold => \/ UNCHANGED stream /\ ~Current(infer.gen)
                         \/ /\ Current(infer.gen)
                            /\ stream # NULL /\ stream' # NULL /\ stream'.gen = stream.gen
                            /\ stream'.is_paused = TRUE /\ stream'.segment_id = stream.segment_id
<1>1. ASSUME NewSegment
      PROVE  /\ stream # NULL /\ stream' # NULL /\ stream'.gen = stream.gen
             /\ stream'.is_paused = stream.is_paused
             /\ stream'.segment_id = reader.segment + 1
  <2>1. /\ stream # NULL /\ reader.pc = "bump"
        /\ stream' = [stream EXCEPT !.segment_id = reader.segment + 1]
    BY <1>1 DEF NewSegment, ReaderAt
  <2>2. reader.segment + 1 \in Nat
    BY <2>1, ReaderIs DEF Types
  <2> QED BY <2>1, <2>2, StreamKept
<1>2. ASSUME ResumeSegment
      PROVE  /\ stream # NULL /\ stream' # NULL /\ stream'.gen = stream.gen
             /\ stream'.is_paused = stream.is_paused
             /\ stream'.segment_id = sup.segment + 1
  <2>1. /\ sup.pc = "bump" /\ stream # NULL
        /\ stream' = [stream EXCEPT !.segment_id = sup.segment + 1]
    BY <1>2, ControlIs DEF ResumeSegment, Types
  <2>2. sup.segment + 1 \in Nat
    BY <2>1, ControlIs DEF Types
  <2> QED BY <2>1, <2>2, StreamKept
<1>3. ASSUME Pause \/ Resume \/ Attach
      PROVE  /\ stream # NULL
             /\ Pause => stream' = [stream EXCEPT !.is_paused = TRUE]
             /\ Resume => stream' = [stream EXCEPT !.is_paused = FALSE]
             /\ Attach => stream' = [stream EXCEPT !.attached = TRUE]
  BY <1>3, ControlIs DEF Pause, Resume, Attach, Types
<1>4. ASSUME Blindfold
      PROVE  \/ UNCHANGED stream /\ ~Current(infer.gen)
             \/ Current(infer.gen) /\ stream # NULL /\ stream' = [stream EXCEPT !.is_paused = TRUE]
  BY <1>4 DEF Blindfold, Current
<1>5. Pause \/ Resume \/ Attach =>
        /\ stream # NULL /\ stream' # NULL /\ stream'.gen = stream.gen
        /\ stream'.segment_id = stream.segment_id
        /\ Pause => stream'.is_paused = TRUE
        /\ Resume => stream'.is_paused = FALSE
        /\ Attach => stream'.is_paused = stream.is_paused
  <2>1. ASSUME Pause \/ Resume \/ Attach
        PROVE  stream # NULL /\ stream' # NULL /\ stream'.gen = stream.gen
               /\ stream'.segment_id = stream.segment_id
    BY <1>3, <2>1, StreamKept
  <2>2. Pause => stream'.is_paused = TRUE
    BY <1>3, StreamKept
  <2>3. Resume => stream'.is_paused = FALSE
    BY <1>3, StreamKept
  <2>4. Attach => stream'.is_paused = stream.is_paused
    BY <1>3, StreamKept
  <2> QED BY <2>1, <2>2, <2>3, <2>4
<1>6. Blindfold => \/ UNCHANGED stream /\ ~Current(infer.gen)
                   \/ /\ Current(infer.gen)
                      /\ stream # NULL /\ stream' # NULL /\ stream'.gen = stream.gen
                      /\ stream'.is_paused = TRUE /\ stream'.segment_id = stream.segment_id
  BY <1>4, StreamKept
<1> QED BY <1>1, <1>2, <1>5, <1>6

LEMMA GenNext == Types /\ IInv /\ [Next]_vars => GenInv'
<1> SUFFICES ASSUME Types, IInv, [Next]_vars PROVE GenInv'
  OBVIOUS
<1>0. /\ GenInv /\ streams \in Nat
      /\ infer.pc \in {"idle", "batch", "fired", "reporting"} /\ (infer.pc = "idle" <=> infer = Idle)
  BY InferIs DEF IInv, Types, ControlType, CountType
<1>1. CASE NewSegment \/ Pause \/ Attach \/ Resume \/ ResumeSegment
  <2>1. stream # NULL /\ stream' # NULL /\ stream'.gen = stream.gen
    BY <1>1, Assigned
  <2>2. UNCHANGED <<infer, entry, streams, isolated>>
    BY <1>1 DEF NewSegment, Pause, Attach, Resume, ResumeSegment, pipeline, bounds
  <2> QED BY <1>0, <2>1, <2>2 DEF GenInv
<1>2. CASE StartStream
  <2>1. /\ stream' = NewStream(streams + 1) /\ streams' = streams + 1
        /\ UNCHANGED <<infer, entry, isolated>>
    BY <1>2 DEF StartStream, pipeline
  <2>2. stream'.gen = streams'
    BY <2>1 DEF NewStream
  <2>3. infer.pc \in {"batch", "fired"} => infer.gen \in Nat
    BY InferIs DEF Types
  <2>4. entry.gen \in Nat
    BY DEF Types, PipelineType, EntryType, Entry, NoEntry
  <2> QED BY <1>0, <2>1, <2>2, <2>3, <2>4 DEF GenInv
<1>3. CASE StopStream
  BY <1>0, <1>3 DEF StopStream, pipeline, bounds, GenInv
<1>4. CASE Collect
  <2>1. /\ stream # NULL /\ ~isolated /\ UNCHANGED <<stream, entry, streams, isolated>>
        /\ \/ infer' = [pc |-> "batch", gen |-> stream.gen, frame |-> Head(queue)]
           \/ infer' = infer
    BY <1>4 DEF Collect, Eligible, bounds
  <2>2. infer' = infer \/ (infer'.pc = "batch" /\ infer'.gen = stream.gen)
    BY <2>1
  <2> QED BY <1>0, <2>1, <2>2 DEF GenInv
<1>5. CASE Accumulate
  <2>1. UNCHANGED <<stream, streams, isolated>>
    BY <1>5 DEF Accumulate, exchange, bounds
  <2>2. /\ infer.pc = "batch" /\ ~isolated /\ entry'.gen = infer.gen
        /\ infer' = Idle \/ (infer'.pc = "fired" /\ infer'.gen = infer.gen)
    BY <1>5, Accumulated
  <2> QED BY <1>0, <2>1, <2>2 DEF GenInv, Idle
<1>6. CASE InferenceFails \/ HandleEvent
  <2>1. infer' = Idle /\ infer'.pc = "idle"
    <3>1. infer' = Idle
      BY <1>6, Zenon DEF InferenceFails, HandleEvent
    <3> QED BY <3>1 DEF Idle
  <2>2. UNCHANGED <<stream, streams, entry>>
    BY <1>6 DEF InferenceFails, HandleEvent, exchange, bounds
  <2> QED BY <1>0, <2>1, <2>2 DEF GenInv
<1>7. CASE Blindfold
  <2>1. UNCHANGED <<entry, streams, isolated>> /\ infer'.pc = "reporting" /\ infer.pc = "fired"
    BY <1>7 DEF Blindfold
  <2>2. stream' = stream \/ (stream # NULL /\ stream' # NULL /\ stream'.gen = stream.gen)
    BY <1>7, Assigned
  <2>3. ~isolated
    BY <1>0, <2>1 DEF GenInv
  <2> QED BY <1>0, <2>1, <2>2, <2>3 DEF GenInv
<1>8. CASE Prune
  BY <1>0, <1>8 DEF Prune, exchange, bounds, GenInv, NoEntry, Idle
<1>9. CASE UNCHANGED <<stream, streams, infer, entry, isolated>>
  BY <1>0, <1>9 DEF GenInv
<1>10. \/ NewSegment \/ Pause \/ Attach \/ Resume \/ ResumeSegment \/ StartStream \/ StopStream
       \/ Collect \/ Accumulate \/ InferenceFails \/ HandleEvent \/ Blindfold \/ Prune
       \/ UNCHANGED <<stream, streams, infer, entry, isolated>>
  BY DEF Next, ReaderStep, InferenceStep, SupervisorStep, BackendStep, Connect, Grab, StartRead,
         Publish, Drop, Stall, Compute, ComputeRestart, ResumeDiscard, Deliver, Order,
         vars, exchange, pipeline, control, bounds
<1> QED BY <1>1, <1>2, <1>3, <1>4, <1>5, <1>6, <1>7, <1>8, <1>9, <1>10

LEMMA ScoreNext == Types /\ IInv /\ [Next]_vars => ScoreInv' /\ ReportInv'
<1> SUFFICES ASSUME Types, IInv, [Next]_vars PROVE ScoreInv' /\ ReportInv'
  OBVIOUS
<1>0. ScoreInv /\ ReportInv
  BY DEF IInv
<1>1. CASE Accumulate
  <2>1. ScoreInv'
    BY <1>1, Accumulated DEF ScoreInv, Scored
  <2>2. \/ infer'.pc = "idle"
        \/ \E e \in Evidence :
             infer'.evidence = e /\ e.frames = 2 /\ e.stretches = {infer.frame.stretch}
    BY <1>1, Accumulated DEF Idle
  <2> QED BY <2>1, <2>2 DEF ReportInv
<1>2. CASE Prune
  <2>1. entry' = NoEntry /\ infer' = infer
    BY <1>2 DEF Prune
  <2> QED BY <1>0, <2>1 DEF ScoreInv, ReportInv
<1>3. CASE entry' = entry /\ (infer' = infer \/ infer'.pc # "fired")
  <2>1. ScoreInv'
    BY <1>0, <1>3 DEF ScoreInv, Scored
  <2>2. ReportInv'
    BY <1>0, <1>3 DEF ReportInv
  <2> QED BY <2>1, <2>2
<1>4. ASSUME Collect \/ InferenceFails \/ Blindfold \/ HandleEvent
      PROVE  entry' = entry /\ (infer' = infer \/ infer'.pc # "fired")
  <2>1. Collect => entry' = entry /\ (infer' = infer \/ infer'.pc # "fired")
    BY DEF Collect
  <2>2. Blindfold => entry' = entry /\ (infer' = infer \/ infer'.pc # "fired")
    BY DEF Blindfold
  <2>3. InferenceFails \/ HandleEvent => entry' = entry /\ infer' = Idle
    BY Zenon DEF InferenceFails, HandleEvent
  <2> QED BY <1>4, <2>1, <2>2, <2>3 DEF Idle
<1>5. \/ Accumulate \/ Prune \/ Collect \/ InferenceFails \/ Blindfold \/ HandleEvent
      \/ UNCHANGED <<entry, infer>>
  BY DEF Next, ReaderStep, InferenceStep, SupervisorStep, BackendStep, Connect, NewSegment, Grab,
         StartRead, Publish, Drop, Stall, Compute, ComputeRestart, StopStream, StartStream, Pause,
         Attach, Resume, ResumeSegment, ResumeDiscard, Deliver, Order,
         vars, exchange, pipeline, control, bounds
<1> QED BY <1>1, <1>2, <1>3, <1>4, <1>5

LEMMA SegmentNext == Types /\ IInv /\ [Next]_vars => SegmentInv'
<1> SUFFICES ASSUME Types, IInv, [Next]_vars PROVE SegmentInv'
  OBVIOUS
<1>0. /\ SegmentInv /\ GenInv
      /\ stream # NULL => Newest \in Nat
      /\ reader.pc = "bump" => reader.segment \in Nat
      /\ reader.pc \in {"connect", "bump", "loop", "reading"}
      /\ sup.pc = "bump" => sup.segment \in Nat
      /\ stream # NULL => stream.segment_id \in Nat
      /\ Len(queue) \in Nat /\ \A k \in 1..Len(queue) : queue[k].segment \in Nat
      /\ infer.pc = "batch" => infer.frame.segment \in Nat /\ infer.gen \in Nat
      /\ entry # NoEntry => entry.segment \in Nat /\ entry.gen \in Nat
      /\ streams \in Nat
  <2>1. infer.pc = "batch" => infer.frame.segment \in Nat /\ infer.gen \in Nat
    BY InferIs, FrameIs DEF Types
  <2>2. entry # NoEntry => entry.segment \in Nat /\ entry.gen \in Nat
    BY DEF Types, PipelineType, EntryType, Entry
  <2>3. /\ reader.pc = "bump" => reader.segment \in Nat
        /\ reader.pc \in {"connect", "bump", "loop", "reading"}
        /\ stream # NULL => stream.segment_id \in Nat
    BY ReaderIs, StreamIs DEF Types
  <2>4. Len(queue) \in Nat /\ \A k \in 1..Len(queue) : queue[k].segment \in Nat
    BY QueueIs DEF Types
  <2>5. streams \in Nat /\ (sup.pc = "bump" => sup.segment \in Nat)
    BY ControlIs DEF Types, ControlType, CountType
  <2>6. stream # NULL => Newest \in Nat
    BY <2>3 DEF Newest
  <2> QED BY <2>1, <2>2, <2>3, <2>4, <2>5, <2>6 DEF IInv
<1>1. CASE Connect
  <2>1. /\ stream # NULL /\ reader.pc = "connect"
        /\ reader'.pc = "bump" /\ reader'.segment = stream.segment_id
        /\ UNCHANGED <<stream, queue, infer, entry, sup>>
    BY <1>1 DEF Connect, ReaderAt, pipeline, control
  <2>2. Newest' = Newest
    BY <2>1 DEF Newest
  <2> QED BY <1>0, <2>1, <2>2 DEF SegmentInv
<1>2. CASE NewSegment
  <2>1. /\ reader.pc = "bump" /\ stream # NULL /\ stream' # NULL /\ stream'.gen = stream.gen
        /\ stream'.segment_id = reader.segment + 1
    BY <1>2, Assigned DEF NewSegment, ReaderAt
  <2>2. reader'.pc \in {"loop", "reading"} /\ UNCHANGED <<infer, entry, sup>>
    BY <1>2 DEF NewSegment, NextFrame, At, control
  <2>3. queue' = <<>> \/ queue' = queue
    BY <1>2, DiscardCounts
       DEF NewSegment, Types, StreamType, QueueType, PipelineType, EntryType
  <2>4. Newest = reader.segment /\ Newest' = reader.segment + 1
    BY <2>1, <2>2 DEF Newest
  <2> QED BY <1>0, <2>1, <2>2, <2>3, <2>4 DEF SegmentInv
<1>3. ASSUME NEW hits \in SUBSET Locations, Publish(hits) PROVE SegmentInv'
  <2>1. /\ stream # NULL /\ reader.pc = "reading" /\ reader'.pc \in {"loop", "reading"}
        /\ UNCHANGED <<stream, infer, entry, sup>>
    BY <1>3, Zenon DEF Publish, ReaderAt, NextFrame, At, pipeline, control
  <2>2. PICK f \in Frame, d \in {0, 1} :
          f.segment = stream.segment_id /\ d <= Len(queue) /\ Published(f, d)
    BY <1>3, PublishFacts DEF Types
  <2>3. Newest = stream.segment_id /\ Newest' = stream.segment_id
    BY <2>1 DEF Newest
  <2>4. \A k \in 1..Len(queue') : queue'[k].segment <= stream.segment_id
    <3>1. \A k \in 1..Len(queue') :
            queue'[k].segment = IF k = Len(queue') THEN stream.segment_id ELSE queue[k + d].segment
      BY <2>2 DEF Published
    <3>2. Len(queue') = Len(queue) - d + 1
      BY <2>2 DEF Published
    <3>3. \A k \in 1..Len(queue) : queue[k].segment <= stream.segment_id
      BY <1>0, <2>1, <2>3 DEF SegmentInv
    <3> QED BY <1>0, <2>1, <2>2, <3>1, <3>2, <3>3
  <2> QED BY <1>0, <2>1, <2>3, <2>4 DEF SegmentInv
<1>4. CASE Grab \/ StartRead \/ Drop \/ Stall
  <2>1. /\ UNCHANGED <<stream, queue, infer, entry, sup>>
        /\ reader' = reader \/ (reader.pc \in {"loop", "reading"} /\ reader'.pc # "bump"
                                /\ (reader'.pc = "connect" => sup.pc # "bump"))
    BY <1>4 DEF Grab, StartRead, Drop, Stall, ReaderAt, At, pipeline, control
  <2>2. Newest' = Newest
    BY <2>1 DEF Newest
  <2> QED BY <1>0, <2>1, <2>2 DEF SegmentInv
<1>5. CASE Collect
  <2>1. /\ stream # NULL /\ UNCHANGED <<stream, reader, entry, sup>>
        /\ queue # <<>> /\ queue' = Tail(queue)
        /\ \/ infer' = [pc |-> "batch", gen |-> stream.gen, frame |-> Head(queue)]
           \/ infer' = infer
    BY <1>5 DEF Collect, control
  <2>2. infer' = infer \/ (infer'.pc = "batch" /\ infer'.frame = queue[1])
    BY <2>1, QueueIs DEF Types, StreamType, QueueType
  <2>3. Len(queue') = Len(queue) - 1 /\ \A k \in 1..Len(queue') : queue'[k] = queue[k + 1]
    BY <2>1, QueueIs DEF Types, StreamType, QueueType
  <2>4. 1 \in 1..Len(queue)
    BY <2>1, QueueIs DEF Types, StreamType, QueueType
  <2>5. Newest' = Newest
    BY <2>1 DEF Newest
  <2> QED BY <1>0, <2>1, <2>2, <2>3, <2>4, <2>5 DEF SegmentInv
<1>6. CASE Accumulate
  <2>1. UNCHANGED <<stream, reader, queue, sup>>
    BY <1>6 DEF Accumulate, exchange, control
  <2>2. /\ infer.pc = "batch" /\ infer'.pc # "batch"
        /\ entry'.gen = infer.gen /\ entry'.segment = infer.frame.segment
    BY <1>6, Accumulated DEF Idle
  <2>3. Newest' = Newest
    BY <2>1 DEF Newest
  <2> QED BY <1>0, <2>1, <2>2, <2>3 DEF SegmentInv
<1>7. CASE InferenceFails \/ HandleEvent \/ Blindfold
  <2>1. UNCHANGED <<reader, queue, entry, sup>>
    BY <1>7 DEF InferenceFails, HandleEvent, Blindfold, exchange, control
  <2>2. infer'.pc # "batch"
    <3>1. Blindfold => infer'.pc = "reporting"
      BY DEF Blindfold
    <3>2. InferenceFails \/ HandleEvent => infer' = Idle
      BY Zenon DEF InferenceFails, HandleEvent
    <3> QED BY <1>7, <3>1, <3>2 DEF Idle
  <2>3. \/ UNCHANGED stream
        \/ /\ stream # NULL /\ stream' # NULL /\ stream'.gen = stream.gen
           /\ stream'.segment_id = stream.segment_id
    BY <1>7, Assigned DEF InferenceFails, HandleEvent, exchange
  <2>4. Newest' = Newest
    BY <2>1, <2>3 DEF Newest
  <2> QED BY <1>0, <2>1, <2>2, <2>3, <2>4 DEF SegmentInv
<1>8. CASE Prune \/ StopStream
  BY <1>8 DEF Prune, StopStream, exchange, SegmentInv
<1>9. CASE StartStream
  <2>1. /\ stream'.gen = streams + 1 /\ stream'.segment_id = 0 /\ queue' = <<>>
        /\ reader'.pc = "connect" /\ sup'.pc # "bump" /\ UNCHANGED <<infer, entry>>
    BY <1>9 DEF StartStream, NewStream, At, pipeline
  <2>2. entry # NoEntry => entry.gen # streams + 1
    BY <1>0 DEF GenInv
  <2>3. infer.pc = "batch" => infer.gen # streams + 1
    BY <1>0 DEF GenInv
  <2>4. 1..Len(queue') = {}
    BY <2>1
  <2> QED BY <2>1, <2>2, <2>3, <2>4 DEF SegmentInv
<1>10. CASE Pause \/ Attach
  <2>1. /\ stream # NULL /\ stream' # NULL /\ stream'.gen = stream.gen
        /\ stream'.segment_id = stream.segment_id
    BY <1>10, Assigned
  <2>2. sup'.pc # "bump" /\ UNCHANGED <<reader, queue, infer, entry>>
    BY <1>10 DEF Pause, Attach, Idle, pipeline
  <2>3. Newest' = Newest
    BY <2>1, <2>2 DEF Newest
  <2> QED BY <1>0, <2>1, <2>2, <2>3 DEF SegmentInv
<1>11. CASE Resume
  <2>1. /\ stream # NULL /\ stream' # NULL /\ stream'.gen = stream.gen
        /\ stream'.segment_id = stream.segment_id
    BY <1>11, Assigned
  <2>2. /\ sup'.pc = "bump" /\ sup'.segment = stream.segment_id
        /\ UNCHANGED <<reader, queue, infer, entry>>
    BY <1>11 DEF Resume, pipeline
  <2>3. Newest' = Newest
    BY <2>1, <2>2 DEF Newest
  <2> QED BY <1>0, <2>1, <2>2, <2>3 DEF SegmentInv
<1>12. CASE ResumeSegment
  <2>1. /\ stream # NULL /\ stream' # NULL /\ stream'.gen = stream.gen
        /\ stream'.segment_id = sup.segment + 1
    BY <1>12, Assigned
  <2>2. sup.pc = "bump" /\ sup'.pc # "bump" /\ UNCHANGED <<reader, queue, infer, entry>>
    BY <1>12 DEF ResumeSegment, Idle, pipeline
  <2>3. Newest <= Newest' /\ Newest' \in Nat
    BY <1>0, <2>1, <2>2 DEF Newest, SegmentInv
  <2>4. stream.segment_id <= stream'.segment_id
    BY <1>0, <2>1, <2>2 DEF SegmentInv
  <2>5. reader'.pc = "bump" => reader'.segment <= stream'.segment_id
    BY <1>0, <2>1, <2>2, <2>4 DEF SegmentInv
  <2>6. \A n \in Nat : n <= Newest => n <= Newest'
    BY <1>0, <2>1, <2>3
  <2> QED BY <1>0, <2>1, <2>2, <2>5, <2>6 DEF SegmentInv
<1>13. CASE ResumeDiscard
  <2>1. queue' = <<>> /\ sup'.pc # "bump" /\ UNCHANGED <<stream, reader, infer, entry>>
    BY <1>13, Zenon DEF ResumeDiscard, DiscardQueue, Idle
  <2>2. Newest' = Newest
    BY <2>1 DEF Newest
  <2> QED BY <1>0, <2>1, <2>2 DEF SegmentInv
<1>14. CASE Compute \/ ComputeRestart
  <2>1. sup'.pc # "bump" /\ UNCHANGED <<stream, reader, queue, infer, entry>>
    BY <1>14 DEF Compute, ComputeRestart, Idle, exchange, pipeline
  <2>2. Newest' = Newest
    BY <2>1 DEF Newest
  <2> QED BY <1>0, <2>1, <2>2 DEF SegmentInv
<1>15. CASE UNCHANGED <<stream, reader, queue, infer, entry, sup>>
  <2>1. Newest' = Newest
    BY <1>15 DEF Newest
  <2> QED BY <1>0, <1>15, <2>1 DEF SegmentInv
<1>16. Deliver \/ Order \/ UNCHANGED vars => UNCHANGED <<stream, reader, queue, infer, entry, sup>>
  BY DEF Deliver, Order, vars, exchange, pipeline, control
<1> QED BY <1>1, <1>2, <1>3, <1>4, <1>5, <1>6, <1>7, <1>8, <1>9, <1>10, <1>11, <1>12, <1>13,
           <1>14, <1>15, <1>16
   DEF Next, ReaderStep, InferenceStep, SupervisorStep, BackendStep

LEMMA FiredNext == Types /\ IInv /\ [Next]_vars => FiredInv'
<1> SUFFICES ASSUME Types, IInv, [Next]_vars PROVE FiredInv'
  OBVIOUS
<1>0. /\ FiredInv /\ SegmentInv /\ GenInv /\ streams \in Nat
      /\ reader.pc = "bump" => reader.segment \in Nat
      /\ sup.pc = "bump" => sup.segment \in Nat
      /\ stream # NULL => stream.segment_id \in Nat /\ Newest \in Nat /\ Newest <= stream.segment_id
      /\ entry # NoEntry => entry.segment \in Nat
  <2>1. /\ reader.pc = "bump" => reader.segment \in Nat
        /\ stream # NULL => stream.segment_id \in Nat
    BY ReaderIs, StreamIs DEF Types
  <2>2. streams \in Nat /\ (sup.pc = "bump" => sup.segment \in Nat)
    BY ControlIs DEF Types, ControlType, CountType
  <2>3. entry # NoEntry => entry.segment \in Nat
    BY DEF Types, PipelineType, EntryType, Entry
  <2>4. stream # NULL => Newest \in Nat /\ Newest <= stream.segment_id
    BY <2>1 DEF Newest, IInv, SegmentInv
  <2> QED BY <2>1, <2>2, <2>3, <2>4 DEF IInv
<1>1. CASE NewSegment
  <2>1. /\ reader.pc = "bump" /\ stream # NULL /\ stream'.gen = stream.gen
        /\ stream'.segment_id = reader.segment + 1
    BY <1>1, Assigned DEF NewSegment, ReaderAt
  <2>2. UNCHANGED entry /\ Newest = reader.segment
    BY <1>1, <2>1 DEF NewSegment, Newest
  <2>3. entry # NoEntry /\ entry.gen = stream.gen => entry.segment <= reader.segment
    BY <1>0, <2>1, <2>2 DEF SegmentInv
  <2> QED BY <1>0, <2>1, <2>2, <2>3 DEF FiredInv
<1>2. CASE Accumulate
  <2>1. UNCHANGED <<stream, sup>>
    BY <1>2 DEF Accumulate, exchange, control
  <2>2. /\ infer.pc = "batch" /\ (infer' = Idle \/ infer'.pc = "fired")
        /\ entry'.gen = infer.gen /\ entry'.segment = infer.frame.segment
        /\ infer' = Idle =>
             \/ entry'.fired = {}
             \/ /\ entry # NoEntry /\ entry.gen = infer.gen /\ entry.segment = infer.frame.segment
                /\ entry'.fired = entry.fired
    BY <1>2, Accumulated
  <2> QED BY <1>0, <2>1, <2>2 DEF FiredInv
<1>3. CASE Blindfold
  <2>1. UNCHANGED <<entry, sup>> /\ infer.pc = "fired"
    BY <1>3 DEF Blindfold, control
  <2>2. \/ UNCHANGED stream /\ ~Current(infer.gen)
        \/ stream'.is_paused = TRUE
    BY <1>3, Assigned
  <2> QED BY <1>0, <2>1, <2>2 DEF FiredInv, GenInv, Current
<1>4. CASE StartStream
  <2>1. stream'.gen = streams + 1 /\ UNCHANGED entry
    BY <1>4 DEF StartStream, NewStream, pipeline
  <2>2. entry.gen <= streams /\ entry.gen \in Nat
    BY <1>0 DEF GenInv, Types, PipelineType, EntryType, Entry, NoEntry
  <2> QED BY <1>0, <2>1, <2>2 DEF FiredInv
<1>5. CASE Resume
  <2>1. stream # NULL /\ stream'.segment_id = stream.segment_id
    BY <1>5, Assigned
  <2>2. sup'.pc = "bump" /\ sup'.segment = stream.segment_id
    BY <1>5 DEF Resume
  <2> QED BY <2>1, <2>2 DEF FiredInv
<1>6. CASE ResumeSegment
  <2>1. /\ stream # NULL /\ stream'.gen = stream.gen /\ stream'.is_paused = stream.is_paused
        /\ stream'.segment_id = sup.segment + 1
    BY <1>6, Assigned
  <2>2. sup.pc = "bump" /\ UNCHANGED <<infer, entry>>
    BY <1>6 DEF ResumeSegment, pipeline
  <2>3. stream.segment_id <= sup.segment + 1
    BY <1>0, <2>1, <2>2 DEF SegmentInv
  <2>4. entry # NoEntry /\ entry.gen = stream.gen => entry.segment <= stream.segment_id
    BY <1>0, <2>1 DEF SegmentInv
  <2>5. entry # NoEntry /\ entry.gen = stream.gen /\ entry.segment = sup.segment + 1 =>
          entry.segment = stream.segment_id /\ sup.segment # stream.segment_id
    BY <1>0, <2>1, <2>2, <2>3, <2>4
  <2> QED BY <1>0, <2>1, <2>2, <2>5 DEF FiredInv
<1>7. CASE Pause
  BY <1>7, Assigned DEF FiredInv
<1>8. CASE Attach
  <2>1. /\ stream # NULL /\ stream'.gen = stream.gen /\ stream'.is_paused = stream.is_paused
        /\ stream'.segment_id = stream.segment_id
    BY <1>8, Assigned
  <2>2. sup.pc = "attach" /\ UNCHANGED <<infer, entry>>
    BY <1>8 DEF Attach, pipeline
  <2> QED BY <1>0, <2>1, <2>2 DEF FiredInv
<1>9. CASE StopStream \/ Prune
  BY <1>9 DEF StopStream, Prune, exchange, FiredInv
<1>10. CASE Collect \/ InferenceFails \/ HandleEvent
  <2>1. UNCHANGED <<stream, entry, sup>>
    BY <1>10 DEF Collect, InferenceFails, HandleEvent, exchange, control
  <2>2. infer.pc # "fired"
    BY <1>10, InferIs DEF Collect, InferenceFails, HandleEvent, Types, Idle
  <2> QED BY <1>0, <2>1, <2>2 DEF FiredInv
<1>11. CASE UNCHANGED <<stream, entry, infer>> /\ (sup' = sup \/ sup.pc # "bump")
  BY <1>0, <1>11 DEF FiredInv
<1>12. Compute \/ ComputeRestart \/ ResumeDiscard =>
         UNCHANGED <<stream, entry, infer>> /\ sup.pc # "bump"
  BY DEF Compute, ComputeRestart, ResumeDiscard, Idle, exchange, pipeline
<1>13. \/ Connect \/ Grab \/ StartRead \/ (\E hits \in SUBSET Locations : Publish(hits))
       \/ Drop \/ Stall \/ Deliver \/ Order \/ UNCHANGED vars
       => UNCHANGED <<stream, entry, infer, sup>>
  BY DEF Connect, Grab, StartRead, Publish, Drop, Stall, Deliver, Order,
         vars, exchange, pipeline, control
<1> QED BY <1>1, <1>2, <1>3, <1>4, <1>5, <1>6, <1>7, <1>8, <1>9, <1>10, <1>11, <1>12, <1>13
   DEF Next, ReaderStep, InferenceStep, SupervisorStep, BackendStep

-----------------------------------------------------------------------------
(* Evidence and the time between frames *)

\* What the proofs below use of the types.
Amounts ==
  /\ skipped \in Nat /\ skipped <= Gapped /\ since \in Nat /\ since <= Gapped
  /\ Len(queue) \in Nat /\ (queue = <<>> <=> Len(queue) = 0)
  /\ \A k \in 1..Len(queue) : queue[k].dt \in Nat /\ queue[k].dt > 0 /\ queue[k].stretch \in Nat
  /\ faults \in Nat /\ streams \in Nat /\ Stretch \in Nat
  /\ NextDt \in Nat /\ NextDt > 0
  /\ infer.pc = "batch" => infer.frame.dt \in Nat

LEMMA AmountsAre == Types => Amounts
<1> SUFFICES ASSUME Types PROVE Amounts
  OBVIOUS
<1>1. /\ queue \in Seq(Frame) /\ Len(queue) \in Nat /\ since \in Nat /\ since <= Gapped
      /\ \A k \in 1..Len(queue) : queue[k].dt \in 1..Gapped /\ queue[k].stretch \in Nat
  BY QueueIs DEF Types
<1>2. queue = <<>> <=> Len(queue) = 0
  BY <1>1
<1>3. skipped \in Nat /\ skipped <= Gapped
  BY GapFacts DEF Types, PipelineType, EntryType
<1>4. faults \in Nat /\ streams \in Nat /\ Stretch \in Nat
  BY DEF Types, ControlType, CountType, Stretch
<1>5. infer.pc = "batch" => infer.frame.dt \in Nat
  BY InferIs, FrameIs DEF Types
<1>6. \A k \in 1..Len(queue) : queue[k].dt \in Nat /\ queue[k].dt > 0 /\ queue[k].stretch \in Nat
  BY <1>1, GapFacts
<1>7. NextDt \in Nat /\ NextDt > 0
  BY <1>1, <1>2, <1>6 DEF NextDt
<1> QED BY <1>1, <1>2, <1>3, <1>4, <1>5, <1>6, <1>7 DEF Amounts

\* Frames with no gap between them, up to now.
LEMMA AcrossQueue ==
  ASSUME Amounts, QueueInv, queue # <<>>, since < MaxGap,
         \A k \in 1..Len(queue) : queue[k].dt <= MaxGap
  PROVE  queue[1].stretch = Stretch
<1>1. 1 \in 1..Len(queue) /\ Len(queue) \in 1..Len(queue) /\ 1 <= Len(queue)
  BY DEF Amounts
<1>2. \A k \in (1 + 1)..Len(queue) : k \in 1..Len(queue)
  BY DEF Amounts
<1>3. queue[1].stretch = queue[Len(queue)].stretch
  BY <1>1, <1>2 DEF QueueInv
<1> QED BY <1>3 DEF QueueInv

LEMMA Within ==
  ASSUME NEW a \in Nat, NEW b \in Nat, NEW d \in Nat, NEW m \in Nat
  PROVE  /\ a <= b /\ b + d <= m => a + d <= m
         /\ b + d <= m => b <= m
         /\ b + (d + 1) <= m => b <= m /\ d < m /\ b + d + 1 <= m
         /\ a <= b /\ b + d + 1 <= m => a + (d + 1) <= m
         /\ a <= b => a + (d + 1) <= b + d + 1
         /\ d < m <=> d + 1 <= m
         /\ a <= b => a + 1 <= b + 1
         /\ d + 1 \in Nat
OBVIOUS

LEMMA EmptyIff ==
  ASSUME NEW S, NEW s \in Seq(S)
  PROVE  s = <<>> <=> Len(s) = 0
OBVIOUS

LEMMA Sooner ==
  ASSUME NEW a \in Nat, NEW b \in Nat, NEW d \in Nat, NEW m \in Nat
  PROVE  /\ a <= b /\ d + b <= m => d + a <= m
         /\ d + b <= m => b <= m
OBVIOUS

\* Discarding the queue moves its time to skipped.
LEMMA DiscardChain ==
  ASSUME Types, ChainInv, ~isolated, stream # NULL, DiscardQueue,
         stream'.gen = stream.gen,
         UNCHANGED <<infer, entry, isolated, since, streams, faults>>
  PROVE  ChainInv'
<1>1. BatchRests /\ QueueInv /\ NextFollows /\ NextRests /\ Amounts
  BY AmountsAre DEF ChainInv
<1>2. /\ queue' = <<>> /\ skipped' \in Nat
      /\ skipped' <= MaxGap =>
           skipped <= skipped' /\ \A k \in 1..Len(queue) : skipped + queue[k].dt <= skipped'
  BY DiscardCounts, GapFacts DEF Types, StreamType, QueueType, PipelineType, EntryType
<1>n. /\ skipped \in Nat /\ since \in Nat /\ NextDt \in Nat /\ skipped' \in Nat /\ MaxGap \in Nat
  BY <1>1, <1>2, GapFacts DEF Amounts
<1>m. infer.pc = "batch" => infer.frame.dt \in Nat
  BY <1>1 DEF Amounts
<1>3. NextDt' = since + 1 /\ NextStretch' = Stretch
  BY <1>2 DEF NextDt, NextStretch, Stretch
<1>4. \A s : Rests(s)' <=> Rests(s)
  BY DEF Rests, AllFrom
<1>5. ASSUME skipped' <= MaxGap, since < MaxGap
      PROVE  /\ skipped <= skipped' /\ NextDt <= MaxGap
             /\ NextStretch = Stretch
             /\ skipped' + since + 1 <= MaxGap => skipped + NextDt <= MaxGap
  <2>1. CASE queue = <<>>
    <3>1. NextDt = since + 1 /\ NextStretch = Stretch
      BY <2>1 DEF NextDt, NextStretch
    <3>2. skipped <= skipped'
      BY <1>2, <1>5
    <3>3. since + 1 <= MaxGap
      BY <1>n, <1>5, Within
    <3>4. skipped' + since + 1 <= MaxGap => skipped + (since + 1) <= MaxGap
      <4>1. skipped' + since + 1 <= MaxGap /\ skipped <= skipped' => skipped + (since + 1) <= MaxGap
        BY <1>n, Within
      <4> QED BY <3>2, <4>1
    <3> QED BY <3>1, <3>2, <3>3, <3>4
  <2>2. CASE queue # <<>>
    <3>0. \A k \in 1..Len(queue) : queue[k].dt \in Nat /\ skipped + queue[k].dt <= skipped'
      BY <1>1, <1>2, <1>5 DEF Amounts
    <3>1. \A k \in 1..Len(queue) : queue[k].dt <= MaxGap
      BY <1>n, <1>5, <3>0
    <3>2. queue[1].stretch = Stretch
      BY <1>1, <1>5, <2>2, <3>1, AcrossQueue
    <3>3. 1 \in 1..Len(queue)
      BY <1>1, <2>2 DEF Amounts
    <3>4. skipped + queue[1].dt <= skipped'
      BY <1>2, <1>5, <3>3
    <3>5. NextDt = queue[1].dt /\ NextStretch = queue[1].stretch
      BY <2>2 DEF NextDt, NextStretch
    <3>6. NextDt <= MaxGap /\ NextStretch = Stretch
      BY <3>1, <3>2, <3>3, <3>5
    <3>7. skipped <= skipped'
      BY <1>2, <1>5
    <3>8. skipped' + since + 1 <= MaxGap => skipped + NextDt <= MaxGap
      <4>1. skipped + NextDt <= skipped'
        BY <3>4, <3>5
      <4>2. since + 1 >= 1 /\ skipped' + since + 1 = skipped' + (since + 1)
        BY <1>n
      <4>3. skipped' + (since + 1) <= MaxGap => skipped' <= MaxGap
        BY <1>n, Within
      <4> QED BY <1>n, <1>5, <4>1
    <3> QED BY <3>6, <3>7, <3>8
  <2> QED BY <2>1, <2>2
<1>6. BatchRests'
  <2>1. infer.pc = "batch" /\ skipped' + infer.frame.dt <= MaxGap =>
          skipped + infer.frame.dt <= MaxGap
    <3>1. skipped' <= MaxGap => skipped <= skipped'
      BY <1>2
    <3>2. ASSUME infer.pc = "batch", skipped' + infer.frame.dt <= MaxGap
          PROVE  skipped + infer.frame.dt <= MaxGap
      <4> DEFINE d == infer.frame.dt
      <4>1. d \in Nat
        BY <1>m, <3>2
      <4> HIDE DEF d
      <4>2. skipped' + d <= MaxGap
        BY <3>2 DEF d
      <4>3. skipped' <= MaxGap
        BY <1>n, <4>1, <4>2, Within
      <4>4. skipped <= skipped' /\ skipped' + d <= MaxGap => skipped + d <= MaxGap
        BY <1>n, <4>1, Within
      <4>5. skipped + d <= MaxGap
        BY <3>1, <4>2, <4>3, <4>4
      <4> QED BY <4>5 DEF d
    <3> QED BY <3>2
  <2> QED BY <1>1, <1>4, <2>1 DEF BatchRests
<1>7. QueueInv'
  BY <1>2 DEF QueueInv
<1>8. NextFollows'
  <2>1. since + 1 <= MaxGap => since < MaxGap
    BY <1>n
  <2>2. skipped' <= MaxGap /\ skipped <= skipped' => skipped <= MaxGap
    BY <1>n
  <2> QED BY <1>1, <1>3, <1>5, <2>1, <2>2 DEF NextFollows
<1>9. NextRests'
  <2>1. skipped' + (since + 1) <= MaxGap =>
          skipped' <= MaxGap /\ since < MaxGap /\ skipped' + since + 1 <= MaxGap
    BY <1>n, Within
  <2> QED BY <1>1, <1>3, <1>4, <1>5, <2>1 DEF NextRests
<1> QED BY <1>6, <1>7, <1>8, <1>9 DEF ChainInv


\* The frame that comes next comes no earlier than it would have, and is from
\* the stretch that it would have been from.
LEMMA LaterChain ==
  ASSUME ChainInv, ~isolated, stream # NULL, stream' # NULL, stream'.gen = stream.gen,
         infer' = infer, entry' = entry, isolated' = isolated, skipped' = skipped,
         skipped \in Nat, NextDt \in Nat, NextDt' \in Nat,
         QueueInv', NextDt' <= MaxGap => NextDt <= NextDt' /\ NextStretch' = NextStretch
  PROVE  ChainInv'
<1>1. BatchRests /\ NextFollows /\ NextRests
  BY DEF ChainInv
<1>2. \A s : Rests(s)' <=> Rests(s)
  BY DEF Rests, AllFrom
<1>3. BatchRests'
  BY <1>1, <1>2 DEF BatchRests
<1>4. MaxGap \in Nat /\ skipped \in Nat /\ NextDt \in Nat /\ NextDt' \in Nat
  BY GapFacts
<1>5. NextDt' <= MaxGap => NextDt <= MaxGap
  BY <1>4
<1>6. NextFollows'
  BY <1>1, <1>5 DEF NextFollows
<1>7. skipped + NextDt' <= MaxGap => NextDt' <= MaxGap /\ skipped + NextDt <= MaxGap
  <2>1. NextDt' <= MaxGap => NextDt <= NextDt'
    OBVIOUS
  <2>2. skipped + NextDt' <= MaxGap => NextDt' <= MaxGap
    BY <1>4, Sooner
  <2>3. NextDt <= NextDt' /\ skipped + NextDt' <= MaxGap => skipped + NextDt <= MaxGap
    BY <1>4, Sooner
  <2> QED BY <2>1, <2>2, <2>3
<1>8. NextRests'
  BY <1>1, <1>2, <1>7 DEF NextRests
<1> QED BY <1>3, <1>6, <1>8 DEF ChainInv

\* Nothing of the chain changes.
LEMMA SameChain ==
  ASSUME ChainInv, UNCHANGED <<queue, since, infer, skipped, entry, isolated, faults, streams>>,
         stream' # NULL => stream # NULL /\ stream'.gen = stream.gen
  PROVE  ChainInv'
<1>1. \A s : Rests(s)' <=> Rests(s)
  BY DEF Rests, AllFrom
<1>2. NextDt' = NextDt /\ NextStretch' = NextStretch /\ Stretch' = Stretch
  BY DEF NextDt, NextStretch, Stretch
<1>3. BatchRests' <=> BatchRests
  BY <1>1 DEF BatchRests
<1>4. QueueInv' <=> QueueInv
  BY <1>2 DEF QueueInv
<1>5. stream' # NULL => (NextFollows' <=> NextFollows)
  BY <1>2 DEF NextFollows
<1>6. stream' # NULL => (NextRests' <=> NextRests)
  BY <1>1, <1>2 DEF NextRests
<1> QED BY <1>3, <1>4, <1>5, <1>6 DEF ChainInv

\* Time passes; a new stretch starts when it was too long.
LEMMA SinceChain ==
  ASSUME Amounts, ChainInv, ~isolated, stream # NULL, stream' = stream,
         UNCHANGED <<queue, infer, skipped, entry, isolated, streams>>,
         since' \in Nat, since <= since', since' < MaxGap => faults' = faults
  PROVE  ChainInv'
<1>1. QueueInv
  BY DEF ChainInv
<1>2. /\ MaxGap \in Nat /\ since \in Nat /\ since' \in Nat /\ since <= since'
      /\ since' < MaxGap => Stretch' = Stretch
  BY GapFacts DEF Amounts, Stretch
<1>3. NextDt \in Nat /\ skipped \in Nat
  BY DEF Amounts
<1>4. since' < MaxGap => since < MaxGap
  BY <1>2
<1>5. QueueInv'
  BY <1>1, <1>2, <1>4 DEF QueueInv
<1>6. NextDt' \in Nat /\ (NextDt' <= MaxGap => NextDt <= NextDt' /\ NextStretch' = NextStretch)
  <2>1. CASE queue = <<>>
    <3>1. NextDt = since + 1 /\ NextDt' = since' + 1 /\ NextStretch = Stretch /\ NextStretch' = Stretch'
      BY <2>1 DEF NextDt, NextStretch
    <3>2. since' + 1 <= MaxGap => since' < MaxGap
      BY <1>2, Within
    <3>3. since + 1 <= since' + 1 /\ since' + 1 \in Nat
      BY <1>2, Within
    <3> QED BY <1>2, <3>1, <3>2, <3>3
  <2>2. CASE queue # <<>>
    <3>1. NextDt' = NextDt /\ NextStretch' = NextStretch
      BY <2>2 DEF NextDt, NextStretch
    <3> QED BY <1>3, <3>1
  <2> QED BY <2>1, <2>2
<1> QED BY <1>3, <1>5, <1>6, LaterChain

\* The oldest frame leaves the queue.
LEMMA AfterHead ==
  ASSUME Amounts, QueueInv, queue \in Seq(Frame), queue # <<>>, queue' = Tail(queue),
         since' = since, faults' = faults, streams' = streams
  PROVE  /\ QueueInv' /\ NextDt' \in Nat
         /\ NextDt' <= MaxGap => NextStretch' = queue[1].stretch
<1> DEFINE n == Len(queue)
<1>1. n \in Nat /\ n > 0 /\ MaxGap \in Nat /\ since \in Nat /\ Stretch' = Stretch
  BY GapFacts DEF Amounts, Stretch
<1>2. Len(queue') = n - 1 /\ \A k \in 1..(n - 1) : queue'[k] = queue[k + 1]
  OBVIOUS
<1>3. \A k \in 1..n : queue[k].dt \in Nat
  BY DEF Amounts
<1>4. queue' = <<>> <=> n = 1
  <2>0. queue' \in Seq(Frame)
    OBVIOUS
  <2>1. queue' = <<>> <=> Len(queue') = 0
    BY <2>0, EmptyIff
  <2> QED BY <1>1, <1>2, <2>1
<1>5. \A i, j \in 1..n : i <= j /\ (\A k \in (i + 1)..j : queue[k].dt <= MaxGap) =>
                           queue[i].stretch = queue[j].stretch
  BY DEF QueueInv
<1>6. since < MaxGap => queue[n].stretch = Stretch
  BY DEF QueueInv
<1> HIDE DEF n
<1>7. ASSUME NEW i \in 1..Len(queue'), NEW j \in 1..Len(queue'), i <= j,
             \A k \in (i + 1)..j : queue'[k].dt <= MaxGap
      PROVE  queue'[i].stretch = queue'[j].stretch
  <2>1. i + 1 \in 1..n /\ j + 1 \in 1..n /\ i + 1 <= j + 1 /\ i \in 1..(n - 1) /\ j \in 1..(n - 1)
    BY <1>1, <1>2, <1>7
  <2>2. ASSUME NEW k \in (i + 1 + 1)..(j + 1) PROVE queue[k].dt <= MaxGap
    <3>1. k - 1 \in (i + 1)..j /\ k - 1 \in 1..(n - 1) /\ (k - 1) + 1 = k
      BY <2>1, <1>1
    <3>2. queue'[k - 1] = queue[k]
      BY <3>1, <1>2
    <3> QED BY <3>1, <3>2, <1>7
  <2>3. queue[i + 1].stretch = queue[j + 1].stretch
    BY <2>1, <2>2, <1>5
  <2> QED BY <2>1, <2>3, <1>2
<1>8. queue' # <<>> => queue'[Len(queue')] = queue[n]
  <2>1. queue' # <<>> => n - 1 \in 1..(n - 1) /\ (n - 1) + 1 = n
    BY <1>1, <1>4
  <2> QED BY <2>1, <1>2
<1>9. QueueInv'
  BY <1>1, <1>6, <1>7, <1>8 DEF QueueInv
<1>10. CASE queue' = <<>>
  <2>1. NextDt' = since + 1 /\ NextStretch' = Stretch
    BY <1>1, <1>10 DEF NextDt, NextStretch
  <2>2. since + 1 <= MaxGap => since < MaxGap
    BY <1>1
  <2>3. since + 1 \in Nat /\ n = 1
    BY <1>1, <1>4, <1>10
  <2> QED BY <1>6, <1>9, <2>1, <2>2, <2>3
<1>11. CASE queue' # <<>>
  <2>1. 1 \in 1..(n - 1) /\ 1 \in 1..n /\ 2 \in 1..n /\ 1 + 1 = 2 /\ 1 <= 2
    BY <1>1, <1>4, <1>11
  <2>2. queue'[1] = queue[2]
    BY <2>1, <1>2
  <2>3. NextDt' = queue[2].dt /\ NextStretch' = queue[2].stretch
    BY <2>2, <1>11 DEF NextDt, NextStretch
  <2>4. \A k \in (1 + 1)..2 : k = 2
    OBVIOUS
  <2>5. queue[2].dt <= MaxGap => queue[1].stretch = queue[2].stretch
    BY <1>5, <2>1, <2>4
  <2>6. queue[2].dt \in Nat
    BY <1>3, <2>1
  <2> QED BY <1>9, <2>3, <2>5, <2>6
<1> QED BY <1>10, <1>11

LEMMA CollectChain ==
  ASSUME Types, ChainInv, ~isolated, Collect
  PROVE  ChainInv'
<1>1. /\ infer.pc = "idle" /\ stream # NULL /\ queue # <<>> /\ queue' = Tail(queue)
      /\ UNCHANGED <<stream, since, entry, isolated, faults, streams>>
  BY DEF Collect, Idle, bounds
<1>2. BatchRests /\ QueueInv /\ NextFollows /\ NextRests /\ Amounts /\ queue \in Seq(Frame)
  BY <1>1, AmountsAre, QueueIs DEF ChainInv, Types
<1>3. /\ QueueInv' /\ NextDt' \in Nat
      /\ NextDt' <= MaxGap => NextStretch' = queue[1].stretch
  BY <1>1, <1>2, AfterHead
<1>4. \A s : Rests(s)' <=> Rests(s)
  BY <1>1 DEF Rests, AllFrom
<1>5. NextDt = queue[1].dt /\ NextStretch = queue[1].stretch /\ Head(queue) = queue[1]
  BY <1>1, <1>2 DEF NextDt, NextStretch
<1>6. MaxGap \in Nat /\ skipped \in Nat /\ queue[1].dt \in Nat
  BY <1>2, <1>5, GapFacts DEF Amounts
<1>7. entry.gen = stream.gen /\ skipped + queue[1].dt <= MaxGap => Rests(queue[1].stretch)
  BY <1>1, <1>2, <1>5 DEF NextRests
<1>8. CASE /\ infer' = [pc |-> "batch", gen |-> stream.gen, frame |-> Head(queue)]
           /\ skipped' = skipped
  <2>1. /\ infer'.pc = "batch" /\ infer'.gen = stream.gen /\ infer'.frame = queue[1]
        /\ skipped' = skipped
    BY <1>5, <1>8
  <2>2. BatchRests'
    BY <1>1, <1>4, <1>7, <2>1 DEF BatchRests
  <2>3. NextFollows'
    BY <1>3, <2>1 DEF NextFollows
  <2>4. NextRests'
    BY <2>1 DEF NextRests
  <2> QED BY <1>3, <2>2, <2>3, <2>4 DEF ChainInv
<1>9. CASE skipped' = Sum(skipped, Head(queue).dt) /\ infer' = infer
  <2>1. skipped' = Sum(skipped, queue[1].dt) /\ infer'.pc # "batch"
    BY <1>1, <1>5, <1>9
  <2> DEFINE d == queue[1].dt
  <2>2. d \in Nat /\ skipped' = Sum(skipped, d)
    BY <1>6, <2>1
  <2> HIDE DEF d
  <2>3. skipped' = (IF skipped + d <= Gapped THEN skipped + d ELSE Gapped) /\ skipped' \in 0..Gapped
    BY <1>6, <2>2, SumOf
  <2>4. skipped' \in Nat /\ (skipped' <= MaxGap => skipped + d <= MaxGap)
    BY <1>6, <2>2, <2>3, GapFacts
  <2>5. skipped' + NextDt' <= MaxGap => skipped' <= MaxGap /\ NextDt' <= MaxGap
    BY <1>3, <1>6, <2>4
  <2>6. skipped' + NextDt' <= MaxGap => skipped + queue[1].dt <= MaxGap /\ NextDt' <= MaxGap
    BY <2>4, <2>5 DEF d
  <2>7. NextRests'
    BY <1>1, <1>3, <1>4, <1>7, <2>6 DEF NextRests
  <2>8. BatchRests' /\ NextFollows'
    BY <2>1 DEF BatchRests, NextFollows
  <2> QED BY <1>3, <2>7, <2>8 DEF ChainInv
<1>10. \/ infer' = [pc |-> "batch", gen |-> stream.gen, frame |-> Head(queue)] /\ skipped' = skipped
       \/ skipped' = Sum(skipped, Head(queue).dt) /\ infer' = infer
  BY DEF Collect
<1> QED BY <1>8, <1>9, <1>10

\* The frame that is published ends the queue; the oldest one may make room for
\* it, and then its time falls to the next.
LEMMA PublishedChain ==
  ASSUME Types, QueueInv, NEW f \in Frame, NEW d \in {0, 1},
         f.dt = Sum(since, 1), f.stretch = Stretch, d <= Len(queue), Published(f, d),
         queue' \in Seq(Frame), Len(queue') >= 1, faults' = faults, streams' = streams, since' = 0
  PROVE  /\ QueueInv' /\ NextDt' \in Nat
         /\ NextDt' <= MaxGap => NextDt <= NextDt' /\ NextStretch' = NextStretch
<1> DEFINE n == Len(queue)
           m == Len(queue')
           kept(k) == IF k = m THEN f ELSE queue[k + d]
<1>1. Amounts
  BY AmountsAre
<1>2. n \in Nat /\ m \in Nat /\ m = n - d + 1 /\ m >= 1 /\ d \in Nat /\ d <= 1 /\ d <= n
  BY <1>1 DEF Published, Amounts
<1>3. \A k \in 1..m : k > 1 => queue'[k].dt = kept(k).dt
  BY DEF Published
<1>4. \A k \in 1..m : queue'[k].stretch = kept(k).stretch
  <2>1. faults \in Nat /\ faults' # faults + 1
    BY <1>1 DEF Amounts
  <2> QED BY <2>1 DEF Published
<1>5. queue'[1].dt = IF d = 1 THEN Sum(kept(1).dt, queue[1].dt) ELSE kept(1).dt
  BY DEF Published
<1>6. /\ MaxGap \in Nat /\ since \in Nat /\ f.dt \in Nat
      /\ f.dt <= MaxGap => f.dt = since + 1 /\ since < MaxGap
  <2>1. /\ f.dt = IF since + 1 <= Gapped THEN since + 1 ELSE Gapped
        /\ f.dt \in 0..Gapped
    BY <1>1, SumOf DEF Amounts
  <2>2. MaxGap \in Nat /\ Gapped = MaxGap + 1 /\ since \in Nat
    BY <1>1, GapFacts DEF Amounts
  <2> QED BY <2>1, <2>2
<1>7. \A k \in 1..n : queue[k].dt \in Nat
  BY <1>1 DEF Amounts
<1>8. \A i, j \in 1..n : i <= j /\ (\A k \in (i + 1)..j : queue[k].dt <= MaxGap) =>
                           queue[i].stretch = queue[j].stretch
  BY DEF QueueInv
<1>9. n > 0 /\ since < MaxGap => queue[n].stretch = Stretch
  BY <1>1 DEF QueueInv, Amounts
<1>10. Stretch' = Stretch
  BY DEF Stretch
<1>11. queue' # <<>> /\ (queue = <<>> <=> n = 0)
  <2>1. queue' = <<>> <=> m = 0
    BY EmptyIff
  <2> QED BY <1>1, <1>2, <2>1 DEF Amounts
<1> HIDE DEF n, m
<1>12. \A k \in 1..m : k # m => k + d \in 1..n /\ kept(k) = queue[k + d]
  BY <1>2
<1>13. kept(m) = f
  OBVIOUS
<1> HIDE DEF kept
<1>14. ASSUME NEW i \in 1..m, NEW j \in 1..m, i <= j,
              \A k \in (i + 1)..j : queue'[k].dt <= MaxGap
       PROVE  queue'[i].stretch = queue'[j].stretch
  <2>1. CASE i = j
    BY <2>1
  <2>2. CASE i # j /\ j # m
    <3>0. i # m /\ i + d <= j + d
      BY <1>2, <1>14, <2>2
    <3>1. i + d \in 1..n /\ j + d \in 1..n /\ i + d <= j + d
      BY <3>0, <1>12, <2>2
    <3>2. ASSUME NEW k \in (i + d + 1)..(j + d) PROVE queue[k].dt <= MaxGap
      <4>1. k - d \in (i + 1)..j /\ k - d \in 1..m /\ k - d > 1 /\ k - d # m /\ (k - d) + d = k
        BY <1>2, <1>14, <2>2
      <4>2. queue'[k - d].dt = queue[k].dt
        BY <4>1, <1>3, <1>12
      <4> QED BY <4>1, <4>2, <1>14
    <3>3. queue[i + d].stretch = queue[j + d].stretch
      BY <3>1, <3>2, <1>8
    <3> QED BY <3>0, <3>3, <2>2, <1>4, <1>12
  <2>3. CASE i # j /\ j = m
    <3>1. i # m /\ i + d \in 1..n /\ n \in 1..n /\ i + d <= n /\ m > 1 /\ m \in 1..m /\ m \in (i + 1)..m
      BY <1>2, <1>12, <1>14, <2>3
    <3>2. ASSUME NEW k \in (i + d + 1)..n PROVE queue[k].dt <= MaxGap
      <4>1. k - d \in (i + 1)..j /\ k - d \in 1..m /\ k - d > 1 /\ k - d # m /\ (k - d) + d = k
        BY <1>2, <1>14, <2>3
      <4>2. queue'[k - d].dt = queue[k].dt
        BY <4>1, <1>3, <1>12
      <4> QED BY <4>1, <4>2, <1>14
    <3>3. queue[i + d].stretch = queue[n].stretch
      BY <3>1, <3>2, <1>8
    <3>4. f.dt <= MaxGap
      BY <3>1, <1>3, <1>13, <1>14, <2>3
    <3>5. queue[n].stretch = Stretch
      BY <3>1, <3>4, <1>2, <1>6, <1>9
    <3> QED BY <3>1, <3>3, <3>5, <2>3, <1>4, <1>12, <1>13
  <2> QED BY <2>1, <2>2, <2>3
<1>15. m \in 1..m /\ 1 \in 1..m
  BY <1>2
<1>16. queue'[m].stretch = Stretch'
  BY <1>4, <1>10, <1>13, <1>15
<1>17. QueueInv'
  BY <1>14, <1>16 DEF QueueInv, m
<1>18. NextDt' = queue'[1].dt /\ NextStretch' = queue'[1].stretch
  BY <1>11 DEF NextDt, NextStretch
<1>19. CASE n = 0
  <2>1. m = 1 /\ d = 0
    BY <1>2, <1>19
  <2>2. NextDt' = f.dt /\ NextStretch' = Stretch
    BY <2>1, <1>4, <1>5, <1>13, <1>15, <1>18
  <2>3. NextDt = since + 1 /\ NextStretch = Stretch
    BY <1>11, <1>19 DEF NextDt, NextStretch
  <2> QED BY <1>6, <1>17, <2>2, <2>3
<1>20. CASE n # 0
  <2>1. NextDt = queue[1].dt /\ NextStretch = queue[1].stretch /\ 1 \in 1..n
    BY <1>2, <1>11, <1>20 DEF NextDt, NextStretch
  <2>2. CASE d = 0
    <3>1. 1 # m /\ 1 + d = 1
      BY <1>2, <1>20, <2>2
    <3>2. queue'[1].dt = queue[1].dt /\ queue'[1].stretch = queue[1].stretch
      BY <3>1, <2>2, <1>4, <1>5, <1>12, <1>15
    <3> QED BY <1>7, <1>17, <1>18, <2>1, <3>2
  <2>3. CASE d = 1
    <3> DEFINE a == kept(1).dt
               b == queue[1].dt
    <3>1. b \in Nat
      BY <1>7, <2>1
    <3>2. a \in Nat
      <4>1. CASE m = 1
        BY <4>1, <1>6, <1>13
      <4>2. CASE m # 1
        <5>1. 1 + d \in 1..n /\ kept(1) = queue[1 + d]
          BY <4>2, <1>12, <1>15
        <5> QED BY <5>1, <1>7
      <4> QED BY <4>1, <4>2
    <3>3. NextDt' = Sum(a, b) /\ NextDt = b
      BY <1>5, <1>18, <2>1, <2>3
    <3> HIDE DEF a, b
    <3>4. NextDt' = (IF a + b <= Gapped THEN a + b ELSE Gapped) /\ NextDt' \in 0..Gapped
      BY <3>1, <3>2, <3>3, SumOf
    <3>5. NextDt' \in Nat /\ (NextDt' <= MaxGap => NextDt <= NextDt' /\ a <= MaxGap)
      BY <3>1, <3>2, <3>3, <3>4, GapFacts
    <3>6. ASSUME a <= MaxGap PROVE queue'[1].stretch = queue[1].stretch
      <4>1. CASE m = 1
        <5>1. n = 1
          BY <4>1, <1>2, <2>3
        <5>2. f.dt <= MaxGap /\ queue'[1].stretch = Stretch
          BY <3>6, <4>1, <1>4, <1>13, <1>15 DEF a
        <5> QED BY <5>1, <5>2, <1>6, <1>9
      <4>2. CASE m # 1
        <5>1. 1 # m /\ 1 + d = 2 /\ 2 \in 1..n /\ 1 \in 1..n /\ 1 <= 2
          BY <4>2, <1>2, <2>3, <1>20
        <5>2. kept(1) = queue[2]
          BY <5>1, <1>12, <1>15
        <5>3. \A k \in (1 + 1)..2 : k = 2
          OBVIOUS
        <5>4. queue[1].stretch = queue[2].stretch
          BY <5>1, <5>2, <5>3, <3>6, <1>8 DEF a
        <5> QED BY <5>2, <5>4, <1>4, <1>15
      <4> QED BY <4>1, <4>2
    <3> QED BY <1>17, <1>18, <2>1, <3>5, <3>6
  <2> QED BY <1>2, <2>2, <2>3
<1> QED BY <1>19, <1>20

LEMMA PublishChain ==
  ASSUME Types, ChainInv, ~isolated, NEW hits \in SUBSET Locations, Publish(hits)
  PROVE  ChainInv'
<1>1. /\ stream # NULL /\ stream' = stream
      /\ infer' = infer /\ entry' = entry /\ isolated' = isolated /\ skipped' = skipped
      /\ streams' = streams
  BY DEF Publish, ReaderAt, pipeline
<1>2. QueueInv /\ Amounts
  BY <1>1, AmountsAre DEF ChainInv
<1>3. PICK f \in Frame, d \in {0, 1} :
        /\ f.dt = Sum(since, 1) /\ f.segment = stream.segment_id /\ f.stretch = Stretch
        /\ d <= Len(queue) /\ Published(f, d)
  BY PublishFacts DEF Types
<1>4. queue' \in Seq(Frame) /\ Len(queue') \in 1..Depth /\ since' = 0 /\ Depth \in Nat
  BY PublishFacts, QueueIs DEF Types
<1>5. Len(queue') \in Nat /\ Len(queue') >= 1
  BY <1>4
<1>6. skipped \in Nat /\ NextDt \in Nat
  BY <1>2 DEF Amounts
<1>7. CASE faults' = faults
  <2>1. /\ QueueInv' /\ NextDt' \in Nat
        /\ NextDt' <= MaxGap => NextDt <= NextDt' /\ NextStretch' = NextStretch
    BY <1>1, <1>2, <1>3, <1>4, <1>5, <1>7, PublishedChain
  <2> QED BY <1>1, <1>6, <2>1, LaterChain
<1>8. CASE faults' = faults + 1 /\ queue'[1].dt > MaxGap
           /\ \A k \in 1..Len(queue') : queue'[k].stretch = Stretch + 1
  <2>1. Stretch' = Stretch + 1
    BY <1>1, <1>2, <1>8 DEF Stretch, Amounts
  <2>2. 1 \in 1..Len(queue') /\ Len(queue') \in 1..Len(queue')
    BY <1>5
  <2>3. QueueInv'
    BY <1>8, <2>1, <2>2 DEF QueueInv
  <2>4. queue' # <<>>
    BY <1>4, <1>5, EmptyIff
  <2>5. NextDt' = queue'[1].dt /\ queue'[1].dt \in Nat /\ MaxGap \in Nat
    <3>1. queue'[1] \in Frame
      BY <1>4, <2>2
    <3> QED BY <3>1, <2>4, FrameIs, GapFacts DEF NextDt
  <2>6. NextDt' \in Nat /\ ~(NextDt' <= MaxGap)
    BY <1>8, <2>5
  <2> QED BY <1>1, <1>6, <2>3, <2>6, LaterChain
<1> QED BY <1>3, <1>7, <1>8 DEF Published

\* What is accumulated now is from the stretch of the frame that comes next.
LEMMA AccumulateChain ==
  ASSUME Types, IInv, Accumulate
  PROVE  ChainInv'
<1>1. /\ UNCHANGED <<stream, queue, since, isolated, faults, streams>> /\ skipped' = 0
      /\ infer.pc = "batch" /\ ~isolated /\ infer'.pc # "batch" /\ entry'.gen = infer.gen
  BY Accumulated DEF Accumulate, exchange, bounds, Idle
<1>2. /\ AllFrom(entry', infer.frame.stretch)
      /\ skipped + infer.frame.dt > MaxGap => \A s : AllFrom(entry', s)
  BY Accumulated
<1>3. stream # NULL => QueueInv /\ NextFollows
  BY <1>1 DEF IInv, ChainInv
<1>4. Amounts /\ skipped \in Nat /\ infer.frame.dt \in Nat /\ NextDt \in Nat
  BY <1>1, AmountsAre DEF Amounts
<1>5. NextDt' = NextDt /\ NextStretch' = NextStretch /\ Stretch' = Stretch
  BY <1>1 DEF NextDt, NextStretch, Stretch
<1>6. stream # NULL => QueueInv'
  BY <1>1, <1>3, <1>5 DEF QueueInv
<1>7. ASSUME stream # NULL, infer.gen = stream.gen, NextDt <= MaxGap
      PROVE  AllFrom(entry', NextStretch)
  <2> DEFINE d == infer.frame.dt
  <2>1. d \in Nat /\ skipped \in Nat /\ MaxGap \in Nat
    BY <1>4, GapFacts
  <2> HIDE DEF d
  <2>2. skipped + d > MaxGap \/ skipped <= MaxGap
    BY <2>1
  <2>3. CASE skipped + d > MaxGap
    BY <1>2, <2>3 DEF d
  <2>4. CASE skipped <= MaxGap
    BY <1>1, <1>2, <1>3, <1>7, <2>4 DEF NextFollows
  <2> QED BY <2>2, <2>3, <2>4
<1>8. stream # NULL => NextRests'
  <2>1. skipped' + NextDt = NextDt
    BY <1>1, <1>4
  <2>2. \A s : AllFrom(entry', s) => Rests(s)'
    BY DEF Rests, AllFrom
  <2> QED BY <1>1, <1>5, <1>7, <2>1, <2>2 DEF NextRests
<1>9. BatchRests' /\ NextFollows'
  BY <1>1 DEF BatchRests, NextFollows
<1> QED BY <1>1, <1>6, <1>8, <1>9 DEF ChainInv

LEMMA ChainNext == Types /\ IInv /\ [Next]_vars => ChainInv'
<1> SUFFICES ASSUME Types, IInv, [Next]_vars PROVE ChainInv'
  OBVIOUS
<1>0. ChainInv /\ Amounts
  BY AmountsAre DEF IInv
<1>1. CASE Connect \/ StartRead \/ Compute \/ ComputeRestart \/ Deliver \/ Order \/ UNCHANGED vars
  <2>1. UNCHANGED <<stream, queue, since, infer, skipped, entry, isolated, faults, streams>>
    BY <1>1 DEF Connect, StartRead, Compute, ComputeRestart, Deliver, Order,
                vars, exchange, pipeline, bounds
  <2> QED BY <1>0, <2>1, SameChain
<1>2. CASE Pause \/ Attach \/ Resume \/ ResumeSegment
  <2>1. UNCHANGED <<queue, since, infer, skipped, entry, isolated, faults, streams>>
    BY <1>2 DEF Pause, Attach, Resume, ResumeSegment, pipeline, bounds
  <2>2. stream # NULL /\ stream'.gen = stream.gen
    BY <1>2, Assigned
  <2> QED BY <1>0, <2>1, <2>2, SameChain
<1>3. CASE NewSegment
  <2>1. /\ UNCHANGED <<since, infer, entry, isolated, faults, streams>>
        /\ DiscardQueue \/ UNCHANGED <<queue, skipped>>
    BY <1>3, Zenon DEF NewSegment, bounds
  <2>2. stream # NULL /\ stream'.gen = stream.gen
    BY <1>3, Assigned
  <2>3. CASE isolated
    BY <2>1, <2>3 DEF ChainInv
  <2>4. CASE ~isolated /\ DiscardQueue
    BY <1>0, <2>1, <2>2, <2>4, DiscardChain
  <2>5. CASE UNCHANGED <<queue, skipped>>
    BY <1>0, <2>1, <2>2, <2>5, SameChain
  <2> QED BY <2>1, <2>3, <2>4, <2>5
<1>4. CASE ResumeDiscard
  <2>1. /\ UNCHANGED <<stream, since, infer, entry, isolated, faults, streams>>
        /\ DiscardQueue /\ sup.pc = "discard"
    BY <1>4, Zenon DEF ResumeDiscard, bounds
  <2>2. stream # NULL
    BY <2>1, ControlIs DEF Types
  <2>3. CASE isolated
    BY <2>1, <2>3 DEF ChainInv
  <2>4. CASE ~isolated
    BY <1>0, <2>1, <2>2, <2>4, DiscardChain
  <2> QED BY <2>3, <2>4
<1>5. CASE Grab \/ Drop \/ Stall
  <2>1. /\ stream # NULL /\ UNCHANGED <<stream, queue, infer, skipped, entry, isolated, streams>>
        /\ \/ since' = Sum(since, 1) /\ faults' = faults
           \/ since' = Gapped
    BY <1>5 DEF Grab, Drop, Stall, ReaderAt, pipeline, bounds
  <2>2. since \in Nat /\ since <= Gapped
    BY <1>0 DEF Amounts
  <2>3. /\ Sum(since, 1) = IF since + 1 <= Gapped THEN since + 1 ELSE Gapped
        /\ Sum(since, 1) \in 0..Gapped
    BY <2>2, SumOf
  <2>4. since' \in Nat /\ since <= since' /\ (since' < MaxGap => faults' = faults)
    BY <2>1, <2>2, <2>3, GapFacts
  <2>5. CASE isolated
    BY <2>1, <2>5 DEF ChainInv
  <2>6. CASE ~isolated
    BY <1>0, <2>1, <2>4, <2>6, SinceChain
  <2> QED BY <2>5, <2>6
<1>6. CASE \E hits \in SUBSET Locations : Publish(hits)
  <2>1. PICK hits \in SUBSET Locations : Publish(hits)
    BY <1>6
  <2>2. CASE isolated
    BY <2>1, <2>2 DEF Publish, pipeline, ChainInv
  <2>3. CASE ~isolated
    BY <1>0, <2>1, <2>3, PublishChain
  <2> QED BY <2>2, <2>3
<1>7. CASE Collect
  <2>1. ~isolated
    BY <1>7 DEF Collect, Eligible
  <2> QED BY <1>0, <1>7, <2>1, CollectChain
<1>8. CASE Accumulate
  BY <1>8, AccumulateChain
<1>9. CASE InferenceFails
  BY <1>9 DEF InferenceFails, ChainInv
<1>10. CASE Blindfold \/ HandleEvent
  <2>1. /\ UNCHANGED <<queue, since, skipped, entry, isolated, faults, streams>>
        /\ infer.pc # "batch" /\ infer'.pc # "batch"
    <3>1. Blindfold => infer.pc # "batch" /\ infer'.pc # "batch"
      BY DEF Blindfold
    <3>2. HandleEvent => infer.pc # "batch" /\ infer' = Idle
      BY DEF HandleEvent
    <3>3. UNCHANGED <<queue, since, skipped, entry, isolated, faults, streams>>
      BY <1>10 DEF Blindfold, HandleEvent, exchange, bounds
    <3> QED BY <1>10, <3>1, <3>2, <3>3 DEF Idle
  <2>2. stream' # NULL => stream # NULL /\ stream'.gen = stream.gen
    BY <1>10, Assigned DEF HandleEvent, exchange
  <2>3. \A s : Rests(s)' <=> Rests(s)
    BY <2>1 DEF Rests, AllFrom
  <2>4. NextDt' = NextDt /\ NextStretch' = NextStretch /\ Stretch' = Stretch
    BY <2>1 DEF NextDt, NextStretch, Stretch
  <2>5. QueueInv' <=> QueueInv
    BY <2>1, <2>4 DEF QueueInv
  <2>6. stream' # NULL /\ NextRests => NextRests'
    BY <2>1, <2>2, <2>3, <2>4 DEF NextRests
  <2>7. BatchRests' /\ NextFollows'
    BY <2>1 DEF BatchRests, NextFollows
  <2> QED BY <1>0, <2>1, <2>2, <2>5, <2>6, <2>7 DEF ChainInv
<1>11. CASE Prune
  <2>1. stream' = NULL /\ infer'.pc # "batch"
    BY <1>11 DEF Prune, exchange, Idle
  <2> QED BY <2>1 DEF ChainInv, BatchRests
<1>12. CASE StopStream \/ StartStream
  <2>1. UNCHANGED <<infer, skipped, entry, isolated>>
    BY <1>12 DEF StopStream, StartStream, pipeline
  <2>2. BatchRests' <=> BatchRests
    <3>1. \A s : Rests(s)' <=> Rests(s)
      BY <2>1 DEF Rests, AllFrom
    <3> QED BY <2>1, <3>1 DEF BatchRests
  <2>3. CASE StopStream
    <3>1. stream' = NULL
      BY <2>3 DEF StopStream
    <3> QED BY <1>0, <2>1, <2>2, <3>1 DEF ChainInv
  <2>4. CASE StartStream
    <3>1. stream' = NewStream(streams + 1) /\ queue' = <<>>
      BY <2>4 DEF StartStream
    <3>2. stream'.gen = streams + 1 /\ streams \in Nat
      BY <1>0, <3>1 DEF NewStream, Amounts
    <3>3. /\ infer.pc = "batch" => infer.gen \in Nat /\ infer.gen <= streams
          /\ entry.gen \in Nat /\ entry.gen <= streams
      BY InferIs DEF IInv, GenInv, Types, PipelineType, EntryType, Entry, NoEntry
    <3>4. QueueInv'
      BY <3>1 DEF QueueInv
    <3>5. NextFollows'
      BY <2>1, <3>2, <3>3 DEF NextFollows
    <3>6. NextRests'
      BY <2>1, <3>2, <3>3 DEF NextRests
    <3> QED BY <1>0, <2>1, <2>2, <3>4, <3>5, <3>6 DEF ChainInv
  <2> QED BY <1>12, <2>3, <2>4
<1> QED BY <1>1, <1>2, <1>3, <1>4, <1>5, <1>6, <1>7, <1>8, <1>9, <1>10, <1>11, <1>12
   DEF Next, ReaderStep, InferenceStep, SupervisorStep, BackendStep

-----------------------------------------------------------------------------
(* Theorems *)

LEMMA Inductive == Spec => [](Types /\ IInv)
<1>1. Init => Types /\ IInv
  BY TypeInit, InvInit
<1>2. Types /\ IInv /\ [Next]_vars => (Types /\ IInv)'
  BY TypeNext, GenNext, ScoreNext, ChainNext, SegmentNext, FiredNext DEF IInv
<1> QED BY <1>1, <1>2, PTL DEF Spec

\* Whatever the threads do to the attributes they share, each has a value of
\* its type, and a queue never exceeds its depth.
THEOREM TypeCorrect == Spec => []TypeOK
<1>1. Types => TypeOK
  BY InferIs, ControlIs, ReaderIs
     DEF Types, StreamType, QueueType, ObjectType, PipelineType, EntryType, ControlType, TypeOK
<1> QED BY <1>1, Inductive, PTL

\* A region fires on two frames or more, for every threshold that exceeds the
\* longest gap and however long the camera stalls, drops or waits.
THEOREM CorroboratedEvents == Spec => []EventsAreCorroborated
<1>1. IInv => EventsAreCorroborated
  BY DEF IInv, ReportInv, EventsAreCorroborated
<1> QED BY <1>1, Inductive, PTL

\* The frames that an event rests on are from one stretch of observation,
\* however the frames of an outage, a pause or a replaced stream were skipped,
\* dropped or discarded.
THEOREM ContinuousEvidence == Spec => []EvidenceIsContinuous
<1>1. IInv => EvidenceIsContinuous
  BY FS_Singleton DEF IInv, ReportInv, EvidenceIsContinuous
<1> QED BY <1>1, Inductive, PTL

\* A camera that is watched, with nothing under way, watches with an accumulator
\* that has not fired: two unlocked increments of segment_id never leave it with
\* one that has.
THEOREM NeverDeaf == Spec => []NotDeaf
<1>1. Types /\ IInv => NotDeaf
  <2> SUFFICES ASSUME Types, IInv, stream # NULL, ~stream.is_paused, infer = Idle, sup = Idle
               PROVE  resolve(stream.gen, stream.segment_id, 1).fired = {}
    BY DEF NotDeaf
  <2>1. CASE /\ entry # NoEntry /\ entry.gen = stream.gen
             /\ entry.segment = stream.segment_id /\ 1 <= MaxGap
    <3>1. entry.fired = {}
      BY <2>1 DEF IInv, FiredInv, Idle
    <3> QED BY <2>1, <3>1 DEF resolve
  <2>2. CASE ~(/\ entry # NoEntry /\ entry.gen = stream.gen
               /\ entry.segment = stream.segment_id /\ 1 <= MaxGap)
    BY <2>2 DEF resolve, NewEntry
  <2> QED BY <2>1, <2>2
<1> QED BY <1>1, Inductive, PTL
=============================================================================
