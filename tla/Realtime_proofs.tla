--------------------------- MODULE Realtime_proofs ---------------------------
(***************************************************************************)
(* Proofs about Realtime, for any number of connections, sessions, users   *)
(* and broadcasting threads, and any limits.                               *)
(***************************************************************************)
EXTENDS Realtime, FiniteSetTheorems, SequenceTheorems, TLAPS

-----------------------------------------------------------------------------
(* Sequences *)

LEMMA RemoveAtFacts ==
  ASSUME NEW S, NEW s \in Seq(S), NEW i \in DOMAIN s
  PROVE  /\ RemoveAt(s, i) \in Seq(S)
         /\ Len(RemoveAt(s, i)) = Len(s) - 1
         /\ \A k \in 1..(Len(s) - 1) : RemoveAt(s, i)[k] = IF k < i THEN s[k] ELSE s[k + 1]
<1>1. i \in 1..Len(s) /\ Len(s) \in Nat
  OBVIOUS
<1> DEFINE a == SubSeq(s, 1, i - 1)
           b == SubSeq(s, i + 1, Len(s))
<1>2. /\ a \in Seq(S) /\ Len(a) = i - 1 /\ \A k \in 1..(i - 1) : a[k] = s[k]
  <2>1. \A k \in 1..(i - 1) : s[k] \in S
    BY <1>1, ElementOfSeq
  <2> QED BY <1>1, <2>1, SubSeqProperties
<1>3. /\ b \in Seq(S) /\ Len(b) = Len(s) - i /\ \A k \in 1..(Len(s) - i) : b[k] = s[k + i]
  <2>1. \A k \in (i + 1)..Len(s) : s[k] \in S
    BY <1>1, ElementOfSeq
  <2> QED BY <1>1, <2>1, SubSeqProperties
<1> HIDE DEF a, b
<1>4. RemoveAt(s, i) = a \o b
  BY DEF RemoveAt, a, b
<1> QED BY <1>1, <1>2, <1>3, <1>4, ConcatProperties

\* A prefix agrees with the whole, element by element.
LEMMA PrefixFacts ==
  ASSUME NEW S, NEW s \in Seq(S), NEW t \in Seq(S)
  PROVE  IsPrefix(s, t) <=> Len(s) <= Len(t) /\ \A i \in 1..Len(s) : s[i] = t[i]
<1>1. Len(s) \in Nat /\ Len(t) \in Nat
  OBVIOUS
<1>2. SubSeq(s, 1, Len(s)) = s
  BY SubSeqFull
<1>3. ASSUME Len(s) <= Len(t)
      PROVE  /\ SubSeq(t, 1, Len(s)) \in Seq(S) /\ Len(SubSeq(t, 1, Len(s))) = Len(s)
             /\ \A i \in 1..Len(s) : SubSeq(t, 1, Len(s))[i] = t[i]
  <2>1. \A i \in 1..Len(s) : t[i] \in S
    BY <1>1, <1>3, ElementOfSeq
  <2> QED BY <1>1, <2>1, SubSeqProperties
<1>4. ASSUME Len(s) <= Len(t), \A i \in 1..Len(s) : s[i] = t[i]
      PROVE  SubSeq(t, 1, Len(s)) = s
  BY <1>3, <1>4, SeqEqual
<1> QED BY <1>2, <1>3, <1>4 DEF IsPrefix

LEMMA PrefixOfConcat ==
  ASSUME NEW S, NEW s \in Seq(S), NEW t \in Seq(S)
  PROVE  IsPrefix(s, s \o t)
<1>1. /\ s \o t \in Seq(S) /\ Len(s \o t) = Len(s) + Len(t)
      /\ \A i \in 1..Len(s) : (s \o t)[i] = s[i]
  BY ConcatProperties
<1>2. Len(s) \in Nat /\ Len(t) \in Nat
  OBVIOUS
<1>3. Len(s) <= Len(s \o t)
  BY <1>1, <1>2
<1> QED BY <1>1, <1>3, PrefixFacts

LEMMA PrefixOfLonger ==
  ASSUME NEW S, NEW s \in Seq(S), NEW t \in Seq(S), NEW e \in S, IsPrefix(s, t)
  PROVE  IsPrefix(s, Append(t, e))
<1>1. /\ Append(t, e) \in Seq(S) /\ Len(Append(t, e)) = Len(t) + 1
      /\ \A i \in 1..Len(t) : Append(t, e)[i] = t[i]
  BY AppendProperties
<1>2. Len(s) <= Len(t) /\ \A i \in 1..Len(s) : s[i] = t[i]
  BY PrefixFacts
<1>3. Len(s) \in Nat /\ Len(t) \in Nat
  OBVIOUS
<1>4. Len(s) <= Len(Append(t, e)) /\ \A i \in 1..Len(s) : s[i] = Append(t, e)[i]
  BY <1>1, <1>2, <1>3
<1> QED BY <1>1, <1>4, PrefixFacts

\* How the stream of a connection moves on.
\* Left unexpanded, both are plain functions to the provers.
InOrder(r, s, q) == r \o s \o q
Pushed(q, e)     == Append(q, e)

LEMMA OneMoreWaits ==
  ASSUME NEW S, NEW r \in Seq(S), NEW s \in Seq(S), NEW q \in Seq(S), NEW e \in S
  PROVE  Pushed(InOrder(r, s, q), e) = InOrder(r, s, Pushed(q, e))
<1> DEFINE p == r \o s
           one == <<e>>
<1>1. p \in Seq(S) /\ p \o q \in Seq(S) /\ one \in Seq(S)
  BY ConcatProperties
<1>2. Append(p \o q, e) = (p \o q) \o one
  BY <1>1, AppendIsConcat
<1>3. Append(q, e) = q \o one
  BY AppendIsConcat
<1>4. (p \o q) \o one = p \o (q \o one)
  <2> HIDE DEF p, one
  <2> QED BY <1>1, ConcatAssociative
<1> QED BY <1>2, <1>3, <1>4 DEF InOrder, Pushed

LEMMA NoneIsSent ==
  ASSUME NEW S, NEW r \in Seq(S), NEW s \in Seq(S), NEW q \in Seq(S)
  PROVE  (r \o s) \o <<>> \o q = r \o s \o q
<1>1. r \o s \in Seq(S)
  BY ConcatProperties
<1> QED BY <1>1, ConcatEmptySeq

LEMMA NextIsSent ==
  ASSUME NEW S, NEW r \in Seq(S), NEW q \in Seq(S), q # <<>>
  PROVE  r \o <<>> \o q = r \o <<Head(q)>> \o Tail(q)
<1>1. Head(q) \in S /\ Tail(q) \in Seq(S) /\ <<Head(q)>> \in Seq(S)
  BY HeadTailProperties
<1>2. q = <<Head(q)>> \o Tail(q)
  <2>1. Len(q) \in Nat \ {0}
    BY EmptySeq
  <2>2. /\ Len(Tail(q)) = Len(q) - 1 /\ \A i \in 1..Len(Tail(q)) : Tail(q)[i] = q[i + 1]
    BY HeadTailProperties
  <2>3. /\ <<Head(q)>> \o Tail(q) \in Seq(S) /\ Len(<<Head(q)>> \o Tail(q)) = Len(q)
        /\ \A i \in 1..Len(q) : (<<Head(q)>> \o Tail(q))[i]
                                  = IF i <= 1 THEN <<Head(q)>>[i] ELSE Tail(q)[i - 1]
    BY <1>1, <2>1, <2>2, ConcatProperties
  <2>4. \A i \in 1..Len(q) : (<<Head(q)>> \o Tail(q))[i] = q[i]
    BY <2>1, <2>2, <2>3
  <2> QED BY <2>3, <2>4, SeqEqual
<1>3. r \o <<>> \o q = r \o q
  BY ConcatEmptySeq
<1>4. r \o <<Head(q)>> \o Tail(q) = r \o (<<Head(q)>> \o Tail(q))
  BY <1>1, ConcatAssociative
<1> QED BY <1>2, <1>3, <1>4

-----------------------------------------------------------------------------
(* Type correctness, in the parts that change together *)

AuthType    == /\ revoked \subseteq Sessions /\ loggedOut \subseteq revoked
               /\ late \subseteq Conns
ManagerType == /\ registered \in Seq(Conns)
               /\ sender \in [Conns -> {"none", "checking", "empty", "waiting", "sending",
                                        "done"}]
               /\ sending \in [Conns -> Seq(Payload)]
               /\ socket \in [Conns -> {"new", "open", "gone"}]
QueueType   == queue \in [Conns -> Seq(Payload)] /\ enqueued \in [Conns -> Seq(Payload)]
ThreadType  == /\ broadcasts \in 0..MaxEvents
               /\ cast \in [Threads -> [event : Payload, todo : Seq(Conns)]]
               /\ audience \in [Events -> SUBSET Conns]
               /\ cutShort \subseteq Events
TaskType    == /\ doomed \subseteq Conns
               /\ closing \in [Sessions \cup Users -> SUBSET Conns]
               /\ sweep \in Seq(Conns)
LoopType    == /\ handshake \in [Conns -> {"new", "accepting", "registered", "reading", "failed",
                                           "over"}]
               /\ onLoop \in Conns \cup {NoConn}
               /\ received \in [Conns -> Seq(Payload)]

LEMMA TypeParts ==
  /\ TypeOK <=> /\ AuthType /\ ManagerType /\ QueueType /\ ThreadType /\ TaskType /\ LoopType
  /\ TypeOK' <=> /\ AuthType' /\ ManagerType' /\ QueueType' /\ ThreadType' /\ TaskType'
                 /\ LoopType'
BY DEF TypeOK, AuthType, ManagerType, QueueType, ThreadType, TaskType, LoopType

LEMMA Unchanged ==
  /\ AuthType /\ UNCHANGED auth => AuthType'
  /\ ManagerType /\ UNCHANGED manager => ManagerType'
  /\ QueueType /\ UNCHANGED queues => QueueType'
  /\ ThreadType /\ UNCHANGED threads => ThreadType'
  /\ TaskType /\ UNCHANGED tasks => TaskType'
  /\ LoopType /\ UNCHANGED <<handshake, onLoop, received>> => LoopType'
BY DEF AuthType, ManagerType, QueueType, ThreadType, TaskType, LoopType, auth, manager, queues,
       threads, tasks

\* What Disconnect does to a registry without duplicates.
LEMMA DisconnectEffect ==
  ASSUME ManagerType, NEW c \in Conns, Disconnect(c)
  PROVE  /\ ManagerType'
         /\ (\A i, k \in DOMAIN registered : registered[i] = registered[k] => i = k) =>
              /\ \A i, k \in DOMAIN registered' : registered'[i] = registered'[k] => i = k
              /\ Registered' = Registered \ {c}
         /\ Registered' \subseteq Registered
         /\ sender'  = IF c \in Registered THEN [sender EXCEPT ![c] = "done"] ELSE sender
         /\ sending' = IF c \in Registered THEN [sending EXCEPT ![c] = <<>>] ELSE sending
<1>1. CASE c \notin Registered
  BY <1>1 DEF Disconnect, manager, ManagerType, Registered
<1>2. CASE c \in Registered
  <2>1. PICK i \in DOMAIN registered : registered[i] = c /\ registered' = RemoveAt(registered, i)
    BY <1>2 DEF Disconnect, Deregister
  <2>2. registered \in Seq(Conns)
    BY DEF ManagerType
  <2>3. /\ registered' \in Seq(Conns) /\ Len(registered') = Len(registered) - 1
        /\ \A k \in 1..(Len(registered) - 1) :
             registered'[k] = IF k < i THEN registered[k] ELSE registered[k + 1]
    BY <2>1, <2>2, RemoveAtFacts
  <2>4. /\ Len(registered) \in Nat /\ DOMAIN registered = 1..Len(registered)
        /\ DOMAIN registered' = 1..(Len(registered) - 1)
    BY <2>2, <2>3, LenProperties
  <2>5. Registered' \subseteq Registered
    BY <2>3, <2>4 DEF Registered, ToSet
  <2>6. ASSUME \A h, k \in DOMAIN registered : registered[h] = registered[k] => h = k
        PROVE  /\ \A h, k \in DOMAIN registered' : registered'[h] = registered'[k] => h = k
               /\ Registered' = Registered \ {c}
    <3>1. \A h, k \in DOMAIN registered' : registered'[h] = registered'[k] => h = k
      <4>1. \A k \in DOMAIN registered' :
              \E a \in DOMAIN registered : /\ registered'[k] = registered[a]
                                           /\ a = IF k < i THEN k ELSE k + 1
        BY <2>1, <2>3, <2>4
      <4> QED BY <2>1, <2>4, <2>6, <4>1
    <3>2. c \notin Registered'
      BY <2>1, <2>3, <2>4, <2>6 DEF Registered, ToSet
    <3>3. ASSUME NEW d \in Registered, d # c PROVE d \in Registered'
      <4>1. PICK k \in DOMAIN registered : registered[k] = d
        BY <3>3 DEF Registered, ToSet
      <4>2. CASE k < i
        BY <2>3, <2>4, <4>1, <4>2, <2>1 DEF Registered, ToSet
      <4>3. CASE k > i
        <5>1. k - 1 \in 1..(Len(registered) - 1) /\ registered'[k - 1] = d
          BY <2>1, <2>3, <2>4, <4>1, <4>3
        <5> QED BY <2>4, <5>1 DEF Registered, ToSet
      <4> QED BY <2>1, <2>4, <3>3, <4>1, <4>2, <4>3
    <3> QED BY <2>5, <3>1, <3>2, <3>3
  <2>7. /\ sender' = [sender EXCEPT ![c] = "done"] /\ sending' = [sending EXCEPT ![c] = <<>>]
        /\ socket' = [socket EXCEPT ![c] = "gone"]
    BY <1>2 DEF Disconnect
  <2>8. <<>> \in Seq(Payload)
    BY EmptySeq
  <2>9. ManagerType'
    BY <2>3, <2>7, <2>8 DEF ManagerType
  <2> QED BY <1>2, <2>5, <2>6, <2>7, <2>9
<1> QED BY <1>1, <1>2

LEMMA PutEffect ==
  ASSUME ManagerType, QueueType, NEW cs, NEW e \in Payload, Put(cs, e)
  PROVE  /\ QueueType'
         /\ sender' \in [Conns -> {"none", "checking", "empty", "waiting", "sending", "done"}]
         /\ \A c \in Conns : /\ sender'[c] = "none" <=> sender[c] = "none"
                             /\ sender'[c] = "done" <=> sender[c] = "done"
                             /\ sender'[c] = "sending" <=> sender[c] = "sending"
                             /\ \/ /\ c \in cs /\ queue'[c] = Append(queue[c], e)
                                   /\ enqueued'[c] = Append(enqueued[c], e)
                                \/ /\ c \notin cs /\ queue'[c] = queue[c]
                                   /\ enqueued'[c] = enqueued[c]
<1>1. \A c \in Conns : Append(queue[c], e) \in Seq(Payload) /\ Append(enqueued[c], e) \in Seq(Payload)
  BY AppendProperties DEF QueueType
<1>2. QueueType'
  BY <1>1 DEF QueueType, Put
<1>3. \A c \in Conns : \/ /\ c \in cs /\ queue'[c] = Append(queue[c], e)
                          /\ enqueued'[c] = Append(enqueued[c], e)
                       \/ /\ c \notin cs /\ queue'[c] = queue[c] /\ enqueued'[c] = enqueued[c]
  BY DEF Put
<1>4. sender' \in [Conns -> {"none", "checking", "empty", "waiting", "sending", "done"}]
  BY DEF Put, ManagerType
<1>5. \A c \in Conns : /\ sender'[c] = "none" <=> sender[c] = "none"
                       /\ sender'[c] = "done" <=> sender[c] = "done"
                       /\ sender'[c] = "sending" <=> sender[c] = "sending"
  BY DEF Put, ManagerType
<1> QED BY <1>2, <1>3, <1>4, <1>5

LEMMA TypeInit == Init => TypeOK
<1> SUFFICES ASSUME Init PROVE TypeOK
  OBVIOUS
<1>1. AuthType /\ TaskType
  BY DEF Init, AuthType, TaskType
<1>2. ManagerType /\ QueueType
  BY DEF Init, ManagerType, QueueType
<1>3. ThreadType
  BY LimitsAssumption DEF Init, ThreadType, NoCast, Payload
<1>4. LoopType
  BY DEF Init, LoopType
<1> QED BY <1>1, <1>2, <1>3, <1>4, TypeParts

\* A broadcast at work has a connection left to serve.
CastInv == \A t \in Threads : cast[t] # NoCast => cast[t].todo # <<>> /\ cast[t].event \in Events

LEMMA OwnerFacts ==
  /\ \A c \in Conns : SessionOf[c] \in Sessions /\ UserOf[SessionOf[c]] \in Users
  /\ \A target : SessionsOf(target) \subseteq Sessions
BY OwnersAssumption DEF SessionsOf

LEMMA CloseOneEffect ==
  ASSUME ManagerType, TaskType, NEW cs \in SUBSET Conns, NEW target \in Sessions \cup Users,
         CloseOneOf(cs, target)
  PROVE  /\ ManagerType' /\ closing' \in [Sessions \cup Users -> SUBSET Conns]
         /\ \/ cs = {} /\ UNCHANGED <<closing, manager>>
            \/ \E c \in cs : Disconnect(c) /\ closing' = [closing EXCEPT ![target] = cs \ {c}]
<1>1. CASE cs = {}
  BY <1>1, Unchanged DEF CloseOneOf, TaskType
<1>2. ASSUME NEW c \in cs, Disconnect(c), closing' = [closing EXCEPT ![target] = cs \ {c}]
      PROVE  ManagerType' /\ closing' \in [Sessions \cup Users -> SUBSET Conns]
  <2>1. ManagerType'
    BY <1>2, DisconnectEffect
  <2> QED BY <1>2, <2>1 DEF TaskType
<1> QED BY <1>1, <1>2 DEF CloseOneOf

LEMMA SweepOverEffect ==
  ASSUME ManagerType, NEW cs \in Seq(Conns), SweepOver(cs)
  PROVE  /\ ManagerType' /\ sweep' \in Seq(Conns)
         /\ UNCHANGED manager \/ \E c \in Conns : Disconnect(c)
<1>1. CASE sweep' = <<>> /\ UNCHANGED manager
  BY <1>1, Unchanged, EmptySeq
<1>2. ASSUME NEW i \in DeadIn(cs), Disconnect(cs[i]), sweep' = SubSeq(cs, i + 1, Len(cs))
      PROVE  ManagerType' /\ sweep' \in Seq(Conns) /\ \E c \in Conns : Disconnect(c)
  <2>1. i \in 1..Len(cs) /\ Len(cs) \in Nat /\ cs[i] \in Conns
    BY <1>2, ElementOfSeq, LenProperties DEF DeadIn
  <2>2. \A k \in (i + 1)..Len(cs) : cs[k] \in Conns
    BY <2>1, ElementOfSeq
  <2>3. SubSeq(cs, i + 1, Len(cs)) \in Seq(Conns)
    BY <2>1, <2>2, SubSeqProperties
  <2> QED BY <1>2, <2>1, <2>3, DisconnectEffect
<1> QED BY <1>1, <1>2 DEF SweepOver

LEMMA TypeNext == TypeOK /\ CastInv /\ [Next]_vars => TypeOK'
<1> SUFFICES ASSUME TypeOK, CastInv, [Next]_vars PROVE TypeOK'
  OBVIOUS
<1>0. AuthType /\ ManagerType /\ QueueType /\ ThreadType /\ TaskType /\ LoopType
  BY TypeParts
<1>1. ASSUME NEW c \in Conns, HandshakeCheck(c) PROVE TypeOK'
  <2>1. ManagerType'
    BY <1>0, <1>1 DEF HandshakeCheck, ManagerType
  <2>2. LoopType'
    BY <1>0, <1>1 DEF HandshakeCheck, LoopType
  <2> QED BY <1>0, <1>1, <2>1, <2>2, Unchanged, TypeParts DEF HandshakeCheck
<1>2. ASSUME NEW c \in Conns, HandshakeRegister(c) PROVE TypeOK'
  <2>1. Append(registered, c) \in Seq(Conns)
    BY <1>0, AppendProperties DEF ManagerType
  <2>2. ManagerType'
    BY <1>0, <1>2, <2>1 DEF HandshakeRegister, ManagerType
  <2>3. LoopType'
    BY <1>0, <1>2 DEF HandshakeRegister, LoopType
  <2> QED BY <1>0, <1>2, <2>2, <2>3, Unchanged, TypeParts DEF HandshakeRegister
<1>3. ASSUME NEW c \in Conns, HandshakeReady(c) PROVE TypeOK'
  <2>1. LoopType'
    BY <1>0, <1>3 DEF HandshakeReady, LoopType
  <2>2. ManagerType' /\ QueueType'
    <3>1. CASE Put({c}, Ready) /\ UNCHANGED socket
      BY <1>0, <1>3, <3>1, PutEffect DEF HandshakeReady, ManagerType, Payload
    <3>2. CASE socket' = [socket EXCEPT ![c] = "gone"] /\ UNCHANGED <<sender, queues>>
      BY <1>0, <1>3, <3>2, Unchanged DEF HandshakeReady, ManagerType
    <3> QED BY <1>3, <3>1, <3>2 DEF HandshakeReady
  <2> QED BY <1>0, <1>3, <2>1, <2>2, Unchanged, TypeParts DEF HandshakeReady
<1>4. ASSUME NEW c \in Conns, ReadLoopEnds(c) PROVE TypeOK'
  <2>1. ManagerType'
    BY <1>0, <1>4, DisconnectEffect DEF ReadLoopEnds
  <2>2. LoopType'
    BY <1>0, <1>4 DEF ReadLoopEnds, LoopType
  <2> QED BY <1>0, <1>4, <2>1, <2>2, Unchanged, TypeParts DEF ReadLoopEnds
<1>5. ASSUME NEW c \in Conns, ClientVanishes(c) PROVE TypeOK'
  <2>1. ManagerType'
    BY <1>0, <1>5 DEF ClientVanishes, ManagerType
  <2> QED BY <1>0, <1>5, <2>1, Unchanged, TypeParts DEF ClientVanishes
<1>6. ASSUME NEW c \in Conns, SenderGet(c) PROVE TypeOK'
  <2>1. LoopType'
    BY <1>0, <1>6 DEF SenderGet, LoopType
  <2>2. CASE queue[c] # <<>>
    <3>1. Head(queue[c]) \in Payload /\ Tail(queue[c]) \in Seq(Payload)
      BY <1>0, <2>2, HeadTailProperties DEF QueueType
    <3>2. <<Head(queue[c])>> \in Seq(Payload)
      BY <3>1
    <3>3. ManagerType'
      <4>1. /\ sender' = [sender EXCEPT ![c] = "sending"]
            /\ sending' = [sending EXCEPT ![c] = <<Head(queue[c])>>]
            /\ UNCHANGED <<registered, socket>>
        BY <1>6, <2>2 DEF SenderGet
      <4> QED BY <1>0, <3>2, <4>1 DEF ManagerType
    <3>4. QueueType'
      BY <1>0, <1>6, <2>2, <3>1 DEF SenderGet, QueueType
    <3> QED BY <1>0, <1>6, <2>1, <3>3, <3>4, Unchanged, TypeParts DEF SenderGet
  <2>3. CASE queue[c] = <<>>
    <3>1. ManagerType'
      BY <1>0, <1>6, <2>3 DEF SenderGet, ManagerType
    <3>2. QueueType'
      BY <1>0, <1>6, <2>3 DEF SenderGet, QueueType
    <3> QED BY <1>0, <1>6, <2>1, <3>1, <3>2, Unchanged, TypeParts DEF SenderGet
  <2> QED BY <2>2, <2>3
<1>7. ASSUME NEW c \in Conns, SenderWait(c) PROVE TypeOK'
  <2>1. ManagerType'
    BY <1>0, <1>7 DEF SenderWait, ManagerType
  <2>2. LoopType'
    BY <1>0, <1>7 DEF SenderWait, LoopType
  <2> QED BY <1>0, <1>7, <2>1, <2>2, Unchanged, TypeParts DEF SenderWait
<1>8. ASSUME NEW c \in Conns, SendSucceeds(c) PROVE TypeOK'
  <2>1. received[c] \o sending[c] \in Seq(Payload) /\ <<>> \in Seq(Payload)
    BY <1>0, ConcatProperties, EmptySeq DEF LoopType, ManagerType
  <2>2. ManagerType'
    BY <1>0, <1>8, <2>1 DEF SendSucceeds, ManagerType
  <2>3. LoopType'
    BY <1>0, <1>8, <2>1 DEF SendSucceeds, LoopType
  <2> QED BY <1>0, <1>8, <2>2, <2>3, Unchanged, TypeParts DEF SendSucceeds
<1>9. ASSUME NEW c \in Conns, SendFails(c) PROVE TypeOK'
  <2>1. ManagerType'
    BY <1>0, <1>9, DisconnectEffect DEF SendFails
  <2> QED BY <1>0, <1>9, <2>1, Unchanged, TypeParts DEF SendFails
<1>10. ASSUME NEW c \in Conns, DisconnectTask(c) PROVE TypeOK'
  <2>1. ManagerType'
    BY <1>0, <1>10, DisconnectEffect DEF DisconnectTask
  <2>2. TaskType'
    BY <1>0, <1>10 DEF DisconnectTask, TaskType
  <2> QED BY <1>0, <1>10, <2>1, <2>2, Unchanged, TypeParts DEF DisconnectTask
<1>11. ASSUME NEW t \in Threads, BroadcastStart(t) PROVE TypeOK'
  <2>1. registered \in Seq(Conns) /\ Registered \subseteq Conns
    BY <1>0, ElementOfSeq, LenProperties DEF ManagerType, Registered, ToSet
  <2>2. broadcasts + 1 \in Events /\ broadcasts + 1 \in 0..MaxEvents
    BY <1>0, <1>11, LimitsAssumption DEF BroadcastStart, ThreadType, Events
  <2>3. audience' \in [Events -> SUBSET Conns]
    BY <1>0, <1>11, <2>1 DEF BroadcastStart, ThreadType
  <2>4. cast' \in [Threads -> [event : Payload, todo : Seq(Conns)]]
    <3>1. NoCast \in [event : Payload, todo : Seq(Conns)]
      BY DEF NoCast, Payload
    <3>2. [event |-> broadcasts + 1, todo |-> registered] \in [event : Payload, todo : Seq(Conns)]
      BY <2>1, <2>2 DEF Payload
    <3> QED BY <1>0, <1>11, <3>1, <3>2 DEF BroadcastStart, ThreadType
  <2>5. ThreadType'
    BY <1>0, <1>11, <2>2, <2>3, <2>4 DEF BroadcastStart, ThreadType
  <2> QED BY <1>0, <1>11, <2>5, Unchanged, TypeParts DEF BroadcastStart
<1>12. ASSUME NEW t \in Threads, BroadcastPut(t) PROVE TypeOK'
  <2> DEFINE c == Head(cast[t].todo)
             rest == Tail(cast[t].todo)
  <2>1. cast[t].todo \in Seq(Conns) /\ cast[t].todo # <<>> /\ cast[t].event \in Payload
    BY <1>0, <1>12 DEF BroadcastPut, CastInv, ThreadType
  <2>2. rest \in Seq(Conns)
    BY <2>1, HeadTailProperties
  <2>3. NoCast \in [event : Payload, todo : Seq(Conns)]
    BY DEF NoCast, Payload
  <2>4. [cast[t] EXCEPT !.todo = rest] \in [event : Payload, todo : Seq(Conns)]
    BY <1>0, <2>2 DEF ThreadType
  <2>5. \/ cast' = [cast EXCEPT ![t] = NoCast]
        \/ cast' = [cast EXCEPT ![t] = [cast[t] EXCEPT !.todo = rest]]
    BY <1>12 DEF BroadcastPut
  <2> HIDE DEF rest
  <2>6. ThreadType'
    <3>1. cast' \in [Threads -> [event : Payload, todo : Seq(Conns)]]
      BY <1>0, <2>3, <2>4, <2>5 DEF ThreadType
    <3>2. cast[t].event \in Events
      BY <1>12 DEF BroadcastPut, CastInv
    <3>3. cutShort' \subseteq Events
      BY <1>0, <1>12, <3>2 DEF BroadcastPut, ThreadType
    <3> QED BY <1>0, <1>12, <3>1, <3>3 DEF BroadcastPut, ThreadType
  <2>7. ManagerType' /\ QueueType'
    <3>1. CASE Put({c}, cast[t].event)
      BY <1>0, <1>12, <2>1, <3>1, PutEffect DEF BroadcastPut, ManagerType
    <3>2. CASE UNCHANGED <<sender, queues>>
      BY <1>0, <1>12, <3>2, Unchanged DEF BroadcastPut, ManagerType
    <3> QED BY <1>12, <3>1, <3>2 DEF BroadcastPut
  <2>8. UNCHANGED <<handshake, onLoop, received, auth, tasks>>
    BY <1>12 DEF BroadcastPut
  <2> QED BY <1>0, <2>6, <2>7, <2>8, Unchanged, TypeParts
<1>13. ASSUME BroadcastOnLoop PROVE TypeOK'
  <2>1. Registered \subseteq Conns
    BY <1>0, ElementOfSeq, LenProperties DEF ManagerType, Registered, ToSet
  <2>2. broadcasts + 1 \in Events /\ broadcasts + 1 \in 0..MaxEvents /\ broadcasts + 1 \in Payload
    BY <1>0, <1>13, LimitsAssumption DEF BroadcastOnLoop, ThreadType, Events, Payload
  <2>3. ThreadType'
    BY <1>0, <1>13, <2>1, <2>2 DEF BroadcastOnLoop, ThreadType
  <2>4. ManagerType' /\ QueueType'
    BY <1>0, <1>13, <2>2, PutEffect DEF BroadcastOnLoop, ManagerType
  <2>5. TaskType'
    BY <1>0, <1>13, <2>1 DEF BroadcastOnLoop, TaskType
  <2>6. UNCHANGED <<handshake, onLoop, received, auth>>
    BY <1>13 DEF BroadcastOnLoop
  <2> QED BY <1>0, <2>3, <2>4, <2>5, <2>6, Unchanged, TypeParts
<1>14. ASSUME NEW target \in Sessions \cup Users, CloseRoute(target) PROVE TypeOK'
  <2>1. Of(target) \in SUBSET Conns
    BY <1>0, ElementOfSeq, LenProperties DEF ManagerType, Of, Registered, ToSet
  <2>2. ManagerType' /\ closing' \in [Sessions \cup Users -> SUBSET Conns]
    BY <1>0, <1>14, <2>1, CloseOneEffect DEF CloseRoute
  <2>3. TaskType'
    BY <1>0, <1>14, <2>2 DEF CloseRoute, TaskType
  <2>4. AuthType'
    BY <1>0, <1>14, OwnerFacts DEF CloseRoute, RevokeSessionsOf, AuthType
  <2>5. UNCHANGED <<handshake, onLoop, received, queues, threads>>
    BY <1>14 DEF CloseRoute
  <2> QED BY <1>0, <2>2, <2>3, <2>4, <2>5, Unchanged, TypeParts
<1>15. ASSUME NEW target \in Sessions \cup Users, CloseNext(target) PROVE TypeOK'
  <2>1. closing[target] \in SUBSET Conns
    BY <1>0 DEF TaskType
  <2>2. ManagerType' /\ closing' \in [Sessions \cup Users -> SUBSET Conns]
    BY <1>0, <1>15, <2>1, CloseOneEffect DEF CloseNext
  <2>3. TaskType'
    BY <1>0, <1>15, <2>2 DEF CloseNext, TaskType
  <2> QED BY <1>0, <1>15, <2>2, <2>3, Unchanged, TypeParts DEF CloseNext
<1>16. ASSUME NEW s \in Sessions, RevokeOutOfBand(s) PROVE TypeOK'
  <2>1. AuthType'
    BY <1>0, <1>16 DEF RevokeOutOfBand, AuthType
  <2> QED BY <1>0, <1>16, <2>1, Unchanged, TypeParts DEF RevokeOutOfBand
<1>17. ASSUME SweepStart \/ SweepNext PROVE TypeOK'
  <2>1. registered \in Seq(Conns) /\ sweep \in Seq(Conns)
    BY <1>0 DEF ManagerType, TaskType
  <2>2. ManagerType' /\ sweep' \in Seq(Conns)
    BY <1>0, <1>17, <2>1, SweepOverEffect DEF SweepStart, SweepNext
  <2>3. TaskType'
    BY <1>0, <1>17, <2>2 DEF SweepStart, SweepNext, TaskType
  <2>4. UNCHANGED <<handshake, onLoop, received, queues, threads, auth>>
    BY <1>17 DEF SweepStart, SweepNext
  <2> QED BY <1>0, <2>2, <2>3, <2>4, Unchanged, TypeParts
<1>18. CASE UNCHANGED vars
  BY <1>0, <1>18, Unchanged, TypeParts
     DEF vars, auth, manager, queues, threads, tasks
<1> QED BY <1>1, <1>2, <1>3, <1>4, <1>5, <1>6, <1>7, <1>8, <1>9, <1>10, <1>11, <1>12, <1>13,
           <1>14, <1>15, <1>16, <1>17, <1>18 DEF Next, Handshake, Sender

-----------------------------------------------------------------------------
(* The inductive invariant *)

\* A connection is registered once, has a sender as long as it is registered, and
\* none before.
RegistryInv ==
  /\ \A i, k \in DOMAIN registered : registered[i] = registered[k] => i = k
  /\ \A c \in Conns : c \in Registered <=> sender[c] \notin {"none", "done"}
  /\ \A c \in Conns : handshake[c] \in {"new", "accepting"} => sender[c] = "none"
  /\ \A c \in Conns : handshake[c] = "registered" => sender[c] # "none"
  /\ \A t \in Threads : \A i \in DOMAIN cast[t].todo : sender[cast[t].todo[i]] # "none"

\* Nothing is queued before the registration; then what the queue took is what
\* the client has, what is on its way, and what waits, in this order.
StreamInv ==
  /\ \A c \in Conns : sender[c] = "none" =>
       queue[c] = <<>> /\ enqueued[c] = <<>> /\ received[c] = <<>>
  /\ \A c \in Conns : sender[c] # "sending" => sending[c] = <<>>
  /\ QueueIsDelivered

\* A broadcast starts with connections that have been registered, so that none joins
\* its audience later.
CoverInv ==
  /\ \A e \in Events : \A c \in audience[e] : sender[c] # "none"
  /\ MissedOnlyWhenCutShort

\* A handshake that was let in before its session was closed is known to be late.
LateInv ==
  /\ \A c \in Conns :
       handshake[c] = "accepting" /\ SessionOf[c] \in loggedOut => c \in late
  /\ RevokedIsClosedOrLate

IInv == CastInv /\ RegistryInv /\ StreamInv /\ CoverInv /\ LateInv

LEMMA IInvInit == Init => IInv
<1> SUFFICES ASSUME Init PROVE IInv
  OBVIOUS
<1>1. Registered = {}
  BY DEF Init, Registered, ToSet
<1>2. CastInv /\ LateInv
  BY <1>1 DEF Init, CastInv, LateInv, RevokedIsClosedOrLate
<1>3. RegistryInv
  BY <1>1 DEF Init, RegistryInv, NoCast
<1>4. \A c \in Conns : IsPrefix(received[c], enqueued[c])
  <2>1. <<>> \in Seq(Payload) /\ <<>> \o <<>> = <<>>
    BY EmptySeq, ConcatEmptySeq
  <2>2. IsPrefix(<<>>, <<>> \o <<>>)
    BY <2>1, PrefixOfConcat
  <2>3. IsPrefix(<<>>, <<>>)
    BY <2>1, <2>2
  <2> QED BY <2>3 DEF Init
<1>5. StreamInv
  BY <1>1, <1>4 DEF Init, StreamInv, QueueIsDelivered
<1>6. CoverInv
  BY <1>1 DEF Init, CoverInv, MissedOnlyWhenCutShort
<1> QED BY <1>2, <1>3, <1>5, <1>6 DEF IInv

LEMMA CastSteps ==
  ASSUME [Next]_vars
  PROVE  (\E t \in Threads : BroadcastStart(t) \/ BroadcastPut(t)) \/ UNCHANGED cast
<1>1. ASSUME NEW c \in Conns, Handshake(c) \/ ReadLoopEnds(c) \/ ClientVanishes(c)
      PROVE  UNCHANGED cast
  BY <1>1 DEF Handshake, HandshakeCheck, HandshakeRegister, HandshakeReady, ReadLoopEnds,
              ClientVanishes, threads
<1>2. ASSUME NEW c \in Conns, Sender(c) \/ DisconnectTask(c) PROVE UNCHANGED cast
  BY <1>2 DEF Sender, SenderGet, SenderWait, SendSucceeds, SendFails, DisconnectTask, threads
<1>3. ASSUME \/ BroadcastOnLoop \/ SweepStart \/ SweepNext \/ UNCHANGED vars
             \/ \E target \in Sessions \cup Users : CloseRoute(target) \/ CloseNext(target)
             \/ \E s \in Sessions : RevokeOutOfBand(s)
      PROVE  UNCHANGED cast
  BY <1>3 DEF BroadcastOnLoop, SweepStart, SweepNext, CloseRoute, CloseNext, RevokeOutOfBand,
              threads, vars
<1> QED BY <1>1, <1>2, <1>3 DEF Next

LEMMA CastNext == TypeOK /\ CastInv /\ [Next]_vars => CastInv'
<1> SUFFICES ASSUME TypeOK, CastInv, [Next]_vars PROVE CastInv'
  OBVIOUS
<1>0. cast \in [Threads -> [event : Payload, todo : Seq(Conns)]]
  BY DEF TypeOK
<1>1. ASSUME NEW t \in Threads, BroadcastStart(t) PROVE CastInv'
  <2>1. broadcasts + 1 \in Events
    <3>1. broadcasts \in 0..MaxEvents
      BY DEF TypeOK
    <3> QED BY <1>1, <3>1, LimitsAssumption DEF BroadcastStart, Events
  <2>2. ASSUME registered # <<>>
        PROVE  cast' = [cast EXCEPT ![t] = [event |-> broadcasts + 1, todo |-> registered]]
    BY <1>1, <2>2 DEF BroadcastStart
  <2>3. ASSUME registered = <<>> PROVE cast' = [cast EXCEPT ![t] = NoCast]
    BY <1>1, <2>3 DEF BroadcastStart
  <2>4. \A u \in Threads : u # t => cast'[u] = cast[u]
    BY <1>0, <2>2, <2>3
  <2>5. cast'[t] # NoCast => cast'[t].todo # <<>> /\ cast'[t].event \in Events
    BY <1>0, <2>1, <2>2, <2>3
  <2> QED BY <2>4, <2>5 DEF CastInv
<1>2. ASSUME NEW t \in Threads, BroadcastPut(t) PROVE CastInv'
  <2> DEFINE rest == Tail(cast[t].todo)
  <2>1. \/ cast' = [cast EXCEPT ![t] = NoCast]
        \/ rest # <<>> /\ cast' = [cast EXCEPT ![t] = [cast[t] EXCEPT !.todo = rest]]
    BY <1>2 DEF BroadcastPut
  <2>2. cast[t] # NoCast
    BY <1>2 DEF BroadcastPut
  <2> HIDE DEF rest
  <2>3. [cast[t] EXCEPT !.todo = rest].todo = rest
        /\ [cast[t] EXCEPT !.todo = rest].event = cast[t].event
    BY DEF TypeOK
  <2> QED BY <2>1, <2>2, <2>3 DEF CastInv, TypeOK
<1>3. CASE UNCHANGED cast
  BY <1>3 DEF CastInv
<1> QED BY <1>1, <1>2, <1>3, CastSteps

\* What a step may do to a connection: one that is registered is served or
\* disconnected, one that has been registered may still be put to.
Quiet == UNCHANGED <<registered, sender, sending, queues, received>>
PutTo == \E cs \in SUBSET Conns, e \in Payload :
           /\ Put(cs, e) /\ UNCHANGED <<registered, sending, received>>
           /\ \A c \in cs : sender[c] # "none"
Drop  == (\E c \in Conns : Disconnect(c)) /\ UNCHANGED <<queues, received>>

LEMMA CloseSteps ==
  ASSUME TypeOK, NEW target \in Sessions \cup Users, CloseRoute(target) \/ CloseNext(target)
  PROVE  Quiet \/ Drop
<1>1. Of(target) \in SUBSET Conns /\ closing[target] \in SUBSET Conns
  BY ElementOfSeq, LenProperties DEF TypeOK, Of, Registered, ToSet
<1>2. UNCHANGED <<queues, received>>
  BY DEF CloseRoute, CloseNext
<1>3. CloseOneOf(Of(target), target) \/ CloseOneOf(closing[target], target)
  BY DEF CloseRoute, CloseNext
<1>4. ManagerType /\ TaskType
  BY TypeParts
<1>5. ASSUME NEW cs \in SUBSET Conns, CloseOneOf(cs, target)
      PROVE  UNCHANGED manager \/ \E c \in Conns : Disconnect(c)
  <2>1. \/ UNCHANGED <<closing, manager>>
        \/ \E c \in cs : Disconnect(c) /\ closing' = [closing EXCEPT ![target] = cs \ {c}]
    BY <1>5 DEF CloseOneOf
  <2> QED BY <2>1
<1>6. UNCHANGED manager \/ \E c \in Conns : Disconnect(c)
  BY <1>1, <1>3, <1>5
<1> QED BY <1>2, <1>6 DEF Quiet, Drop, manager

LEMMA StepKinds ==
  ASSUME TypeOK, CastInv, RegistryInv, [Next]_vars
  PROVE  \/ Quiet \/ PutTo \/ Drop
         \/ \E c \in Conns : \/ HandshakeRegister(c) \/ SenderGet(c) \/ SenderWait(c)
                             \/ SendSucceeds(c)
<1>0. registered \in Seq(Conns) /\ Registered \subseteq Conns
  BY ElementOfSeq, LenProperties DEF TypeOK, Registered, ToSet
<1>1. ASSUME NEW c \in Conns, HandshakeReady(c) PROVE Quiet \/ PutTo
  <2>1. UNCHANGED <<registered, sending, received>> /\ sender[c] # "none"
    BY <1>1 DEF HandshakeReady, RegistryInv
  <2>2. Put({c}, Ready) \/ UNCHANGED <<sender, queues>>
    BY <1>1 DEF HandshakeReady
  <2> QED BY <2>1, <2>2 DEF Quiet, PutTo, Payload
<1>2. ASSUME NEW t \in Threads, BroadcastPut(t) PROVE Quiet \/ PutTo
  <2> DEFINE c == Head(cast[t].todo)
  <2>1. cast[t].todo \in Seq(Conns) /\ cast[t].todo # <<>> /\ cast[t].event \in Payload
    BY <1>2 DEF BroadcastPut, CastInv, TypeOK
  <2>2. 1 \in DOMAIN cast[t].todo /\ c = cast[t].todo[1] /\ c \in Conns
    BY <2>1
  <2>3. sender[c] # "none"
    BY <2>2 DEF RegistryInv
  <2>4. UNCHANGED <<registered, sending, received>>
    BY <1>2 DEF BroadcastPut
  <2>5. Put({c}, cast[t].event) \/ UNCHANGED <<sender, queues>>
    BY <1>2 DEF BroadcastPut
  <2> QED BY <2>1, <2>2, <2>3, <2>4, <2>5 DEF Quiet, PutTo
<1>3. ASSUME BroadcastOnLoop PROVE PutTo
  <2>1. broadcasts + 1 \in Payload
    BY <1>3, LimitsAssumption DEF BroadcastOnLoop, TypeOK, Payload, Events
  <2>2. \A c \in Registered : sender[c] # "none"
    BY <1>0 DEF RegistryInv
  <2>3. Put({c \in Registered : HasRoom(c)}, broadcasts + 1)
        /\ UNCHANGED <<registered, sending, received>>
    BY <1>3 DEF BroadcastOnLoop
  <2>4. {c \in Registered : HasRoom(c)} \in SUBSET Conns
    BY <1>0
  <2> QED BY <2>1, <2>2, <2>3, <2>4 DEF PutTo
<1>4. ASSUME NEW c \in Conns, ReadLoopEnds(c) \/ SendFails(c) \/ DisconnectTask(c) PROVE Drop
  BY <1>4 DEF ReadLoopEnds, SendFails, DisconnectTask, Drop
<1>5. ASSUME SweepStart \/ SweepNext PROVE Quiet \/ Drop
  <2>1. UNCHANGED <<queues, received>> /\ (SweepOver(registered) \/ SweepOver(sweep))
    BY <1>5 DEF SweepStart, SweepNext
  <2>2. ManagerType /\ sweep \in Seq(Conns)
    BY TypeParts DEF TaskType
  <2>3. UNCHANGED manager \/ \E c \in Conns : Disconnect(c)
    BY <1>0, <2>1, <2>2, SweepOverEffect
  <2> QED BY <2>1, <2>3 DEF Quiet, Drop, manager
<1>6. ASSUME \/ \E c \in Conns : HandshakeCheck(c) \/ ClientVanishes(c)
             \/ \E t \in Threads : BroadcastStart(t)
             \/ \E s \in Sessions : RevokeOutOfBand(s)
             \/ UNCHANGED vars
      PROVE  Quiet
  BY <1>6 DEF HandshakeCheck, ClientVanishes, BroadcastStart, RevokeOutOfBand, Quiet, manager,
              queues, vars
<1> QED BY <1>1, <1>2, <1>3, <1>4, <1>5, <1>6, CloseSteps DEF Next, Handshake, Sender

\* Only the registration of a connection gives it its first sender, and no step
\* takes the registry apart.
LEMMA RegistryEffect ==
  ASSUME TypeOK, CastInv, RegistryInv, [Next]_vars
  PROVE  /\ \A i, k \in DOMAIN registered' : registered'[i] = registered'[k] => i = k
         /\ \A c \in Conns : c \in Registered' <=> sender'[c] \notin {"none", "done"}
         /\ \A c \in Conns : sender[c] # "none" => sender'[c] # "none"
         /\ \A c \in Conns : sender[c] = "none" /\ sender'[c] # "none" => HandshakeRegister(c)
         /\ \A c \in Conns : c \in Registered' => c \in Registered \/ HandshakeRegister(c)
<1>0. ManagerType /\ QueueType /\ registered \in Seq(Conns)
  BY TypeParts DEF ManagerType
<1> DEFINE Same == /\ UNCHANGED registered
                   /\ \A c \in Conns : /\ sender'[c] = "none" <=> sender[c] = "none"
                                       /\ sender'[c] = "done" <=> sender[c] = "done"
<1>1. ASSUME Same
      PROVE  /\ \A i, k \in DOMAIN registered' : registered'[i] = registered'[k] => i = k
             /\ \A c \in Conns : c \in Registered' <=> sender'[c] \notin {"none", "done"}
             /\ \A c \in Conns : sender'[c] = "none" <=> sender[c] = "none"
             /\ Registered' = Registered
  <2>1. Registered' = Registered
    BY <1>1 DEF Registered
  <2> QED BY <1>1, <2>1 DEF RegistryInv
<1>2. CASE Quiet
  <2>1. Same
    BY <1>2 DEF Quiet
  <2> QED BY <2>1, <1>1
<1>3. CASE PutTo
  <2>1. Same
    BY <1>0, <1>3, PutEffect DEF PutTo
  <2> QED BY <2>1, <1>1
<1>4. ASSUME NEW c \in Conns, SenderGet(c) \/ SenderWait(c) \/ SendSucceeds(c) PROVE Same
  BY <1>0, <1>4 DEF SenderGet, SenderWait, SendSucceeds, ManagerType
<1>5. ASSUME NEW c \in Conns, HandshakeRegister(c)
      PROVE  /\ \A i, k \in DOMAIN registered' : registered'[i] = registered'[k] => i = k
             /\ \A d \in Conns : d \in Registered' <=> sender'[d] \notin {"none", "done"}
             /\ \A d \in Conns : sender[d] # "none" => sender'[d] # "none"
             /\ \A d \in Conns \ {c} : sender'[d] = sender[d]
             /\ Registered' = Registered \cup {c}
  <2>1. sender[c] = "none" /\ c \notin Registered
    BY <1>5 DEF HandshakeRegister, RegistryInv
  <2>2. /\ DOMAIN registered = 1..Len(registered) /\ Len(registered) \in Nat
        /\ DOMAIN registered' = 1..(Len(registered) + 1)
        /\ registered'[Len(registered) + 1] = c
        /\ \A i \in 1..Len(registered) : registered'[i] = registered[i]
    BY <1>0, <1>5, AppendProperties, LenProperties DEF HandshakeRegister
  <2>3. Registered' = Registered \cup {c}
    BY <2>2 DEF Registered, ToSet
  <2>4. \A i \in 1..Len(registered) : registered[i] # c
    BY <2>1, <2>2 DEF Registered, ToSet
  <2>5. \A i, k \in DOMAIN registered' : registered'[i] = registered'[k] => i = k
    BY <2>2, <2>4 DEF RegistryInv
  <2>6. sender' = [sender EXCEPT ![c] = "checking"]
    BY <1>5 DEF HandshakeRegister
  <2>7. \A d \in Conns \ {c} : sender'[d] = sender[d]
    BY <1>0, <2>6 DEF ManagerType
  <2>8. sender'[c] = "checking"
    BY <1>0, <2>6 DEF ManagerType
  <2>9. \A d \in Conns : d \in Registered' <=> sender'[d] \notin {"none", "done"}
    BY <2>3, <2>7, <2>8 DEF RegistryInv
  <2> QED BY <2>3, <2>5, <2>7, <2>8, <2>9
<1>6. ASSUME NEW c \in Conns, Disconnect(c)
      PROVE  /\ \A i, k \in DOMAIN registered' : registered'[i] = registered'[k] => i = k
             /\ \A d \in Conns : d \in Registered' <=> sender'[d] \notin {"none", "done"}
             /\ \A d \in Conns : sender'[d] = "none" <=> sender[d] = "none"
             /\ Registered' \subseteq Registered
  <2>1. /\ \A i, k \in DOMAIN registered' : registered'[i] = registered'[k] => i = k
        /\ Registered' = Registered \ {c}
        /\ sender' = IF c \in Registered THEN [sender EXCEPT ![c] = "done"] ELSE sender
    BY <1>0, <1>6, DisconnectEffect DEF RegistryInv
  <2>2. \A d \in Conns : d \in Registered <=> sender[d] \notin {"none", "done"}
    BY DEF RegistryInv
  <2>3. sender \in [Conns -> {"none", "checking", "empty", "waiting", "sending", "done"}]
    BY <1>0 DEF ManagerType
  <2>4. CASE c \in Registered
    BY <2>1, <2>2, <2>3, <2>4
  <2>5. CASE c \notin Registered
    BY <2>1, <2>2, <2>5
  <2> QED BY <2>4, <2>5
<1>7. CASE Drop
  BY <1>6, <1>7 DEF Drop
<1>8. CASE \E c \in Conns : SenderGet(c) \/ SenderWait(c) \/ SendSucceeds(c)
  <2>1. Same
    BY <1>4, <1>8
  <2> QED BY <2>1, <1>1
<1>9. CASE \E c \in Conns : HandshakeRegister(c)
  BY <1>5, <1>9
<1> HIDE DEF Same
<1> QED BY <1>2, <1>3, <1>7, <1>8, <1>9, StepKinds

\* A handshake only goes forward.
LEMMA HandshakeSteps ==
  ASSUME TypeOK, [Next]_vars, NEW c \in Conns
  PROVE  /\ handshake'[c] \in {"new", "accepting"} => handshake[c] \in {"new", "accepting"}
         /\ handshake'[c] = "registered" => handshake[c] = "registered" \/ HandshakeRegister(c)
         /\ handshake'[c] = "accepting" => handshake[c] = "accepting" \/ HandshakeCheck(c)
<1>0. handshake \in [Conns -> {"new", "accepting", "registered", "reading", "failed", "over"}]
  BY DEF TypeOK
<1>1. ASSUME NEW d \in Conns, Handshake(d) \/ ReadLoopEnds(d)
      PROVE  /\ c # d => handshake'[c] = handshake[c]
             /\ \/ HandshakeCheck(d) /\ handshake[d] = "new" /\ handshake'[d] # "registered"
                \/ HandshakeRegister(d) /\ handshake'[d] = "registered"
                \/ handshake'[d] \in {"reading", "failed", "over"}
  BY <1>0, <1>1 DEF Handshake, HandshakeCheck, HandshakeRegister, HandshakeReady, ReadLoopEnds
<1>2. ASSUME NEW d \in Conns, ClientVanishes(d) \/ Sender(d) \/ DisconnectTask(d)
      PROVE  UNCHANGED handshake
  BY <1>2 DEF ClientVanishes, Sender, SenderGet, SenderWait, SendSucceeds, SendFails,
              DisconnectTask
<1>3. ASSUME \/ BroadcastOnLoop \/ SweepStart \/ SweepNext \/ UNCHANGED vars
             \/ \E t \in Threads : BroadcastStart(t) \/ BroadcastPut(t)
             \/ \E target \in Sessions \cup Users : CloseRoute(target) \/ CloseNext(target)
             \/ \E s \in Sessions : RevokeOutOfBand(s)
      PROVE  UNCHANGED handshake
  BY <1>3 DEF BroadcastOnLoop, SweepStart, SweepNext, BroadcastStart, BroadcastPut, CloseRoute,
              CloseNext, RevokeOutOfBand, vars
<1> QED BY <1>1, <1>2, <1>3 DEF Next

LEMMA RegistryNext == TypeOK /\ CastInv /\ RegistryInv /\ [Next]_vars => RegistryInv'
<1> SUFFICES ASSUME TypeOK, CastInv, RegistryInv, [Next]_vars PROVE RegistryInv'
  OBVIOUS
<1>1. ASSUME NEW c \in Conns, handshake'[c] \in {"new", "accepting"} PROVE sender'[c] = "none"
  <2>1. handshake[c] \in {"new", "accepting"} /\ sender[c] = "none"
    BY <1>1, HandshakeSteps DEF RegistryInv
  <2>2. ~HandshakeRegister(c)
    BY <1>1 DEF HandshakeRegister, TypeOK
  <2> QED BY <2>1, <2>2, RegistryEffect
<1>2. ASSUME NEW c \in Conns, handshake'[c] = "registered" PROVE sender'[c] # "none"
  <2>1. CASE handshake[c] = "registered"
    BY <2>1, RegistryEffect DEF RegistryInv
  <2>2. CASE HandshakeRegister(c)
    BY <2>2 DEF HandshakeRegister, TypeOK
  <2> QED BY <1>2, <2>1, <2>2, HandshakeSteps
<1>3. ASSUME NEW u \in Threads, NEW i \in DOMAIN cast'[u].todo
      PROVE  sender'[cast'[u].todo[i]] # "none"
  <2>1. cast \in [Threads -> [event : Payload, todo : Seq(Conns)]] /\ registered \in Seq(Conns)
    BY DEF TypeOK
  <2>2. \A t \in Threads : \A k \in DOMAIN cast[t].todo :
           /\ cast[t].todo[k] \in Conns /\ sender[cast[t].todo[k]] # "none"
    BY <2>1, ElementOfSeq, LenProperties DEF RegistryInv
  <2>3. ASSUME NEW t \in Threads, BroadcastStart(t)
        PROVE  cast'[u].todo[i] \in Conns /\ sender[cast'[u].todo[i]] # "none"
    <3>1. \A k \in DOMAIN registered : registered[k] \in Conns /\ sender[registered[k]] # "none"
      BY <2>1, ElementOfSeq, LenProperties DEF RegistryInv, Registered, ToSet
    <3>2. cast'[u] = cast[u] \/ cast'[u] = NoCast \/ cast'[u].todo = registered
      BY <2>1, <2>3 DEF BroadcastStart
    <3>3. cast'[u] # NoCast
      BY DEF NoCast
    <3> QED BY <1>3, <2>2, <3>1, <3>2, <3>3
  <2>4. ASSUME NEW t \in Threads, BroadcastPut(t)
        PROVE  cast'[u].todo[i] \in Conns /\ sender[cast'[u].todo[i]] # "none"
    <3>1. cast[t].todo \in Seq(Conns) /\ cast[t].todo # <<>>
      BY <2>1, <2>4 DEF BroadcastPut, CastInv
    <3> DEFINE rest == Tail(cast[t].todo)
    <3>2. \/ cast' = [cast EXCEPT ![t] = NoCast]
          \/ cast' = [cast EXCEPT ![t] = [cast[t] EXCEPT !.todo = rest]]
      BY <2>4 DEF BroadcastPut
    <3>3. \A k \in DOMAIN rest : k + 1 \in DOMAIN cast[t].todo /\ rest[k] = cast[t].todo[k + 1]
      BY <3>1, HeadTailProperties, LenProperties
    <3> HIDE DEF rest
    <3>4. cast'[u] = cast[u] \/ cast'[u] = NoCast \/ (u = t /\ cast'[u].todo = rest)
      BY <2>1, <3>2
    <3>5. cast'[u] # NoCast
      BY DEF NoCast
    <3> QED BY <1>3, <2>2, <3>3, <3>4, <3>5
  <2>5. ASSUME UNCHANGED cast
        PROVE  cast'[u].todo[i] \in Conns /\ sender[cast'[u].todo[i]] # "none"
    <3>1. cast'[u].todo = cast[u].todo
      BY <2>5
    <3>2. i \in DOMAIN cast[u].todo
      BY <1>3, <3>1
    <3> QED BY <2>2, <3>1, <3>2
  <2>6. cast'[u].todo[i] \in Conns /\ sender[cast'[u].todo[i]] # "none"
    BY <2>3, <2>4, <2>5, CastSteps
  <2> DEFINE c == cast'[u].todo[i]
  <2>7. c \in Conns /\ sender[c] # "none"
    BY <2>6
  <2> HIDE DEF c
  <2>8. sender'[c] # "none"
    BY <2>7, RegistryEffect
  <2> QED BY <2>8 DEF c
<1> QED BY <1>1, <1>2, <1>3, RegistryEffect DEF RegistryInv

LEMMA StreamNext ==
  TypeOK /\ CastInv /\ RegistryInv /\ StreamInv /\ [Next]_vars => StreamInv'
<1> SUFFICES ASSUME TypeOK, CastInv, RegistryInv, StreamInv, [Next]_vars PROVE StreamInv'
  OBVIOUS
<1>0. /\ ManagerType /\ QueueType /\ received \in [Conns -> Seq(Payload)]
      /\ Registered \subseteq Conns
  BY TypeParts, ElementOfSeq, LenProperties DEF LoopType, ManagerType, Registered, ToSet
<1> DEFINE Good(c) ==
      /\ sender[c] = "none" => queue[c] = <<>> /\ enqueued[c] = <<>> /\ received[c] = <<>>
      /\ sender[c] # "sending" => sending[c] = <<>>
      /\ IsPrefix(received[c], enqueued[c])
      /\ sender[c] \notin {"none", "done"} =>
           enqueued[c] = received[c] \o sending[c] \o queue[c]
<1>1. \A c \in Conns : Good(c)
  BY DEF StreamInv, QueueIsDelivered, RegistryInv
<1>2. \A c \in Conns : /\ received[c] \in Seq(Payload) /\ sending[c] \in Seq(Payload)
                       /\ queue[c] \in Seq(Payload) /\ enqueued[c] \in Seq(Payload)
  BY <1>0 DEF ManagerType, QueueType
<1>3. ASSUME NEW c \in Conns, UNCHANGED <<queue[c], enqueued[c], received[c], sender[c], sending[c]>>
      PROVE  Good(c)'
  BY <1>1, <1>3
<1>4. ASSUME Quiet, NEW c \in Conns PROVE Good(c)'
  BY <1>3, <1>4 DEF Quiet, queues
<1>5. ASSUME PutTo, NEW c \in Conns PROVE Good(c)'
  <2>1. PICK cs \in SUBSET Conns, e \in Payload :
              /\ Put(cs, e) /\ UNCHANGED <<registered, sending, received>>
              /\ \A d \in cs : sender[d] # "none"
    BY <1>5 DEF PutTo
  <2>2. /\ sender'[c] = "none" <=> sender[c] = "none"
        /\ sender'[c] = "done" <=> sender[c] = "done"
        /\ sender'[c] = "sending" <=> sender[c] = "sending"
        /\ \/ /\ c \in cs /\ queue'[c] = Append(queue[c], e)
              /\ enqueued'[c] = Append(enqueued[c], e)
           \/ /\ c \notin cs /\ queue'[c] = queue[c] /\ enqueued'[c] = enqueued[c]
    BY <1>0, <2>1, PutEffect
  <2>3. received'[c] = received[c] /\ sending'[c] = sending[c]
    BY <2>1
  <2>4. CASE queue'[c] = queue[c] /\ enqueued'[c] = enqueued[c]
    BY <1>1, <2>2, <2>3, <2>4
  <2>5. CASE c \in cs /\ queue'[c] = Append(queue[c], e) /\ enqueued'[c] = Append(enqueued[c], e)
    <3>1. sender[c] # "none"
      BY <2>1, <2>5
    <3>0. e \in Payload
      BY <2>1
    <3>2. IsPrefix(received[c], enqueued'[c])
      <4>1. IsPrefix(received[c], enqueued[c])
        BY <1>1, <1>5
      <4>2. received[c] \in Seq(Payload) /\ enqueued[c] \in Seq(Payload)
        BY <1>2, <1>5
      <4> QED BY <2>5, <3>0, <4>1, <4>2, PrefixOfLonger
    <3>3. /\ received[c] \in Seq(Payload) /\ sending[c] \in Seq(Payload)
          /\ queue[c] \in Seq(Payload)
      BY <1>2, <1>5
    <3>4. ASSUME enqueued[c] = received[c] \o sending[c] \o queue[c]
          PROVE  enqueued'[c] = received[c] \o sending[c] \o queue'[c]
      <4>1. enqueued[c] = InOrder(received[c], sending[c], queue[c])
        BY <3>4 DEF InOrder
      <4>2. queue'[c] = Pushed(queue[c], e) /\ enqueued'[c] = Pushed(enqueued[c], e)
        BY <2>5 DEF Pushed
      <4>3. enqueued'[c] = InOrder(received[c], sending[c], queue'[c])
        BY <3>0, <3>3, <4>1, <4>2, OneMoreWaits
      <4> QED BY <4>3 DEF InOrder
    <3> QED BY <1>1, <1>5, <2>2, <2>3, <3>1, <3>2, <3>4
  <2> QED BY <2>2, <2>4, <2>5
<1>6. ASSUME NEW d \in Conns, Disconnect(d), UNCHANGED <<queues, received>>, NEW c \in Conns
      PROVE  Good(c)'
  <2>1. /\ sender' = IF d \in Registered THEN [sender EXCEPT ![d] = "done"] ELSE sender
        /\ sending' = IF d \in Registered THEN [sending EXCEPT ![d] = <<>>] ELSE sending
    BY <1>0, <1>6, DisconnectEffect
  <2>2. UNCHANGED <<queue[c], enqueued[c], received[c]>>
    BY <1>6 DEF queues
  <2>3. CASE UNCHANGED <<sender[c], sending[c]>>
    BY <1>3, <2>2, <2>3
  <2>4. CASE sender'[c] = "done" /\ sending'[c] = <<>>
    BY <1>1, <2>2, <2>4
  <2>5. UNCHANGED <<sender[c], sending[c]>> \/ (sender'[c] = "done" /\ sending'[c] = <<>>)
    BY <1>0, <2>1 DEF ManagerType
  <2> QED BY <2>3, <2>4, <2>5
<1>7. ASSUME NEW d \in Conns, HandshakeRegister(d), NEW c \in Conns PROVE Good(c)'
  <2>1. UNCHANGED <<queue, enqueued, received, sending>>
    BY <1>7 DEF HandshakeRegister, queues
  <2>2. sender' = [sender EXCEPT ![d] = "checking"]
    BY <1>7 DEF HandshakeRegister
  <2>3. CASE c # d
    <3>1. sender'[c] = sender[c]
      BY <1>0, <2>2, <2>3 DEF ManagerType
    <3> QED BY <1>3, <2>1, <3>1
  <2>4. CASE c = d
    <3>1. sender[c] = "none"
      BY <1>7, <2>4 DEF HandshakeRegister, RegistryInv
    <3>2. queue[c] = <<>> /\ enqueued[c] = <<>> /\ received[c] = <<>> /\ sending[c] = <<>>
      BY <1>1, <3>1
    <3>3. sender'[c] = "checking"
      BY <1>0, <2>2, <2>4 DEF ManagerType
    <3>4. <<>> \o <<>> \o <<>> = <<>>
      BY ConcatEmptySeq, EmptySeq
    <3> QED BY <1>1, <2>1, <3>2, <3>3, <3>4
  <2> QED BY <2>3, <2>4
<1>8. ASSUME NEW d \in Conns, SenderGet(d), NEW c \in Conns PROVE Good(c)'
  <2>1. UNCHANGED <<enqueued, received>> /\ sender[d] = "checking"
    BY <1>8 DEF SenderGet
  <2>2. \/ /\ queue[d] # <<>>
           /\ sender'  = [sender EXCEPT ![d] = "sending"]
           /\ sending' = [sending EXCEPT ![d] = <<Head(queue[d])>>]
           /\ queue'   = [queue EXCEPT ![d] = Tail(queue[d])]
        \/ sender' = [sender EXCEPT ![d] = "empty"] /\ UNCHANGED <<sending, queue>>
    BY <1>8 DEF SenderGet
  <2>3. CASE c # d
    <3>1. UNCHANGED <<sender[c], sending[c], queue[c]>>
      BY <1>0, <2>2, <2>3 DEF ManagerType, QueueType
    <3> QED BY <1>3, <2>1, <3>1
  <2>4. CASE c = d
    <3>1. sending[c] = <<>> /\ enqueued[c] = received[c] \o <<>> \o queue[c]
      BY <1>1, <2>1, <2>4
    <3>2. CASE queue[c] # <<>> /\ sender'[c] = "sending" /\ sending'[c] = <<Head(queue[c])>>
               /\ queue'[c] = Tail(queue[c])
      <4>1. received[c] \o <<>> \o queue[c] = received[c] \o <<Head(queue[c])>> \o Tail(queue[c])
        BY <1>2, <3>2, NextIsSent
      <4> QED BY <1>1, <2>1, <3>1, <3>2, <4>1
    <3>3. CASE sender'[c] = "empty" /\ UNCHANGED <<sending[c], queue[c]>>
      BY <1>1, <2>1, <2>4, <3>1, <3>3
    <3>4. \/ /\ queue[c] # <<>> /\ sender'[c] = "sending" /\ sending'[c] = <<Head(queue[c])>>
             /\ queue'[c] = Tail(queue[c])
          \/ sender'[c] = "empty" /\ UNCHANGED <<sending[c], queue[c]>>
      BY <1>0, <2>2, <2>4 DEF ManagerType, QueueType
    <3> QED BY <3>2, <3>3, <3>4
  <2> QED BY <2>3, <2>4
<1>9. ASSUME NEW d \in Conns, SenderWait(d), NEW c \in Conns PROVE Good(c)'
  <2>1. UNCHANGED <<queue, enqueued, received, sending>> /\ sender[d] = "empty"
    BY <1>9 DEF SenderWait, queues
  <2>2. sender'[c] = sender[c] \/ (sender'[c] = "waiting" /\ sender[c] = "empty")
    BY <1>0, <1>9 DEF SenderWait, ManagerType
  <2> QED BY <1>1, <2>1, <2>2
<1>10. ASSUME NEW d \in Conns, SendSucceeds(d), NEW c \in Conns PROVE Good(c)'
  <2>1. /\ UNCHANGED <<queue, enqueued>> /\ sender[d] = "sending"
        /\ received' = [received EXCEPT ![d] = received[d] \o sending[d]]
        /\ sender' = [sender EXCEPT ![d] = "checking"] /\ sending' = [sending EXCEPT ![d] = <<>>]
    BY <1>10 DEF SendSucceeds, queues
  <2>2. CASE c # d
    <3>1. UNCHANGED <<sender[c], sending[c], received[c]>>
      BY <1>0, <2>1, <2>2 DEF ManagerType
    <3> QED BY <1>3, <2>1, <3>1
  <2>3. CASE c = d
    <3>1. /\ sender'[c] = "checking" /\ sending'[c] = <<>>
          /\ received'[c] = received[c] \o sending[c]
      BY <1>0, <2>1, <2>3 DEF ManagerType
    <3>2. enqueued[c] = received[c] \o sending[c] \o queue[c]
      BY <1>1, <2>1, <2>3
    <3>3. received[c] \o sending[c] \in Seq(Payload)
      BY <1>2, ConcatProperties
    <3>4. IsPrefix(received[c] \o sending[c], (received[c] \o sending[c]) \o queue[c])
      BY <1>2, <3>3, PrefixOfConcat
    <3>5. enqueued[c] = received'[c] \o <<>> \o queue[c]
      BY <1>2, <3>1, <3>2, NoneIsSent
    <3>6. IsPrefix(received'[c], enqueued'[c])
      BY <2>1, <3>1, <3>2, <3>4
    <3> QED BY <2>1, <3>1, <3>5, <3>6
  <2> QED BY <2>2, <2>3
<1>11. \A c \in Conns : Good(c)'
  <2> HIDE DEF Good
  <2>1. CASE Drop
    BY <1>6, <2>1 DEF Drop
  <2> QED BY <1>4, <1>5, <1>7, <1>8, <1>9, <1>10, <2>1, StepKinds
<1>12. \A c \in Conns : c \in Registered' <=> sender'[c] \notin {"none", "done"}
  BY RegistryEffect
<1> QED BY <1>11, <1>12 DEF StreamInv, QueueIsDelivered

LEMMA AppendedToSet ==
  ASSUME NEW S, NEW s \in Seq(S), NEW e \in S
  PROVE  ToSet(s) \subseteq ToSet(Append(s, e)) /\ e \in ToSet(Append(s, e))
<1>1. /\ Append(s, e) \in Seq(S) /\ Len(Append(s, e)) = Len(s) + 1
      /\ \A i \in 1..Len(s) : Append(s, e)[i] = s[i]
      /\ Append(s, e)[Len(s) + 1] = e
  BY AppendProperties
<1>2. /\ Len(s) \in Nat /\ DOMAIN s = 1..Len(s)
      /\ DOMAIN Append(s, e) = 1..(Len(s) + 1)
  BY <1>1, LenProperties
<1> QED BY <1>1, <1>2 DEF ToSet

\* A queue never forgets what it took.
LEMMA EnqueuedGrows ==
  ASSUME TypeOK, CastInv, RegistryInv, [Next]_vars, NEW c \in Conns
  PROVE  ToSet(enqueued[c]) \subseteq ToSet(enqueued'[c])
<1>0. ManagerType /\ QueueType
  BY TypeParts
<1>1. CASE enqueued'[c] = enqueued[c]
  BY <1>1
<1>2. CASE PutTo
  <2>1. PICK cs \in SUBSET Conns, e \in Payload : Put(cs, e)
    BY <1>2 DEF PutTo
  <2>2. enqueued'[c] = enqueued[c] \/ enqueued'[c] = Append(enqueued[c], e)
    BY <1>0, <2>1, PutEffect
  <2>3. enqueued[c] \in Seq(Payload)
    BY <1>0 DEF QueueType
  <2> QED BY <2>1, <2>2, <2>3, AppendedToSet
<1>3. CASE Quiet \/ Drop
  BY <1>1, <1>3 DEF Quiet, Drop, queues
<1>4. CASE \E d \in Conns : HandshakeRegister(d) \/ SenderGet(d) \/ SenderWait(d) \/ SendSucceeds(d)
  BY <1>1, <1>4 DEF HandshakeRegister, SenderGet, SenderWait, SendSucceeds, queues
<1> QED BY <1>2, <1>3, <1>4, StepKinds

\* Only broadcasts and disconnect tasks change who is to be served.
LEMMA CoverSteps ==
  ASSUME [Next]_vars
  PROVE  \/ \E t \in Threads : BroadcastStart(t) \/ BroadcastPut(t)
         \/ BroadcastOnLoop
         \/ \E c \in Conns : DisconnectTask(c)
         \/ UNCHANGED <<cast, audience, cutShort, doomed>>
<1>1. ASSUME NEW c \in Conns, Handshake(c) \/ ReadLoopEnds(c) \/ ClientVanishes(c)
      PROVE  UNCHANGED <<cast, audience, cutShort, doomed>>
  BY <1>1 DEF Handshake, HandshakeCheck, HandshakeRegister, HandshakeReady, ReadLoopEnds,
              ClientVanishes, threads, tasks
<1>2. ASSUME NEW c \in Conns, Sender(c)
      PROVE  UNCHANGED <<cast, audience, cutShort, doomed>>
  BY <1>2 DEF Sender, SenderGet, SenderWait, SendSucceeds, SendFails, threads, tasks
<1>3. ASSUME \/ SweepStart \/ SweepNext \/ UNCHANGED vars
             \/ \E target \in Sessions \cup Users : CloseRoute(target) \/ CloseNext(target)
             \/ \E s \in Sessions : RevokeOutOfBand(s)
      PROVE  UNCHANGED <<cast, audience, cutShort, doomed>>
  BY <1>3 DEF SweepStart, SweepNext, CloseRoute, CloseNext, RevokeOutOfBand, threads, tasks, vars
<1> QED BY <1>1, <1>2, <1>3 DEF Next

LEMMA CoverNext ==
  TypeOK /\ CastInv /\ RegistryInv /\ CoverInv /\ [Next]_vars => CoverInv'
<1> SUFFICES ASSUME TypeOK, CastInv, RegistryInv, CoverInv, [Next]_vars PROVE CoverInv'
  OBVIOUS
<1>0. /\ ManagerType /\ QueueType /\ ThreadType /\ registered \in Seq(Conns)
      /\ Registered \subseteq Conns /\ DOMAIN registered = 1..Len(registered)
      /\ Registered = ToSet(registered)
  BY TypeParts, ElementOfSeq, LenProperties DEF ManagerType, Registered, ToSet
<1> DEFINE Served(c, e) == \/ Awaits(c, e) \/ e \in ToSet(enqueued[c])
                           \/ c \in doomed \/ e \in cutShort
<1>1. \A e \in Events : \A c \in audience[e] :
         c \in Conns /\ sender[c] # "none" /\ (c \in Registered => Served(c, e))
  BY <1>0 DEF CoverInv, MissedOnlyWhenCutShort, ThreadType
<1>2. \A c \in Conns : sender[c] # "none" =>
         sender'[c] # "none" /\ (c \in Registered' => c \in Registered)
  BY RegistryEffect DEF RegistryInv, HandshakeRegister
<1>3. \A c \in Registered : sender[c] # "none"
  BY <1>0 DEF RegistryInv
<1>4. \A c \in Conns : ToSet(enqueued[c]) \subseteq ToSet(enqueued'[c])
  BY EnqueuedGrows
<1>5. ASSUME NEW t \in Threads, BroadcastStart(t), NEW e \in Events, NEW c \in audience'[e]
      PROVE  c \in Conns /\ sender[c] # "none" /\ (c \in Registered => Served(c, e)')
  <2>1. /\ cast[t] = NoCast /\ cutShort' = cutShort /\ doomed' = doomed
        /\ audience' = [audience EXCEPT ![broadcasts + 1] = Registered]
        /\ registered # <<>> =>
             cast' = [cast EXCEPT ![t] = [event |-> broadcasts + 1, todo |-> registered]]
        /\ registered = <<>> => cast' = [cast EXCEPT ![t] = NoCast]
    BY <1>5 DEF BroadcastStart, tasks
  <2>2. CASE e = broadcasts + 1
    <3>1. c \in Registered
      BY <1>0, <2>1, <2>2 DEF ThreadType
    <3>2. registered # <<>>
      BY <1>0, <3>1 DEF ToSet
    <3>3. cast'[t].event = e /\ cast'[t].todo = registered
      BY <1>0, <2>1, <2>2, <3>2 DEF ThreadType
    <3>4. Awaits(c, e)'
      BY <1>0, <3>1, <3>3 DEF Awaits
    <3> QED BY <1>0, <1>3, <3>1, <3>4
  <2>3. CASE e # broadcasts + 1
    <3>1. c \in audience[e]
      BY <1>0, <1>5, <2>1, <2>3 DEF ThreadType
    <3>2. ASSUME Awaits(c, e) PROVE Awaits(c, e)'
      <4>1. PICK u \in Threads : cast[u].event = e /\ c \in ToSet(cast[u].todo)
        BY <3>2 DEF Awaits
      <4>2. u # t
        BY <2>1, <4>1 DEF NoCast, ToSet
      <4>3. cast'[u] = cast[u]
        BY <1>0, <2>1, <4>2 DEF ThreadType
      <4> QED BY <4>1, <4>3 DEF Awaits
    <3> QED BY <1>1, <1>4, <2>1, <3>1, <3>2
  <2> QED BY <2>2, <2>3
<1>6. ASSUME NEW t \in Threads, BroadcastPut(t), NEW e \in Events, NEW c \in audience'[e]
      PROVE  c \in Conns /\ sender[c] # "none" /\ (c \in Registered => Served(c, e)')
  <2> DEFINE h == Head(cast[t].todo)
             rest == Tail(cast[t].todo)
  <2>1. /\ doomed' = doomed /\ audience' = audience /\ cast[t] # NoCast
        /\ \/ /\ Put({h}, cast[t].event) /\ cutShort' = cutShort
              /\ cast' = [cast EXCEPT ![t] = IF rest = <<>> THEN NoCast
                                             ELSE [cast[t] EXCEPT !.todo = rest]]
           \/ cutShort' = cutShort \cup {cast[t].event} /\ cast' = [cast EXCEPT ![t] = NoCast]
    BY <1>6 DEF BroadcastPut, tasks
  <2>2. /\ cast[t].todo \in Seq(Conns) /\ cast[t].todo # <<>> /\ cast[t].event \in Payload
        /\ cast[t] \in [event : Payload, todo : Seq(Conns)]
    BY <1>0, <2>1 DEF CastInv, ThreadType
  <2>3. h \in Conns /\ rest \in Seq(Conns) /\ Len(rest) = Len(cast[t].todo) - 1
        /\ \A i \in 1..Len(rest) : rest[i] = cast[t].todo[i + 1]
    BY <2>2, HeadTailProperties
  <2>4. ToSet(cast[t].todo) \subseteq {h} \cup ToSet(rest)
    <3>1. h = cast[t].todo[1] /\ Len(cast[t].todo) \in Nat
          /\ DOMAIN cast[t].todo = 1..Len(cast[t].todo) /\ DOMAIN rest = 1..Len(rest)
      BY <2>2, <2>3, LenProperties
    <3>2. ASSUME NEW i \in 1..Len(cast[t].todo), i # 1
          PROVE  cast[t].todo[i] \in ToSet(rest)
      <4>1. i - 1 \in 1..Len(rest) /\ rest[i - 1] = cast[t].todo[i]
        BY <2>3, <3>1, <3>2
      <4> HIDE DEF rest
      <4> QED BY <3>1, <4>1 DEF ToSet
    <3> HIDE DEF h, rest
    <3> QED BY <3>1, <3>2 DEF ToSet
  <2> HIDE DEF h, rest
  <2>5. ASSUME Awaits(c, e) PROVE Served(c, e)'
    <3>1. PICK u \in Threads : cast[u].event = e /\ c \in ToSet(cast[u].todo)
      BY <2>5 DEF Awaits
    <3>2. CASE u # t
      <4>1. cast'[u] = cast[u]
        BY <1>0, <2>1, <3>2 DEF ThreadType
      <4> QED BY <3>1, <4>1 DEF Awaits
    <3>3. CASE u = t /\ cutShort' = cutShort \cup {cast[t].event}
      BY <3>1, <3>3
    <3>4. CASE /\ u = t /\ Put({h}, cast[t].event)
               /\ cast' = [cast EXCEPT ![t] = IF rest = <<>> THEN NoCast
                                              ELSE [cast[t] EXCEPT !.todo = rest]]
      <4>1. CASE c = h
        <5>1. Put({h}, e) /\ e \in Payload /\ enqueued[h] \in Seq(Payload)
          BY <1>0, <2>2, <2>3, <3>1, <3>4 DEF QueueType
        <5>2. enqueued'[h] = Append(enqueued[h], e)
          BY <2>3, <5>1 DEF Put
        <5> QED BY <4>1, <5>1, <5>2, AppendedToSet
      <4>2. CASE c \in ToSet(rest)
        <5>1. rest # <<>>
          BY <4>2 DEF ToSet
        <5>2. cast'[t] = [cast[t] EXCEPT !.todo = rest]
          BY <1>0, <3>4, <5>1 DEF ThreadType
        <5>3. cast'[t].event = e /\ cast'[t].todo = rest
          BY <2>2, <3>1, <3>4, <5>2
        <5> QED BY <4>2, <5>3 DEF Awaits
      <4> QED BY <2>4, <3>1, <3>4, <4>1, <4>2
    <3> QED BY <2>1, <3>2, <3>3, <3>4
  <2>6. c \in audience[e] /\ cutShort \subseteq cutShort'
    BY <1>6, <2>1
  <2> QED BY <1>1, <1>4, <2>1, <2>5, <2>6
<1>7. ASSUME BroadcastOnLoop, NEW e \in Events, NEW c \in audience'[e]
      PROVE  c \in Conns /\ sender[c] # "none" /\ (c \in Registered => Served(c, e)')
  <2>1. /\ cast' = cast /\ cutShort' = cutShort
        /\ audience' = [audience EXCEPT ![broadcasts + 1] = Registered]
        /\ Put({d \in Registered : HasRoom(d)}, broadcasts + 1)
        /\ doomed' = doomed \cup {d \in Registered : ~HasRoom(d)}
    BY <1>7 DEF BroadcastOnLoop
  <2>2. CASE e = broadcasts + 1
    <3>1. c \in Registered /\ e \in Payload
      BY <1>0, <2>1, <2>2 DEF ThreadType, Payload
    <3>2. CASE HasRoom(c)
      <4>1. enqueued'[c] = Append(enqueued[c], e) /\ enqueued[c] \in Seq(Payload)
        BY <1>0, <2>1, <2>2, <3>1, <3>2, PutEffect DEF QueueType
      <4> QED BY <1>0, <1>3, <3>1, <4>1, AppendedToSet
    <3>3. CASE ~HasRoom(c)
      BY <1>0, <1>3, <2>1, <3>1, <3>3
    <3> QED BY <3>2, <3>3
  <2>3. CASE e # broadcasts + 1
    <3>1. c \in audience[e]
      BY <1>0, <1>7, <2>1, <2>3 DEF ThreadType
    <3>2. Awaits(c, e) => Awaits(c, e)'
      BY <2>1 DEF Awaits
    <3> QED BY <1>1, <1>4, <2>1, <3>1, <3>2
  <2> QED BY <2>2, <2>3
<1>8. ASSUME NEW d \in Conns, DisconnectTask(d), NEW e \in Events, NEW c \in audience'[e]
      PROVE  c \in Conns /\ sender[c] # "none" /\ (c \in Registered' => Served(c, e)')
  <2>1. /\ UNCHANGED <<cast, audience, cutShort>> /\ Disconnect(d) /\ doomed' = doomed \ {d}
    BY <1>8 DEF DisconnectTask, threads
  <2>2. Registered' = Registered \ {d}
    BY <1>0, <2>1, DisconnectEffect DEF RegistryInv
  <2>3. Awaits(c, e) => Awaits(c, e)'
    BY <2>1 DEF Awaits
  <2> QED BY <1>1, <1>4, <1>8, <2>1, <2>2, <2>3
<1>9. ASSUME UNCHANGED <<cast, audience, cutShort, doomed>>, NEW e \in Events, NEW c \in audience'[e]
      PROVE  c \in Conns /\ sender[c] # "none" /\ (c \in Registered => Served(c, e)')
  <2>1. Awaits(c, e) => Awaits(c, e)'
    BY <1>9 DEF Awaits
  <2> QED BY <1>1, <1>4, <1>9, <2>1
<1>10. ASSUME NEW e \in Events, NEW c \in audience'[e]
       PROVE  sender'[c] # "none" /\ (c \in Registered' => Served(c, e)')
  <2> HIDE DEF Served
  <2>1. c \in Conns /\ sender[c] # "none"
        /\ (c \in Registered /\ c \in Registered' => Served(c, e)')
    BY <1>5, <1>6, <1>7, <1>8, <1>9, <1>10, CoverSteps
  <2> QED BY <1>2, <2>1
<1> QED BY <1>10 DEF CoverInv, MissedOnlyWhenCutShort

LEMMA RegisteredAreConns ==
  ASSUME TypeOK, CastInv, [Next]_vars
  PROVE  Registered \subseteq Conns /\ Registered' \subseteq Conns
<1>1. registered \in Seq(Conns) /\ registered' \in Seq(Conns)
  BY TypeNext DEF TypeOK
<1>2. \A s \in Seq(Conns) : ToSet(s) \subseteq Conns
  BY ElementOfSeq, LenProperties DEF ToSet
<1> QED BY <1>1, <1>2 DEF Registered

\* Closing one of cs keeps track of the others.
LEMMA CloseOneKeepsOthers ==
  ASSUME TypeOK, RegistryInv, NEW target \in Sessions \cup Users, NEW cs \in SUBSET Conns,
         CloseOneOf(cs, target), closing[target] \in {{}, cs}, NEW c \in Registered'
  PROVE  /\ c \in Registered
         /\ c \in cs => c \in closing'[target]
         /\ \A t \in Sessions \cup Users : t # target => closing'[t] = closing[t]
<1>0. ManagerType /\ TaskType
  BY TypeParts
<1>1. CASE cs = {}
  <2>1. UNCHANGED <<closing, registered>>
    BY <1>1 DEF CloseOneOf, manager
  <2> QED BY <1>1, <2>1 DEF Registered
<1>2. CASE cs # {}
  <2>1. PICK d \in cs : Disconnect(d) /\ closing' = [closing EXCEPT ![target] = cs \ {d}]
    BY <1>2 DEF CloseOneOf
  <2>2. \A i, k \in DOMAIN registered : registered[i] = registered[k] => i = k
    BY DEF RegistryInv
  <2>3. Registered' = Registered \ {d}
    BY <1>0, <2>1, <2>2, DisconnectEffect
  <2>4. closing'[target] = cs \ {d}
    BY <1>0, <2>1 DEF TaskType
  <2>5. \A t \in Sessions \cup Users : t # target => closing'[t] = closing[t]
    BY <1>0, <2>1 DEF TaskType
  <2> QED BY <2>3, <2>4, <2>5
<1> QED BY <1>1, <1>2

LEMMA LateNext ==
  TypeOK /\ CastInv /\ RegistryInv /\ LateInv /\ [Next]_vars => LateInv'
<1> SUFFICES ASSUME TypeOK, CastInv, RegistryInv, LateInv, [Next]_vars PROVE LateInv'
  OBVIOUS
<1>0. /\ Registered \subseteq Conns /\ Registered' \subseteq Conns /\ loggedOut \subseteq revoked
      /\ closing \in [Sessions \cup Users -> SUBSET Conns]
      /\ \A c \in Conns : c \in Registered' => c \in Registered \/ HandshakeRegister(c)
  BY RegisteredAreConns, RegistryEffect DEF TypeOK
<1> DEFINE Closing(c) == \E target \in Sessions \cup Users : c \in closing[target]
<1>1. /\ \A c \in Conns : handshake[c] = "accepting" /\ SessionOf[c] \in loggedOut => c \in late
      /\ \A c \in Registered : SessionOf[c] \in loggedOut => c \in late \/ Closing(c)
  BY DEF LateInv, RevokedIsClosedOrLate
<1>2. ASSUME NEW target \in Sessions \cup Users, CloseRoute(target) PROVE LateInv'
  <2>1. /\ loggedOut' = loggedOut \cup SessionsOf(target) /\ UNCHANGED handshake
        /\ late' = late \cup {c \in Conns : handshake[c] = "accepting"
                                             /\ SessionOf[c] \in SessionsOf(target)}
        /\ closing[target] = {} /\ CloseOneOf(Of(target), target)
    BY <1>2 DEF CloseRoute, RevokeSessionsOf
  <2>2. \A c \in Conns : handshake'[c] = "accepting" /\ SessionOf[c] \in loggedOut' => c \in late'
    BY <1>1, <2>1
  <2>3. ASSUME NEW c \in Registered', SessionOf[c] \in loggedOut', c \notin late'
        PROVE  Closing(c)'
    <3>1. Of(target) \in SUBSET Conns
      BY <1>0 DEF Of
    <3>2. /\ c \in Registered /\ c \in Conns
          /\ c \in Of(target) => c \in closing'[target]
          /\ \A t \in Sessions \cup Users : t # target => closing'[t] = closing[t]
      BY <1>0, <1>2, <2>1, <2>3, <3>1, CloseOneKeepsOthers
    <3>3. CASE SessionOf[c] \in SessionsOf(target)
      <4>1. c \in Of(target)
        BY <3>2, <3>3, OwnerFacts DEF Of, SessionsOf
      <4> QED BY <1>2, <3>2, <4>1
    <3>4. CASE SessionOf[c] \in loggedOut
      <4>1. PICK t \in Sessions \cup Users : c \in closing[t]
        BY <1>1, <2>1, <2>3, <3>2, <3>4
      <4>2. closing'[t] = closing[t]
        BY <2>1, <3>2, <4>1
      <4> QED BY <4>1, <4>2
    <3> QED BY <2>1, <2>3, <3>3, <3>4
  <2> QED BY <2>2, <2>3 DEF LateInv, RevokedIsClosedOrLate
<1>3. ASSUME NEW target \in Sessions \cup Users, CloseNext(target) PROVE LateInv'
  <2>1. UNCHANGED <<loggedOut, late, handshake>> /\ CloseOneOf(closing[target], target)
    BY <1>3 DEF CloseNext, auth
  <2>2. ASSUME NEW c \in Registered', SessionOf[c] \in loggedOut', c \notin late'
        PROVE  Closing(c)'
    <3>1. closing[target] \in SUBSET Conns
      BY <1>0, <1>3
    <3>2. /\ c \in Registered
          /\ c \in closing[target] => c \in closing'[target]
          /\ \A t \in Sessions \cup Users : t # target => closing'[t] = closing[t]
      BY <1>3, <2>1, <2>2, <3>1, CloseOneKeepsOthers
    <3>3. PICK t \in Sessions \cup Users : c \in closing[t]
      BY <1>1, <2>1, <2>2, <3>2
    <3> QED BY <1>3, <3>2, <3>3
  <2> QED BY <1>1, <2>1, <2>2 DEF LateInv, RevokedIsClosedOrLate
<1>4. ASSUME UNCHANGED <<loggedOut, late, closing>> PROVE LateInv'
  <2>1. ASSUME NEW c \in Conns, handshake'[c] = "accepting", SessionOf[c] \in loggedOut'
        PROVE  c \in late'
    <3>1. CASE handshake[c] = "accepting"
      BY <1>1, <1>4, <2>1, <3>1
    <3>2. CASE HandshakeCheck(c)
      <4>1. handshake \in [Conns -> {"new", "accepting", "registered", "reading", "failed", "over"}]
        BY DEF TypeOK
      <4>2. Admitted(c)
        BY <2>1, <3>2, <4>1 DEF HandshakeCheck
      <4> QED BY <1>0, <1>4, <2>1, <4>2 DEF Admitted
    <3> QED BY <2>1, <3>1, <3>2, HandshakeSteps
  <2>2. ASSUME NEW c \in Registered', SessionOf[c] \in loggedOut', c \notin late'
        PROVE  Closing(c)'
    <3>1. CASE c \in Registered
      BY <1>1, <1>4, <2>2, <3>1
    <3>2. CASE HandshakeRegister(c)
      <4>1. handshake[c] = "accepting" /\ c \in Conns
        BY <1>0, <2>2, <3>2 DEF HandshakeRegister
      <4> QED BY <1>1, <1>4, <2>2, <4>1
    <3> QED BY <1>0, <2>2, <3>1, <3>2
  <2> QED BY <2>1, <2>2 DEF LateInv, RevokedIsClosedOrLate
<1>5. \/ \E target \in Sessions \cup Users : CloseRoute(target) \/ CloseNext(target)
      \/ UNCHANGED <<loggedOut, late, closing>>
  <2>1. ASSUME NEW c \in Conns, Handshake(c) \/ ReadLoopEnds(c) \/ ClientVanishes(c)
        PROVE  UNCHANGED <<loggedOut, late, closing>>
    BY <2>1 DEF Handshake, HandshakeCheck, HandshakeRegister, HandshakeReady, ReadLoopEnds,
                ClientVanishes, auth, tasks
  <2>2. ASSUME NEW c \in Conns, Sender(c) \/ DisconnectTask(c)
        PROVE  UNCHANGED <<loggedOut, late, closing>>
    BY <2>2 DEF Sender, SenderGet, SenderWait, SendSucceeds, SendFails, DisconnectTask, auth, tasks
  <2>3. ASSUME \/ BroadcastOnLoop \/ SweepStart \/ SweepNext \/ UNCHANGED vars
               \/ \E t \in Threads : BroadcastStart(t) \/ BroadcastPut(t)
               \/ \E s \in Sessions : RevokeOutOfBand(s)
        PROVE  UNCHANGED <<loggedOut, late, closing>>
    BY <2>3 DEF BroadcastOnLoop, SweepStart, SweepNext, BroadcastStart, BroadcastPut,
                RevokeOutOfBand, auth, tasks, vars
  <2> QED BY <2>1, <2>2, <2>3 DEF Next
<1> QED BY <1>2, <1>3, <1>4, <1>5

-----------------------------------------------------------------------------
(* Theorems *)

LEMMA Inductive == Spec => [](TypeOK /\ IInv)
<1>1. Init => TypeOK /\ IInv
  BY TypeInit, IInvInit
<1>2. TypeOK /\ IInv /\ [Next]_vars => TypeOK' /\ IInv'
  BY TypeNext, CastNext, RegistryNext, StreamNext, CoverNext, LateNext DEF IInv
<1> QED BY <1>1, <1>2, PTL DEF Spec

\* Every variable stays within its domain, at every point at which a thread may
\* run between two steps of the loop.
THEOREM TypeCorrect == Spec => []TypeOK
BY Inductive, PTL

\* NoGap: the client of a connection sees a prefix of what its queue took, in order,
\* and while the connection is registered what it has seen, what is being sent and
\* what is queued make up all of it.  A broadcast that started with a connection has
\* put the event on its queue, is still to do so, or has it disconnected, unless a
\* thread ended the broadcast at a full queue.
THEOREM NothingIsSkipped == Spec => []NoGap
<1>1. IInv => NoGap
  BY DEF IInv, StreamInv, CoverInv, NoGap
<1> QED BY <1>1, Inductive, PTL

\* SendersFollowRegistry: exactly the registered connections have a sender task,
\* and each is registered once, however many cleanups race for it.
THEOREM OneSenderEach == Spec => []SendersFollowRegistry
<1>1. TypeOK /\ IInv => SendersFollowRegistry
  <2> SUFFICES ASSUME TypeOK, RegistryInv PROVE SendersFollowRegistry
    BY DEF IInv
  <2>1. registered \in Seq(Conns)
    BY DEF TypeOK
  <2>2. Len(registered) \in Nat /\ DOMAIN registered = 1..Len(registered)
    BY <2>1, LenProperties
  <2>3. registered \in [1..Len(registered) -> Registered]
    BY <2>1, <2>2 DEF Registered, ToSet
  <2>4. registered \in Bijection(1..Len(registered), Registered)
    <3>1. IsInjective(registered)
      BY DEF RegistryInv, IsInjective
    <3>2. \A c \in Registered : \E i \in 1..Len(registered) : registered[i] = c
      BY <2>2 DEF Registered, ToSet
    <3> QED BY <2>3, <3>1, <3>2 DEF Bijection, Injection, Surjection
  <2>5. ExistsBijection(1..Len(registered), Registered)
    BY <2>4 DEF ExistsBijection
  <2>6. Cardinality(Registered) = Len(registered)
    BY <2>2, <2>5, FS_CountingElements
  <2> QED BY <2>6 DEF SendersFollowRegistry, RegistryInv
<1> QED BY <1>1, Inductive, PTL

\* RevokedIsClosedOrLate: after a logout or a user-wide revocation, a connection
\* that is still registered is about to be closed by the route, or its handshake
\* had been let in before the commit.
THEOREM LogoutClosesSockets == Spec => []RevokedIsClosedOrLate
<1>1. IInv => RevokedIsClosedOrLate
  BY DEF IInv, LateInv
<1> QED BY <1>1, Inductive, PTL

=============================================================================
