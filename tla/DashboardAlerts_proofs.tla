------------------------ MODULE DashboardAlerts_proofs ------------------------
(***************************************************************************)
(* The alert queue of a dashboard tab, for any number of incidents,        *)
(* connections, late broadcasts and snoozes.                               *)
(*                                                                         *)
(* The queue is complete because an Unverified incident is never lost on   *)
(* its way: it is in a snapshot that has not been applied, in an event     *)
(* that is to come, or pending.  Nothing on the way overtakes it, whatever *)
(* the stamps of the rows say: a confirmed or decided row that the tab can *)
(* still see is of an incident that the server does not hold Unverified    *)
(* any more, and an incident never becomes Unverified again.               *)
(***************************************************************************)
EXTENDS DashboardAlerts, FiniteSetTheorems, WellFoundedInduction, TLAPS

OpenRow == {r \in Row : r.status \in Open}

\* An incident never returns from these.
Later == {"Ongoing"} \cup Decided
Past(i) == server[i].status \in Later

\* Whoever sees a later row of i is right, stale as the row may be.
Had(i, row) == row.status \in Later => Past(i)

Store == [alerts : [Incidents -> OpenRow \cup {Nothing}], handledIds : SUBSET Incidents,
          snoozed : SUBSET Incidents, timers : SUBSET Incidents, siren : BOOLEAN]

\* A store whose fields agree, and that agrees with what the server has had.
Consistent(s) == s \in Store /\ s.siren = Alarming(s) /\ s.snoozed = s.timers

Sound(s) ==
  /\ Consistent(s)
  /\ \A i \in Incidents : s.alerts[i] # Nothing => Had(i, s.alerts[i])
  /\ \A i \in s.handledIds : Past(i) \/ i \in closed

\* An event is right about the status of its incident, too.
GenuineIn(e, rows) ==
  /\ e \in Event
  /\ e.kind = "incident" /\ e.row.status \in Later => rows[e.id].status \in Later

Genuine(e) == GenuineIn(e, server)

Buffered(buf) == buf \in Seq(Event) /\ \A n \in 1..Len(buf) : Genuine(buf[n])

\* A snapshot holds rows of open incidents.
IsSnapshot(rows, snoozed) ==
  /\ rows \in [Incidents -> OpenRow \cup {Nothing}] /\ snoozed \in SUBSET Incidents
  /\ \A i \in Incidents : rows[i] # Nothing => Had(i, rows[i])

ServerInv ==
  /\ server \in [Incidents -> Row \cup {Nothing}] /\ muted \subseteq Incidents
  /\ \A i \in muted : server[i] \in Row
  /\ \A e \in outgoing : Genuine(e)
  /\ closed \subseteq Incidents

WireInv ==
  /\ link \in {"down", "opening", "up"}
  /\ wire \in Seq(Event \cup {Ready})
  /\ \A n \in 1..Len(wire) : wire[n] = Ready \/ Genuine(wire[n])
  /\ Buffered(buffer)

Snapshots == {<<r, m>> : r \in [Incidents -> OpenRow \cup {Nothing}], m \in SUBSET Incidents}

FetchInv ==
  \A f \in fetches :
    /\ f \in [of : 1..MaxConnects, rows : {<<>>} \cup Snapshots] /\ f.of <= connects
    /\ f.rows # <<>> => IsSnapshot(f.rows[1], f.rows[2])

Request == [by : {"dialog", "tray", "page"}, id : Incidents, op : Operations, ok : BOOLEAN,
            row : Row \cup {Nothing}]

\* What removes an alert is about an incident that has been decided or confirmed.
CallInv ==
  /\ call = {} \/ \E c \in Request : call = {c}
  /\ \A c \in call :
       /\ c.ok /\ c.op # "snooze" => c.row \in Row /\ Past(c.id)
       /\ c.by = "tray" => Past(c.id)

DialogInv ==
  /\ dialog \in [shown : Incidents \cup {NoIncident}, notice : BOOLEAN]
  /\ IF dialog.shown = NoIncident THEN Pending(store) = {} ELSE dialog.shown \in Pending(store)

CountInv ==
  /\ connects \in 0..MaxConnects /\ mutes \in 0..MaxMutes /\ calls \in 0..MaxCalls
  /\ recovering \in BOOLEAN /\ complete \in BOOLEAN

\* The snapshot of a connection is asked for by its ready event, its first one.
Fetching == \E f \in fetches : f.of = connects

ReadyInv ==
  /\ link = "down" => wire = <<>>
  /\ link # "down" => connects > 0
  /\ \A m, n \in 1..Len(wire) : wire[m] = Ready /\ wire[n] = Ready => m = n
  /\ link = "opening" \/ (\E n \in 1..Len(wire) : wire[n] = Ready) => ~complete /\ ~Fetching
  /\ link = "opening" => \A n \in 1..Len(wire) : wire[n] # Ready

\* The event of an Unverified incident is on its way, or it has arrived.
IsAbout(e, i) == e.kind = "incident" /\ e.id = i

Coming(i) ==
  \/ i \in Pending(store) \cup closed
  \/ \E e \in outgoing : IsAbout(e, i)
  \/ \E n \in 1..Len(wire) : IsAbout(wire[n], i)
  \/ \E n \in 1..Len(buffer) : IsAbout(buffer[n], i)

Unverified(i) == server[i].status = "Unverified"

CompleteInv ==
  link # "down" =>
    /\ complete => \A i \in Incidents : Unverified(i) => Coming(i)
    /\ \A f \in fetches : f.of = connects /\ f.rows # <<>> =>
         \A i \in Incidents : Unverified(i) => f.rows[1][i] # Nothing \/ Coming(i)

Types == ServerInv /\ WireInv /\ FetchInv /\ CallInv /\ DialogInv /\ CountInv

IInv == Types /\ Sound(store) /\ ReadyInv /\ CompleteInv

-----------------------------------------------------------------------------
(* Folds, by induction over the natural numbers *)

\* A set of naturals has a least element.
LEMMA Least ==
  ASSUME NEW S \in SUBSET Nat, S # {}
  PROVE  \E m \in S : \A k \in S : m <= k
<1> DEFINE R == {ss \in Nat \X Nat : ss[1] < ss[2]}
<1>1. IsWellFoundedOn(R, Nat)
  BY NatLessThanWellFounded DEF OpToRel
<1>2. PICK m \in S : \A k \in S : <<k, m>> \notin R
  <2> HIDE DEF R
  <2> QED BY <1>1, WFMin
<1>3. \A k \in S : ~(k < m)
  BY <1>2
<1> QED BY <1>3

\* Induction over a set.
LEMMA Induction ==
  ASSUME NEW S, 0 \in S, \A n \in Nat : n \in S => n + 1 \in S
  PROVE  Nat \subseteq S
<1> DEFINE T == Nat \ S
<1>1. SUFFICES ASSUME T # {} PROVE FALSE
  OBVIOUS
<1>2. PICK m \in T : \A k \in T : m <= k
  BY Least, <1>1
<1>3. m - 1 \in Nat /\ m - 1 \in S
  BY <1>2
<1> QED BY <1>2, <1>3

\* One element at a time, the one that c chooses.
Chooses(c, S) == IsFiniteSet(S) /\ \A d \in SUBSET S : d # {} => c[d] \in d

LEMMA Sizes ==
  ASSUME NEW S, NEW c, Chooses(c, S), NEW d \in SUBSET S
  PROVE  /\ IsFiniteSet(d) /\ Cardinality(d) \in Nat /\ (Cardinality(d) = 0 <=> d = {})
         /\ d # {} => c[d] \in d /\ d \ {c[d]} \in SUBSET S
                      /\ Cardinality(d \ {c[d]}) = Cardinality(d) - 1
<1>1. IsFiniteSet(d)
  BY FS_Subset DEF Chooses
<1>2. d # {} => c[d] \in d
  BY DEF Chooses
<1> QED BY <1>1, <1>2, FS_CardinalityType, FS_EmptySet, FS_RemoveElement

LEMMA SetInduction ==
  ASSUME NEW S, NEW c, Chooses(c, S), NEW Q, {} \in Q,
         \A d \in SUBSET S : d # {} /\ d \ {c[d]} \in Q => d \in Q
  PROVE  S \in Q
<1> DEFINE N == {n \in Nat : \A d \in SUBSET S : Cardinality(d) = n => d \in Q}
<1>0. ASSUME NEW d \in SUBSET S
      PROVE  /\ Cardinality(d) \in Nat /\ (Cardinality(d) = 0 <=> d = {})
             /\ d # {} => d \ {c[d]} \in SUBSET S /\ Cardinality(d \ {c[d]}) = Cardinality(d) - 1
  BY Sizes
<1>1. 0 \in N
  BY <1>0
<1>2. ASSUME NEW n \in Nat, n \in N PROVE n + 1 \in N
  <2> SUFFICES ASSUME NEW d \in SUBSET S, Cardinality(d) = n + 1 PROVE d \in Q
    OBVIOUS
  <2>1. d # {} /\ Cardinality(d \ {c[d]}) = n /\ d \ {c[d]} \in SUBSET S
    BY <1>0
  <2> QED BY <1>2, <2>1
<1>3. Cardinality(S) \in N
  <2> HIDE DEF N
  <2>1. Cardinality(S) \in Nat
    BY Sizes
  <2> QED BY <1>1, <1>2, <2>1, Induction
<1> QED BY <1>3

Closed(g, S, X) == \A e \in S, x \in X : g[<<e, x>>] \in X

Solution(it, S, c, X, a, g) ==
  /\ it \in [SUBSET S -> X]
  /\ \A d \in SUBSET S : it[d] = IF d = {} THEN a ELSE g[<<c[d], it[d \ {c[d]}]>>]

\* A recursion over the subsets of a finite set has a solution.
LEMMA FoldExists ==
  ASSUME NEW S, NEW c, Chooses(c, S), NEW X, NEW a \in X, NEW g, Closed(g, S, X)
  PROVE  \E it : Solution(it, S, c, X, a, g)
<1>b. ASSUME NEW d \in SUBSET S
      PROVE  /\ Cardinality(d) \in Nat /\ (Cardinality(d) = 0 <=> d = {})
             /\ d # {} => c[d] \in d /\ d \ {c[d]} \in SUBSET S
                          /\ Cardinality(d \ {c[d]}) = Cardinality(d) - 1
  BY Sizes
<1> DEFINE Of(n) == {d \in SUBSET S : Cardinality(d) <= n}
           Solves(it, D) == \A d \in D : it[d] = IF d = {} THEN a ELSE g[<<c[d], it[d \ {c[d]}]>>]
           N == {n \in Nat : \E it \in [Of(n) -> X] : Solves(it, Of(n))}
<1>0. \A d \in SUBSET S : Cardinality(d) \in Nat /\ (Cardinality(d) = 0 <=> d = {})
  BY <1>b
<1>a. ASSUME NEW d \in SUBSET S, d # {}
      PROVE  /\ c[d] \in S /\ d \ {c[d]} \in SUBSET S
             /\ Cardinality(d \ {c[d]}) = Cardinality(d) - 1
  BY <1>a, <1>b
<1>1. 0 \in N
  <2> DEFINE it == [d \in Of(0) |-> a]
  <2>1. \A d \in Of(0) : d = {}
    BY <1>0
  <2>2. it \in [Of(0) -> X] /\ Solves(it, Of(0))
    BY <2>1
  <2> QED BY <2>2
<1>2. ASSUME NEW n \in Nat, n \in N PROVE n + 1 \in N
  <2>1. PICK it \in [Of(n) -> X] : Solves(it, Of(n))
    BY <1>2
  <2> DEFINE new == [d \in Of(n + 1) |-> IF d = {} THEN a ELSE g[<<c[d], it[d \ {c[d]}]>>]]
  <2>2. ASSUME NEW d \in Of(n + 1), d # {}
        PROVE  c[d] \in S /\ d \ {c[d]} \in Of(n)
    <3>1. Cardinality(d) \in Nat /\ Cardinality(d) <= n + 1
      BY <1>0
    <3>2. c[d] \in S /\ d \ {c[d]} \in SUBSET S /\ Cardinality(d \ {c[d]}) = Cardinality(d) - 1
      BY <1>a, <2>2
    <3> QED BY <3>1, <3>2
  <2>3. ASSUME NEW d \in Of(n) PROVE d \in Of(n + 1) /\ new[d] = it[d]
    <3>1. d \in Of(n + 1)
      BY <1>0
    <3>2. it[d] = IF d = {} THEN a ELSE g[<<c[d], it[d \ {c[d]}]>>]
      BY <2>1
    <3> QED BY <3>1, <3>2
  <2>4. new \in [Of(n + 1) -> X]
    <3>1. ASSUME NEW d \in Of(n + 1)
          PROVE  (IF d = {} THEN a ELSE g[<<c[d], it[d \ {c[d]}]>>]) \in X
      <4>1. CASE d = {}
        BY <4>1
      <4>2. CASE d # {}
        <5>1. c[d] \in S /\ it[d \ {c[d]}] \in X
          BY <2>2, <4>2
        <5> QED BY <4>2, <5>1 DEF Closed
      <4> QED BY <4>1, <4>2
    <3> QED BY <3>1
  <2>5. Solves(new, Of(n + 1))
    <3> SUFFICES ASSUME NEW d \in Of(n + 1)
                 PROVE  new[d] = IF d = {} THEN a ELSE g[<<c[d], new[d \ {c[d]}]>>]
      OBVIOUS
    <3>1. new[d] = IF d = {} THEN a ELSE g[<<c[d], it[d \ {c[d]}]>>]
      OBVIOUS
    <3>2. d # {} => new[d \ {c[d]}] = it[d \ {c[d]}]
      <4> HIDE DEF new, Of
      <4> QED BY <2>2, <2>3
    <3> HIDE DEF new
    <3> QED BY <3>1, <3>2
  <2> HIDE DEF new, Solves, Of
  <2> QED BY <2>4, <2>5
<1>3. Cardinality(S) \in N
  <2> HIDE DEF N
  <2>1. Cardinality(S) \in Nat
    BY Sizes
  <2> QED BY <1>1, <1>2, <2>1, Induction
<1>4. Of(Cardinality(S)) = SUBSET S
  BY FS_Subset, FS_CardinalityType DEF Chooses
<1> QED BY <1>3, <1>4 DEF Solution

-----------------------------------------------------------------------------
(* The store *)

LEMMA StoreIs ==
  ASSUME NEW s \in Store
  PROVE  /\ s.alerts \in [Incidents -> OpenRow \cup {Nothing}]
         /\ s.handledIds \in SUBSET Incidents /\ s.snoozed \in SUBSET Incidents
         /\ s.timers \in SUBSET Incidents /\ s.siren \in BOOLEAN
BY DEF Store

LEMMA RowIs ==
  ASSUME NEW row \in Row
  PROVE  /\ row.status \in Open \cup Decided /\ row # Nothing
         /\ row.status \in Later <=> row.status # "Unverified"
         /\ row.status \in Open => row \in OpenRow
BY DEF OpenRow, Row, Open, Decided, Later, Nothing

LEMMA AlarmOf ==
  ASSUME NEW s, NEW r, r.alerts = s.alerts, r.snoozed = s.snoozed
  PROVE  Pending(r) = Pending(s) /\ Alarming(r) = Alarming(s)
BY DEF Pending, Alarming

\* The siren follows, whatever a change did to the other fields.
LEMMA SyncFacts ==
  ASSUME NEW s, Consistent(s), NEW new \in Store, new.siren = s.siren, new.snoozed = new.timers,
         NEW r, r = SyncSound(s, new)
  PROVE  Consistent(r) /\ r.alerts = new.alerts /\ r.handledIds = new.handledIds
<1> DEFINE on == IF ~Alarming(s) /\ Alarming(new) THEN TRUE
                 ELSE IF Alarming(s) /\ ~Alarming(new) THEN FALSE ELSE new.siren
<1>1. r = [new EXCEPT !.siren = on]
  BY DEF SyncSound
<1>2. on = Alarming(new) /\ on \in BOOLEAN
  BY DEF Consistent, Alarming
<1> HIDE DEF on
<1>3. /\ r \in Store /\ r.alerts = new.alerts /\ r.handledIds = new.handledIds
      /\ r.snoozed = new.snoozed /\ r.timers = new.timers /\ r.siren = on
  BY <1>1, <1>2 DEF Store
<1>4. Alarming(r) = Alarming(new)
  BY <1>3, AlarmOf
<1> QED BY <1>2, <1>3, <1>4 DEF Consistent

LEMMA WithoutFacts ==
  ASSUME NEW s \in Store, s.snoozed = s.timers, NEW i, NEW r, r = WithoutSnooze(s, i)
  PROVE  /\ r \in Store /\ r.alerts = s.alerts /\ r.handledIds = s.handledIds
         /\ r.siren = s.siren /\ r.snoozed = r.timers
<1> DEFINE t == s.snoozed \ {i}
<1>1. r = [s EXCEPT !.snoozed = t, !.timers = t]
  BY DEF WithoutSnooze
<1>2. t \in SUBSET Incidents
  BY StoreIs
<1> HIDE DEF t
<1> QED BY <1>1, <1>2 DEF Store

LEMMA RemoveFacts ==
  ASSUME NEW s, Consistent(s), NEW i \in Incidents, NEW r, r = removeAlert(s, i)
  PROVE  /\ Consistent(r) /\ r.alerts = [s.alerts EXCEPT ![i] = Nothing]
         /\ r.handledIds = s.handledIds \cup {i}
<1> DEFINE w == WithoutSnooze(s, i)
           new == [w EXCEPT !.alerts[i] = Nothing, !.handledIds = w.handledIds \cup {i}]
<1>1. r = SyncSound(s, new)
  BY DEF removeAlert
<1>2. /\ w \in Store /\ w.alerts = s.alerts /\ w.handledIds = s.handledIds
      /\ w.siren = s.siren /\ w.snoozed = w.timers
  <2> HIDE DEF w
  <2>1. w = WithoutSnooze(s, i)
    BY DEF w
  <2> QED BY <2>1, WithoutFacts DEF Consistent
<1> HIDE DEF w
<1>3. w.handledIds \cup {i} \in SUBSET Incidents
  BY <1>2, StoreIs
<1>4. /\ new \in Store /\ new.alerts = [w.alerts EXCEPT ![i] = Nothing]
      /\ new.handledIds = w.handledIds \cup {i}
      /\ new.siren = w.siren /\ new.snoozed = w.snoozed /\ new.timers = w.timers
  <2> DEFINE a == [w.alerts EXCEPT ![i] = Nothing]
             h == w.handledIds \cup {i}
  <2>1. new = [w EXCEPT !.alerts = a, !.handledIds = h]
    BY DEF new
  <2>2. a \in [Incidents -> OpenRow \cup {Nothing}] /\ h \in SUBSET Incidents /\ w \in Store
    BY <1>2, <1>3, StoreIs
  <2> HIDE DEF new, a, h
  <2>3. /\ new \in Store /\ new.alerts = a /\ new.handledIds = h
        /\ new.siren = w.siren /\ new.snoozed = w.snoozed /\ new.timers = w.timers
    BY <2>1, <2>2 DEF Store
  <2> QED BY <2>3 DEF a, h
<1> HIDE DEF new
<1> QED BY <1>1, <1>2, <1>4, SyncFacts

LEMMA ClearFacts ==
  ASSUME NEW s, Consistent(s), NEW i, NEW r, r = clearSnooze(s, i)
  PROVE  Consistent(r) /\ r.alerts = s.alerts /\ r.handledIds = s.handledIds
<1> DEFINE w == WithoutSnooze(s, i)
<1>1. r = SyncSound(s, w)
  BY DEF clearSnooze
<1>2. /\ w \in Store /\ w.alerts = s.alerts /\ w.handledIds = s.handledIds
      /\ w.siren = s.siren /\ w.snoozed = w.timers
  <2> HIDE DEF w
  <2>1. w = WithoutSnooze(s, i)
    BY DEF w
  <2> QED BY <2>1, WithoutFacts DEF Consistent
<1> HIDE DEF w
<1> QED BY <1>1, <1>2, SyncFacts

LEMMA ActivateFacts ==
  ASSUME NEW s, Consistent(s), NEW i \in Incidents, NEW r, r = activateSnooze(s, i)
  PROVE  Consistent(r) /\ r.alerts = s.alerts /\ r.handledIds = s.handledIds
<1> DEFINE t == s.snoozed \cup {i}
           w == [s EXCEPT !.snoozed = t, !.timers = t]
<1>1. r = SyncSound(s, w)
  BY DEF activateSnooze, Consistent
<1>2. t \in SUBSET Incidents
  BY StoreIs DEF Consistent
<1> HIDE DEF t
<1>3. /\ w \in Store /\ w.alerts = s.alerts /\ w.handledIds = s.handledIds
      /\ w.siren = s.siren /\ w.snoozed = w.timers
  BY <1>2 DEF Consistent, Store
<1> HIDE DEF w
<1> QED BY <1>1, <1>3, SyncFacts

\* What addAlert does with a row: it is too old, it decides the incident, it is
\* the confirmation, it was suppressed, or it is queued.
LEMMA AddFacts ==
  ASSUME NEW s, Consistent(s), NEW i \in Incidents, NEW row \in Row,
         NEW r, r = addAlert(s, i, row)
  PROVE  /\ Consistent(r)
         /\ \/ r = s /\ s.alerts[i] # Nothing
            \/ /\ row.status \in Decided
               /\ r.alerts = [s.alerts EXCEPT ![i] = Nothing]
               /\ r.handledIds = s.handledIds \cup {i}
            \/ /\ row.status = "Ongoing"
               /\ r.alerts = [s.alerts EXCEPT ![i] = row]
               /\ r.handledIds = s.handledIds \ {i}
            \/ r = s /\ row.status = "Unverified" /\ i \in s.handledIds
            \/ /\ row.status = "Unverified" /\ i \notin s.handledIds
               /\ r.alerts = [s.alerts EXCEPT ![i] = row]
               /\ r.handledIds = s.handledIds
<1>1. CASE ~shouldApplyIncidentEvent(row, s.alerts[i])
  BY <1>1 DEF addAlert, shouldApplyIncidentEvent
<1>2. CASE shouldApplyIncidentEvent(row, s.alerts[i]) /\ row.status \in Decided
  <2>1. r = removeAlert(s, i)
    BY <1>2 DEF addAlert
  <2> QED BY <1>2, <2>1, RemoveFacts
<1>3. CASE shouldApplyIncidentEvent(row, s.alerts[i]) /\ row.status = "Ongoing"
  <2> DEFINE w == WithoutSnooze(s, i)
             new == [w EXCEPT !.alerts[i] = row, !.handledIds = w.handledIds \ {i}]
  <2>1. r = SyncSound(s, new)
    BY <1>3 DEF addAlert, Decided
  <2>2. /\ w \in Store /\ w.alerts = s.alerts /\ w.handledIds = s.handledIds
        /\ w.siren = s.siren /\ w.snoozed = w.timers
    <3> HIDE DEF w
    <3>1. w = WithoutSnooze(s, i)
      BY DEF w
    <3> QED BY <3>1, WithoutFacts DEF Consistent
  <2> HIDE DEF w
  <2>3. w.handledIds \ {i} \in SUBSET Incidents /\ row \in OpenRow
    BY <1>3, <2>2, StoreIs, RowIs DEF Open
  <2>4. /\ new \in Store /\ new.alerts = [w.alerts EXCEPT ![i] = row]
        /\ new.handledIds = w.handledIds \ {i}
        /\ new.siren = w.siren /\ new.snoozed = w.snoozed /\ new.timers = w.timers
    <3> DEFINE a == [w.alerts EXCEPT ![i] = row]
               h == w.handledIds \ {i}
    <3>1. new = [w EXCEPT !.alerts = a, !.handledIds = h]
      BY DEF new
    <3>2. a \in [Incidents -> OpenRow \cup {Nothing}] /\ h \in SUBSET Incidents /\ w \in Store
      BY <2>2, <2>3, StoreIs
    <3> HIDE DEF new, a, h
    <3>3. /\ new \in Store /\ new.alerts = a /\ new.handledIds = h
          /\ new.siren = w.siren /\ new.snoozed = w.snoozed /\ new.timers = w.timers
      BY <3>1, <3>2 DEF Store
    <3> QED BY <3>3 DEF a, h
  <2> HIDE DEF new
  <2> QED BY <1>3, <2>1, <2>2, <2>4, SyncFacts
<1>4. CASE /\ shouldApplyIncidentEvent(row, s.alerts[i]) /\ row.status \notin Decided
           /\ row.status # "Ongoing"
  <2>0. row.status = "Unverified"
    BY <1>4, RowIs DEF Open
  <2>1. CASE i \in s.handledIds
    <3>1. r = s
      BY <1>4, <2>1 DEF addAlert
    <3> QED BY <2>0, <2>1, <3>1
  <2>2. CASE i \notin s.handledIds
    <3> DEFINE new == [s EXCEPT !.alerts[i] = row, !.handledIds = s.handledIds]
    <3>1. s \in Store /\ s.handledIds \in SUBSET Incidents /\ s.snoozed = s.timers
      BY StoreIs DEF Consistent
    <3>2. [s EXCEPT !.alerts[i] = row] = new
      BY <3>1 DEF Store
    <3>3. r = SyncSound(s, new)
      BY <1>4, <2>2, <3>2 DEF addAlert
    <3>4. row \in OpenRow
      BY <2>0, RowIs DEF Open
    <3>5. /\ new \in Store /\ new.alerts = [s.alerts EXCEPT ![i] = row]
          /\ new.handledIds = s.handledIds
          /\ new.siren = s.siren /\ new.snoozed = s.snoozed /\ new.timers = s.timers
      <4> DEFINE a == [s.alerts EXCEPT ![i] = row]
                 h == s.handledIds
      <4>1. new = [s EXCEPT !.alerts = a, !.handledIds = h]
        BY DEF new
      <4>2. a \in [Incidents -> OpenRow \cup {Nothing}] /\ h \in SUBSET Incidents
        BY <3>1, <3>4, StoreIs
      <4> HIDE DEF new, a, h
      <4>3. /\ new \in Store /\ new.alerts = a /\ new.handledIds = h
            /\ new.siren = s.siren /\ new.snoozed = s.snoozed /\ new.timers = s.timers
        BY <3>1, <4>1, <4>2 DEF Store
      <4> QED BY <4>3 DEF a, h
    <3> HIDE DEF new
    <3> QED BY <2>0, <2>2, <3>1, <3>3, <3>5, SyncFacts
  <2> QED BY <2>1, <2>2
<1> QED BY <1>1, <1>2, <1>3, <1>4

-----------------------------------------------------------------------------
(* What rows, snapshots and events do to the store *)

LEMMA ServerIs ==
  ASSUME ServerInv, NEW i \in Incidents
  PROVE  /\ server[i] \in Row \cup {Nothing}
         /\ Past(i) \/ Unverified(i) <=> server[i] \in Row
         /\ ~(Past(i) /\ Unverified(i))
<1>1. server[i] \in Row \cup {Nothing}
  BY DEF ServerInv
<1>2. CASE server[i] \in Row
  BY <1>2, RowIs DEF Unverified, Past
<1>3. CASE server[i] = Nothing
  BY <1>3, RowIs DEF Nothing, Unverified, Past, Later, Decided
<1> QED BY <1>1, <1>2, <1>3

LEMMA QueuedIs ==
  ASSUME NEW s, s \in Store, NEW i \in Incidents
  PROVE  /\ s.alerts[i] \in OpenRow \cup {Nothing}
         /\ i \in Pending(s) <=> s.alerts[i] # Nothing /\ s.alerts[i].status \notin Later
<1>1. s.alerts[i] \in OpenRow \cup {Nothing}
  BY StoreIs
<1>2. CASE s.alerts[i] \in OpenRow
  <2>1. s.alerts[i] \in Row /\ s.alerts[i].status \in Open
    BY <1>2 DEF OpenRow
  <2> QED BY <1>1, <2>1, RowIs DEF Pending, Open
<1>3. CASE s.alerts[i] = Nothing
  BY <1>1, <1>3 DEF Pending, Nothing
<1> QED BY <1>1, <1>2, <1>3

Arrived(s, i) == Unverified(i) => i \in Pending(s) \cup closed

\* What a change of the store keeps.
Leads(s, r) ==
  /\ Sound(r)
  /\ \A i \in Incidents : Unverified(i) /\ i \in Pending(s) => i \in Pending(r)

LEMMA LeadsOn ==
  ASSUME NEW s, NEW r, NEW t, Leads(s, r), Leads(r, t)
  PROVE  Leads(s, t)
BY DEF Leads

LEMMA StillArrived ==
  ASSUME NEW s, NEW r, Leads(s, r), NEW i \in Incidents, Arrived(s, i)
  PROVE  Arrived(r, i)
BY DEF Leads, Arrived

\* A change of the snoozes alone.
LEMMA SnoozeLeads ==
  ASSUME NEW s, Sound(s), NEW r, Consistent(r), r.alerts = s.alerts,
         r.handledIds = s.handledIds
  PROVE  Leads(s, r)
<1>1. Sound(r)
  BY DEF Sound
<1>2. Pending(r) = Pending(s)
  BY DEF Pending
<1> QED BY <1>1, <1>2 DEF Leads

LEMMA AddLeads ==
  ASSUME ServerInv, NEW s, Sound(s), NEW i \in Incidents, NEW row \in Row, Had(i, row),
         NEW r, r = addAlert(s, i, row)
  PROVE  Leads(s, r) /\ Arrived(r, i)
<1> DEFINE
      Old == r = s /\ s.alerts[i] # Nothing
      Ends == /\ row.status \in Decided
              /\ r.alerts = [s.alerts EXCEPT ![i] = Nothing]
              /\ r.handledIds = s.handledIds \cup {i}
      Confirms == /\ row.status = "Ongoing"
                  /\ r.alerts = [s.alerts EXCEPT ![i] = row]
                  /\ r.handledIds = s.handledIds \ {i}
      Suppressed == r = s /\ row.status = "Unverified" /\ i \in s.handledIds
      Enters == /\ row.status = "Unverified" /\ i \notin s.handledIds
                /\ r.alerts = [s.alerts EXCEPT ![i] = row]
                /\ r.handledIds = s.handledIds
<1>1. Consistent(s) /\ s \in Store
  BY DEF Sound, Consistent
<1>2. Consistent(r) /\ (Old \/ Ends \/ Confirms \/ Suppressed \/ Enters)
  BY <1>1, AddFacts
<1>3. r \in Store
  BY <1>2 DEF Consistent
<1>4. /\ row # Nothing /\ (row.status \in Later <=> row.status # "Unverified")
      /\ row.status \in Later => Past(i)
  BY RowIs DEF Had
<1>5. /\ s.alerts \in [Incidents -> OpenRow \cup {Nothing}] /\ s.handledIds \in SUBSET Incidents
      /\ r.alerts \in [Incidents -> OpenRow \cup {Nothing}] /\ r.handledIds \in SUBSET Incidents
  BY <1>1, <1>3, StoreIs
<1>6. \A j \in Incidents : j # i => r.alerts[j] = s.alerts[j]
  BY <1>2, <1>5
<1>b. Ends => r.alerts[i] = Nothing /\ r.handledIds = s.handledIds \cup {i} /\ Past(i)
  BY <1>4, <1>5 DEF Later
<1>c. Confirms => r.alerts[i] = row /\ r.handledIds \subseteq s.handledIds /\ Past(i)
  BY <1>4, <1>5 DEF Later
<1>d. Enters => r.alerts[i] = row /\ r.handledIds = s.handledIds /\ row.status \notin Later
  BY <1>4, <1>5
<1>f. Old => r = s /\ s.alerts[i] # Nothing
  OBVIOUS
<1>g. Suppressed => r = s /\ i \in s.handledIds
  OBVIOUS
<1>h. Old \/ Suppressed \/ Ends \/ Confirms \/ Enters
  BY <1>2
<1>7. ~(Past(i) /\ Unverified(i))
  BY ServerIs
<1> HIDE DEF Old, Ends, Confirms, Suppressed, Enters
<1>8. Sound(r)
  <2>1. ASSUME NEW j \in Incidents, r.alerts[j] # Nothing PROVE Had(j, r.alerts[j])
    <3>1. r.alerts[j] = s.alerts[j] \/ (j = i /\ (r.alerts[j] = Nothing \/ r.alerts[j] = row))
      BY <1>6, <1>b, <1>c, <1>d, <1>f, <1>g, <1>h
    <3>2. s.alerts[j] # Nothing => Had(j, s.alerts[j])
      BY DEF Sound
    <3> QED BY <2>1, <3>1, <3>2
  <2>2. ASSUME NEW j \in r.handledIds PROVE Past(j) \/ j \in closed
    <3>1. j \in s.handledIds \/ (j = i /\ Past(i))
      BY <1>b, <1>c, <1>d, <1>f, <1>g, <1>h
    <3>2. j \in s.handledIds => Past(j) \/ j \in closed
      BY DEF Sound
    <3> QED BY <3>1, <3>2
  <2> QED BY <1>2, <2>1, <2>2 DEF Sound
<1>9. ASSUME NEW j \in Incidents, Unverified(j), j \in Pending(s) PROVE j \in Pending(r)
  <2>1. r.alerts[j] = s.alerts[j] \/ (j = i /\ r.alerts[j] = row /\ row.status \notin Later)
    BY <1>6, <1>7, <1>9, <1>b, <1>c, <1>d, <1>f, <1>g, <1>h
  <2>2. s.alerts[j] # Nothing /\ s.alerts[j].status \notin Later
    BY <1>1, <1>9, QueuedIs
  <2>3. r.alerts[j] # Nothing /\ r.alerts[j].status \notin Later
    BY <1>4, <2>1, <2>2
  <2> QED BY <1>3, <2>3, QueuedIs
<1>10. Arrived(r, i)
  <2> SUFFICES ASSUME Unverified(i) PROVE i \in Pending(r) \cup closed
    BY DEF Arrived
  <2>1. ~Past(i)
    BY <1>7
  <2>2. CASE Enters
    BY <1>3, <1>4, <1>d, <2>2, QueuedIs
  <2>3. CASE Old
    <3>1. s.alerts[i].status \notin Later
      BY <1>f, <2>1, <2>3 DEF Sound, Had
    <3> QED BY <1>1, <1>f, <2>3, <3>1, QueuedIs
  <2>4. CASE Suppressed
    BY <1>g, <2>1, <2>4 DEF Sound
  <2> QED BY <1>b, <1>c, <1>h, <2>1, <2>2, <2>3, <2>4
<1> QED BY <1>8, <1>9, <1>10 DEF Leads

\* A snooze asks for a known incident; the other events for a row as well.
LEMMA ApplyLeads ==
  ASSUME ServerInv, NEW s, Sound(s), NEW e, Genuine(e), NEW r, r = applyEnvelope(s, e)
  PROVE  Leads(s, r) /\ \A i \in Incidents : IsAbout(e, i) => Arrived(r, i)
<1>0. Consistent(s)
  BY DEF Sound
<1>1. CASE e.kind = "incident"
  <2>1. e.id \in Incidents /\ e.row \in Row /\ Had(e.id, e.row)
    BY <1>1 DEF Genuine, GenuineIn, Event, Had, Past
  <2>2. r = addAlert(s, e.id, e.row)
    BY <1>1 DEF applyEnvelope
  <2>3. Leads(s, r) /\ Arrived(r, e.id)
    BY <2>1, <2>2, AddLeads
  <2> QED BY <2>3 DEF IsAbout
<1>2. CASE e.kind = "snooze"
  <2>1. e.id \in Incidents
    BY <1>2 DEF Genuine, GenuineIn, Event
  <2>2. r = activateSnooze(s, e.id)
    BY <1>2 DEF applyEnvelope
  <2>3. Consistent(r) /\ r.alerts = s.alerts /\ r.handledIds = s.handledIds
    BY <1>0, <2>1, <2>2, ActivateFacts
  <2> QED BY <1>2, <2>3, SnoozeLeads DEF IsAbout
<1>3. CASE e.kind = "re_alarm"
  <2>1. r = clearSnooze(s, e.id)
    BY <1>3 DEF applyEnvelope
  <2>2. Consistent(r) /\ r.alerts = s.alerts /\ r.handledIds = s.handledIds
    BY <1>0, <2>1, ClearFacts
  <2> QED BY <1>3, <2>2, SnoozeLeads DEF IsAbout
<1>4. e.kind \in {"incident", "snooze", "re_alarm"}
  BY DEF Genuine, GenuineIn, Event
<1> QED BY <1>1, <1>2, <1>3, <1>4

\* What a fold of such changes keeps, when the one for x brings the incidents
\* that A relates to x.
LEMMA FoldLeads ==
  ASSUME NEW S, NEW c, Chooses(c, S), NEW s, Sound(s), NEW A, NEW it, it[{}] = s,
         \A d \in SUBSET S : d # {} /\ Sound(it[d \ {c[d]}]) =>
           /\ Leads(it[d \ {c[d]}], it[d])
           /\ \A i \in Incidents : <<c[d], i>> \in A => Arrived(it[d], i)
  PROVE  Leads(s, it[S]) /\ \A x \in S, i \in Incidents : <<x, i>> \in A => Arrived(it[S], i)
<1> DEFINE Q == {d \in SUBSET S : /\ Leads(s, it[d])
                                  /\ \A x \in d, i \in Incidents :
                                       <<x, i>> \in A => Arrived(it[d], i)}
<1>1. {} \in Q
  BY DEF Leads
<1>2. ASSUME NEW d \in SUBSET S, d # {}, d \ {c[d]} \in Q
      PROVE  d \in Q
  <2> DEFINE e == d \ {c[d]}
  <2>1. Leads(s, it[e]) /\ \A x \in e, i \in Incidents : <<x, i>> \in A => Arrived(it[e], i)
    BY <1>2
  <2>2. Sound(it[e])
    BY <2>1 DEF Leads
  <2>3. Leads(it[e], it[d]) /\ \A i \in Incidents : <<c[d], i>> \in A => Arrived(it[d], i)
    BY <1>2, <2>2
  <2>4. Leads(s, it[d])
    BY <2>1, <2>3, LeadsOn
  <2>5. ASSUME NEW x \in d, NEW i \in Incidents, <<x, i>> \in A PROVE Arrived(it[d], i)
    <3>1. CASE x \in e
      <4>1. Arrived(it[e], i)
        BY <2>1, <2>5, <3>1
      <4> QED BY <2>3, <4>1, StillArrived
    <3>2. CASE x = c[d]
      BY <2>3, <2>5, <3>2
    <3> QED BY <3>1, <3>2
  <2> QED BY <2>4, <2>5
<1>3. S \in Q
  <2> HIDE DEF Q
  <2> QED BY <1>1, <1>2, SetInduction
<1> QED BY <1>3

LEMMA MaxIn ==
  ASSUME NEW n \in Nat, NEW d \in SUBSET (1..n), d # {}
  PROVE  Max(d) \in d
<1> DEFINE T == {m \in 0..n : n - m \in d}
<1>0. \A k \in d : k \in 1..n /\ n - k \in 0..n /\ n - (n - k) = k
  OBVIOUS
<1>1. T \in SUBSET Nat /\ T # {}
  <2>1. PICK k \in d : TRUE
    OBVIOUS
  <2>2. n - k \in T
    BY <1>0
  <2> QED BY <2>2
<1>2. PICK m \in T : \A j \in T : m <= j
  BY <1>1, Least
<1>3. n - m \in d
  BY <1>2
<1>4. ASSUME NEW j \in d PROVE n - m >= j
  <2>1. m <= n - j
    BY <1>0, <1>2
  <2> QED BY <1>0, <1>2, <2>1
<1> QED BY <1>3, <1>4 DEF Max

\* What FoldLeft builds of the events of buf.
Played(it, s, buf) ==
  it = [d \in SUBSET DOMAIN buf |->
          IF d = {} THEN s
          ELSE LET x == Max(d) IN applyEnvelope(it[d \ {x}], buf[x])]

LEMMA PlayedExists ==
  ASSUME ServerInv, NEW s, Sound(s), NEW buf, Buffered(buf)
  PROVE  \E it : Played(it, s, buf)
<1> DEFINE S == DOMAIN buf
           X == {t \in Store : Sound(t)}
           c == [d \in SUBSET S |-> Max(d)]
           g == [p \in S \X X |-> applyEnvelope(p[2], buf[p[1]])]
<1>1. Chooses(c, S)
  <2>1. S = 1..Len(buf) /\ Len(buf) \in Nat
    BY DEF Buffered
  <2>2. \A d \in SUBSET S : d # {} => Max(d) \in d
    BY <2>1, MaxIn
  <2>3. IsFiniteSet(S)
    BY <2>1, FS_Interval
  <2> QED BY <2>2, <2>3 DEF Chooses
<1>2. \A t : Sound(t) => t \in X
  BY DEF Sound, Consistent
<1>3. Closed(g, S, X)
  <2> SUFFICES ASSUME NEW e \in S, NEW t \in X PROVE g[<<e, t>>] \in X
    BY DEF Closed
  <2>1. g[<<e, t>>] = applyEnvelope(t, buf[e])
    OBVIOUS
  <2>2. Genuine(buf[e])
    BY DEF Buffered
  <2>3. Sound(applyEnvelope(t, buf[e]))
    BY <2>2, ApplyLeads DEF Leads
  <2> QED BY <1>2, <2>1, <2>3
<1>4. s \in X
  BY <1>2
<1>a. PICK it : Solution(it, S, c, X, s, g)
  <2> HIDE DEF S, X, c, g
  <2> QED BY <1>1, <1>3, <1>4, FoldExists
<1>5. /\ it \in [SUBSET S -> X]
      /\ \A d \in SUBSET S : it[d] = IF d = {} THEN s ELSE g[<<c[d], it[d \ {c[d]}]>>]
  BY <1>a DEF Solution
<1>6. ASSUME NEW d \in SUBSET S, d # {}
      PROVE  it[d] = LET x == Max(d) IN applyEnvelope(it[d \ {x}], buf[x])
  <2> DEFINE x == Max(d)
  <2>1. c[d] = x
    OBVIOUS
  <2>2. x \in S /\ d \ {x} \in SUBSET S
    BY <1>1, <1>6, <2>1 DEF Chooses
  <2> HIDE DEF x
  <2>3. it[d \ {x}] \in X
    BY <1>5, <2>2
  <2>4. it[d] = g[<<x, it[d \ {x}]>>]
    BY <1>5, <1>6, <2>1
  <2>5. it[d] = applyEnvelope(it[d \ {x}], buf[x])
    BY <2>2, <2>3, <2>4
  <2> QED BY <2>5 DEF x
<1>7. it[{}] = s
  BY <1>5
<1>8. it = [d \in SUBSET S |-> it[d]]
  BY <1>5
<1> HIDE DEF X, c, g
<1>9. Played(it, s, buf)
  BY <1>6, <1>7, <1>8, Zenon DEF Played
<1> QED BY <1>9

\* Every event that was buffered has arrived when the recovery ends.
LEMMA ReplayLeads ==
  ASSUME ServerInv, NEW s, Sound(s), NEW buf, Buffered(buf), NEW it, Played(it, s, buf)
  PROVE  LET r == it[DOMAIN buf]
         IN  /\ Leads(s, r)
             /\ \A n \in 1..Len(buf), i \in Incidents : IsAbout(buf[n], i) => Arrived(r, i)
<1> DEFINE S == DOMAIN buf
           c == [d \in SUBSET S |-> Max(d)]
           A == {p \in S \X Incidents : IsAbout(buf[p[1]], p[2])}
<1>0. S = 1..Len(buf) /\ Len(buf) \in Nat
  BY DEF Buffered
<1>1. Chooses(c, S)
  <2>1. \A d \in SUBSET S : d # {} => Max(d) \in d
    BY <1>0, MaxIn
  <2>2. IsFiniteSet(S)
    BY <1>0, FS_Interval
  <2> QED BY <2>1, <2>2 DEF Chooses
<1>2. it[{}] = s
  BY DEF Played
<1>3. ASSUME NEW d \in SUBSET S, d # {}, Sound(it[d \ {c[d]}])
      PROVE  /\ Leads(it[d \ {c[d]}], it[d])
             /\ \A i \in Incidents : <<c[d], i>> \in A => Arrived(it[d], i)
  <2> DEFINE x == Max(d)
  <2>1. c[d] = x
    OBVIOUS
  <2>2. x \in S
    BY <1>1, <1>3, <2>1 DEF Chooses
  <2>3. it[d] = applyEnvelope(it[d \ {x}], buf[x])
    BY <1>3, Zenon DEF Played
  <2> HIDE DEF x
  <2>4. Genuine(buf[x])
    BY <1>0, <2>2 DEF Buffered
  <2> DEFINE t == it[d \ {x}]
             r == it[d]
  <2>5. Sound(t) /\ r = applyEnvelope(t, buf[x])
    BY <1>3, <2>1, <2>3
  <2> HIDE DEF t, r
  <2>6. Leads(t, r) /\ \A i \in Incidents : IsAbout(buf[x], i) => Arrived(r, i)
    BY <2>4, <2>5, ApplyLeads
  <2> HIDE DEF c
  <2> QED BY <2>1, <2>6 DEF t, r
<1>4. Leads(s, it[S]) /\ \A x \in S, i \in Incidents : <<x, i>> \in A => Arrived(it[S], i)
  <2> HIDE DEF S, c, A
  <2> QED BY <1>1, <1>2, <1>3, FoldLeads
<1> QED BY <1>0, <1>4

\* What Snapshot does with one row.
AddRow(t, i, rows, snoozed) ==
  LET added == addAlert(t, i, rows[i])
  IN  IF i \in snoozed THEN activateSnooze(added, i) ELSE added

LEMMA AddRowLeads ==
  ASSUME ServerInv, NEW t, Sound(t), NEW i \in Incidents, NEW rows, rows[i] \in Row,
         Had(i, rows[i]), NEW snoozed, NEW r, r = AddRow(t, i, rows, snoozed)
  PROVE  Leads(t, r) /\ Arrived(r, i)
<1> DEFINE added == addAlert(t, i, rows[i])
<1>1. r = IF i \in snoozed THEN activateSnooze(added, i) ELSE added
  BY DEF AddRow
<1>2. Leads(t, added) /\ Arrived(added, i)
  BY AddLeads
<1> HIDE DEF added
<1>3. Sound(added)
  BY <1>2 DEF Leads
<1>4. CASE i \in snoozed
  <2>1. r = activateSnooze(added, i)
    BY <1>1, <1>4
  <2>2. Consistent(r) /\ r.alerts = added.alerts /\ r.handledIds = added.handledIds
    BY <1>3, <2>1, ActivateFacts DEF Sound
  <2>3. Leads(added, r)
    BY <1>3, <2>2, SnoozeLeads
  <2> QED BY <1>2, <2>3, LeadsOn, StillArrived
<1>5. CASE i \notin snoozed
  BY <1>1, <1>2, <1>5
<1> QED BY <1>4, <1>5

\* What FoldSet builds of the rows of a snapshot.
Added(it, s, rows, snoozed) ==
  it = [d \in SUBSET {i \in Incidents : rows[i] # Nothing} |->
          IF d = {} THEN s
          ELSE LET x == CHOOSE x \in d : TRUE IN AddRow(it[d \ {x}], x, rows, snoozed)]

LEMMA AddedExists ==
  ASSUME ServerInv, NEW s, Sound(s), NEW rows, NEW snoozed, IsSnapshot(rows, snoozed)
  PROVE  \E it : Added(it, s, rows, snoozed)
<1> DEFINE S == {i \in Incidents : rows[i] # Nothing}
           X == {t \in Store : Sound(t)}
           c == [d \in SUBSET S |-> CHOOSE x \in d : TRUE]
           g == [p \in S \X X |-> AddRow(p[2], p[1], rows, snoozed)]
<1>1. Chooses(c, S)
  <2>1. IsFiniteSet(S)
    BY IncidentsAssumption, FS_Subset
  <2> QED BY <2>1 DEF Chooses
<1>2. \A t : Sound(t) => t \in X
  BY DEF Sound, Consistent
<1>3. Closed(g, S, X)
  <2> SUFFICES ASSUME NEW e \in S, NEW t \in X PROVE g[<<e, t>>] \in X
    BY DEF Closed
  <2>1. g[<<e, t>>] = AddRow(t, e, rows, snoozed)
    OBVIOUS
  <2>2. e \in Incidents /\ rows[e] \in Row /\ Had(e, rows[e])
    BY DEF IsSnapshot, OpenRow
  <2>3. Sound(t)
    OBVIOUS
  <2>4. Sound(AddRow(t, e, rows, snoozed))
    BY <2>2, <2>3, AddRowLeads DEF Leads
  <2> QED BY <1>2, <2>1, <2>4
<1>4. s \in X
  BY <1>2
<1>a. PICK it : Solution(it, S, c, X, s, g)
  <2> HIDE DEF S, X, c, g
  <2> QED BY <1>1, <1>3, <1>4, FoldExists
<1>5. /\ it \in [SUBSET S -> X]
      /\ \A d \in SUBSET S : it[d] = IF d = {} THEN s ELSE g[<<c[d], it[d \ {c[d]}]>>]
  BY <1>a DEF Solution
<1>6. ASSUME NEW d \in SUBSET S, d # {}
      PROVE  it[d] = LET x == CHOOSE x \in d : TRUE IN AddRow(it[d \ {x}], x, rows, snoozed)
  <2> DEFINE x == CHOOSE x \in d : TRUE
  <2>1. c[d] = x
    OBVIOUS
  <2>2. x \in S /\ d \ {x} \in SUBSET S
    BY <1>1, <1>6, <2>1 DEF Chooses
  <2> HIDE DEF x
  <2>3. it[d \ {x}] \in X
    BY <1>5, <2>2
  <2>4. it[d] = g[<<x, it[d \ {x}]>>]
    BY <1>5, <1>6, <2>1
  <2>5. it[d] = AddRow(it[d \ {x}], x, rows, snoozed)
    BY <2>2, <2>3, <2>4
  <2> QED BY <2>5 DEF x
<1>7. it[{}] = s
  BY <1>5
<1>8. it = [d \in SUBSET S |-> it[d]]
  BY <1>5
<1> HIDE DEF X, c, g
<1>9. Added(it, s, rows, snoozed)
  BY <1>6, <1>7, <1>8, Zenon DEF Added
<1> QED BY <1>9

\* Every incident of the snapshot has arrived when it is added.
LEMMA AddedLeads ==
  ASSUME ServerInv, NEW s, Sound(s), NEW rows, NEW snoozed, IsSnapshot(rows, snoozed),
         NEW it, Added(it, s, rows, snoozed)
  PROVE  LET r == it[{i \in Incidents : rows[i] # Nothing}]
         IN  Leads(s, r) /\ \A i \in Incidents : rows[i] # Nothing => Arrived(r, i)
<1> DEFINE S == {i \in Incidents : rows[i] # Nothing}
           c == [d \in SUBSET S |-> CHOOSE x \in d : TRUE]
           A == {p \in S \X Incidents : p[1] = p[2]}
<1>1. Chooses(c, S)
  <2>1. IsFiniteSet(S)
    BY IncidentsAssumption, FS_Subset
  <2> QED BY <2>1 DEF Chooses
<1>2. it[{}] = s
  BY DEF Added
<1>3. ASSUME NEW d \in SUBSET S, d # {}, Sound(it[d \ {c[d]}])
      PROVE  /\ Leads(it[d \ {c[d]}], it[d])
             /\ \A i \in Incidents : <<c[d], i>> \in A => Arrived(it[d], i)
  <2> DEFINE x == CHOOSE x \in d : TRUE
  <2>1. c[d] = x
    OBVIOUS
  <2>2. x \in S
    BY <1>1, <1>3, <2>1 DEF Chooses
  <2>3. it[d] = AddRow(it[d \ {x}], x, rows, snoozed)
    BY <1>3, Zenon DEF Added
  <2> HIDE DEF x
  <2>4. x \in Incidents /\ rows[x] \in Row /\ Had(x, rows[x])
    BY <2>2 DEF IsSnapshot, OpenRow
  <2> DEFINE t == it[d \ {x}]
             r == it[d]
  <2>5. Sound(t) /\ r = AddRow(t, x, rows, snoozed)
    BY <1>3, <2>1, <2>3
  <2> HIDE DEF t, r
  <2>6. Leads(t, r) /\ Arrived(r, x)
    BY <2>4, <2>5, AddRowLeads
  <2> HIDE DEF c
  <2> QED BY <2>1, <2>6 DEF t, r
<1>4. Leads(s, it[S]) /\ \A x \in S, i \in Incidents : <<x, i>> \in A => Arrived(it[S], i)
  <2> HIDE DEF S, c, A
  <2> QED BY <1>1, <1>2, <1>3, FoldLeads
<1>5. ASSUME NEW i \in Incidents, rows[i] # Nothing PROVE Arrived(it[S], i)
  <2>1. i \in S /\ <<i, i>> \in A
    BY <1>5
  <2> HIDE DEF S, A
  <2> QED BY <1>4, <2>1
<1> QED BY <1>4, <1>5

-----------------------------------------------------------------------------
(* The server *)

\* An incident does not go back.
Forward == \A i \in Incidents : /\ Past(i) => Past(i)'
                                /\ server[i] \in Row => server'[i] \in Row

\* What a step that commits something does, or one that does not.
Commits ==
  /\ server' \in [Incidents -> Row \cup {Nothing}] /\ muted' \subseteq Incidents
  /\ \A i \in muted' : server'[i] \in Row
  /\ mutes' \in 0..MaxMutes
  /\ Forward
  /\ outgoing \subseteq outgoing'
  /\ \A e \in outgoing' \ outgoing : Genuine(e)'
  /\ \A i \in Incidents : Unverified(i)' => Unverified(i) \/ \E e \in outgoing' : IsAbout(e, i)

LEMMA GenuineStays ==
  ASSUME Forward, NEW e, Genuine(e)
  PROVE  Genuine(e)'
<1>1. CASE e.kind = "incident"
  <2>1. e.id \in Incidents
    BY <1>1 DEF Genuine, GenuineIn, Event
  <2> QED BY <1>1, <2>1 DEF Genuine, GenuineIn, Forward, Past
<1>2. CASE e.kind # "incident"
  BY <1>2 DEF Genuine, GenuineIn
<1> QED BY <1>1, <1>2

\* Write: the row of the incident changes, its event is to come.
LEMMA WriteCommits ==
  ASSUME ServerInv, CountInv, NEW i \in Incidents, NEW status \in Open \cup Decided,
         NEW now \in 1..MaxStamp, Write(i, status, now),
         status = "Unverified" => server[i] = Nothing
  PROVE  Commits /\ server'[i] = [status |-> status, key |-> now] /\ server'[i] \in Row
<1>a. PICK row : row = [status |-> status, key |-> now]
  OBVIOUS
<1>b. PICK e : e = [kind |-> "incident", id |-> i, row |-> row]
  OBVIOUS
<1>0. server \in [Incidents -> Row \cup {Nothing}] /\ muted \subseteq Incidents
  BY DEF ServerInv
<1>1. server' = [server EXCEPT ![i] = row] /\ muted' = muted \ {i} /\ mutes' = mutes
  BY <1>a DEF Write
<1>2. row \in Row /\ row.status = status
  BY <1>a DEF Row
<1>3. server'[i] = row /\ \A j \in Incidents : j # i => server'[j] = server[j]
  BY <1>0, <1>1
<1>4. outgoing' = outgoing \cup {e}
  BY <1>3, <1>b DEF Write, Broadcast
<1>5. server' \in [Incidents -> Row \cup {Nothing}]
  BY <1>0, <1>1, <1>2
<1>6. Forward
  <2>1. status # "Unverified" => row.status \in Later
    BY <1>2, RowIs
  <2>2. status = "Unverified" => ~Past(i)
    BY DEF Past, Nothing, Later, Decided
  <2> QED BY <1>2, <1>3, <2>1, <2>2 DEF Forward, Past
<1>7. Genuine(e)'
  <2>1. e \in Event
    BY <1>2, <1>b DEF Event
  <2>2. e.id = i /\ e.row = row
    BY <1>b
  <2> QED BY <1>3, <2>1, <2>2 DEF Genuine, GenuineIn
<1>8. ASSUME NEW j \in Incidents, Unverified(j)'
      PROVE  Unverified(j) \/ \E x \in outgoing' : IsAbout(x, j)
  <2>1. CASE j = i
    <3>1. e \in outgoing' /\ IsAbout(e, j)
      BY <1>4, <1>b, <2>1 DEF IsAbout
    <3> QED BY <3>1
  <2>2. CASE j # i
    BY <1>3, <1>8, <2>2 DEF Unverified
  <2> QED BY <2>1, <2>2
<1>9. \A x \in outgoing' \ outgoing : Genuine(x)'
  <2>1. \A x \in outgoing' \ outgoing : x = e
    BY <1>4
  <2> QED BY <1>7, <2>1
<1>10. muted' \subseteq Incidents /\ \A j \in muted' : server'[j] \in Row
  BY <1>0, <1>1, <1>3 DEF ServerInv
<1> QED BY <1>a, <1>1, <1>2, <1>3, <1>4, <1>5, <1>6, <1>8, <1>9, <1>10 DEF Commits, CountInv

\* A snooze and its end: the row is stamped anew.
LEMMA StampCommits ==
  ASSUME ServerInv, NEW i \in Incidents, server[i] \in Row, NEW now \in 1..MaxStamp,
         server' = [server EXCEPT ![i].key = now],
         NEW e, e \in Event, e.kind # "incident", outgoing' = outgoing \cup {e},
         muted' \subseteq muted \cup {i}, mutes' \in 0..MaxMutes
  PROVE  Commits /\ server'[i] \in Row
<1>0. server \in [Incidents -> Row \cup {Nothing}] /\ muted \subseteq Incidents
  BY DEF ServerInv
<1>a. PICK row : row = [server[i] EXCEPT !.key = now]
  OBVIOUS
<1>1. row \in Row /\ row.status = server[i].status
  BY <1>a DEF Row
<1>2. server' = [server EXCEPT ![i] = row]
  BY <1>a
<1>3. server'[i] = row /\ \A j \in Incidents : j # i => server'[j] = server[j]
  BY <1>0, <1>2
<1>4. server' \in [Incidents -> Row \cup {Nothing}]
  BY <1>0, <1>1, <1>2
<1>5. \A j \in Incidents : server'[j].status = server[j].status
  BY <1>1, <1>3
<1>6. Forward
  BY <1>1, <1>3, <1>5 DEF Forward, Past
<1>7. Genuine(e)'
  BY DEF Genuine, GenuineIn
<1>8. muted' \subseteq Incidents /\ \A j \in muted' : server'[j] \in Row
  BY <1>0, <1>1, <1>3 DEF ServerInv
<1>9. \A x \in outgoing' \ outgoing : Genuine(x)'
  <2>1. \A x \in outgoing' \ outgoing : x = e
    OBVIOUS
  <2> QED BY <1>7, <2>1
<1> QED BY <1>1, <1>3, <1>4, <1>5, <1>6, <1>8, <1>9 DEF Commits, Unverified

LEMMA IdleCommits ==
  ASSUME ServerInv, CountInv, UNCHANGED backend
  PROVE  Commits
BY DEF Commits, Forward, Past, ServerInv, CountInv, Unverified, backend

\* A request that is allowed: what it writes is later than Unverified.
LEMMA HandleCommits ==
  ASSUME ServerInv, CountInv, NEW i \in Incidents, NEW op \in Operations,
         Allowed(i, op), Handle(i, op)
  PROVE  Commits /\ server'[i] \in Row /\ (op # "snooze" => Past(i)')
<1>a. PICK now \in 2..MaxStamp : IF op = "snooze" THEN Snooze(i, now)
                                 ELSE Write(i, Outcome(op), now)
  BY DEF Handle
<1>b. now \in 1..MaxStamp
  BY BoundsAssumption
<1>1. CASE op = "snooze"
  <2> DEFINE e == [kind |-> "snooze", id |-> i]
  <2>1. e \in Event /\ e.kind # "incident"
    BY DEF Event
  <2>a. Snooze(i, now)
    BY <1>1, <1>a
  <2>b. mutes' \in 0..MaxMutes
    BY <2>a, BoundsAssumption DEF Snooze, CountInv
  <2>2. /\ outgoing' = outgoing \cup {e} /\ server' = [server EXCEPT ![i].key = now]
        /\ muted' \subseteq muted \cup {i}
    BY <2>a DEF Snooze, Broadcast
  <2> HIDE DEF e
  <2>3. Unverified(i)
    BY <1>1 DEF Allowed, Unverified
  <2>4. server[i] \in Row
    BY <2>3, ServerIs
  <2>5. Commits /\ server'[i] \in Row
    BY <1>b, <2>1, <2>2, <2>4, <2>b, StampCommits
  <2> QED BY <1>1, <2>5
<1>2. CASE op # "snooze"
  <2> DEFINE status == Outcome(op)
  <2>1. Write(i, status, now)
    BY <1>2, <1>a
  <2>2. status \in Later
    BY <1>2 DEF Outcome, Operations, Later, Decided
  <2> HIDE DEF status
  <2>3. status \in Open \cup Decided /\ status # "Unverified"
    BY <2>2 DEF Later, Open, Decided
  <2>4. Commits /\ server'[i] = [status |-> status, key |-> now] /\ server'[i] \in Row
    BY <1>b, <2>1, <2>3, WriteCommits
  <2>5. server'[i].status = status
    BY <2>4
  <2> QED BY <2>2, <2>4, <2>5 DEF Past
<1> QED BY <1>1, <1>2

LEMMA Backend ==
  ASSUME IInv, [Next]_vars
  PROVE  Commits \/ \E e \in outgoing : Publish(e)
<1>0. ServerInv /\ CountInv
  BY DEF IInv, Types
<1>1. ASSUME NEW i \in Incidents, Detect(i) PROVE Commits
  <2>1. server[i] = Nothing /\ Write(i, "Unverified", 1) /\ 1 \in 1..MaxStamp
    BY <1>1, BoundsAssumption DEF Detect
  <2> QED BY <1>0, <2>1, WriteCommits DEF Open
<1>2. ASSUME NEW i \in Incidents, NEW op \in Operations, OtherActs(i, op) PROVE Commits
  BY <1>0, <1>2, HandleCommits DEF OtherActs
<1>3. ASSUME NEW i \in Incidents, ReAlarm(i) PROVE Commits
  <2> DEFINE e == [kind |-> "re_alarm", id |-> i]
  <2>1. e \in Event /\ e.kind # "incident"
    BY DEF Event
  <2>2. PICK now \in 1..MaxStamp : server' = [server EXCEPT ![i].key = now]
    BY <1>3 DEF ReAlarm
  <2>3. /\ outgoing' = outgoing \cup {e} /\ server[i] \in Row
        /\ muted' \subseteq muted \cup {i} /\ mutes' \in 0..MaxMutes
    BY <1>0, <1>3 DEF ReAlarm, Broadcast, ServerInv, CountInv
  <2> HIDE DEF e
  <2> QED BY <1>0, <2>1, <2>2, <2>3, StampCommits
<1>4. ASSUME NEW by, NEW i \in Incidents, NEW op \in Operations, Ask(by, i, op)
      PROVE  Commits
  <2>1. (Allowed(i, op) /\ Handle(i, op)) \/ UNCHANGED backend
    BY <1>4 DEF Ask
  <2> QED BY <1>0, <2>1, HandleCommits, IdleCommits
<1>5. CASE SocketStep \/ BridgeStep \/ UNCHANGED vars
  <2>1. UNCHANGED backend
    BY <1>5 DEF SocketStep, Connect, Greet, Drop, Reload, Logout, BridgeStep, ReceiveReady,
         Receive, Answer, FetchReturns, FetchFails, EndRecovery, TimerFires, vars, backend
  <2> QED BY <1>0, <2>1, IdleCommits
<1>6. ASSUME NEW c, Succeed(c) \/ Conflict(c) PROVE Commits
  BY <1>0, <1>6, IdleCommits DEF Succeed, Conflict, Answered
<1>7. CASE DismissNotice
  BY <1>0, <1>7, IdleCommits DEF DismissNotice
<1> QED BY <1>1, <1>2, <1>3, <1>4, <1>5, <1>6, <1>7 DEF Next, ServerStep, OperatorStep

\* What is later stays so, for good.
LEMMA Forever ==
  ASSUME IInv, [Next]_vars
  PROVE  /\ \A e : Genuine(e) => Genuine(e)'
         /\ \A i \in Incidents : Past(i) => Past(i)'
         /\ \A rows, snoozed : IsSnapshot(rows, snoozed) => IsSnapshot(rows, snoozed)'
<1>1. Forward
  <2>1. CASE Commits
    BY <2>1 DEF Commits
  <2>2. ASSUME NEW e, Publish(e) PROVE Forward
    BY <2>2 DEF Publish, Forward, Past
  <2> QED BY <2>1, <2>2, Backend
<1>2. \A e : Genuine(e) => Genuine(e)'
  BY <1>1, GenuineStays
<1>3. ASSUME NEW rows, NEW snoozed, IsSnapshot(rows, snoozed) PROVE IsSnapshot(rows, snoozed)'
  BY <1>1, <1>3 DEF IsSnapshot, Had, Forward
<1> QED BY <1>1, <1>2, <1>3 DEF Forward

LEMMA ServerNext ==
  ASSUME IInv, [Next]_vars
  PROVE  ServerInv'
<1>0. ServerInv /\ DialogInv
  BY DEF IInv, Types
<1>1. closed' \subseteq Incidents
  <2>1. CASE DismissNotice
    BY <1>0, <2>1 DEF DismissNotice, ServerInv, DialogInv
  <2>2. CASE Logout
    BY <2>2 DEF Logout
  <2>3. CASE closed' = closed
    BY <1>0, <2>3 DEF ServerInv
  <2>4. DismissNotice \/ Logout \/ closed' = closed
    BY DEF Next, ServerStep, SocketStep, BridgeStep, OperatorStep, Detect, ReAlarm, OtherActs,
       Publish, Connect, Greet, Drop, Reload, ReceiveReady, Receive, Answer, FetchReturns,
       FetchFails, EndRecovery, TimerFires, Ask, Succeed, Conflict, Answered, vars
  <2> QED BY <2>1, <2>2, <2>3, <2>4
<1>2. \A e \in outgoing : Genuine(e)'
  BY <1>0, Forever DEF ServerInv
<1>3. CASE Commits
  <2>1. \A e \in outgoing' : Genuine(e)'
    BY <1>2, <1>3 DEF Commits
  <2> QED BY <1>1, <1>3, <2>1 DEF Commits, ServerInv
<1>4. ASSUME NEW e, Publish(e) PROVE ServerInv'
  <2>1. server' = server /\ muted' = muted /\ outgoing' \subseteq outgoing
    BY <1>4 DEF Publish
  <2> QED BY <1>0, <1>1, <1>2, <2>1 DEF ServerInv
<1> QED BY <1>3, <1>4, Backend

-----------------------------------------------------------------------------
(* The socket and the bridge *)

\* A sequence of events, or what is left of it, or one more.
LEMMA AppendIs ==
  ASSUME NEW T, NEW q \in Seq(T), NEW e \in T
  PROVE  /\ Append(q, e) \in Seq(T)
         /\ \A n \in 1..Len(Append(q, e)) : IF n = Len(q) + 1 THEN Append(q, e)[n] = e
                                            ELSE n \in 1..Len(q) /\ Append(q, e)[n] = q[n]
         /\ \A n \in 1..Len(q) : n \in 1..Len(Append(q, e)) /\ Append(q, e)[n] = q[n]
         /\ Len(q) + 1 \in 1..Len(Append(q, e)) /\ Append(q, e)[Len(q) + 1] = e
OBVIOUS

LEMMA TailIs ==
  ASSUME NEW T, NEW q \in Seq(T), q # <<>>
  PROVE  /\ Tail(q) \in Seq(T) /\ Head(q) = q[1] /\ 1 \in 1..Len(q)
         /\ \A n \in 1..Len(Tail(q)) : n + 1 \in 1..Len(q) /\ Tail(q)[n] = q[n + 1]
         /\ \A n \in 1..Len(q) : n # 1 => n - 1 \in 1..Len(Tail(q)) /\ Tail(q)[n - 1] = q[n]
OBVIOUS

LEMMA NotReady ==
  ASSUME NEW e, Genuine(e)
  PROVE  e # Ready /\ e \in Event
BY DEF Genuine, GenuineIn, Event, Ready

LEMMA WireNext ==
  ASSUME IInv, [Next]_vars
  PROVE  WireInv'
<1>0. WireInv /\ ServerInv
  BY DEF IInv, Types
<1> DEFINE G == {e \in Event : GenuineIn(e, server')}
           W == G \cup {Ready}
<1>a. \A e : Genuine(e) => e \in G
  BY Forever, NotReady DEF Genuine
<1>b. (\A e \in G : e \in Event /\ GenuineIn(e, server')) /\ \A e \in W : e \in G \/ e = Ready
  OBVIOUS
<1>c. Ready \in W /\ \A e \in G : e \in W
  OBVIOUS
<1> HIDE DEF G, W
<1>1. SUFFICES link' \in {"down", "opening", "up"} /\ wire' \in Seq(W) /\ buffer' \in Seq(G)
  <2> DEFINE T == Event \cup {Ready}
  <2>a. ASSUME NEW e \in W PROVE (e = Ready \/ GenuineIn(e, server')) /\ e \in T
    BY <1>b
  <2>1. \A n \in 1..Len(wire') : wire'[n] \in W
    BY <1>1
  <2>2. \A n \in 1..Len(buffer') : buffer'[n] \in Event /\ GenuineIn(buffer'[n], server')
    BY <1>1, <1>b
  <2> HIDE DEF T
  <2>b. \A n \in 1..Len(wire') : /\ wire'[n] \in T
                                 /\ wire'[n] = Ready \/ GenuineIn(wire'[n], server')
    BY <2>a, <2>1
  <2>3. wire' \in Seq(T)
    BY <1>1, <2>b
  <2>c. \A n \in 1..Len(buffer') : buffer'[n] \in Event
    BY <2>2
  <2>4. buffer' \in Seq(Event)
    BY <1>1, <2>c
  <2> QED BY <1>1, <2>2, <2>b, <2>3, <2>4 DEF WireInv, Buffered, Genuine, T
<1>2. wire \in Seq(W) /\ buffer \in Seq(G)
  <2>1. \A n \in 1..Len(wire) : wire[n] \in W
    BY <1>0, <1>a, <1>c DEF WireInv
  <2>2. \A n \in 1..Len(buffer) : buffer[n] \in G
    BY <1>0, <1>a DEF WireInv, Buffered
  <2> DEFINE T == Event \cup {Ready}
  <2>3. wire \in Seq(T) /\ buffer \in Seq(Event)
    BY <1>0 DEF WireInv, Buffered
  <2> HIDE DEF T
  <2>4. wire \in Seq(W)
    BY <2>1, <2>3
  <2>5. buffer \in Seq(G)
    BY <2>2, <2>3
  <2> QED BY <2>4, <2>5
<1>3. <<>> \in Seq(W) /\ <<>> \in Seq(G)
  OBVIOUS
<1>4. link' \in {"down", "opening", "up"}
  BY <1>0 DEF WireInv, Next, ServerStep, SocketStep, BridgeStep, OperatorStep, Detect, ReAlarm,
     OtherActs, Publish, Connect, Greet, Drop, Reload, Logout, ReceiveReady, Receive, Answer,
     FetchReturns, FetchFails, EndRecovery, TimerFires, Ask, Succeed, Conflict, Answered,
     DismissNotice, socket, vars
<1>5. ASSUME NEW e \in outgoing, Publish(e) PROVE wire' \in Seq(W) /\ buffer' \in Seq(G)
  <2>1. e \in W
    BY <1>0, <1>a, <1>c DEF ServerInv
  <2>2. Append(wire, e) \in Seq(W)
    BY <1>2, <2>1
  <2>3. wire' = wire \/ wire' = Append(wire, e)
    BY <1>5 DEF Publish
  <2>4. buffer' = buffer
    BY <1>5 DEF Publish, bridge
  <2> QED BY <1>2, <2>2, <2>3, <2>4
<1>6. CASE Greet
  <2>1. Append(wire, Ready) \in Seq(W)
    BY <1>2, <1>c
  <2>2. wire' = Append(wire, Ready) /\ buffer' = buffer
    BY <1>6 DEF Greet, bridge
  <2> QED BY <1>2, <1>4, <2>1, <2>2
<1>7. ASSUME wire # <<>> PROVE Tail(wire) \in Seq(W)
  BY <1>2, <1>7
<1>8. CASE Receive
  <2>1. wire # <<>> /\ Head(wire) # Ready /\ wire' = Tail(wire)
    BY <1>8 DEF Receive
  <2>2. Head(wire) \in G
    <3>1. Head(wire) \in W
      BY <1>2, <2>1
    <3> QED BY <1>b, <2>1, <3>1
  <2>3. Append(buffer, Head(wire)) \in Seq(G)
    BY <1>2, <2>2
  <2>4. buffer' = buffer \/ buffer' = Append(buffer, Head(wire))
    BY <1>8 DEF Receive
  <2> QED BY <1>2, <1>4, <1>7, <2>1, <2>3, <2>4
<1>9. CASE ReceiveReady
  <2>1. wire # <<>> /\ wire' = Tail(wire) /\ buffer' = <<>>
    BY <1>9 DEF ReceiveReady
  <2> QED BY <1>3, <1>4, <1>7, <2>1
<1>10. CASE wire' \in {wire, <<>>} /\ buffer' \in {buffer, <<>>}
  BY <1>2, <1>3, <1>4, <1>10
<1>11. \/ \E e \in outgoing : Publish(e)
       \/ Greet \/ Receive \/ ReceiveReady
       \/ wire' \in {wire, <<>>} /\ buffer' \in {buffer, <<>>}
  BY DEF Next, ServerStep, SocketStep, BridgeStep, OperatorStep, Detect, ReAlarm,
     OtherActs, Connect, Drop, Reload, Logout, Answer, FetchReturns, FetchFails, EndRecovery,
     TimerFires, Ask, Succeed, Conflict, Answered, DismissNotice, socket, bridge, vars
<1> QED BY <1>4, <1>5, <1>6, <1>8, <1>9, <1>10, <1>11

\* The snapshot holds every incident that is open when it is taken.
LEMMA AnswerIs ==
  ASSUME IInv, [Next]_vars, NEW f \in fetches, Answer(f)
  PROVE  \E rows : /\ fetches' = (fetches \ {f}) \cup {[f EXCEPT !.rows = <<rows, muted>>]}
                   /\ IsSnapshot(rows, muted)'
                   /\ \A i \in Incidents : Unverified(i) => rows[i] # Nothing
<1>0. ServerInv
  BY DEF IInv, Types
<1> PICK rows : rows = [i \in Incidents |-> IF server[i].status \in Open
                                           THEN server[i] ELSE Nothing]
  OBVIOUS
<1>1. fetches' = (fetches \ {f}) \cup {[f EXCEPT !.rows = <<rows, muted>>]}
  BY DEF Answer
<1>2. server' = server /\ muted' = muted
  BY DEF Answer, backend
<1>3. ASSUME NEW i \in Incidents
      PROVE  /\ rows[i] \in OpenRow \cup {Nothing}
             /\ rows[i] # Nothing => rows[i] = server[i]
             /\ Unverified(i) => rows[i] # Nothing
  <2>1. server[i] \in Row \cup {Nothing}
    BY <1>0, ServerIs
  <2>2. CASE server[i].status \in Open
    <3>1. server[i] \in Row
      BY <2>1, <2>2 DEF Open, Nothing
    <3>2. server[i] \in OpenRow /\ server[i] # Nothing
      BY <2>2, <3>1, RowIs
    <3> QED BY <2>2, <3>2
  <2>3. CASE server[i].status \notin Open
    BY <2>3 DEF Unverified, Open
  <2> QED BY <2>2, <2>3
<1>4. rows \in [Incidents -> OpenRow \cup {Nothing}]
  BY <1>3
<1>5. IsSnapshot(rows, muted)'
  BY <1>0, <1>2, <1>3, <1>4 DEF IsSnapshot, Had, Past, ServerInv
<1> QED BY <1>1, <1>3, <1>5

LEMMA FetchNext ==
  ASSUME IInv, [Next]_vars
  PROVE  FetchInv'
<1>0. FetchInv /\ CountInv /\ WireInv /\ ReadyInv
  BY DEF IInv, Types
<1> DEFINE Good == {f \in [of : 1..MaxConnects, rows : {<<>>} \cup Snapshots] :
                      f.of <= connects' /\ (f.rows # <<>> => IsSnapshot(f.rows[1], f.rows[2])')}
<1>1. SUFFICES fetches' \subseteq Good
  BY DEF FetchInv
<1>a. connects' = connects \/ connects' = connects + 1
  BY DEF Next, ServerStep, SocketStep, BridgeStep, OperatorStep, Detect, ReAlarm,
     OtherActs, Publish, Connect, Greet, Drop, Reload, Logout, ReceiveReady, Receive, Answer,
     FetchReturns, FetchFails, EndRecovery, TimerFires, Ask, Succeed, Conflict, Answered,
     DismissNotice, socket, vars
<1>2. connects' \in Nat /\ connects <= connects' /\ connects \in 0..MaxConnects
  BY <1>0, <1>a, BoundsAssumption DEF CountInv
<1>3. fetches \subseteq Good
  <2> SUFFICES ASSUME NEW f \in fetches PROVE f \in Good
    OBVIOUS
  <2>1. f \in [of : 1..MaxConnects, rows : {<<>>} \cup Snapshots] /\ f.of <= connects
    BY <1>0 DEF FetchInv
  <2>2. f.rows # <<>> => IsSnapshot(f.rows[1], f.rows[2])'
    BY <1>0, Forever DEF FetchInv
  <2>3. f.of <= connects'
    BY <1>2, <2>1
  <2> QED BY <2>1, <2>2, <2>3
<1>4. CASE ReceiveReady
  <2> DEFINE f == [of |-> connects, rows |-> <<>>]
  <2>1. link # "down"
    BY <1>0, <1>4 DEF ReceiveReady, ReadyInv
  <2>2. connects \in 1..MaxConnects
    BY <1>0, <1>2, <2>1 DEF ReadyInv
  <2>3. f \in Good
    BY <1>2, <2>2
  <2>4. fetches' = fetches \cup {f}
    BY <1>4 DEF ReceiveReady
  <2> HIDE DEF Good, f
  <2> QED BY <1>3, <2>3, <2>4
<1>5. ASSUME NEW f \in fetches, Answer(f) PROVE fetches' \subseteq Good
  <2>1. PICK rows : /\ fetches' = (fetches \ {f}) \cup {[f EXCEPT !.rows = <<rows, muted>>]}
                    /\ IsSnapshot(rows, muted)'
    BY <1>5, AnswerIs
  <2>a. PICK g : g = [f EXCEPT !.rows = <<rows, muted>>]
    OBVIOUS
  <2>2. /\ f \in [of : 1..MaxConnects, rows : {<<>>} \cup Snapshots]
        /\ f.of <= connects'
    BY <1>3
  <2>3. muted' = muted
    BY <1>5 DEF Answer, backend
  <2>4. <<rows, muted>> \in Snapshots
    BY <2>1, <2>3 DEF IsSnapshot, Snapshots
  <2>5. /\ g \in [of : 1..MaxConnects, rows : {<<>>} \cup Snapshots]
        /\ g.of = f.of /\ g.rows = <<rows, muted>>
    BY <2>2, <2>4, <2>a
  <2>6. g \in Good
    <3>1. g.rows[1] = rows /\ g.rows[2] = muted'
      BY <2>3, <2>5
    <3>2. IsSnapshot(g.rows[1], g.rows[2])'
      BY <2>1, <2>3, <3>1 DEF IsSnapshot
    <3> QED BY <2>2, <2>5, <3>2
  <2> HIDE DEF Good
  <2> QED BY <1>3, <2>1, <2>6, <2>a
<1>6. CASE fetches' \subseteq fetches
  BY <1>3, <1>6
<1>7. ReceiveReady \/ (\E f \in fetches : Answer(f)) \/ fetches' \subseteq fetches
  BY DEF Next, ServerStep, SocketStep, BridgeStep, OperatorStep, Detect, ReAlarm,
     OtherActs, Publish, Connect, Greet, Drop, Reload, Logout, Receive, FetchReturns,
     FetchFails, EndRecovery, TimerFires, Ask, Succeed, Conflict, Answered,
     DismissNotice, bridge, vars
<1> QED BY <1>4, <1>5, <1>6, <1>7

LEMMA CountNext ==
  ASSUME IInv, [Next]_vars
  PROVE  CountInv'
<1>0. CountInv
  BY DEF IInv, Types
<1>1. mutes' \in 0..MaxMutes
  <2>1. CASE Commits
    BY <2>1 DEF Commits
  <2>2. ASSUME NEW e, Publish(e) PROVE mutes' \in 0..MaxMutes
    BY <1>0, <2>2 DEF Publish, CountInv
  <2> QED BY <2>1, <2>2, Backend
<1>2. connects' \in 0..MaxConnects
  <2>1. connects' = connects \/ (connects < MaxConnects /\ connects' = connects + 1)
    BY DEF Next, ServerStep, SocketStep, BridgeStep, OperatorStep, Detect, ReAlarm,
       OtherActs, Publish, Connect, Greet, Drop, Reload, Logout, ReceiveReady, Receive, Answer,
       FetchReturns, FetchFails, EndRecovery, TimerFires, Ask, Succeed, Conflict, Answered,
       DismissNotice, socket, vars
  <2> QED BY <1>0, <2>1, BoundsAssumption DEF CountInv
<1>3. calls' \in 0..MaxCalls
  <2>1. calls' = calls \/ (calls < MaxCalls /\ calls' = calls + 1)
    BY DEF Next, ServerStep, SocketStep, BridgeStep, OperatorStep, Detect, ReAlarm,
       OtherActs, Publish, Connect, Greet, Drop, Reload, Logout, ReceiveReady, Receive, Answer,
       FetchReturns, FetchFails, EndRecovery, TimerFires, Ask, Succeed, Conflict, Answered,
       DismissNotice, operator, vars
  <2> QED BY <1>0, <2>1, BoundsAssumption DEF CountInv
<1>4. recovering' \in BOOLEAN
  <2>1. recovering' = recovering \/ recovering' = TRUE \/ recovering' = FALSE
    BY DEF Next, ServerStep, SocketStep, BridgeStep, OperatorStep, Detect, ReAlarm,
       OtherActs, Publish, Connect, Greet, Drop, Reload, Logout, ReceiveReady, Receive, Answer,
       FetchReturns, FetchFails, EndRecovery, TimerFires, Ask, Succeed, Conflict, Answered,
       DismissNotice, bridge, vars
  <2> QED BY <1>0, <2>1 DEF CountInv
<1>5. complete' \in BOOLEAN
  <2>1. \/ complete' = complete \/ complete' = FALSE
        \/ \E f \in fetches : complete' = (complete \/ (link # "down" /\ f.of = connects))
    BY DEF Next, ServerStep, SocketStep, BridgeStep, OperatorStep, Detect, ReAlarm,
       OtherActs, Publish, Connect, Greet, Drop, Reload, Logout, ReceiveReady, Receive, Answer,
       FetchReturns, FetchFails, EndRecovery, TimerFires, Ask, Succeed, Conflict, Answered,
       DismissNotice, bridge, vars
  <2> QED BY <1>0, <2>1 DEF CountInv
<1> QED BY <1>1, <1>2, <1>3, <1>4, <1>5 DEF CountInv

-----------------------------------------------------------------------------
(* The store *)

LEMMA SnapshotLeads ==
  ASSUME ServerInv, NEW s, Sound(s), NEW rows, NEW snoozed, IsSnapshot(rows, snoozed),
         NEW r, r = Snapshot(s, rows, snoozed)
  PROVE  Leads(s, r) /\ \A i \in Incidents : rows[i] # Nothing => Arrived(r, i)
<1> DEFINE it == CHOOSE x : Added(x, s, rows, snoozed)
           S == {i \in Incidents : rows[i] # Nothing}
<1>1. r = it[S]
  BY Zenon DEF Snapshot, FoldSet, MapThenFoldSet, Added, AddRow
<1>2. Added(it, s, rows, snoozed)
  BY AddedExists
<1> HIDE DEF it
<1>3. Leads(s, it[S]) /\ \A i \in Incidents : rows[i] # Nothing => Arrived(it[S], i)
  BY <1>2, AddedLeads
<1> QED BY <1>1, <1>3

LEMMA EndLeads ==
  ASSUME ServerInv, Buffered(buffer), NEW s, Sound(s), NEW r, r = Replay(s)
  PROVE  /\ Leads(s, r)
         /\ \A n \in 1..Len(buffer), i \in Incidents : IsAbout(buffer[n], i) => Arrived(r, i)
<1> DEFINE it == CHOOSE x : Played(x, s, buffer)
<1>1. r = it[DOMAIN buffer]
  BY Zenon DEF Replay, FoldLeft, MapThenFoldSet, Played
<1>2. Played(it, s, buffer)
  BY PlayedExists
<1> HIDE DEF it
<1>3. /\ Leads(s, it[DOMAIN buffer])
      /\ \A n \in 1..Len(buffer), i \in Incidents :
           IsAbout(buffer[n], i) => Arrived(it[DOMAIN buffer], i)
  BY <1>2, ReplayLeads
<1> QED BY <1>1, <1>3

\* An alert is removed when its incident has been decided or confirmed.
LEMMA RemoveLeads ==
  ASSUME ServerInv, NEW s, Sound(s), NEW i \in Incidents, Past(i),
         NEW r, r = removeAlert(s, i)
  PROVE  Leads(s, r)
<1>1. Consistent(s) /\ s \in Store
  BY DEF Sound, Consistent
<1>2. /\ Consistent(r) /\ r.alerts = [s.alerts EXCEPT ![i] = Nothing]
      /\ r.handledIds = s.handledIds \cup {i}
  BY <1>1, RemoveFacts
<1>3. s.alerts \in [Incidents -> OpenRow \cup {Nothing}] /\ s.handledIds \in SUBSET Incidents
  BY <1>1, StoreIs
<1>4. /\ \A j \in Incidents : j # i => r.alerts[j] = s.alerts[j]
      /\ r.alerts[i] = Nothing
  BY <1>2, <1>3
<1>5. Sound(r)
  <2>1. ASSUME NEW j \in Incidents, r.alerts[j] # Nothing PROVE Had(j, r.alerts[j])
    BY <1>4, <2>1 DEF Sound
  <2>2. \A j \in r.handledIds : Past(j) \/ j \in closed
    BY <1>2 DEF Sound
  <2> QED BY <1>2, <2>1, <2>2 DEF Sound
<1>6. ASSUME NEW j \in Incidents, Unverified(j), j \in Pending(s) PROVE j \in Pending(r)
  <2>1. j # i
    BY <1>6, ServerIs
  <2> QED BY <1>4, <1>6, <2>1 DEF Pending
<1> QED BY <1>5, <1>6 DEF Leads

LEMMA EmptyIs ==
  ASSUME NEW h \in SUBSET Incidents, NEW r, r = Empty(h)
  PROVE  /\ Consistent(r) /\ r.alerts = [i \in Incidents |-> Nothing] /\ r.handledIds = h
         /\ Pending(r) = {}
<1>1. /\ r.alerts = [i \in Incidents |-> Nothing] /\ r.handledIds = h
      /\ r.snoozed = {} /\ r.timers = {} /\ r.siren = FALSE
  BY DEF Empty
<1>2. r \in Store
  BY DEF Empty, Store
<1>3. Pending(r) = {}
  BY <1>1 DEF Pending, Nothing
<1> QED BY <1>1, <1>2, <1>3 DEF Consistent, Alarming

\* The store after each step.
StoreSteps ==
  \/ UNCHANGED <<store, closed>>
  \/ UNCHANGED <<server, closed>> /\ Leads(store, store')
  \/ DismissNotice
  \/ Reload
  \/ Logout

LEMMA StoreNext ==
  ASSUME IInv, [Next]_vars
  PROVE  StoreSteps
<1>0. ServerInv /\ Sound(store) /\ WireInv /\ CallInv /\ FetchInv
  BY DEF IInv, Types
<1>a. Consistent(store)
  BY <1>0 DEF Sound
<1>1. CASE Receive
  <2>1. UNCHANGED <<server, closed>>
    BY <1>1 DEF Receive, backend
  <2>2. CASE store' = applyEnvelope(store, Head(wire))
    <3>1. Genuine(Head(wire))
      BY <1>0, <1>1, TailIs DEF WireInv, Receive
    <3> QED BY <1>0, <2>1, <2>2, <3>1, ApplyLeads DEF StoreSteps
  <2>3. CASE store' = store
    BY <2>1, <2>3 DEF StoreSteps
  <2> QED BY <1>1, <2>2, <2>3 DEF Receive
<1>2. ASSUME NEW f \in fetches, FetchReturns(f) PROVE StoreSteps
  <2> DEFINE added == Snapshot(store, f.rows[1], f.rows[2])
  <2>1. UNCHANGED <<server, closed>> /\ store' = Replay(added)
    BY <1>2 DEF FetchReturns, EndRecovery, backend
  <2>2. IsSnapshot(f.rows[1], f.rows[2])
    BY <1>0, <1>2 DEF FetchReturns, FetchInv
  <2>3. Leads(store, added)
    BY <1>0, <2>2, SnapshotLeads
  <2> HIDE DEF added
  <2>4. Leads(added, store')
    BY <1>0, <2>1, <2>3, EndLeads DEF Leads, WireInv
  <2>5. Leads(store, store')
    BY <2>3, <2>4, LeadsOn
  <2> QED BY <2>1, <2>5 DEF StoreSteps
<1>3. ASSUME NEW f \in fetches, FetchFails(f) PROVE StoreSteps
  <2>1. UNCHANGED <<server, closed>> /\ store' = Replay(store)
    BY <1>3 DEF FetchFails, EndRecovery, backend
  <2>2. Leads(store, store')
    BY <1>0, <2>1, EndLeads DEF WireInv
  <2> QED BY <2>1, <2>2 DEF StoreSteps
<1>4. ASSUME NEW i \in Incidents, TimerFires(i) PROVE StoreSteps
  <2>1. UNCHANGED <<server, closed>> /\ store' = clearSnooze(store, i)
    BY <1>4 DEF TimerFires, backend
  <2>2. Leads(store, store')
    BY <1>0, <1>a, <2>1, ClearFacts, SnoozeLeads
  <2> QED BY <2>1, <2>2 DEF StoreSteps
<1>5. ASSUME NEW c \in call, Succeed(c) PROVE StoreSteps
  <2>0. UNCHANGED <<server, closed>> /\ c \in Request /\ c.ok
    BY <1>0, <1>5 DEF Succeed, Answered, backend, CallInv
  <2>a. c.id \in Incidents
    BY <2>0 DEF Request
  <2>1. CASE c.op = "snooze"
    <3>1. store' = activateSnooze(store, c.id)
      BY <1>5, <2>1 DEF Succeed
    <3>2. Leads(store, store')
      BY <1>0, <1>a, <2>a, <3>1, ActivateFacts, SnoozeLeads
    <3> QED BY <2>0, <3>2 DEF StoreSteps
  <2>2. CASE c.op # "snooze"
    <3>1. c.row \in Row /\ Past(c.id)
      BY <1>0, <2>0, <2>2 DEF CallInv
    <3>2. Had(c.id, c.row)
      BY <3>1 DEF Had
    <3>3. store' = addAlert(store, c.id, c.row) \/ store' = removeAlert(store, c.id)
      BY <1>5, <2>2 DEF Succeed
    <3>4. Leads(store, store')
      BY <1>0, <2>a, <3>1, <3>2, <3>3, AddLeads, RemoveLeads
    <3> QED BY <2>0, <3>4 DEF StoreSteps
  <2> QED BY <2>1, <2>2
<1>6. ASSUME NEW c \in call, Conflict(c) PROVE StoreSteps
  <2>0. UNCHANGED <<server, closed>> /\ c \in Request
    BY <1>0, <1>6 DEF Conflict, Answered, backend, CallInv
  <2>a. c.id \in Incidents
    BY <2>0 DEF Request
  <2>1. CASE c.by = "tray"
    <3>1. store' = removeAlert(store, c.id) /\ Past(c.id)
      BY <1>0, <1>6, <2>1 DEF Conflict, CallInv
    <3>2. Leads(store, store')
      BY <1>0, <2>a, <3>1, RemoveLeads
    <3> QED BY <2>0, <3>2 DEF StoreSteps
  <2>2. CASE c.by # "tray"
    BY <1>6, <2>0, <2>2 DEF Conflict, StoreSteps
  <2> QED BY <2>1, <2>2
<1>7. \/ Receive \/ DismissNotice \/ Reload \/ Logout
      \/ \E f \in fetches : FetchReturns(f) \/ FetchFails(f)
      \/ \E i \in Incidents : TimerFires(i)
      \/ \E c \in call : Succeed(c) \/ Conflict(c)
      \/ UNCHANGED <<store, closed>>
  BY DEF Next, ServerStep, SocketStep, BridgeStep, OperatorStep, Detect, ReAlarm, OtherActs,
     Publish, Connect, Greet, Drop, ReceiveReady, Answer, Ask, vars
<1> QED BY <1>1, <1>2, <1>3, <1>4, <1>5, <1>6, <1>7 DEF StoreSteps

LEMMA SoundNext ==
  ASSUME IInv, [Next]_vars
  PROVE  Sound(store)'
<1>0. ServerInv /\ DialogInv /\ Sound(store)
  BY DEF IInv, Types
<1>a. Consistent(store) /\ store \in Store
  BY <1>0 DEF Sound, Consistent
<1>1. CASE UNCHANGED <<store, closed>>
  <2>1. \A i \in Incidents : Past(i) => Past(i)'
    BY Forever
  <2>2. \A i \in store.handledIds : Past(i)' \/ i \in closed'
    BY <1>0, <1>1, <1>a, <2>1, StoreIs DEF Sound
  <2> QED BY <1>0, <1>1, <1>a, <2>1, <2>2 DEF Sound, Had
<1>2. CASE UNCHANGED <<server, closed>> /\ Leads(store, store')
  BY <1>2 DEF Leads, Sound, Had, Past
<1>3. CASE DismissNotice
  <2>1. /\ dialog.shown \in Incidents /\ store' = removeAlert(store, dialog.shown)
        /\ closed' = closed \cup {dialog.shown} /\ server' = server
    BY <1>0, <1>3 DEF DismissNotice, DialogInv, backend
  <2>2. /\ Consistent(store') /\ store'.alerts = [store.alerts EXCEPT ![dialog.shown] = Nothing]
        /\ store'.handledIds = store.handledIds \cup {dialog.shown}
    BY <1>a, <2>1, RemoveFacts
  <2>3. ASSUME NEW i \in Incidents, store'.alerts[i] # Nothing
        PROVE  store'.alerts[i] = store.alerts[i]
    BY <1>a, <2>1, <2>2, <2>3, StoreIs
  <2>4. \A i \in Incidents : Past(i)' = Past(i)
    BY <2>1 DEF Past
  <2>5. \A i \in Incidents : store'.alerts[i] # Nothing => Had(i, store'.alerts[i])
    BY <1>0, <2>3 DEF Sound
  <2>6. \A i \in store'.handledIds : Past(i) \/ i \in closed'
    BY <1>0, <2>1, <2>2 DEF Sound
  <2> QED BY <2>1, <2>2, <2>4, <2>5, <2>6 DEF Sound, Had, Past
<1>4. CASE Reload
  <2>1. store' = Empty(store.handledIds) /\ UNCHANGED <<server, closed>>
    BY <1>4 DEF Reload, backend
  <2>2. /\ Consistent(store') /\ store'.alerts = [i \in Incidents |-> Nothing]
        /\ store'.handledIds = store.handledIds
    BY <1>a, <2>1, EmptyIs, StoreIs
  <2> QED BY <1>0, <2>1, <2>2 DEF Sound, Past
<1>5. CASE Logout
  <2>1. store' = Empty({})
    BY <1>5 DEF Logout
  <2>2. /\ Consistent(store') /\ store'.alerts = [i \in Incidents |-> Nothing]
        /\ store'.handledIds = {}
    BY <2>1, EmptyIs
  <2> QED BY <2>2 DEF Sound
<1> QED BY <1>1, <1>2, <1>3, <1>4, <1>5, StoreNext DEF StoreSteps

LEMMA DialogNext ==
  ASSUME IInv, [Next]_vars
  PROVE  DialogInv'
<1>0. DialogInv
  BY DEF IInv, Types
<1>1. ASSUME NEW n \in BOOLEAN, Display(n) PROVE DialogInv'
  <2>1. PICK i \in IF Pending(store') = {} THEN {NoIncident} ELSE Pending(store') :
          dialog' = [shown |-> i, notice |-> n]
    BY <1>1 DEF Display
  <2>2. Pending(store') \subseteq Incidents
    BY DEF Pending
  <2>3. i \in Incidents \cup {NoIncident}
    BY <2>1, <2>2
  <2>4. i = NoIncident => Pending(store') = {}
    BY <2>1, <2>2, NoIncidentAssumption
  <2>5. i # NoIncident => i \in Pending(store')
    BY <2>1
  <2>6. dialog'.shown = i /\ dialog' \in [shown : Incidents \cup {NoIncident}, notice : BOOLEAN]
    BY <2>1, <2>3
  <2> QED BY <2>4, <2>5, <2>6 DEF DialogInv
<1>2. CASE Reload \/ Logout
  <2>1. store' = Empty(store.handledIds) \/ store' = Empty({})
    BY <1>2 DEF Reload, Logout
  <2>2. Pending(store') = {}
    BY <2>1 DEF Pending, Empty, Nothing
  <2>3. /\ dialog'.shown = NoIncident
        /\ dialog' \in [shown : Incidents \cup {NoIncident}, notice : BOOLEAN]
    <3>1. CASE Reload
      BY <3>1 DEF Reload
    <3>2. CASE Logout
      <4>1. dialog' = [dialog EXCEPT !.shown = NoIncident]
        BY <3>2 DEF Logout
      <4> QED BY <1>0, <4>1 DEF DialogInv
    <3> QED BY <1>2, <3>1, <3>2
  <2> QED BY <2>2, <2>3 DEF DialogInv
<1>3. CASE UNCHANGED store /\ dialog' \in {dialog, [dialog EXCEPT !.notice = FALSE]}
  <2>1. /\ dialog'.shown = dialog.shown
        /\ dialog' \in [shown : Incidents \cup {NoIncident}, notice : BOOLEAN]
    BY <1>0, <1>3 DEF DialogInv
  <2> QED BY <1>0, <1>3, <2>1 DEF DialogInv
<1>4. dialog.notice \in BOOLEAN
  BY <1>0 DEF DialogInv
<1>5. Display(dialog.notice) \/ Display(FALSE) \/ Display(TRUE) => DialogInv'
  BY <1>1, <1>4
<1>6. \/ Display(dialog.notice) \/ Display(FALSE) \/ Reload \/ Logout
      \/ \E c \in call : Conflict(c)
      \/ UNCHANGED store /\ dialog' \in {dialog, [dialog EXCEPT !.notice = FALSE]}
  BY DEF Next, ServerStep, SocketStep, BridgeStep, OperatorStep, Detect, ReAlarm, OtherActs,
     Publish, Connect, Greet, Drop, ReceiveReady, Receive, Answer, FetchReturns, FetchFails,
     EndRecovery, TimerFires, Ask, Succeed, DismissNotice, vars
<1>7. ASSUME NEW c, Conflict(c) PROVE DialogInv'
  <2>1. PICK n \in BOOLEAN : Display(dialog.notice \/ (c.by = "dialog" /\ n))
    BY <1>7 DEF Conflict
  <2>2. (dialog.notice \/ (c.by = "dialog" /\ n)) \in BOOLEAN
    OBVIOUS
  <2> QED BY <1>1, <2>1, <2>2
<1> QED BY <1>2, <1>3, <1>5, <1>6, <1>7

LEMMA CallNext ==
  ASSUME IInv, [Next]_vars
  PROVE  CallInv'
<1>0. ServerInv /\ CallInv /\ CountInv /\ Sound(store)
  BY DEF IInv, Types
<1>1. CASE call' = call
  <2> SUFFICES ASSUME NEW c \in call
               PROVE  /\ c.ok /\ c.op # "snooze" => c.row \in Row /\ Past(c.id)'
                      /\ c.by = "tray" => Past(c.id)'
    BY <1>0, <1>1 DEF CallInv
  <2>1. c.id \in Incidents
    BY <1>0 DEF CallInv, Request
  <2> QED BY <1>0, <2>1, Forever DEF CallInv
<1>2. CASE call' = {}
  BY <1>2 DEF CallInv
<1>3. ASSUME NEW by \in {"dialog", "tray", "page"}, NEW i \in Incidents, NEW op \in Operations,
             Ask(by, i, op)
      PROVE  CallInv'
  <2>1. by = "tray" => Past(i)'
    <3> SUFFICES ASSUME by = "tray" PROVE Past(i)'
      OBVIOUS
    <3>1. store.alerts[i].status = "Ongoing"
      BY <1>3 DEF Ask, Offered
    <3>2. store.alerts[i].status \in Later /\ store.alerts[i] # Nothing
      BY <3>1 DEF Later, Nothing
    <3>3. Past(i)
      BY <1>0, <3>2 DEF Sound, Had
    <3> QED BY <3>3, Forever
  <2>2. CASE Allowed(i, op) /\ Handle(i, op)
             /\ call' = {[by |-> by, id |-> i, op |-> op, ok |-> TRUE, row |-> server'[i]]}
    <3>1. PICK row : row = server'[i]
      OBVIOUS
    <3>2. PICK c : c = [by |-> by, id |-> i, op |-> op, ok |-> TRUE, row |-> row]
      OBVIOUS
    <3>3. call' = {c}
      BY <2>2, <3>1, <3>2
    <3>4. row \in Row /\ (op # "snooze" => Past(i)')
      BY <1>0, <2>2, <3>1, HandleCommits
    <3>5. c \in Request
      BY <3>2, <3>4 DEF Request
    <3>6. c.op = op /\ c.id = i /\ c.by = by /\ c.row = row
      BY <3>2
    <3> QED BY <2>1, <3>3, <3>4, <3>5, <3>6 DEF CallInv, Past
  <2>3. CASE call' = {[by |-> by, id |-> i, op |-> op, ok |-> FALSE, row |-> Nothing]}
    <3>1. PICK c : c = [by |-> by, id |-> i, op |-> op, ok |-> FALSE, row |-> Nothing]
      OBVIOUS
    <3>2. call' = {c} /\ c \in Request
      BY <2>3, <3>1 DEF Request
    <3>3. c.id = i /\ c.by = by /\ c.ok = FALSE
      BY <3>1
    <3> QED BY <2>1, <3>2, <3>3 DEF CallInv, Past
  <2> QED BY <1>3, <2>2, <2>3 DEF Ask
<1>4. \/ call' = call \/ call' = {}
      \/ \E by \in {"dialog", "tray", "page"}, i \in Incidents, op \in Operations : Ask(by, i, op)
  BY DEF Next, ServerStep, SocketStep, BridgeStep, OperatorStep, Detect, ReAlarm, OtherActs,
     Publish, Connect, Greet, Drop, Reload, Logout, ReceiveReady, Receive, Answer, FetchReturns,
     FetchFails, EndRecovery, TimerFires, Succeed, Conflict, Answered, DismissNotice, operator,
     vars
<1> QED BY <1>1, <1>2, <1>3, <1>4

-----------------------------------------------------------------------------
(* The ready event and the snapshot of a connection *)

\* What a step does to the connection when it makes, greets or drops none.
LEMMA ReadyNext ==
  ASSUME IInv, [Next]_vars
  PROVE  ReadyInv'
<1>0. ReadyInv /\ WireInv /\ FetchInv /\ CountInv /\ ServerInv
  BY DEF IInv, Types
<1>a. wire \in Seq(Event \cup {Ready}) /\ link \in {"down", "opening", "up"}
  BY <1>0 DEF WireInv
<1>b. connects \in Nat
  BY <1>0, BoundsAssumption DEF CountInv
<1> DEFINE HasReady == \E n \in 1..Len(wire) : wire[n] = Ready
<1>1. CASE Connect
  <2>1. /\ link = "down" /\ link' = "opening" /\ connects' = connects + 1 /\ complete' = FALSE
        /\ wire' = wire /\ fetches' = fetches
    BY <1>1 DEF Connect
  <2>2. wire' = <<>>
    BY <1>0, <2>1 DEF ReadyInv
  <2>3. ~Fetching'
    BY <1>0, <1>b, <2>1 DEF FetchInv, Fetching
  <2>4. connects' > 0
    BY <1>b, <2>1
  <2> QED BY <2>1, <2>2, <2>3, <2>4 DEF ReadyInv
<1>2. CASE Greet
  <2>1. /\ link = "opening" /\ link' = "up" /\ wire' = Append(wire, Ready)
        /\ connects' = connects /\ complete' = complete /\ fetches' = fetches
    BY <1>2 DEF Greet, bridge
  <2>2. ~complete /\ ~Fetching /\ connects > 0 /\ \A n \in 1..Len(wire) : wire[n] # Ready
    BY <1>0, <2>1 DEF ReadyInv
  <2>3. \A n \in 1..Len(wire') : wire'[n] = Ready => n = Len(wire) + 1
    BY <1>a, <2>1, <2>2
  <2>4. ~Fetching' /\ ~complete' /\ connects' > 0
    BY <2>1, <2>2 DEF Fetching
  <2>5. \A m, n \in 1..Len(wire') : wire'[m] = Ready /\ wire'[n] = Ready => m = n
    BY <2>3
  <2> QED BY <2>1, <2>4, <2>5 DEF ReadyInv
<1>3. CASE Drop \/ Reload \/ Logout
  <2>1. link' = "down" /\ wire' = <<>>
    BY <1>3 DEF Drop, Reload, Logout
  <2> QED BY <2>1 DEF ReadyInv
<1>4. ASSUME NEW e \in outgoing, Publish(e) PROVE ReadyInv'
  <2>1. /\ link' = link /\ connects' = connects /\ complete' = complete /\ fetches' = fetches
        /\ wire' = IF link = "down" THEN wire ELSE Append(wire, e)
    BY <1>4 DEF Publish, bridge
  <2>2. e # Ready /\ e \in Event \cup {Ready}
    BY <1>0, NotReady DEF ServerInv
  <2>3. \A n \in 1..Len(wire') : wire'[n] = Ready => n \in 1..Len(wire) /\ wire[n] = Ready
    BY <1>a, <2>1, <2>2
  <2>4. Fetching' = Fetching
    BY <2>1 DEF Fetching
  <2>5. link' = "down" => wire' = <<>>
    BY <1>0, <2>1 DEF ReadyInv
  <2>6. \A m, n \in 1..Len(wire') : wire'[m] = Ready /\ wire'[n] = Ready => m = n
    BY <1>0, <2>3 DEF ReadyInv
  <2>7. link' = "opening" \/ (\E n \in 1..Len(wire') : wire'[n] = Ready) => ~complete' /\ ~Fetching'
    BY <1>0, <2>1, <2>3, <2>4 DEF ReadyInv
  <2>8. link' = "opening" => \A n \in 1..Len(wire') : wire'[n] # Ready
    BY <1>0, <2>1, <2>3 DEF ReadyInv
  <2>9. link' # "down" => connects' > 0
    BY <1>0, <2>1 DEF ReadyInv
  <2> QED BY <2>5, <2>6, <2>7, <2>8, <2>9 DEF ReadyInv
<1>5. ASSUME wire # <<>>, wire' = Tail(wire), link' = link
      PROVE  /\ \A n \in 1..Len(wire') : n + 1 \in 1..Len(wire) /\ wire'[n] = wire[n + 1]
             /\ link # "down" /\ link' # "down"
             /\ \A m, n \in 1..Len(wire') : wire'[m] = Ready /\ wire'[n] = Ready => m = n
             /\ Head(wire) = wire[1] /\ 1 \in 1..Len(wire)
  <2>1. \A n \in 1..Len(wire') : n + 1 \in 1..Len(wire) /\ wire'[n] = wire[n + 1]
    BY <1>a, <1>5
  <2>2. \A m, n \in 1..Len(wire') : wire'[m] = Ready /\ wire'[n] = Ready => m + 1 = n + 1
    BY <1>0, <2>1 DEF ReadyInv
  <2>3. \A m, n \in 1..Len(wire') : m + 1 = n + 1 => m = n
    OBVIOUS
  <2> QED BY <1>0, <1>a, <1>5, <2>1, <2>2, <2>3 DEF ReadyInv
<1>6. CASE ReceiveReady
  <2>1. /\ link' = link /\ connects' = connects /\ complete' = complete
        /\ wire # <<>> /\ wire' = Tail(wire) /\ Head(wire) = Ready
    BY <1>6 DEF ReceiveReady
  <2>2. /\ \A n \in 1..Len(wire') : n + 1 \in 1..Len(wire) /\ wire'[n] = wire[n + 1]
        /\ link' # "down" /\ wire[1] = Ready /\ 1 \in 1..Len(wire)
    BY <1>5, <2>1
  <2>3. link # "opening"
    BY <1>0, <2>2 DEF ReadyInv
  <2>4. \A n \in 1..Len(wire') : wire'[n] # Ready
    <3> SUFFICES ASSUME NEW n \in 1..Len(wire'), wire'[n] = Ready PROVE FALSE
      OBVIOUS
    <3>1. n + 1 \in 1..Len(wire) /\ wire[n + 1] = Ready
      BY <2>2
    <3>2. n + 1 = 1
      BY <1>0, <2>2, <3>1 DEF ReadyInv
    <3> QED BY <3>2
  <2>5. connects' > 0
    BY <1>0, <2>1, <2>2 DEF ReadyInv
  <2> QED BY <2>1, <2>2, <2>3, <2>4, <2>5 DEF ReadyInv
<1>7. CASE Receive
  <2>1. /\ link' = link /\ connects' = connects /\ complete' = complete /\ fetches' = fetches
        /\ wire # <<>> /\ wire' = Tail(wire)
    BY <1>7 DEF Receive
  <2>2. /\ \A n \in 1..Len(wire') : n + 1 \in 1..Len(wire) /\ wire'[n] = wire[n + 1]
        /\ link' # "down"
        /\ \A m, n \in 1..Len(wire') : wire'[m] = Ready /\ wire'[n] = Ready => m = n
    BY <1>5, <2>1
  <2>3. Fetching' = Fetching
    BY <2>1 DEF Fetching
  <2>4. link' = "opening" \/ (\E n \in 1..Len(wire') : wire'[n] = Ready) => ~complete' /\ ~Fetching'
    BY <1>0, <2>1, <2>2, <2>3 DEF ReadyInv
  <2>5. link' = "opening" => \A n \in 1..Len(wire') : wire'[n] # Ready
    BY <1>0, <2>1, <2>2 DEF ReadyInv
  <2>6. connects' > 0
    BY <1>0, <2>1, <2>2 DEF ReadyInv
  <2> QED BY <2>2, <2>4, <2>5, <2>6 DEF ReadyInv
<1>8. ASSUME UNCHANGED <<link, wire, connects>>, Fetching' => Fetching,
             complete' => complete \/ Fetching
      PROVE  ReadyInv'
  <2>1. link' = "opening" \/ (\E n \in 1..Len(wire') : wire'[n] = Ready) => ~complete' /\ ~Fetching'
    BY <1>0, <1>8 DEF ReadyInv
  <2> QED BY <1>0, <1>8, <2>1 DEF ReadyInv
<1>9. ASSUME NEW f \in fetches, Answer(f) PROVE ReadyInv'
  <2>1. /\ UNCHANGED <<link, wire, connects, complete>>
        /\ \E rows : fetches' = (fetches \ {f}) \cup {[f EXCEPT !.rows = rows]}
    BY <1>9 DEF Answer, socket
  <2>2. Fetching' => Fetching
    <3>1. PICK rows : fetches' = (fetches \ {f}) \cup {[f EXCEPT !.rows = rows]}
      BY <2>1
    <3>2. f \in [of : 1..MaxConnects, rows : {<<>>} \cup Snapshots]
      BY <1>0 DEF FetchInv
    <3>3. [f EXCEPT !.rows = rows].of = f.of
      BY <3>2
    <3> QED BY <2>1, <3>1, <3>3 DEF Fetching
  <2> QED BY <1>8, <2>1, <2>2
<1>10. ASSUME NEW f \in fetches, FetchReturns(f) \/ FetchFails(f) PROVE ReadyInv'
  <2>1. /\ UNCHANGED <<link, wire, connects>> /\ fetches' = fetches \ {f}
        /\ complete' = complete \/ complete' = (complete \/ (link # "down" /\ f.of = connects))
    BY <1>10 DEF FetchReturns, FetchFails, EndRecovery, socket
  <2>a. Fetching' => Fetching
    BY <2>1 DEF Fetching
  <2>b. f.of = connects => Fetching
    BY DEF Fetching
  <2>c. complete' => complete \/ f.of = connects
    BY <2>1
  <2>2. (Fetching' => Fetching) /\ (complete' => complete \/ Fetching)
    BY <2>a, <2>b, <2>c
  <2> QED BY <1>8, <2>1, <2>2
<1>11. CASE UNCHANGED <<link, wire, connects, fetches, complete>>
  <2>1. (Fetching' => Fetching) /\ (complete' => complete)
    BY <1>11 DEF Fetching
  <2> QED BY <1>8, <1>11, <2>1
<1>12. \/ Connect \/ Greet \/ Drop \/ Reload \/ Logout \/ ReceiveReady \/ Receive
       \/ \E e \in outgoing : Publish(e)
       \/ \E f \in fetches : Answer(f) \/ FetchReturns(f) \/ FetchFails(f)
       \/ UNCHANGED <<link, wire, connects, fetches, complete>>
  BY DEF Next, ServerStep, SocketStep, BridgeStep, OperatorStep, Detect, ReAlarm, OtherActs,
     TimerFires, Ask, Succeed, Conflict, Answered, DismissNotice, socket, bridge, vars
<1> QED BY <1>1, <1>2, <1>3, <1>4, <1>6, <1>7, <1>9, <1>10, <1>11, <1>12

-----------------------------------------------------------------------------
(* No accident is lost *)

\* The end of a recovery brings what was buffered, and what its snapshot holds.
LEMMA RecoveryBrings ==
  ASSUME IInv, NEW f \in fetches, FetchReturns(f) \/ FetchFails(f), NEW i \in Incidents
  PROVE  /\ (\E n \in 1..Len(buffer) : IsAbout(buffer[n], i)) => Arrived(store', i)
         /\ FetchReturns(f) /\ f.rows[1][i] # Nothing => Arrived(store', i)
<1>0. ServerInv /\ Sound(store) /\ FetchInv /\ Buffered(buffer)
  BY DEF IInv, Types, WireInv
<1>1. CASE FetchReturns(f)
  <2> DEFINE added == Snapshot(store, f.rows[1], f.rows[2])
  <2>1. store' = Replay(added)
    BY <1>1 DEF FetchReturns, EndRecovery
  <2>2. IsSnapshot(f.rows[1], f.rows[2])
    BY <1>0, <1>1 DEF FetchReturns, FetchInv
  <2>3. Leads(store, added) /\ \A j \in Incidents : f.rows[1][j] # Nothing => Arrived(added, j)
    BY <1>0, <2>2, SnapshotLeads
  <2> HIDE DEF added
  <2>4. Sound(added)
    BY <2>3 DEF Leads
  <2>5. /\ Leads(added, store')
        /\ \A n \in 1..Len(buffer), j \in Incidents : IsAbout(buffer[n], j) => Arrived(store', j)
    BY <1>0, <2>1, <2>4, EndLeads
  <2>6. f.rows[1][i] # Nothing => Arrived(store', i)
    BY <2>3, <2>5, StillArrived
  <2> QED BY <2>5, <2>6
<1>2. CASE FetchFails(f)
  <2>1. store' = Replay(store)
    BY <1>2 DEF FetchFails, EndRecovery
  <2>2. \A n \in 1..Len(buffer), j \in Incidents : IsAbout(buffer[n], j) => Arrived(store', j)
    BY <1>0, <2>1, EndLeads
  <2>3. FetchReturns(f) => f.rows # <<>>
    BY DEF FetchReturns
  <2> QED BY <1>1, <2>2
<1> QED BY <1>1, <1>2

\* An event that is on its way stays there, or the incident has arrived.
LEMMA ComingStays ==
  ASSUME IInv, [Next]_vars, link' # "down", ~ReceiveReady,
         NEW i \in Incidents, Unverified(i), Unverified(i)', Coming(i)
  PROVE  Coming(i)'
<1>0. ServerInv /\ Sound(store) /\ WireInv /\ FetchInv /\ DialogInv
  BY DEF IInv, Types
<1>a. wire \in Seq(Event \cup {Ready}) /\ buffer \in Seq(Event) /\ Buffered(buffer)
  BY <1>0 DEF WireInv, Buffered
<1>1. ASSUME NEW e, IsAbout(e, i) PROVE e # Ready
  BY <1>1 DEF IsAbout, Ready
<1> DEFINE InWire == \E n \in 1..Len(wire) : IsAbout(wire[n], i)
           InBuffer == \E n \in 1..Len(buffer) : IsAbout(buffer[n], i)
           Out == \E e \in outgoing : IsAbout(e, i)
           In == i \in Pending(store) \cup closed
<1>2. In \/ Out \/ InWire \/ InBuffer
  BY DEF Coming
<1>3. In => In'
  <2>1. ~Reload /\ ~Logout
    BY DEF Reload, Logout
  <2>2. CASE UNCHANGED <<store, closed>>
    BY <2>2
  <2>3. CASE UNCHANGED <<server, closed>> /\ Leads(store, store')
    BY <2>3 DEF Leads
  <2>4. CASE DismissNotice
    <3>1. /\ closed' = closed \cup {dialog.shown} /\ store' = removeAlert(store, dialog.shown)
          /\ dialog.shown \in Incidents
      BY <1>0, <2>4 DEF DismissNotice, DialogInv
    <3>2. store'.alerts = [store.alerts EXCEPT ![dialog.shown] = Nothing]
      BY <1>0, <3>1, RemoveFacts DEF Sound
    <3>3. i # dialog.shown => store'.alerts[i] = store.alerts[i]
      <4>1. store.alerts \in [Incidents -> OpenRow \cup {Nothing}]
        BY <1>0, StoreIs DEF Sound, Consistent
      <4> QED BY <3>1, <3>2, <4>1
    <3> QED BY <3>1, <3>3 DEF Pending
  <2> QED BY <2>1, <2>2, <2>3, <2>4, StoreNext DEF StoreSteps
<1>4. SUFFICES ASSUME ~In, Out \/ InWire \/ InBuffer PROVE In' \/ Out' \/ InWire' \/ InBuffer'
  BY <1>2, <1>3 DEF Coming
<1>5. ASSUME NEW e \in outgoing, Publish(e) PROVE Out' \/ InWire' \/ InBuffer'
  <2>1. wire' = Append(wire, e) /\ outgoing' = outgoing \ {e} /\ buffer' = buffer
    BY <1>5 DEF Publish, bridge
  <2>2. e \in Event \cup {Ready}
    BY <1>0 DEF ServerInv, Genuine, GenuineIn
  <2>3. InWire => InWire'
    BY <1>a, <2>1, <2>2, AppendIs
  <2>4. IsAbout(e, i) => InWire'
    BY <1>a, <2>1, <2>2, AppendIs
  <2>5. Out => Out' \/ IsAbout(e, i)
    BY <2>1
  <2> QED BY <1>4, <2>1, <2>3, <2>4, <2>5
<1>6. CASE Commits /\ UNCHANGED <<wire, buffer>>
  <2>1. Out => Out'
    BY <1>6 DEF Commits
  <2> QED BY <1>4, <1>6, <2>1
<1>7. CASE Greet
  <2>1. wire' = Append(wire, Ready) /\ outgoing' = outgoing /\ buffer' = buffer
    BY <1>7 DEF Greet, backend, bridge
  <2>2. InWire => InWire'
    BY <1>a, <2>1, AppendIs
  <2> QED BY <1>4, <2>1, <2>2
<1>8. ASSUME wire # <<>>, wire' = Tail(wire) PROVE InWire => InWire' \/ IsAbout(Head(wire), i)
  <2>1. ASSUME NEW n \in 1..Len(wire), IsAbout(wire[n], i), n # 1 PROVE InWire'
    BY <1>a, <1>8, <2>1, TailIs
  <2> QED BY <1>a, <1>8, <2>1, TailIs
<1>9. CASE Receive
  <2>1. /\ wire # <<>> /\ wire' = Tail(wire) /\ Head(wire) # Ready
        /\ UNCHANGED <<server, outgoing, closed>>
    BY <1>9 DEF Receive, backend
  <2>2. InWire => InWire' \/ IsAbout(Head(wire), i)
    BY <1>8, <2>1
  <2>3. Genuine(Head(wire))
    BY <1>0, <2>1, TailIs DEF WireInv
  <2>4. Head(wire) \in Event
    BY <2>3 DEF Genuine, GenuineIn
  <2>5. CASE buffer' = Append(buffer, Head(wire))
    <3>1. InBuffer => InBuffer'
      BY <1>a, <2>4, <2>5, AppendIs
    <3>2. IsAbout(Head(wire), i) => InBuffer'
      BY <1>a, <2>4, <2>5, AppendIs
    <3> QED BY <1>4, <2>1, <2>2, <3>1, <3>2
  <2>6. CASE buffer' = buffer /\ store' = applyEnvelope(store, Head(wire))
    <3>1. IsAbout(Head(wire), i) => Arrived(store', i)
      BY <1>0, <2>3, <2>6, ApplyLeads
    <3>2. IsAbout(Head(wire), i) => In'
      BY <2>1, <3>1 DEF Arrived
    <3> QED BY <1>4, <2>1, <2>2, <2>6, <3>2
  <2> QED BY <1>9, <2>5, <2>6 DEF Receive
<1>10. ASSUME NEW f \in fetches, FetchReturns(f) \/ FetchFails(f)
       PROVE  In' \/ Out' \/ InWire' \/ InBuffer'
  <2>1. UNCHANGED <<server, outgoing, wire, closed>>
    BY <1>10 DEF FetchReturns, FetchFails, EndRecovery, backend, socket
  <2>2. InBuffer => Arrived(store', i)
    BY <1>10, RecoveryBrings
  <2>3. InBuffer => In'
    BY <2>1, <2>2 DEF Arrived
  <2> QED BY <1>4, <2>1, <2>3
<1>11. \/ \E e \in outgoing : Publish(e)
       \/ Greet \/ Receive
       \/ \E f \in fetches : FetchReturns(f) \/ FetchFails(f)
       \/ UNCHANGED <<wire, buffer>>
  BY DEF Next, ServerStep, SocketStep, BridgeStep, OperatorStep, Detect, ReAlarm, OtherActs,
     Connect, Drop, Reload, Logout, Answer, TimerFires, Ask, Succeed, Conflict, Answered,
     DismissNotice, socket, bridge, vars
<1> QED BY <1>5, <1>6, <1>7, <1>9, <1>10, <1>11, Backend

LEMMA CompleteNext ==
  ASSUME IInv, [Next]_vars
  PROVE  CompleteInv'
<1>0. ReadyInv /\ CompleteInv /\ FetchInv /\ CountInv
  BY DEF IInv, Types
<1>1. SUFFICES ASSUME link' # "down" PROVE CompleteInv'
  BY DEF CompleteInv
<1>2. CASE Connect
  <2>1. complete' = FALSE /\ connects' = connects + 1 /\ fetches' = fetches
    BY <1>2 DEF Connect
  <2>2. \A f \in fetches' : f.of # connects'
    BY <1>0, <2>1, BoundsAssumption DEF FetchInv, CountInv
  <2> QED BY <2>1, <2>2 DEF CompleteInv
<1>3. CASE Greet
  <2>1. complete' = complete /\ connects' = connects /\ fetches' = fetches /\ link = "opening"
    BY <1>3 DEF Greet, bridge
  <2> QED BY <1>0, <2>1 DEF CompleteInv, ReadyInv, Fetching
<1>4. CASE ReceiveReady
  <2> DEFINE g == [of |-> connects, rows |-> <<>>]
  <2>1. /\ complete' = complete /\ connects' = connects /\ fetches' = fetches \cup {g}
        /\ wire # <<>> /\ Head(wire) = Ready
    BY <1>4 DEF ReceiveReady
  <2>2. ~complete /\ ~Fetching
    <3>1. 1 \in 1..Len(wire) /\ wire[1] = Ready
      <4>1. wire \in Seq(Event \cup {Ready})
        BY DEF IInv, Types, WireInv
      <4> QED BY <2>1, <4>1
    <3> QED BY <1>0, <3>1 DEF ReadyInv
  <2>3. \A f \in fetches' : f.of = connects' => f.rows = <<>>
    BY <2>1, <2>2 DEF Fetching
  <2> QED BY <2>1, <2>2, <2>3 DEF CompleteInv
<1>5. ASSUME ~Connect, ~Greet, ~ReceiveReady PROVE CompleteInv'
  <2>1. link = link' /\ connects' = connects /\ link # "down"
    BY <1>1, <1>5 DEF Next, ServerStep, SocketStep, BridgeStep, OperatorStep, Detect, ReAlarm,
       OtherActs, Publish, Drop, Reload, Logout, Receive, Answer, FetchReturns, FetchFails,
       EndRecovery, TimerFires, Ask, Succeed, Conflict, Answered, DismissNotice, socket, vars
  <2>2. ASSUME NEW i \in Incidents, Unverified(i)' PROVE Unverified(i) \/ Coming(i)'
    <3>1. CASE Commits
      BY <2>2, <3>1 DEF Commits, Coming
    <3>2. ASSUME NEW e, Publish(e) PROVE Unverified(i)
      BY <2>2, <3>2 DEF Publish, Unverified
    <3> QED BY <3>1, <3>2, Backend
  <2>3. ASSUME NEW i \in Incidents, Unverified(i)', Coming(i) PROVE Coming(i)'
    BY <1>1, <1>5, <2>2, <2>3, ComingStays
  <2>4. ASSUME complete', NEW i \in Incidents, Unverified(i)' PROVE Coming(i)'
    <3>1. SUFFICES ASSUME Unverified(i) PROVE Coming(i)'
      BY <2>2, <2>4
    <3>2. CASE complete
      BY <1>0, <2>1, <2>3, <2>4, <3>1, <3>2 DEF CompleteInv
    <3>3. CASE ~complete
      <4>1. PICK f \in fetches : FetchReturns(f) /\ f.of = connects
        BY <2>4, <3>3 DEF Next, ServerStep, SocketStep, BridgeStep, OperatorStep, Detect,
           ReAlarm, OtherActs, Publish, Connect, Greet, Drop, Reload, Logout, ReceiveReady,
           Receive, Answer, FetchReturns, FetchFails, EndRecovery, TimerFires, Ask, Succeed,
           Conflict, Answered, DismissNotice, bridge, vars
      <4>2. f.rows[1][i] # Nothing \/ Coming(i)
        BY <1>0, <2>1, <3>1, <4>1 DEF CompleteInv, FetchReturns
      <4>3. CASE f.rows[1][i] # Nothing
        <5>1. Arrived(store', i)
          BY <4>1, <4>3, RecoveryBrings
        <5>2. closed' = closed
          BY <4>1 DEF FetchReturns, EndRecovery
        <5> QED BY <3>1, <5>1, <5>2 DEF Arrived, Coming
      <4> QED BY <2>3, <2>4, <4>2, <4>3
    <3> QED BY <3>2, <3>3
  <2>5. ASSUME NEW f \in fetches', f.of = connects', f.rows # <<>>,
               NEW i \in Incidents, Unverified(i)'
        PROVE  f.rows[1][i] # Nothing \/ Coming(i)'
    <3>1. SUFFICES ASSUME Unverified(i) PROVE f.rows[1][i] # Nothing \/ Coming(i)'
      BY <2>2, <2>5
    <3>2. CASE f \in fetches
      <4>1. f.rows[1][i] # Nothing \/ Coming(i)
        BY <1>0, <2>1, <2>5, <3>1, <3>2 DEF CompleteInv
      <4> QED BY <2>3, <2>5, <4>1
    <3>3. CASE f \notin fetches
      <4>1. PICK g \in fetches : Answer(g)
        BY <1>5, <3>3, <2>5 DEF Next, ServerStep, SocketStep, BridgeStep, OperatorStep, Detect,
           ReAlarm, OtherActs, Publish, Drop, Reload, Logout, Receive, FetchReturns,
           FetchFails, EndRecovery, TimerFires, Ask, Succeed, Conflict, Answered,
           DismissNotice, bridge, vars
      <4>2. PICK rows : /\ fetches' = (fetches \ {g}) \cup {[g EXCEPT !.rows = <<rows, muted>>]}
                        /\ \A j \in Incidents : Unverified(j) => rows[j] # Nothing
        BY <4>1, AnswerIs
      <4>3. g \in [of : 1..MaxConnects, rows : {<<>>} \cup Snapshots]
        BY <1>0 DEF FetchInv
      <4>4. f = [g EXCEPT !.rows = <<rows, muted>>]
        BY <2>5, <3>3, <4>2
      <4>5. f.rows[1] = rows
        BY <4>3, <4>4
      <4> QED BY <3>1, <4>2, <4>5
    <3> QED BY <3>2, <3>3
  <2> QED BY <2>4, <2>5 DEF CompleteInv
<1> QED BY <1>2, <1>3, <1>4, <1>5

-----------------------------------------------------------------------------
(* The theorems *)

LEMMA InitIInv ==
  ASSUME Init
  PROVE  IInv
<1>1. store = Empty({})
  BY DEF Init
<1>2. Consistent(store) /\ store.alerts = [i \in Incidents |-> Nothing] /\ store.handledIds = {}
      /\ Pending(store) = {}
  BY <1>1, EmptyIs
<1>3. Sound(store)
  BY <1>2 DEF Sound
<1>4. ServerInv
  BY DEF Init, ServerInv
<1>5. WireInv /\ FetchInv
  BY DEF Init, WireInv, FetchInv, Buffered
<1>6. CallInv
  BY DEF Init, CallInv
<1>7. DialogInv
  BY <1>2 DEF Init, DialogInv
<1>8. CountInv
  <2>1. 0 \in 0..MaxConnects /\ 0 \in 0..MaxMutes /\ 0 \in 0..MaxCalls
    BY BoundsAssumption
  <2>2. connects = 0 /\ mutes = 0 /\ calls = 0 /\ recovering = FALSE /\ complete = FALSE
    BY DEF Init
  <2> QED BY <2>1, <2>2 DEF CountInv
<1>9. ReadyInv
  BY DEF Init, ReadyInv
<1>10. CompleteInv
  BY DEF Init, CompleteInv
<1> QED BY <1>3, <1>4, <1>5, <1>6, <1>7, <1>8, <1>9, <1>10 DEF IInv, Types

LEMMA NextIInv ==
  ASSUME IInv, [Next]_vars
  PROVE  IInv'
BY ServerNext, WireNext, FetchNext, CallNext, DialogNext, CountNext, SoundNext, ReadyNext,
   CompleteNext DEF IInv, Types

LEMMA Inductive == Spec => []IInv
BY InitIInv, NextIInv, PTL DEF Spec

LEMMA IInvTypes ==
  ASSUME IInv
  PROVE  TypeOK
<1>0. ServerInv /\ WireInv /\ FetchInv /\ CallInv /\ DialogInv /\ CountInv /\ Sound(store)
  BY DEF IInv, Types
<1>1. server \in [Incidents -> Row \cup {Nothing}] /\ muted \subseteq Incidents
  BY <1>0 DEF ServerInv
<1>2. outgoing \subseteq Event
  BY <1>0 DEF ServerInv, Genuine, GenuineIn
<1>3. /\ link \in {"down", "opening", "up"}
      /\ \A n \in 1..Len(wire) : wire[n] \in Event \cup {Ready}
      /\ \A n \in 1..Len(buffer) : buffer[n] \in Event
  BY <1>0 DEF WireInv, Buffered, Genuine, GenuineIn
<1>4. store \in Store
  BY <1>0 DEF Sound, Consistent
<1>5. /\ store.alerts \in [Incidents -> {r \in Row : r.status \in Open} \cup {Nothing}]
      /\ store.handledIds \subseteq Incidents /\ store.siren \in BOOLEAN
  BY <1>4, StoreIs DEF OpenRow
<1>6. fetches \subseteq Fetch
  <2> SUFFICES ASSUME NEW f \in fetches PROVE f \in Fetch
    OBVIOUS
  <2>1. f \in [of : 1..MaxConnects, rows : {<<>>} \cup Snapshots]
    BY <1>0 DEF FetchInv
  <2>2. [Incidents -> OpenRow \cup {Nothing}] \subseteq [Incidents -> Row \cup {Nothing}]
    BY DEF OpenRow
  <2>3. Snapshots \subseteq {<<r, m>> : r \in [Incidents -> Row \cup {Nothing}],
                                       m \in SUBSET Incidents}
    BY <2>2 DEF Snapshots
  <2> QED BY <2>1, <2>3 DEF Fetch
<1>7. /\ dialog \in [shown : Pending(store) \cup {NoIncident}, notice : BOOLEAN]
      /\ dialog.shown = NoIncident => Pending(store) = {}
  BY <1>0 DEF DialogInv
<1>8. Cardinality(call) <= 1
  <2>1. CASE call = {}
    BY <2>1, FS_EmptySet
  <2>2. ASSUME NEW c, call = {c} PROVE Cardinality(call) = 1
    BY <2>2, FS_Singleton
  <2> QED BY <1>0, <2>1, <2>2 DEF CallInv
<1>9. /\ connects \in 0..MaxConnects /\ mutes \in 0..MaxMutes /\ calls \in 0..MaxCalls
      /\ recovering \in BOOLEAN
  BY <1>0 DEF CountInv
<1> QED BY <1>1, <1>2, <1>3, <1>5, <1>6, <1>7, <1>8, <1>9 DEF TypeOK

\* The variables of the tab and of the server keep their types.
THEOREM TypeCorrect == Spec => []TypeOK
BY Inductive, IInvTypes, PTL

\* The siren sounds exactly while an unsnoozed Unverified incident is queued, and
\* every mirrored snooze has its timer (syncSound, activateSnooze, clearSnooze).
THEOREM FieldsAgree == Spec => []StoreIsConsistent
<1>1. IInv => StoreIsConsistent
  BY IInvTypes DEF IInv, Sound, Consistent, StoreIsConsistent
<1> QED BY <1>1, Inductive, PTL

\* When nothing is on its way to a tab that has applied the snapshot of its
\* connection, every incident that is Unverified on the server is in its queue,
\* or was removed by the button of a conflict notice (RealtimeAlertsBridge).
THEOREM NothingIsMissing == Spec => []QuietQueueIsComplete
<1>1. ASSUME IInv PROVE QuietQueueIsComplete
  <2> SUFFICES ASSUME Quiet, NEW i \in Incidents, server[i].status = "Unverified"
               PROVE  i \in Pending(store) \cup closed
    BY DEF QuietQueueIsComplete
  <2>1. Coming(i)
    BY <1>1 DEF IInv, CompleteInv, Quiet, Unverified
  <2>2. Len(wire) = 0 /\ Len(buffer) = 0 /\ outgoing = {}
    BY DEF Quiet
  <2> QED BY <2>1, <2>2 DEF Coming
<1> QED BY <1>1, Inductive, PTL

\* An incident that is pending leaves the queue only once the server has decided or
\* confirmed it, by the button of a conflict notice, or with the whole queue
\* (addAlert, removeAlert, activateSnooze and clearSnooze, whoever calls them).
THEOREM AlarmsEndForAReason == Spec => PendingStaysUntilDecided
<1> DEFINE Stays == \A i \in Pending(store) \ Pending(store)' :
                      server[i].status # "Unverified" \/ i \in closed' \/ StoreIsEmptied
<1>1. ASSUME IInv, [Next]_vars PROVE Stays
  <2> SUFFICES ASSUME NEW i \in Pending(store) \ Pending(store)', Unverified(i)
               PROVE  i \in closed' \/ StoreIsEmptied
    BY DEF Unverified
  <2>0. Consistent(store) /\ store \in Store /\ DialogInv /\ i \in Incidents
    BY <1>1 DEF IInv, Types, Sound, Consistent, Pending
  <2>1. store' # store /\ ~Leads(store, store')
    BY <2>0 DEF Leads
  <2>2. CASE DismissNotice
    <3>1. /\ store' = removeAlert(store, dialog.shown) /\ dialog.shown \in Incidents
          /\ closed' = closed \cup {dialog.shown}
      BY <2>0, <2>2 DEF DismissNotice, DialogInv
    <3>2. store'.alerts = [store.alerts EXCEPT ![dialog.shown] = Nothing]
      BY <2>0, <3>1, RemoveFacts
    <3>3. i # dialog.shown => store'.alerts[i] = store.alerts[i]
      BY <2>0, <3>1, <3>2, StoreIs
    <3>4. i = dialog.shown
      BY <2>0, <3>3 DEF Pending
    <3> QED BY <3>1, <3>4
  <2>3. CASE Reload \/ Logout
    BY <2>3 DEF Reload, Logout, StoreIsEmptied
  <2> QED BY <1>1, <2>1, <2>2, <2>3, StoreNext DEF StoreSteps
<1>2. IInv /\ [Next]_vars => [Stays]_vars
  BY <1>1
<1> QED BY <1>2, Inductive, PTL DEF Spec, PendingStaysUntilDecided
=============================================================================
