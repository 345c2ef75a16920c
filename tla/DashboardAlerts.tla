-------------------------- MODULE DashboardAlerts --------------------------
(***************************************************************************)
(* One dashboard tab: the alert store, the bridge that feeds it from the   *)
(* WebSocket and from the REST snapshot it asks for on every connection,   *)
(* and the dialog, the tray and the page through which its operator acts.  *)
(*                                                                         *)
(* The server is what the tab can see of it: rows, each stamped with the   *)
(* time of its last write (key, updated_at), events that its threads       *)
(* broadcast some time after their commit, and handlers that answer or     *)
(* refuse.  A request names a row that has been inserted, and so is later; *)
(* but it looks at the clock before it gets SQLite's write lock: from then *)
(* on stamps do not grow in the order of the commits, and may be equal     *)
(* (the tab compares milliseconds).                                        *)
(*                                                                         *)
(* A tab reads an event once at most (the hub queues it once per           *)
(* connection), so the check of event_id never fires and is left out, as   *)
(* is the summary shown after a reconnect.  The snapshot holds every open  *)
(* incident: the page of a hundred that getAlerts asks for is taken to be  *)
(* enough.                                                                 *)
(***************************************************************************)
EXTENDS Naturals, Sequences, FiniteSets, SequencesExt, FiniteSetsExt

CONSTANTS Incidents,
          NoIncident,
          MaxConnects,    \* connections of a behaviour, of which the last one stays up
          MaxMutes,       \* snoozes that the server grants
          MaxLate,        \* handlers between their commit and their broadcast
          MaxWire,        \* events on the socket: the next broadcast comes later
          MaxCalls,       \* requests of this operator
          MaxStamp        \* instants that updated_at tells apart

ASSUME NoIncidentAssumption == NoIncident \notin Incidents
ASSUME IncidentsAssumption == IsFiniteSet(Incidents)
ASSUME BoundsAssumption == MaxConnects \in Nat /\ MaxMutes \in Nat
                           /\ MaxLate \in Nat /\ MaxCalls \in Nat
                           /\ MaxWire \in Nat \ {0} /\ MaxStamp \in Nat \ {0, 1}

VARIABLES
  server,      \* detection_log
  muted,       \* the incidents that the server holds snoozed
  outgoing,    \* events committed and not yet broadcast
  link,        \* the tab's socket
  wire,        \* what the socket carries
  store,       \* useAlertStore
  recovering,  \* recoveringRef
  buffer,      \* bufferedEventsRef
  fetches,     \* recoveries whose getAlerts has not returned
  dialog,      \* GlobalAlerts: the incident shown and whether a conflict notice is
  call,        \* the operator's request under way, in a set of at most one
  connects, mutes, calls,  \* counters
  \* History.
  complete,    \* the snapshot asked for on this connection has been applied
  closed       \* incidents removed by the button of a conflict notice

vars == <<server, muted, outgoing, link, wire, store, recovering, buffer, fetches, dialog,
          call, connects, mutes, calls, complete, closed>>

backend == <<server, muted, outgoing, mutes>>
bridge  == <<recovering, buffer, fetches, complete>>
socket  == <<link, wire, connects>>
operator == <<call, calls>>

Decided == {"Dismissed", "Cleared"}
Open    == {"Unverified", "Ongoing"}
Nothing == [status |-> "none", key |-> 0]
Row     == [status : Open \cup Decided, key : 1..MaxStamp]

Ready == [kind |-> "ready"]
Event == [kind : {"incident"}, id : Incidents, row : Row]
           \cup [kind : {"snooze", "re_alarm"}, id : Incidents]
Fetch == [of : 1..MaxConnects, rows : {<<>>} \cup {<<r, m>> : r \in [Incidents -> Row \cup {Nothing}],
                                                              m \in SUBSET Incidents}]

-----------------------------------------------------------------------------
(* useAlertStore *)

Empty(handledIds) == [alerts |-> [i \in Incidents |-> Nothing], handledIds |-> handledIds,
                      snoozed |-> {}, timers |-> {}, siren |-> FALSE]

Queued(s)  == {i \in Incidents : s.alerts[i] # Nothing}
Pending(s) == {i \in Incidents : s.alerts[i].status = "Unverified"}
Alarming(s) == Pending(s) \ s.snoozed # {}

\* Mutant of SyncSound: it looks at the incidents queued, snoozed or not.
SyncSoundOfQueue(before, after) ==
  [after EXCEPT !.siren = IF Pending(before) = {} /\ Pending(after) # {} THEN TRUE
                          ELSE IF Pending(before) # {} /\ Pending(after) = {} THEN FALSE
                          ELSE @]

\* syncSound: the siren is switched on the edges only.
SyncSound(before, after) ==
  [after EXCEPT !.siren = IF ~Alarming(before) /\ Alarming(after) THEN TRUE
                          ELSE IF Alarming(before) /\ ~Alarming(after) THEN FALSE
                          ELSE @]

WithoutSnooze(s, i) == [s EXCEPT !.snoozed = @ \ {i}, !.timers = @ \ {i}]

removeAlert(s, i) ==
  SyncSound(s, [WithoutSnooze(s, i) EXCEPT !.alerts[i] = Nothing, !.handledIds = @ \cup {i}])

clearSnooze(s, i) == SyncSound(s, WithoutSnooze(s, i))

\* A deadline that has passed by the clock of this browser is a timer that fires
\* at once.
activateSnooze(s, i) ==
  SyncSound(s, [s EXCEPT !.snoozed = @ \cup {i}, !.timers = @ \cup {i}])

shouldApplyIncidentEvent(incoming, queued) == queued = Nothing \/ incoming.key >= queued.key

addAlert(s, i, row) ==
  IF ~shouldApplyIncidentEvent(row, s.alerts[i]) THEN s
  ELSE IF row.status \in Decided THEN removeAlert(s, i)
  ELSE IF row.status = "Ongoing"
       THEN SyncSound(s, [WithoutSnooze(s, i) EXCEPT !.alerts[i] = row, !.handledIds = @ \ {i}])
  ELSE IF i \in s.handledIds THEN s
  ELSE SyncSound(s, [s EXCEPT !.alerts[i] = row])

-----------------------------------------------------------------------------
(* The server *)

Broadcast(e) ==
  /\ Cardinality(outgoing) < MaxLate
  /\ outgoing' = outgoing \cup {e}

Write(i, status, now) ==
  /\ server' = [server EXCEPT ![i] = [status |-> status, key |-> now]]
  /\ muted'  = muted \ {i}
  /\ Broadcast([kind |-> "incident", id |-> i, row |-> server'[i]])
  /\ UNCHANGED mutes

Detect(i) ==
  /\ server[i] = Nothing
  /\ Write(i, "Unverified", 1)
  /\ UNCHANGED <<socket, store, bridge, dialog, operator, closed>>

Allowed(i, op) == server[i].status \in CASE op = "confirm" -> {"Unverified"}
                                         [] op = "dismiss" -> Open
                                         [] op = "clear"   -> {"Ongoing"}
                                         [] op = "snooze"  -> {"Unverified"}

Outcome(op) == CASE op = "confirm" -> "Ongoing" [] op = "dismiss" -> "Dismissed"
                 [] op = "clear" -> "Cleared"

Snooze(i, now) ==
  /\ mutes < MaxMutes
  /\ mutes' = mutes + 1
  /\ muted' = muted \cup {i}
  /\ server' = [server EXCEPT ![i].key = now]
  /\ Broadcast([kind |-> "snooze", id |-> i])

Handle(i, op) ==
  \E now \in 2..MaxStamp : IF op = "snooze" THEN Snooze(i, now) ELSE Write(i, Outcome(op), now)

\* Another operator's request.
OtherActs(i, op) ==
  /\ Allowed(i, op)
  /\ Handle(i, op)
  /\ UNCHANGED <<socket, store, bridge, dialog, operator, closed>>

\* A snooze expires on the server, later than it was granted; the job broadcasts
\* RE_ALARM.
ReAlarm(i) ==
  /\ i \in muted
  /\ muted' = muted \ {i}
  /\ \E now \in 1..MaxStamp : now > server[i].key /\ server' = [server EXCEPT ![i].key = now]
  /\ Broadcast([kind |-> "re_alarm", id |-> i])
  /\ UNCHANGED <<mutes, socket, store, bridge, dialog, operator, closed>>

\* Threads broadcast in any order; nobody hears who is not connected.
Publish(e) ==
  /\ e \in outgoing /\ Len(wire) < MaxWire
  /\ outgoing' = outgoing \ {e}
  /\ wire' = IF link = "down" THEN wire ELSE Append(wire, e)
  /\ UNCHANGED <<server, muted, mutes, link, connects, store, bridge, dialog, operator, closed>>

-----------------------------------------------------------------------------
(* useAdasWebSocket *)

Connect ==
  /\ link = "down" /\ connects < MaxConnects
  /\ link' = "opening"
  /\ connects' = connects + 1
  /\ complete' = FALSE
  /\ UNCHANGED <<backend, wire, store, recovering, buffer, fetches, dialog, operator, closed>>

\* The connection is registered before its ready event is queued.
Greet ==
  /\ link = "opening"
  /\ link' = "up"
  /\ wire' = Append(wire, Ready)
  /\ UNCHANGED <<backend, connects, store, bridge, dialog, operator, closed>>

Drop ==
  /\ link # "down" /\ connects < MaxConnects
  /\ link' = "down"
  /\ wire' = <<>>
  /\ UNCHANGED <<backend, connects, store, bridge, dialog, operator, closed>>

-----------------------------------------------------------------------------
(* RealtimeAlertsBridge *)

\* The dialog keeps its place in its list of pending incidents: what it shows
\* changes only when that list does.  The notice stays, whatever is shown.
Display(notice) ==
  \E i \in IF Pending(store') = {} THEN {NoIncident} ELSE Pending(store') :
    /\ Pending(store') = Pending(store) => i = dialog.shown
    /\ dialog' = [shown |-> i, notice |-> notice]

applyEnvelope(s, e) ==
  CASE e.kind = "incident" -> addAlert(s, e.id, e.row)
    [] e.kind = "snooze"   -> activateSnooze(s, e.id)
    [] e.kind = "re_alarm" -> clearSnooze(s, e.id)

\* runRecoverySequence up to its await.
ReceiveReady ==
  /\ wire # <<>> /\ Head(wire) = Ready
  /\ wire' = Tail(wire)
  /\ recovering' = TRUE
  /\ buffer' = <<>>
  /\ fetches' = fetches \cup {[of |-> connects, rows |-> <<>>]}
  /\ UNCHANGED <<backend, link, connects, store, complete, dialog, operator, closed>>

Receive ==
  /\ wire # <<>> /\ Head(wire) # Ready
  /\ wire' = Tail(wire)
  /\ \/ /\ recovering
        /\ buffer' = Append(buffer, Head(wire))
        /\ UNCHANGED <<store, dialog>>
     \/ /\ ~recovering
        /\ store' = applyEnvelope(store, Head(wire))
        /\ Display(dialog.notice)
        /\ UNCHANGED buffer
  /\ UNCHANGED <<backend, link, connects, recovering, fetches, complete, operator, closed>>

\* get_alerts with status=Unverified&status=Ongoing.
Answer(f) ==
  /\ f \in fetches /\ f.rows = <<>>
  /\ LET rows == [i \in Incidents |-> IF server[i].status \in Open THEN server[i] ELSE Nothing]
     IN  fetches' = (fetches \ {f}) \cup {[f EXCEPT !.rows = <<rows, muted>>]}
  /\ UNCHANGED <<backend, socket, store, recovering, buffer, complete, dialog, operator, closed>>

\* The snapshot is added, then its snoozes.
Snapshot(s, rows, snoozed) ==
  FoldSet(LAMBDA i, t : LET added == addAlert(t, i, rows[i])
                        IN  IF i \in snoozed THEN activateSnooze(added, i) ELSE added,
          s, {i \in Incidents : rows[i] # Nothing})

\* Mutant of Replay: what was buffered is thrown away.
ReplayNothing(s) == s

Replay(s) == FoldLeft(applyEnvelope, s, buffer)

\* The rest of runRecoverySequence; a fetch that failed adds nothing and is not
\* asked for again.
EndRecovery(f, added) ==
  /\ fetches' = fetches \ {f}
  /\ recovering' = FALSE
  /\ buffer' = <<>>
  /\ store' = Replay(added)
  /\ Display(dialog.notice)
  /\ UNCHANGED <<backend, socket, operator, closed>>

FetchReturns(f) ==
  /\ f \in fetches /\ f.rows # <<>>
  /\ EndRecovery(f, Snapshot(store, f.rows[1], f.rows[2]))
  /\ complete' = (complete \/ (link # "down" /\ f.of = connects))

FetchFails(f) ==
  /\ f \in fetches
  /\ EndRecovery(f, store)
  /\ UNCHANGED complete

\* The timer of a snooze mirrored here.
TimerFires(i) ==
  /\ i \in store.timers
  /\ store' = clearSnooze(store, i)
  /\ Display(dialog.notice)
  /\ UNCHANGED <<backend, socket, bridge, operator, closed>>

-----------------------------------------------------------------------------
(* The operator of this tab *)

\* GlobalAlerts acts on the incident it shows and snoozes every pending one (here
\* one request each), the tray on ongoing ones, the page on any row.
Offered(by, i, op) ==
  CASE by = "dialog" -> i \in Pending(store) /\ IF op = "snooze" THEN TRUE
                                                ELSE i = dialog.shown /\ op \in {"confirm", "dismiss"}
    [] by = "tray"   -> store.alerts[i].status = "Ongoing" /\ op \in {"clear", "dismiss"}
    [] by = "page"   -> Allowed(i, op)

\* runAction and handleSnooze forget the last notice.  The server handles the
\* request, or refuses it with 409 (which changes nothing on the page); the answer
\* is on its way.  A request whose answer is lost is to this tab as another
\* operator's.
Ask(by, i, op) ==
  /\ call = {} /\ calls < MaxCalls
  /\ calls' = calls + 1
  /\ Offered(by, i, op)
  /\ \/ /\ Allowed(i, op)
        /\ Handle(i, op)
        /\ call' = {[by |-> by, id |-> i, op |-> op, ok |-> TRUE,
                     row |-> server'[i]]}
     \/ /\ ~Allowed(i, op)
        /\ call' = {[by |-> by, id |-> i, op |-> op, ok |-> FALSE, row |-> Nothing]}
        /\ UNCHANGED backend
  /\ dialog' = IF by = "dialog" THEN [dialog EXCEPT !.notice = FALSE] ELSE dialog
  /\ UNCHANGED <<socket, store, bridge, closed>>

Answered(c) ==
  /\ c \in call
  /\ call' = {}
  /\ UNCHANGED <<backend, socket, bridge, calls, closed>>

\* Mutant of Succeed: the page treats a snooze like its other mutations.
Succeed_RemovesSnoozed(c) ==
  /\ Answered(c) /\ c.ok
  /\ store' = IF c.by = "page" THEN removeAlert(store, c.id)
              ELSE IF c.op = "snooze" THEN activateSnooze(store, c.id)
              ELSE IF c.by = "dialog" THEN addAlert(store, c.id, c.row)
              ELSE removeAlert(store, c.id)
  /\ Display(dialog.notice)

\* 200: the dialog merges the row, the tray and the page remove the alert.
Succeed(c) ==
  /\ Answered(c) /\ c.ok
  /\ store' = IF c.op = "snooze" THEN activateSnooze(store, c.id)
              ELSE IF c.by = "dialog" THEN addAlert(store, c.id, c.row)
              ELSE removeAlert(store, c.id)
  /\ Display(dialog.notice)

\* 409: the dialog shows a notice, the tray removes the alert.  A snooze of an
\* incident already decided is refused with 400, which is no conflict, unless the
\* decision came between the handler's look and its UPDATE.
Conflict(c) ==
  /\ Answered(c) /\ ~c.ok
  /\ store' = IF c.by = "tray" THEN removeAlert(store, c.id) ELSE store
  /\ \E raceLost \in IF c.op = "snooze" THEN BOOLEAN ELSE {TRUE} :
       Display(dialog.notice \/ (c.by = "dialog" /\ raceLost))

\* The button under the notice removes the incident that is shown now.
DismissNotice ==
  /\ dialog.notice /\ dialog.shown # NoIncident
  /\ store' = removeAlert(store, dialog.shown)
  /\ closed' = closed \cup {dialog.shown}
  /\ Display(FALSE)
  /\ UNCHANGED <<backend, socket, bridge, operator>>

-----------------------------------------------------------------------------
(* Page load and logout *)

\* sessionStorage keeps handledIds across a page load; everything else is new.
Reload ==
  /\ connects < MaxConnects
  /\ store' = Empty(store.handledIds)
  /\ recovering' = FALSE /\ buffer' = <<>> /\ fetches' = {} /\ call' = {}
  /\ complete' = FALSE
  /\ link' = "down" /\ wire' = <<>>
  /\ dialog' = [shown |-> NoIncident, notice |-> FALSE]
  /\ UNCHANGED <<backend, connects, calls, closed>>

\* clearAlerts, and the socket is closed.  A recovery under way goes on, and the
\* dialog, which is mounted outside the routes, keeps its notice.
Logout ==
  /\ connects < MaxConnects
  /\ store' = Empty({})
  /\ link' = "down" /\ wire' = <<>>
  /\ complete' = FALSE
  /\ closed' = {}
  /\ dialog' = [dialog EXCEPT !.shown = NoIncident]
  /\ UNCHANGED <<backend, connects, recovering, buffer, fetches, operator>>

-----------------------------------------------------------------------------
Init == /\ server = [i \in Incidents |-> Nothing]
        /\ muted = {} /\ outgoing = {}
        /\ link = "down" /\ wire = <<>>
        /\ store = Empty({})
        /\ recovering = FALSE /\ buffer = <<>> /\ fetches = {}
        /\ dialog = [shown |-> NoIncident, notice |-> FALSE]
        /\ call = {} /\ connects = 0 /\ mutes = 0 /\ calls = 0
        /\ complete = FALSE /\ closed = {}

Operations == {"confirm", "dismiss", "clear", "snooze"}

ServerStep ==
  \/ \E i \in Incidents : Detect(i) \/ ReAlarm(i) \/ \E op \in Operations : OtherActs(i, op)
  \/ \E e \in outgoing : Publish(e)

SocketStep == Connect \/ Greet \/ Drop \/ Reload \/ Logout

BridgeStep ==
  \/ ReceiveReady \/ Receive
  \/ \E f \in fetches : Answer(f) \/ FetchReturns(f) \/ FetchFails(f)
  \/ \E i \in Incidents : TimerFires(i)

OperatorStep ==
  \/ \E by \in {"dialog", "tray", "page"}, i \in Incidents, op \in Operations : Ask(by, i, op)
  \/ \E c \in call : Succeed(c) \/ Conflict(c)
  \/ DismissNotice

Next == ServerStep \/ SocketStep \/ BridgeStep \/ OperatorStep

Spec == Init /\ [][Next]_vars

-----------------------------------------------------------------------------
(* Properties *)

TypeOK ==
  /\ server \in [Incidents -> Row \cup {Nothing}] /\ muted \subseteq Incidents
  /\ outgoing \subseteq Event
  /\ link \in {"down", "opening", "up"}
  /\ \A n \in 1..Len(wire) : wire[n] \in Event \cup {Ready}
  /\ \A n \in 1..Len(buffer) : buffer[n] \in Event
  /\ store.alerts \in [Incidents -> {r \in Row : r.status \in Open} \cup {Nothing}]
  /\ store.handledIds \subseteq Incidents
  /\ recovering \in BOOLEAN /\ store.siren \in BOOLEAN
  /\ fetches \subseteq Fetch
  /\ dialog \in [shown : Pending(store) \cup {NoIncident}, notice : BOOLEAN]
  /\ dialog.shown = NoIncident => Pending(store) = {}
  /\ Cardinality(call) <= 1
  /\ connects \in 0..MaxConnects /\ mutes \in 0..MaxMutes /\ calls \in 0..MaxCalls

\* Nothing is on its way to this tab, whose last snapshot arrived.
Quiet == /\ link = "up" /\ complete
         /\ outgoing = {} /\ wire = <<>> /\ buffer = <<>>

\* No accident is missing from a dashboard that is connected and up to date:
\* whatever was lost with a connection, reordered, buffered, overwritten by a
\* late snapshot or suppressed in an earlier session, an incident that is
\* Unverified on the server is pending in the store.  The incidents that the
\* button of a conflict notice removed are excepted, see NoticeRemovesDecided.
QuietQueueIsComplete ==
  Quiet => \A i \in Incidents : server[i].status = "Unverified" => i \in Pending(store) \cup closed

\* What empties the store: a page load or a logout.
StoreIsEmptied == store' \in {Empty(store.handledIds), Empty({})}

\* An alarm leaves the dashboard for a reason.  Whatever is received, replayed,
\* read from a snapshot, answered or timed out, in whichever order, an incident that
\* is pending stays so until it is decided on the server, the button of a conflict
\* notice closes it, or the tab starts anew.  (Snoozing it mutes it in place, and the
\* handlers of three places of the page remove by hand what they have decided.)
PendingStaysUntilDecided ==
  [][\A i \in Pending(store) \ Pending(store)' :
       server[i].status # "Unverified" \/ i \in closed' \/ StoreIsEmptied]_vars

\* The fields of the store agree, although each of its operations updates them
\* by hand.  The siren, switched on edges only, sounds exactly while an unsnoozed
\* Unverified incident is queued (syncSound around every change).  A snooze
\* mirrored here has its timer armed, so that no alert stays mute for good when
\* RE_ALARM is lost.
StoreIsConsistent ==
  /\ TypeOK
  /\ store.siren = Alarming(store)
  /\ store.snoozed = store.timers

\* "log_ids dismissed or confirmed this session": an id is suppressed only when
\* its incident has been decided on the server.
NoticeRemovesDecided == \A i \in store.handledIds : server[i].status # "Unverified"

\* "An older snapshot cannot overwrite a newer event" (merge.ts: updated_at is a
\* "monotonic merge key"): an incident that the tab knows to be confirmed does not
\* turn up as a new accident again.
ConfirmedStaysConfirmed ==
  [][\A i \in Queued(store) \cap Pending(store)' : store.alerts[i].status = "Unverified"]_vars
=============================================================================
