------------------------------ MODULE Realtime ------------------------------
(***************************************************************************)
(* The backend's WebSocket fan-out: the /ws/alerts handshake, one bounded  *)
(* queue and one sender task per connection, broadcasts, and the ways in   *)
(* which a connection is closed.                                           *)
(*                                                                         *)
(* Everything except a broadcast runs as a coroutine of one event loop and *)
(* gives way to the other coroutines only at an await.  Broadcasts run     *)
(* mostly on other threads (the routes of the alerts, cameras and internal *)
(* APIs and the scheduler's jobs are plain functions), between any two     *)
(* steps of the loop.  onLoop names the connection whose coroutine is      *)
(* between two awaits at a point where a thread can tell the difference.   *)
(***************************************************************************)
EXTENDS Naturals, Sequences, SequencesExt

CONSTANTS Conns,        \* handshake attempts; an id is not used twice
          Sessions,
          Users,
          SessionOf,    \* the session whose cookie a handshake brings
          UserOf,       \* the user of a session
          Threads,      \* threads that broadcast
          NoConn,
          QueueMax,     \* WS_QUEUE_MAXSIZE
          MaxPerUser,   \* WS_MAX_CONNECTIONS_PER_USER
          MaxTotal,     \* WS_MAX_CONNECTIONS_TOTAL
          MaxEvents     \* broadcasts of a behaviour

ASSUME OwnersAssumption == SessionOf \in [Conns -> Sessions] /\ UserOf \in [Sessions -> Users]
ASSUME NoConnAssumption == NoConn \notin Conns
ASSUME LimitsAssumption == /\ QueueMax \in Nat \ {0} /\ MaxPerUser \in Nat
                           /\ MaxTotal \in Nat /\ MaxEvents \in Nat
ASSUME TargetsAssumption == Sessions \cap Users = {}

Ready   == 0             \* the CONNECTION_READY event
Events  == 1..MaxEvents
Payload == {Ready} \cup Events

VARIABLES
  revoked,     \* sessions revoked or expired in the database
  handshake,   \* per connection: where websocket_alerts stands
  socket,      \* per connection: its TCP connection
  registered,  \* _by_connection, in the order of registration
  queue,       \* per connection: Connection.queue
  sender,      \* per connection: where _sender stands
  sending,     \* per connection: the event being sent, in a sequence of at most one
  doomed,      \* connections with a fire-and-forget disconnect task
  closing,     \* per session or user: what a close_session or close_user has left
  sweep,       \* what the revalidation job has left of its snapshot
  onLoop,
  broadcasts,  \* broadcasts so far
  cast,        \* per thread: the event it broadcasts and the connections left
  \* History.
  audience,    \* per event: the connections its broadcast started with
  cutShort,    \* events whose broadcast ended, on its thread, at a full queue
  enqueued,    \* per connection: everything its queue ever took
  received,    \* per connection: everything its client ever got
  loggedOut,   \* sessions revoked by a route that closes their sockets
  late         \* connections accepted when their session was revoked so

vars == <<revoked, handshake, socket, registered, queue, sender, sending, doomed, closing, sweep,
          onLoop, broadcasts, cast, audience, cutShort, enqueued, received, loggedOut, late>>

manager == <<registered, sender, sending, socket>>
queues  == <<queue, enqueued>>
threads == <<broadcasts, cast, audience, cutShort>>
auth    == <<revoked, loggedOut, late>>
tasks   == <<doomed, closing, sweep>>

Registered == ToSet(registered)
Of(target) == {c \in Registered : target \in {SessionOf[c], UserOf[SessionOf[c]]}}

NoCast == [event |-> Ready, todo |-> <<>>]

LoopIsFree == onLoop = NoConn

-----------------------------------------------------------------------------
(* RealtimeManager *)

\* The entry of c is taken out of the dictionary.
Deregister(c) ==
  \E i \in DOMAIN registered : registered[i] = c /\ registered' = RemoveAt(registered, i)

\* Mutant of Disconnect: the sender task is not cancelled.
Disconnect_KeepsSender(c) ==
  \/ /\ c \in Registered
     /\ Deregister(c)
     /\ socket' = [socket EXCEPT ![c] = "gone"]
     /\ UNCHANGED <<sender, sending>>
  \/ c \notin Registered /\ UNCHANGED manager

\* disconnect: whoever comes second finds the connection gone and does nothing.
\* The sender task is cancelled wherever it waits; when it is the caller it
\* returns.
Disconnect(c) ==
  \/ /\ c \in Registered
     /\ Deregister(c)
     /\ socket'  = [socket EXCEPT ![c] = "gone"]
     /\ sender'  = [sender EXCEPT ![c] = "done"]
     /\ sending' = [sending EXCEPT ![c] = <<>>]
  \/ c \notin Registered /\ UNCHANGED manager

\* put_nowait of e on the queues of cs: it wakes the sender of each that waits
\* for its queue to fill.
Put(cs, e) ==
  /\ queue'    = [c \in Conns |-> IF c \in cs THEN Append(queue[c], e) ELSE queue[c]]
  /\ enqueued' = [c \in Conns |-> IF c \in cs THEN Append(enqueued[c], e) ELSE enqueued[c]]
  /\ sender'   = [c \in Conns |-> IF c \in cs /\ sender[c] = "waiting" THEN "checking"
                                  ELSE sender[c]]

HasRoom(c) == Len(queue[c]) < QueueMax

-----------------------------------------------------------------------------
(* The handshake and the read loop *)

CountForUser(u) == Cardinality({c \in Registered : UserOf[SessionOf[c]] = u})

\* authenticate_session_token and the two limits.
Admitted(c) ==
  /\ SessionOf[c] \notin revoked
  /\ CountForUser(UserOf[SessionOf[c]]) < MaxPerUser
  /\ Len(registered) < MaxTotal

HandshakeCheck(c) ==
  /\ LoopIsFree /\ handshake[c] = "new"
  /\ IF Admitted(c)
     THEN /\ handshake' = [handshake EXCEPT ![c] = "accepting"]
          /\ socket' = [socket EXCEPT ![c] = "open"]
     ELSE /\ handshake' = [handshake EXCEPT ![c] = "over"]
          /\ socket' = [socket EXCEPT ![c] = "gone"]
  /\ UNCHANGED <<registered, sender, sending, queues, tasks, onLoop, threads, received, auth>>

\* accept() has returned: connect registers the connection and starts its sender.
HandshakeRegister(c) ==
  /\ LoopIsFree /\ handshake[c] = "accepting"
  /\ handshake'  = [handshake EXCEPT ![c] = "registered"]
  /\ registered' = Append(registered, c)
  /\ sender'     = [sender EXCEPT ![c] = "checking"]
  /\ onLoop'     = c
  /\ UNCHANGED <<sending, socket, queues, tasks, threads, received, auth>>

\* The ready event is queued.  A queue that threads have filled meanwhile raises
\* QueueFull outside the try: the socket closes, nobody deregisters.
HandshakeReady(c) ==
  /\ onLoop = c /\ handshake[c] = "registered"
  /\ onLoop' = NoConn
  /\ \/ /\ HasRoom(c)
        /\ handshake' = [handshake EXCEPT ![c] = "reading"]
        /\ Put({c}, Ready)
        /\ UNCHANGED socket
     \/ /\ ~HasRoom(c)
        /\ handshake' = [handshake EXCEPT ![c] = "failed"]
        /\ socket' = [socket EXCEPT ![c] = "gone"]
        /\ UNCHANGED <<sender, queues>>
  /\ UNCHANGED <<registered, sending, tasks, threads, received, auth>>

\* The client closes its tab or its network fails.
ClientVanishes(c) ==
  /\ socket[c] = "open"
  /\ socket' = [socket EXCEPT ![c] = "gone"]
  /\ UNCHANGED <<handshake, registered, sender, sending, queues, tasks, onLoop, threads, received,
                 auth>>

\* receive() reports the disconnect; the finally block deregisters.
ReadLoopEnds(c) ==
  /\ LoopIsFree /\ handshake[c] = "reading" /\ socket[c] = "gone"
  /\ handshake' = [handshake EXCEPT ![c] = "over"]
  /\ Disconnect(c)
  /\ UNCHANGED <<queues, tasks, onLoop, threads, received, auth>>

-----------------------------------------------------------------------------
(* The sender task of a connection *)

\* queue.get(): take the head, or see an empty queue.
SenderGet(c) ==
  /\ LoopIsFree /\ sender[c] = "checking"
  /\ \/ /\ queue[c] # <<>>
        /\ sender'  = [sender EXCEPT ![c] = "sending"]
        /\ sending' = [sending EXCEPT ![c] = <<Head(queue[c])>>]
        /\ queue'   = [queue EXCEPT ![c] = Tail(@)]
        /\ UNCHANGED onLoop
     \/ /\ queue[c] = <<>>
        /\ sender' = [sender EXCEPT ![c] = "empty"]
        /\ onLoop' = c
        /\ UNCHANGED <<sending, queue>>
  /\ UNCHANGED <<handshake, socket, registered, enqueued, tasks, threads, received, auth>>

\* ... and register for the next put.  asyncio.Queue is not thread-safe: a put
\* of another thread since the look at the queue has nobody to wake.
SenderWait(c) ==
  /\ onLoop = c /\ sender[c] = "empty"
  /\ sender' = [sender EXCEPT ![c] = "waiting"]
  /\ onLoop' = NoConn
  /\ UNCHANGED <<handshake, socket, registered, sending, queues, tasks, threads, received, auth>>

SendSucceeds(c) ==
  /\ LoopIsFree /\ sender[c] = "sending" /\ socket[c] = "open"
  /\ received' = [received EXCEPT ![c] = @ \o sending[c]]
  /\ sender'   = [sender EXCEPT ![c] = "checking"]
  /\ sending'  = [sending EXCEPT ![c] = <<>>]
  /\ UNCHANGED <<handshake, socket, registered, queues, tasks, onLoop, threads, auth>>

\* Mutant of SendFails: a send that times out is given up and the next one tried.
SendFails_GoesOn(c) ==
  /\ LoopIsFree /\ sender[c] = "sending"
  /\ sender'  = [sender EXCEPT ![c] = "checking"]
  /\ sending' = [sending EXCEPT ![c] = <<>>]
  /\ UNCHANGED <<handshake, socket, registered, queues, tasks, onLoop, threads, received, auth>>

\* send_json raises, or its timeout ends.
SendFails(c) ==
  /\ LoopIsFree /\ sender[c] = "sending"
  /\ Disconnect(c)
  /\ UNCHANGED <<handshake, queues, tasks, onLoop, threads, received, auth>>

-----------------------------------------------------------------------------
(* Broadcasts *)

\* A broadcast starts on the list of the connections registered now.
BroadcastStart(t) ==
  /\ cast[t] = NoCast /\ broadcasts < MaxEvents
  /\ broadcasts' = broadcasts + 1
  /\ audience' = [audience EXCEPT ![broadcasts + 1] = Registered]
  /\ cast' = [cast EXCEPT ![t] = IF registered = <<>> THEN NoCast
                                 ELSE [event |-> broadcasts + 1, todo |-> registered]]
  /\ UNCHANGED <<handshake, manager, queues, tasks, onLoop, cutShort, received, auth>>

\* The next connection.  A full queue makes create_task raise, there being no
\* running loop in the thread, and the exception ends the broadcast.
BroadcastPut(t) ==
  /\ cast[t] # NoCast
  /\ LET c == Head(cast[t].todo)
         rest == Tail(cast[t].todo)
     IN  \/ /\ HasRoom(c)
            /\ Put({c}, cast[t].event)
            /\ cast' = [cast EXCEPT ![t] = IF rest = <<>> THEN NoCast ELSE [@ EXCEPT !.todo = rest]]
            /\ UNCHANGED cutShort
         \/ /\ ~HasRoom(c)
            /\ cast' = [cast EXCEPT ![t] = NoCast]
            /\ cutShort' = cutShort \cup {cast[t].event}
            /\ UNCHANGED <<sender, queues>>
  /\ UNCHANGED <<handshake, socket, registered, sending, tasks, onLoop, broadcasts, audience,
                 received, auth>>

\* Mutant of BroadcastOnLoop: the full queue is noted in the log and passed over.
BroadcastOnLoop_PassesOver ==
  /\ LoopIsFree /\ broadcasts < MaxEvents
  /\ broadcasts' = broadcasts + 1
  /\ audience' = [audience EXCEPT ![broadcasts + 1] = Registered]
  /\ Put({c \in Registered : HasRoom(c)}, broadcasts + 1)
  /\ UNCHANGED <<handshake, socket, registered, sending, tasks, onLoop, cast, cutShort, received,
                 auth>>

\* A coroutine broadcasts (trigger_restore): here a full queue gets its
\* connection a disconnect task.
BroadcastOnLoop ==
  /\ LoopIsFree /\ broadcasts < MaxEvents
  /\ broadcasts' = broadcasts + 1
  /\ audience' = [audience EXCEPT ![broadcasts + 1] = Registered]
  /\ Put({c \in Registered : HasRoom(c)}, broadcasts + 1)
  /\ doomed' = doomed \cup {c \in Registered : ~HasRoom(c)}
  /\ UNCHANGED <<handshake, socket, registered, sending, closing, sweep, onLoop, cast, cutShort,
                 received, auth>>

DisconnectTask(c) ==
  /\ LoopIsFree /\ c \in doomed
  /\ doomed' = doomed \ {c}
  /\ Disconnect(c)
  /\ UNCHANGED <<handshake, queues, closing, sweep, onLoop, threads, received, auth>>

-----------------------------------------------------------------------------
(* Revocation *)

SessionsOf(target) == {s \in Sessions : target \in {s, UserOf[s]}}

\* revoke_session, revoke_all_for_user and the commit.
RevokeSessionsOf(target) ==
  /\ revoked'   = revoked \cup SessionsOf(target)
  /\ loggedOut' = loggedOut \cup SessionsOf(target)
  /\ late'      = late \cup {c \in Conns : handshake[c] = "accepting"
                                           /\ SessionOf[c] \in SessionsOf(target)}

\* Close one of cs, an await, and leave the others to CloseNext.
CloseOneOf(cs, target) ==
  IF cs = {} THEN UNCHANGED <<closing, manager>>
  ELSE \E c \in cs : Disconnect(c) /\ closing' = [closing EXCEPT ![target] = cs \ {c}]

\* Mutant of CloseRoute: the sockets are looked up by one of the sessions only.
CloseRoute_OneSession(target) ==
  /\ LoopIsFree /\ closing[target] = {}
  /\ RevokeSessionsOf(target)
  /\ \E s \in SessionsOf(target) : CloseOneOf(Of(s), target)
  /\ UNCHANGED <<handshake, queues, doomed, sweep, onLoop, threads, received>>

\* logout (target a session), and the routes that change a password or a role or
\* disable an account (target a user): commit, then close_session or close_user
\* on a copy of the index.
CloseRoute(target) ==
  /\ LoopIsFree /\ closing[target] = {}
  /\ RevokeSessionsOf(target)
  /\ CloseOneOf(Of(target), target)
  /\ UNCHANGED <<handshake, queues, doomed, sweep, onLoop, threads, received>>

CloseNext(target) ==
  /\ LoopIsFree /\ closing[target] # {}
  /\ CloseOneOf(closing[target], target)
  /\ UNCHANGED <<handshake, queues, doomed, sweep, onLoop, threads, received, auth>>

\* A session expires, or another process revokes it.
RevokeOutOfBand(s) ==
  /\ s \notin revoked
  /\ revoked' = revoked \cup {s}
  /\ UNCHANGED <<handshake, manager, queues, tasks, onLoop, threads, received, loggedOut, late>>

\* The revalidation job goes on to the next connection of cs whose session is
\* dead; closing it is the only await of its loop.
DeadIn(cs) == {i \in DOMAIN cs : SessionOf[cs[i]] \in revoked}

\* Mutant of SweepOver: the round ends at the first dead session, which stays.
SweepOver_Skips(cs) == sweep' = <<>> /\ UNCHANGED manager

SweepOver(cs) ==
  \/ DeadIn(cs) = {} /\ sweep' = <<>> /\ UNCHANGED manager
  \/ \E i \in DeadIn(cs) :
       /\ \A k \in DeadIn(cs) : i <= k
       /\ Disconnect(cs[i])
       /\ sweep' = SubSeq(cs, i + 1, Len(cs))

\* ws_session_revalidation, every minute and never twice at a time.  It also closes
\* the sockets of a disabled user; the commit that disables one revokes its
\* sessions, so that this closes no others.
SweepStart ==
  /\ LoopIsFree /\ sweep = <<>>
  /\ SweepOver(registered)
  /\ UNCHANGED <<handshake, queues, doomed, closing, onLoop, threads, received, auth>>

SweepNext ==
  /\ LoopIsFree /\ sweep # <<>>
  /\ SweepOver(sweep)
  /\ UNCHANGED <<handshake, queues, doomed, closing, onLoop, threads, received, auth>>

-----------------------------------------------------------------------------

Init ==
  /\ revoked = {} /\ loggedOut = {} /\ late = {}
  /\ handshake = [c \in Conns |-> "new"]
  /\ socket = [c \in Conns |-> "new"]
  /\ registered = <<>>
  /\ queue = [c \in Conns |-> <<>>]
  /\ sender = [c \in Conns |-> "none"]
  /\ sending = [c \in Conns |-> <<>>]
  /\ doomed = {}
  /\ closing = [target \in Sessions \cup Users |-> {}]
  /\ sweep = <<>>
  /\ onLoop = NoConn
  /\ broadcasts = 0
  /\ cast = [t \in Threads |-> NoCast]
  /\ audience = [e \in Events |-> {}]
  /\ cutShort = {}
  /\ enqueued = [c \in Conns |-> <<>>]
  /\ received = [c \in Conns |-> <<>>]

Handshake(c) == HandshakeCheck(c) \/ HandshakeRegister(c) \/ HandshakeReady(c)
Sender(c)    == SenderGet(c) \/ SenderWait(c) \/ SendSucceeds(c) \/ SendFails(c)

Next ==
  \/ \E c \in Conns : \/ Handshake(c) \/ ReadLoopEnds(c) \/ ClientVanishes(c)
                      \/ Sender(c) \/ DisconnectTask(c)
  \/ \E t \in Threads : BroadcastStart(t) \/ BroadcastPut(t)
  \/ BroadcastOnLoop
  \/ \E target \in Sessions \cup Users : CloseRoute(target) \/ CloseNext(target)
  \/ \E s \in Sessions : RevokeOutOfBand(s)
  \/ SweepStart \/ SweepNext

Spec == Init /\ [][Next]_vars

\* The loop runs while a coroutine is ready (a send ends within its timeout, the
\* scheduler starts its job) and threads go on.  Clients, operators and broadcasts
\* come when they like.  The loop's fairness among its coroutines is not needed:
\* between two of those each coroutine has only so much to do.
Fairness ==
  /\ WF_vars(\/ \E c \in Conns : \/ HandshakeRegister(c) \/ HandshakeReady(c) \/ ReadLoopEnds(c)
                                 \/ Sender(c) \/ DisconnectTask(c)
             \/ \E target \in Sessions \cup Users : CloseNext(target)
             \/ SweepStart \/ SweepNext)
  /\ \A t \in Threads : WF_vars(BroadcastPut(t))

FairSpec == Spec /\ Fairness

-----------------------------------------------------------------------------
(* Properties *)

TypeOK ==
  /\ revoked \subseteq Sessions /\ loggedOut \subseteq revoked /\ late \subseteq Conns
  /\ handshake \in [Conns -> {"new", "accepting", "registered", "reading", "failed", "over"}]
  /\ socket \in [Conns -> {"new", "open", "gone"}]
  /\ registered \in Seq(Conns) /\ sweep \in Seq(Conns)
  /\ queue \in [Conns -> Seq(Payload)]
  /\ sender \in [Conns -> {"none", "checking", "empty", "waiting", "sending", "done"}]
  /\ sending \in [Conns -> Seq(Payload)]
  /\ doomed \subseteq Conns
  /\ closing \in [Sessions \cup Users -> SUBSET Conns]
  /\ onLoop \in Conns \cup {NoConn}
  /\ broadcasts \in 0..MaxEvents
  /\ cast \in [Threads -> [event : Payload, todo : Seq(Conns)]]
  /\ audience \in [Events -> SUBSET Conns] /\ cutShort \subseteq Events
  /\ enqueued \in [Conns -> Seq(Payload)] /\ received \in [Conns -> Seq(Payload)]

\* What a queue took reaches the client in that order and without a gap, for as
\* long as the connection is registered; afterwards the client has seen a prefix
\* of it.  A send that fails, a cancelled sender and a disconnect from three
\* sides must all respect it, for the dashboard recovers only on a new connection.
QueueIsDelivered ==
  \A c \in Conns :
    /\ IsPrefix(received[c], enqueued[c])
    /\ c \in Registered => enqueued[c] = received[c] \o sending[c] \o queue[c]

\* A broadcast has yet to come to c.
Awaits(c, e) == \E t \in Threads : cast[t].event = e /\ c \in ToSet(cast[t].todo)

\* An event passes by a connection that its broadcast started with, and that stays
\* registered, in one way only: the broadcast ran on a thread and ended at a full
\* queue, this connection's or that of one before it (realtime.py:153, where
\* create_task raises).  A connection that a broadcast on the loop found full is
\* about to be disconnected.
MissedOnlyWhenCutShort ==
  \A e \in Events : \A c \in audience[e] \cap Registered :
    Awaits(c, e) \/ e \in ToSet(enqueued[c]) \/ c \in doomed \/ e \in cutShort

\* A client that stays connected has everything that was broadcast to it, in order,
\* save what is still under way and the broadcasts cut short.  That there are such,
\* against "the event is never silently dropped", is BroadcastReachesEveryone.
NoGap == QueueIsDelivered /\ MissedOnlyWhenCutShort

\* A connection has a sender task exactly as long as it is registered, and is
\* registered once: no cleanup, however many race for it, leaves a task behind
\* that serves a closed socket, or a registered connection nobody serves.
SendersFollowRegistry ==
  /\ \A c \in Conns : c \in Registered <=> sender[c] \notin {"none", "done"}
  /\ Cardinality(Registered) = Len(registered)

\* After a logout or a user-wide revocation, a connection of one of its sessions
\* stays registered only while the route still has it to close, or when its
\* handshake had been let in before the commit and registered after it.
RevokedIsClosedOrLate ==
  \A c \in Registered :
    SessionOf[c] \in loggedOut =>
      c \in late \/ \E target \in Sessions \cup Users : c \in closing[target]

\* However a session was revoked, and at whatever point of a handshake, its
\* connections are closed in the end: the revalidation job catches what no route
\* closes.
RevokedSocketCloses ==
  \A c \in Conns :
    (c \in Registered /\ SessionOf[c] \in revoked) ~> c \notin Registered

\* A connection whose client vanished, whose handshake failed after it was
\* registered, or which a broadcast on the loop found full, does not stay
\* registered: the failing send, the read loop or the disconnect task gets it.  (One
\* that a thread found full does stay: BroadcastReachesEveryone.)
DeadSocketIsDropped ==
  \A c \in Conns :
    (c \in Registered /\ (socket[c] = "gone" \/ c \in doomed)) ~> c \notin Registered

\* "A full queue closes only that connection; the event is never silently
\* dropped": when no thread is at it any more, a broadcast has reached every
\* connection it started with that is still up and is not being closed.
BroadcastReachesEveryone ==
  \A e \in 1..broadcasts :
    (\A t \in Threads : cast[t].event # e) =>
      \A c \in audience[e] \cap Registered : c \in doomed \/ e \in ToSet(enqueued[c])

=============================================================================
