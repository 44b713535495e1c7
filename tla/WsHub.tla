-------------------------------- MODULE WsHub --------------------------------
(***************************************************************************)
(* The WebSocket hub of one pod: what becomes of the events of an auction  *)
(* that BidFeed publishes.  One goroutine takes them off the Redis channel *)
(* and delivers them into the queues of the room's connections; one        *)
(* goroutine per connection writes them out; requests register connections *)
(* and close those they replace.                                           *)
(*                                                                         *)
(* A connection has three lanes: a queue for what must not wait, a slot    *)
(* for the latest time_sync with a channel of capacity one to wake the     *)
(* writer, and a queue for everything else.  Each step is one critical     *)
(* section or one operation on a channel.                                  *)
(*                                                                         *)
(* Covered: slow and vanished clients, replaced connections, a snapshot    *)
(* read while events arrive, events that never reach the pod.  A client    *)
(* that reconnects is another connection.  Left out: presence, tickets,    *)
(* metrics, and the users index, which is written under the same lock as   *)
(* the rooms.                                                              *)
(***************************************************************************)
EXTENDS Naturals, FiniteSets, Sequences

CONSTANTS
    Users,
    Conns,              \* numbered in the order in which they register
    UserOf, StreamOf,   \* whose connection it is, and what it asked for
    HighCap, SendCap,   \* the capacities of the two queues
    MaxEvents           \* bound: events other than the end, and pings

Streams == {"all", "control", "market"}

ASSUME ConnsAssumption ==
    Conns \subseteq Nat /\ UserOf \in [Conns -> Users] /\ StreamOf \in [Conns -> Streams]
ASSUME BoundsAssumption ==
    HighCap \in Nat /\ SendCap \in Nat /\ MaxEvents \in Nat

VARIABLES
    phase,      \* the auction's status in Redis
    made,       \* how many events and pings there have been
    row,        \* the auction's status in MySQL
    ended,      \* auction_ended was published once the row had it, to a pod subscribed
    bus,        \* what the pod has received and not yet dispatched
    registered, \* rooms[roomID]: the connections of the room
    conn,       \* per connection: its queues and its goroutines
    sub         \* the dispatch under way

feedVars == <<phase, row, made, ended>>
vars == <<phase, row, made, ended, bus, registered, conn, sub>>

Phases == {"ongoing", "ended"}
Room   == "room"

\* `bid`: the number of the bid_success; `status`: what the event says of the
\* auction, if it does.
Event(type, to, bid, status) == [type |-> type, to |-> to, bid |-> bid, status |-> status]

BidSuccess(n)    == Event("bid_success", Room, n, "ongoing")
Outbid(user)     == Event("user_outbid", user, 0, "ongoing")
Extended         == Event("auction_extended", Room, 0, "ongoing")
Notices          == {Outbid(user) : user \in Users} \cup {Extended}
Ended            == Event("auction_ended", Room, 0, "ended")
Snapshot(status) == Event("auction_snapshot", Room, 0, status)
TimeSync         == Event("time_sync", Room, 0, "ongoing")
Pong             == Event("pong", Room, 0, "ongoing")
None             == Event("none", Room, 0, "ongoing")

Bids == 1 .. MaxEvents

\* `at`: new; registering, with `replaced` still to close; snapshot, with one
\* in hand; up, with its loops running; leaving, out of the room and not closed
\* yet; closed.  `writing`: what the write
\* loop is about to write; `deferred`: its deferredNormal; `waits`: it is at
\* its select.  `behind`: ordinary events written while an urgent one waited;
\* `seen`, `shown`: the auction's statuses and the bids written so far.
New ==
    [at |-> "new", replaced |-> {}, snapshot |-> None,
     high |-> <<>>, send |-> <<>>, latest |-> None, notify |-> FALSE,
     writing |-> None, deferred |-> None, waits |-> FALSE,
     behind |-> 0, seen |-> {}, shown |-> {}]

\* A connection that is given up may still have others to close: its Register
\* goes on.  What it has queued, and may yet write before it is closed, is not
\* followed: nothing is promised of it.
GivenUp(c, at) == [New EXCEPT !.at = at, !.replaced = conn[c].replaced]
Closed(c)      == GivenUp(c, "closed")

\* `to`: whom the event is still to be delivered to; `wakes`: the connection,
\* if any, that has it in its slot and whose writer is not yet woken.
NoDispatch == [event |-> None, to |-> {}, wakes |-> {}]

Init ==
    /\ phase = "ongoing" /\ row = "ongoing" /\ made = 0
    /\ ended = FALSE /\ bus = <<>>
    /\ registered = {} /\ conn = [c \in Conns |-> New]
    /\ sub = NoDispatch

-----------------------------------------------------------------------------
(* What the room is told.  BidFeed has how it comes about: a bid_success   *)
(* per coalesced entry, notices to outbid users and of extensions, the     *)
(* time, and the end some time after Redis has it.  An event this pod does *)
(* not receive, because Redis refused it or the pod was subscribed         *)
(* elsewhere, is as if it had not been made.                               *)

Makes == made < MaxEvents /\ made' = made + 1

Receives(event) == bus' = Append(bus, event)

Publishes ==
    /\ Makes
    /\ \/ Receives(BidSuccess(made'))
       \/ \E notice \in Notices : Receives(notice)
       \/ phase = "ongoing" /\ Receives(TimeSync)
    /\ UNCHANGED <<phase, row, ended, registered, conn, sub>>

Settles ==
    /\ phase = "ongoing"
    /\ phase' = "ended"
    /\ UNCHANGED <<row, made, ended, bus, registered, conn, sub>>

SavesEnd ==
    /\ phase = "ended" /\ row = "ongoing"
    /\ row' = "ended"
    /\ UNCHANGED <<phase, made, ended, bus, registered, conn, sub>>

\* Once the row is saved; before that too, by a capping bid that finds MySQL
\* down; and again when another cron persists the same end.
PublishesEnd ==
    /\ phase = "ended"
    /\ \/ row = "ended" /\ ~ended /\ ended' = TRUE /\ UNCHANGED made
       \/ (row = "ended" => ended) /\ Makes /\ UNCHANGED ended
    /\ Receives(Ended)
    /\ UNCHANGED <<phase, row, registered, conn, sub>>

-----------------------------------------------------------------------------
(* Lanes and streams.                                                      *)

\* classifyEventLane
Lane(event) ==
    CASE event.type = "time_sync" -> "latest"
      [] event.type \in {"bid_success", "pong"} -> "normal"
      [] OTHER -> "high"

\* classifyEventStream
Stream(event) == IF event.type \in {"bid_success", "pong"} THEN "market" ELSE "control"

\* streamAccepts
Accepts(c, stream) == StreamOf[c] \in {"all", stream}

Open(c) == conn[c].at \notin {"new", "closed"}

Serves(c) == conn[c].at \in {"registering", "snapshot", "up"}

Becomes(c, record) == conn' = [conn EXCEPT ![c] = record]

\* closeConnWithReason: Remove, under the hub's lock; a connection that is closed
\* already is only removed.
Leaves(c) ==
    /\ registered' = registered \ {c}
    /\ Becomes(c, GivenUp(c, IF conn[c].at = "closed" THEN "closed" ELSE "leaving"))

\* The rest of closeWith, under the connection's own lock.  Whoever closes it is
\* held up until then, which here it is not.
Closes(c) ==
    /\ conn[c].at = "leaving"
    /\ Becomes(c, Closed(c))
    /\ UNCHANGED <<feedVars, bus, registered, sub>>

\* Mutant: one event more than the queue holds.
Mut_OneTooMany(queue, cap) == Len(queue) <= cap

\* A send to a buffered channel does not block.
Fits(queue, cap) == Len(queue) < cap

\* enqueueHigh and enqueueNormal, from deliver: a full queue is the end of the
\* connection.
Queues(c, event, then) ==
    \/ /\ Serves(c) /\ Lane(event) = "high" /\ Fits(conn[c].high, HighCap)
       /\ Becomes(c, [conn[c] EXCEPT !.high = Append(@, event), !.at = then])
       /\ UNCHANGED registered
    \/ /\ Serves(c) /\ Lane(event) = "normal" /\ Fits(conn[c].send, SendCap)
       /\ Becomes(c, [conn[c] EXCEPT !.send = Append(@, event), !.at = then])
       /\ UNCHANGED registered
    \/ /\ \/ ~Serves(c)
          \/ Lane(event) = "high" /\ ~Fits(conn[c].high, HighCap)
          \/ Lane(event) = "normal" /\ ~Fits(conn[c].send, SendCap)
       /\ Leaves(c)

-----------------------------------------------------------------------------
(* Registration.                                                           *)

\* Mutant: the connections replaced leave the room and are forgotten.
Mut_ForgetsReplaced(c) ==
    LET old == {d \in registered : UserOf[d] = UserOf[c] /\ StreamOf[d] = StreamOf[c]}
    IN  /\ conn[c].at = "new" /\ \A d \in Conns : d < c => conn[d].at # "new"
        /\ registered' = (registered \ old) \cup {c}
        /\ Becomes(c, [conn[c] EXCEPT !.at = "registering"])
        /\ UNCHANGED <<feedVars, bus, sub>>

\* Register, under the hub's lock.
Registers(c) ==
    LET old == {d \in registered : UserOf[d] = UserOf[c] /\ StreamOf[d] = StreamOf[c]}
    IN  /\ conn[c].at = "new" /\ \A d \in Conns : d < c => conn[d].at # "new"
        /\ registered' = (registered \ old) \cup {c}
        /\ Becomes(c, [conn[c] EXCEPT !.at = "registering", !.replaced = old])
        /\ UNCHANGED <<feedVars, bus, sub>>

\* old.close(): out of the room already, and closed once.
ClosesReplaced(c) ==
    \E d \in conn[c].replaced :
        /\ conn' = [conn EXCEPT ![c].replaced = @ \ {d}, ![d] = Closed(d)]
        /\ UNCHANGED <<feedVars, bus, registered, sub>>

\* SnapshotForRoom: of the state in Redis, or of the row when Redis has none or
\* does not answer.  The room has a current item until the end is persisted; it
\* may also be looked up just before, or not at all.
ReadsSnapshot(c) ==
    /\ conn[c].at = "registering" /\ conn[c].replaced = {}
    /\ \/ /\ Accepts(c, "control")
          /\ \E status \in {phase, row} :
                Becomes(c, [conn[c] EXCEPT !.at = "snapshot", !.snapshot = Snapshot(status)])
       \/ Becomes(c, [conn[c] EXCEPT !.at = "up"])
    /\ UNCHANGED <<feedVars, bus, registered, sub>>

\* The snapshot is delivered and the loops are started.
DeliversSnapshot(c) ==
    /\ conn[c].at = "snapshot"
    /\ Queues(c, conn[c].snapshot, "up")
    /\ UNCHANGED <<feedVars, bus, sub>>

-----------------------------------------------------------------------------
(* Dispatch, by the subscriber's goroutine.                                *)

\* Mutant: a connection takes part once its loops run.
Mut_OnlyRunning(event) ==
    {c \in registered : conn[c].at = "up" /\ Accepts(c, Stream(event))
                        /\ event.to \in {Room, UserOf[c]}}

\* SendToRoom and SendToUser copy the connections under the lock.
Recipients(event) ==
    {c \in registered : Accepts(c, Stream(event)) /\ event.to \in {Room, UserOf[c]}}

Dispatches ==
    /\ sub = NoDispatch /\ bus # <<>>
    /\ bus' = Tail(bus)
    /\ sub' = IF Recipients(Head(bus)) = {} THEN NoDispatch
              ELSE [event |-> Head(bus), to |-> Recipients(Head(bus)), wakes |-> {}]
    /\ UNCHANGED <<feedVars, registered, conn>>

Served(c) ==
    sub' = IF sub.to = {c} THEN NoDispatch
           ELSE [sub EXCEPT !.to = @ \ {c}, !.wakes = {}]

\* deliver, after the lock has been let go.
Delivers(c) ==
    /\ c \in sub.to /\ Lane(sub.event) # "latest"
    /\ Queues(c, sub.event, conn[c].at)
    /\ Served(c)
    /\ UNCHANGED <<feedVars, bus>>

\* enqueueTimeSync refuses.  A connection that is leaving may still take it, which
\* is not followed.
DropsTimeSync(c) ==
    /\ c \in sub.to /\ Lane(sub.event) = "latest" /\ ~Serves(c)
    /\ sub.wakes \subseteq {c}
    /\ Leaves(c) /\ Served(c)
    /\ UNCHANGED <<feedVars, bus>>

\* Mutant: the writer is woken before there is anything to write.
Mut_WakesFirst(c) ==
    /\ c \in sub.to /\ Lane(sub.event) = "latest" /\ Serves(c)
    /\ \/ /\ sub.wakes = {}
          /\ Becomes(c, [conn[c] EXCEPT !.notify = TRUE])
          /\ sub' = [sub EXCEPT !.wakes = {c}]
       \/ /\ sub.wakes = {c}
          /\ Becomes(c, [conn[c] EXCEPT !.latest = sub.event])
          /\ Served(c)
    /\ UNCHANGED <<feedVars, bus, registered>>

\* enqueueTimeSync: the slot, under its own lock, then the wake-up.
EnqueuesTimeSync(c) ==
    /\ c \in sub.to /\ Lane(sub.event) = "latest" /\ Serves(c)
    /\ \/ /\ sub.wakes = {}
          /\ Becomes(c, [conn[c] EXCEPT !.latest = sub.event])
          /\ sub' = [sub EXCEPT !.wakes = {c}]
       \/ /\ sub.wakes = {c}
          /\ Becomes(c, [conn[c] EXCEPT !.notify = TRUE])
          /\ Served(c)
    /\ UNCHANGED <<feedVars, bus, registered>>

-----------------------------------------------------------------------------
(* The two loops of a connection.                                          *)

\* Mutant: the ordinary event is written, and no look is taken at the others.
Mut_GoesBackToSelect(c) ==
    IF conn[c].deferred # None
       THEN [conn[c] EXCEPT !.deferred = None, !.writing = conn[c].deferred]
       ELSE [conn[c] EXCEPT !.waits = TRUE]

\* The top of the write loop: urgent events, then the time, then the ordinary
\* event that gave way to them, then the select.
Looks(c) ==
    CASE conn[c].high # <<>> ->
             [conn[c] EXCEPT !.high = Tail(@), !.writing = Head(conn[c].high)]
      [] conn[c].high = <<>> /\ conn[c].latest # None ->
             [conn[c] EXCEPT !.latest = None, !.writing = conn[c].latest]
      [] conn[c].high = <<>> /\ conn[c].latest = None /\ conn[c].deferred # None ->
             [conn[c] EXCEPT !.deferred = None, !.writing = conn[c].deferred]
      [] OTHER -> [conn[c] EXCEPT !.waits = TRUE]

Runs(c) == conn[c].at = "up" /\ conn[c].writing = None

WriterLooks(c) ==
    /\ Runs(c) /\ ~conn[c].waits
    /\ Becomes(c, Looks(c))
    /\ UNCHANGED <<feedVars, bus, registered, sub>>

\* Mutant: an urgent event in the way, the ordinary one is let go.
Mut_LetsGo(c) ==
    [conn[c] EXCEPT !.send = Tail(@), !.waits = FALSE,
                    !.deferred = IF conn[c].high = <<>> THEN Head(conn[c].send) ELSE None]

\* The select received an ordinary event: the loop looks again before it
\* writes it.
Defers(c) ==
    [conn[c] EXCEPT !.send = Tail(@), !.waits = FALSE, !.deferred = Head(conn[c].send)]

WriterSelects(c) ==
    /\ Runs(c) /\ conn[c].waits
    /\ \/ /\ conn[c].high # <<>>
          /\ Becomes(c, [conn[c] EXCEPT !.high = Tail(@), !.waits = FALSE,
                                        !.writing = Head(conn[c].high)])
       \/ /\ conn[c].notify
          /\ Becomes(c, [conn[c] EXCEPT !.notify = FALSE, !.waits = FALSE])
       \/ /\ conn[c].send # <<>>
          /\ Becomes(c, Defers(c))
    /\ UNCHANGED <<feedVars, bus, registered, sub>>

\* writeTracked succeeds.
Writes(c) ==
    LET event == conn[c].writing
    IN  /\ conn[c].at = "up" /\ event # None
        /\ Becomes(c, [conn[c] EXCEPT
             !.writing = None,
             !.behind = IF Lane(event) = "normal" /\ conn[c].high # <<>> THEN @ + 1
                        ELSE IF Lane(event) = "normal" THEN @ ELSE 0,
             !.seen = IF event.type \in {"auction_snapshot", "auction_ended"}
                         THEN @ \cup {event.status} ELSE @,
             !.shown = @ \cup {event.bid}])
        /\ UNCHANGED <<feedVars, bus, registered, sub>>

\* A write fails or times out, or the read loop ends: the client left the
\* room, vanished or was silent too long.
HangsUp(c) ==
    /\ conn[c].at = "up"
    /\ Leaves(c)
    /\ UNCHANGED <<feedVars, bus, sub>>

\* The read loop answers a ping, unless the queue is full.
Pings(c) ==
    /\ conn[c].at = "up" /\ Makes
    /\ IF Fits(conn[c].send, SendCap)
          THEN Becomes(c, [conn[c] EXCEPT !.send = Append(@, Pong)])
          ELSE UNCHANGED conn
    /\ UNCHANGED <<phase, row, ended, bus, registered, sub>>

-----------------------------------------------------------------------------

RegisterStep(c) == ClosesReplaced(c) \/ ReadsSnapshot(c) \/ DeliversSnapshot(c)

SubscriberStep ==
    \/ Dispatches
    \/ \E c \in Conns : Delivers(c) \/ DropsTimeSync(c) \/ EnqueuesTimeSync(c)

WriterStep(c) == WriterLooks(c) \/ WriterSelects(c) \/ Writes(c)

Next ==
    \/ Publishes \/ Settles \/ SavesEnd \/ PublishesEnd
    \/ SubscriberStep
    \/ \E c \in Conns : \/ Registers(c) \/ RegisterStep(c) \/ Closes(c)
                        \/ WriterStep(c) \/ HangsUp(c) \/ Pings(c)

SafeSpec == Init /\ [][Next]_vars

\* Goroutines that can run do: a write ends or fails by its deadline, and
\* nothing the subscriber or a registration waits for blocks.
Fairness ==
    /\ WF_vars(SubscriberStep)
    /\ \A c \in Conns :
          WF_vars(RegisterStep(c)) /\ WF_vars(WriterStep(c)) /\ WF_vars(Closes(c))

Spec == SafeSpec /\ Fairness

-----------------------------------------------------------------------------
(* Properties.                                                             *)

TypeOK ==
    /\ phase \in Phases /\ row \in Phases /\ ended \in BOOLEAN
    /\ made \in 0 .. MaxEvents
    /\ registered \subseteq Conns
    /\ \A c \in Conns :
          /\ conn[c].at \in {"new", "registering", "snapshot", "up", "leaving", "closed"}
          /\ conn[c].replaced \subseteq Conns
          /\ Len(conn[c].high) <= HighCap /\ Len(conn[c].send) <= SendCap
          /\ conn[c].deferred # None => Lane(conn[c].deferred) = "normal"
          /\ conn[c].latest # None => Lane(conn[c].latest) = "latest"
    /\ sub.to \subseteq Conns

\* A user has one connection per stream in the room, however registrations,
\* failures and sends interleave; and a connection that is open is in the room,
\* or about to be closed by the one that took its place or by whoever took it out
\* of the room: none is left open and deaf.
OneConnectionPerStream ==
    /\ \A c, d \in registered :
          UserOf[c] = UserOf[d] /\ StreamOf[c] = StreamOf[d] => c = d
    /\ \A c \in Conns : c \in registered => Serves(c)
    /\ \A c \in Conns \ registered :
          Open(c) => conn[c].at = "leaving" \/ \E d \in Conns : c \in conn[d].replaced

\* While an urgent event waits at most one ordinary event is written, the one
\* the writer had in hand: bids do not hold up an extension or the end.
UrgentFirst == \A c \in Conns : conn[c].behind <= 1

\* A client that was shown an ongoing auction, in the snapshot it is welcomed
\* with, is shown its end once that is published, or is disconnected: events
\* are delivered from the moment the connection is registered, which is before
\* the snapshot is read.  The snapshot may be of a row that is behind Redis, so
\* what counts is a publication that follows the row.
EndReachesViewers ==
    \A c \in Conns :
        (ended /\ "ongoing" \in conn[c].seen)
            ~> ("ended" \in conn[c].seen \/ conn[c].at = "closed")

InQueue(c, v) ==
    \E i \in DOMAIN conn[c].send : conn[c].send[i].bid = v

\* An ordinary event that was accepted is written, though it may be taken off
\* the queue, give way to urgent events and be taken up again.
QueuedBidIsWritten ==
    \A c \in Conns, v \in Bids :
        InQueue(c, v) ~> (v \in conn[c].shown \/ conn[c].at = "closed")

\* A time_sync in the slot is written, or makes room for a later one that is:
\* the wake-up is not lost whatever else the writer is at.
TimeSyncIsWritten ==
    \A c \in Conns : (conn[c].latest # None) ~> (conn[c].latest = None)

\* What the last three rest on, step by step.  Of the end: whoever was shown an
\* ongoing auction has been replaced, has been shown the end too, or has it in
\* a queue, in hand, in the dispatch under way or in what the pod received.
Among(event, queue) == \E i \in DOMAIN queue : queue[i] = event

EndIsOnItsWay ==
    \A c \in registered :
        ended /\ "ongoing" \in conn[c].seen =>
            \/ "ended" \in conn[c].seen \/ conn[c].writing = Ended
            \/ Among(Ended, conn[c].high) \/ Among(Ended, bus)
            \/ c \in sub.to /\ sub.event = Ended

\* Of a bid: no step takes it from the connection but to show it, while the
\* connection lasts.
Holds(c, v) == InQueue(c, v) \/ conn[c].deferred.bid = v \/ conn[c].writing.bid = v

HeldBidStays ==
    [][\A c \in Conns, v \in Bids :
          Holds(c, v) => Holds(c, v)' \/ v \in conn'[c].shown
                                             \/ conn'[c].at \in {"leaving", "closed"}]_vars

\* Of the time: a writer at its select that has a time_sync in its slot has
\* been woken, or is about to be.
NoLostWakeup ==
    \A c \in Conns :
        conn[c].latest # None /\ conn[c].waits => conn[c].notify \/ c \in sub.wakes
=============================================================================
