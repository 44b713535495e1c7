------------------------- MODULE WsHubDeliveryProofs -------------------------
(***************************************************************************)
(* Theorems about what reaches a client that stays connected, for any      *)
(* users, connections, capacities and number of events: the safety that    *)
(* the liveness properties of WsHub rest on.                               *)
(*                                                                         *)
(* A step changes a connection in one of a dozen ways; Changes says so in  *)
(* terms of its lanes, and the three invariants look at nothing else.      *)
(***************************************************************************)
EXTENDS WsHubProofs

-----------------------------------------------------------------------------
(* How a step changes a connection.                                        *)

\* What a connection is at, apart from its lanes.
Stays(r, s) == s.at = r.at /\ s.snapshot = r.snapshot

\* The fields that writing and queueing leave alone.
KeepsHigh(r, s)    == s.high = r.high
KeepsSend(r, s)    == s.send = r.send
KeepsSlot(r, s)    == s.latest = r.latest /\ s.notify = r.notify
KeepsWriter(r, s)  == s.writing = r.writing /\ s.deferred = r.deferred /\ s.waits = r.waits
KeepsRecord(r, s)  == s.seen = r.seen /\ s.shown = r.shown

Untouched(r, s) ==
    /\ KeepsHigh(r, s) /\ KeepsSend(r, s) /\ KeepsSlot(r, s)
    /\ KeepsWriter(r, s) /\ KeepsRecord(r, s)

Emptied(s) ==
    /\ s.at \in {"leaving", "closed"} /\ s.high = <<>> /\ s.send = <<>>
    /\ s.latest = None /\ s.writing = None /\ s.deferred = None /\ s.waits = FALSE
    /\ s.seen = {} /\ s.shown = {}

GetsUrgent(r, s, event) ==
    /\ s.high = Append(r.high, event)
    /\ KeepsSend(r, s) /\ KeepsSlot(r, s) /\ KeepsWriter(r, s) /\ KeepsRecord(r, s)

GetsOrdinary(r, s, event) ==
    /\ s.send = Append(r.send, event)
    /\ KeepsHigh(r, s) /\ KeepsSlot(r, s) /\ KeepsWriter(r, s) /\ KeepsRecord(r, s)

GetsTime(r, s) ==
    /\ s.notify = r.notify
    /\ KeepsHigh(r, s) /\ KeepsSend(r, s) /\ KeepsWriter(r, s) /\ KeepsRecord(r, s)

GetsWoken(r, s) ==
    /\ s.latest = r.latest /\ s.notify = TRUE
    /\ KeepsHigh(r, s) /\ KeepsSend(r, s) /\ KeepsWriter(r, s) /\ KeepsRecord(r, s)

TakesUrgent(r, s) ==
    /\ r.writing = None /\ r.high # <<>>
    /\ s.high = Tail(r.high) /\ s.writing = Head(r.high)
    /\ s.deferred = r.deferred /\ s.waits = FALSE
    /\ KeepsSend(r, s) /\ KeepsSlot(r, s) /\ KeepsRecord(r, s)

TakesTime(r, s) ==
    /\ r.writing = None /\ s.latest = None /\ s.writing = r.latest
    /\ s.deferred = r.deferred /\ s.waits = FALSE
    /\ KeepsHigh(r, s) /\ KeepsSend(r, s) /\ KeepsRecord(r, s)

TakesDeferred(r, s) ==
    /\ r.writing = None /\ s.deferred = None /\ s.writing = r.deferred
    /\ s.waits = FALSE
    /\ KeepsHigh(r, s) /\ KeepsSend(r, s) /\ KeepsSlot(r, s) /\ KeepsRecord(r, s)

Waits(r, s) ==
    /\ r.writing = None /\ r.latest = None /\ r.deferred = None
    /\ s.writing = None /\ s.deferred = None
    /\ KeepsHigh(r, s) /\ KeepsSend(r, s) /\ KeepsSlot(r, s) /\ KeepsRecord(r, s)

LooksAgain(r, s) ==
    /\ r.waits /\ s.writing = r.writing /\ s.deferred = r.deferred
    /\ s.latest = r.latest /\ s.waits = FALSE
    /\ KeepsHigh(r, s) /\ KeepsSend(r, s) /\ KeepsRecord(r, s)

TakesOrdinary(r, s) ==
    /\ r.waits /\ r.send # <<>>
    /\ s.send = Tail(r.send) /\ s.deferred = Head(r.send)
    /\ s.writing = r.writing /\ s.waits = FALSE
    /\ KeepsHigh(r, s) /\ KeepsSlot(r, s) /\ KeepsRecord(r, s)

HasWritten(r, s) ==
    /\ r.writing # None /\ s.writing = None
    /\ s.deferred = r.deferred /\ s.waits = r.waits
    /\ s.seen = IF r.writing.type \in {"auction_snapshot", "auction_ended"}
                   THEN r.seen \cup {r.writing.status} ELSE r.seen
    /\ s.shown = r.shown \cup {r.writing.bid}
    /\ KeepsHigh(r, s) /\ KeepsSend(r, s) /\ KeepsSlot(r, s)

Writer(r, s) ==
    \/ TakesUrgent(r, s) \/ TakesTime(r, s) \/ TakesDeferred(r, s) \/ Waits(r, s)
    \/ LooksAgain(r, s) \/ TakesOrdinary(r, s) \/ HasWritten(r, s)

\* One step, as a connection sees it.
Change(c, r, s) ==
    \/ Untouched(r, s) /\ \/ Stays(r, s)
                          \/ s.at = "registering" /\ r.at = "new"
                          \/ s.at = "up" /\ r.at # "new"
                          \/ ReadsSnapshot(c) /\ r.at # "new"
                             /\ s.snapshot \in {Snapshot(phase), Snapshot(row)}
                             /\ Accepts(c, "control") /\ s.at = "snapshot"
    \/ Emptied(s)
    \/ Delivers(c) /\ Stays(r, s)
          /\ (GetsUrgent(r, s, sub.event) \/ GetsOrdinary(r, s, sub.event))
    \/ r.at = "snapshot" /\ s.at = "up" /\ GetsUrgent(r, s, r.snapshot)
    \/ GetsTime(r, s) /\ Stays(r, s) /\ s.latest = sub.event /\ c \in sub'.wakes
    \/ GetsWoken(r, s) /\ Stays(r, s)
    \/ GetsOrdinary(r, s, Pong) /\ Stays(r, s)
    \/ Writer(r, s) /\ Stays(r, s)

\* The same for all of them.
Changes == \A c \in Conns : Change(c, conn[c], conn'[c])

LEMMA OnlyOne ==
    ASSUME GoodConns, NEW c \in Conns, NEW s, Becomes(c, s), Change(c, conn[c], s)
    PROVE  Changes
<1>1. conn'[c] = s /\ \A d \in Conns \ {c} : conn'[d] = conn[d]
    BY DEF GoodConns, Becomes
<1>2. \A d \in Conns \ {c} : Untouched(conn[d], conn'[d]) /\ Stays(conn[d], conn'[d])
    BY <1>1 DEF Untouched, KeepsHigh, KeepsSend, KeepsSlot, KeepsWriter, KeepsRecord, Stays
<1> QED
    BY <1>1, <1>2 DEF Changes, Change

LEMMA NoneChanges ==
    ASSUME UNCHANGED conn PROVE Changes
<1>1. \A d \in Conns : Untouched(conn[d], conn'[d]) /\ Stays(conn[d], conn'[d])
    BY DEF Untouched, KeepsHigh, KeepsSend, KeepsSlot, KeepsWriter, KeepsRecord, Stays
<1> QED
    BY <1>1 DEF Changes, Change

LEMMA GivenUpIsEmptied ==
    ASSUME NEW c \in Conns, NEW at \in {"leaving", "closed"} PROVE Emptied(GivenUp(c, at))
    BY DEF Emptied, GivenUp, New

LEMMA LeavesChanges ==
    ASSUME GoodConns, NEW c \in Conns, Leaves(c) PROVE Changes
<1>1. PICK at \in {"leaving", "closed"} : Becomes(c, GivenUp(c, at))
    BY DEF Leaves
<1> QED
    BY <1>1, OnlyOne, GivenUpIsEmptied DEF Change

LEMMA QueuesChanges ==
    ASSUME GoodConns, NEW c \in Conns, NEW event, NEW then, Queues(c, event, then),
           \/ Delivers(c) /\ event = sub.event /\ then = conn[c].at
           \/ /\ conn[c].at = "snapshot" /\ event = conn[c].snapshot /\ then = "up"
              /\ Lane(event) = "high"
    PROVE  Changes
<1> USE DEF KeepsHigh, KeepsSend, KeepsSlot, KeepsWriter, KeepsRecord
<1>0. conn[c] \in Connection
    BY GoodParts
<1>1. CASE Leaves(c)
    BY <1>1, LeavesChanges
<1>2. CASE /\ Lane(event) = "high"
           /\ Becomes(c, [conn[c] EXCEPT !.high = Append(@, event), !.at = then])
    <2> DEFINE s == [conn[c] EXCEPT !.high = Append(@, event), !.at = then]
    <2>1. GetsUrgent(conn[c], s, event) /\ s.at = then /\ s.snapshot = conn[c].snapshot
        BY <1>0 DEF Connection, GetsUrgent
    <2> HIDE DEF s
    <2>2. Change(c, conn[c], s)
        BY <2>1 DEF Change, Stays
    <2> QED
        BY <1>2, <2>2, OnlyOne DEF s
<1>3. CASE /\ Lane(event) = "normal"
           /\ Becomes(c, [conn[c] EXCEPT !.send = Append(@, event), !.at = then])
    <2> DEFINE s == [conn[c] EXCEPT !.send = Append(@, event), !.at = then]
    <2>1. GetsOrdinary(conn[c], s, event) /\ s.at = then /\ s.snapshot = conn[c].snapshot
        BY <1>0 DEF Connection, GetsOrdinary
    <2> HIDE DEF s
    <2>2. Change(c, conn[c], s)
        BY <1>3, <2>1 DEF Change, Stays
    <2> QED
        BY <1>3, <2>2, OnlyOne DEF s
<1> QED
    BY <1>1, <1>2, <1>3 DEF Queues

LEMMA LooksChanges ==
    ASSUME GoodConns, NEW c \in Conns, WriterLooks(c)
    PROVE  Changes
<1> USE DEF KeepsHigh, KeepsSend, KeepsSlot, KeepsWriter, KeepsRecord
<1> DEFINE r == conn[c]
<1>0. r \in Connection /\ r.writing = None /\ r.waits = FALSE /\ Becomes(c, Looks(c))
    BY GoodParts DEF WriterLooks, Runs, Connection
<1>1. CASE r.high # <<>>
    <2>1. Looks(c) = [r EXCEPT !.high = Tail(@), !.writing = Head(r.high)]
        BY <1>1 DEF Looks
    <2>2. TakesUrgent(r, Looks(c)) /\ Stays(r, Looks(c))
        BY <1>0, <1>1, <2>1 DEF Connection, TakesUrgent, Stays
    <2> QED
        BY <1>0, <2>2, OnlyOne DEF Change, Writer
<1>2. CASE r.high = <<>> /\ r.latest # None
    <2>1. Looks(c) = [r EXCEPT !.latest = None, !.writing = r.latest]
        BY <1>2 DEF Looks
    <2>2. TakesTime(r, Looks(c)) /\ Stays(r, Looks(c))
        BY <1>0, <1>2, <2>1 DEF Connection, TakesTime, Stays
    <2> QED
        BY <1>0, <2>2, OnlyOne DEF Change, Writer
<1>3. CASE r.high = <<>> /\ r.latest = None /\ r.deferred # None
    <2>1. Looks(c) = [r EXCEPT !.deferred = None, !.writing = r.deferred]
        BY <1>3 DEF Looks
    <2>2. TakesDeferred(r, Looks(c)) /\ Stays(r, Looks(c))
        BY <1>0, <1>3, <2>1 DEF Connection, TakesDeferred, Stays
    <2> QED
        BY <1>0, <2>2, OnlyOne DEF Change, Writer
<1>4. CASE r.high = <<>> /\ r.latest = None /\ r.deferred = None
    <2>1. Looks(c) = [r EXCEPT !.waits = TRUE]
        BY <1>4 DEF Looks
    <2>2. Waits(r, Looks(c)) /\ Stays(r, Looks(c))
        BY <1>0, <1>4, <2>1 DEF Connection, Waits, Stays
    <2> QED
        BY <1>0, <2>2, OnlyOne DEF Change, Writer
<1> QED
    BY <1>1, <1>2, <1>3, <1>4

LEMMA SelectsChanges ==
    ASSUME GoodConns, NEW c \in Conns, WriterSelects(c)
    PROVE  Changes
<1> USE DEF KeepsHigh, KeepsSend, KeepsSlot, KeepsWriter, KeepsRecord
<1> DEFINE r == conn[c]
<1>0. r \in Connection /\ r.writing = None /\ r.waits
    BY GoodParts DEF WriterSelects, Runs
<1>1. ASSUME r.high # <<>>,
             Becomes(c, [r EXCEPT !.high = Tail(@), !.waits = FALSE, !.writing = Head(r.high)])
      PROVE  Changes
    <2> DEFINE s == [r EXCEPT !.high = Tail(@), !.waits = FALSE, !.writing = Head(r.high)]
    <2>1. TakesUrgent(r, s) /\ Stays(r, s)
        BY <1>0, <1>1 DEF Connection, TakesUrgent, Stays
    <2> HIDE DEF s
    <2> QED
        BY <1>1, <2>1, OnlyOne DEF Change, Writer, s
<1>2. ASSUME Becomes(c, [r EXCEPT !.notify = FALSE, !.waits = FALSE])
      PROVE  Changes
    <2> DEFINE s == [r EXCEPT !.notify = FALSE, !.waits = FALSE]
    <2>1. LooksAgain(r, s) /\ Stays(r, s)
        BY <1>0 DEF Connection, LooksAgain, Stays
    <2> HIDE DEF s
    <2> QED
        BY <1>2, <2>1, OnlyOne DEF Change, Writer, s
<1>3. ASSUME r.send # <<>>, Becomes(c, Defers(c))
      PROVE  Changes
    <2>1. TakesOrdinary(r, Defers(c)) /\ Stays(r, Defers(c))
        BY <1>0, <1>3 DEF Connection, TakesOrdinary, Defers, Stays
    <2> QED
        BY <1>3, <2>1, OnlyOne DEF Change, Writer
<1> QED
    BY <1>1, <1>2, <1>3 DEF WriterSelects

LEMMA WritesChanges ==
    ASSUME GoodConns, NEW c \in Conns, Writes(c)
    PROVE  Changes
<1> USE DEF KeepsHigh, KeepsSend, KeepsSlot, KeepsWriter, KeepsRecord
<1> DEFINE r == conn[c]
           seen == IF r.writing.type \in {"auction_snapshot", "auction_ended"}
                      THEN r.seen \cup {r.writing.status} ELSE r.seen
           shown == r.shown \cup {r.writing.bid}
<1>0. r \in Connection /\ r.writing # None
    BY GoodParts DEF Writes
<1>1. PICK b : Becomes(c, [r EXCEPT !.writing = None, !.behind = b, !.seen = seen,
                                    !.shown = shown])
    BY DEF Writes
<1> DEFINE s == [r EXCEPT !.writing = None, !.behind = b, !.seen = seen, !.shown = shown]
<1>2. /\ s.writing = None /\ s.seen = seen /\ s.shown = shown
      /\ s.high = r.high /\ s.send = r.send /\ s.latest = r.latest /\ s.notify = r.notify
      /\ s.deferred = r.deferred /\ s.waits = r.waits /\ s.at = r.at /\ s.snapshot = r.snapshot
    BY <1>0 DEF Connection
<1> HIDE DEF s
<1>3. HasWritten(r, s) /\ Stays(r, s)
    BY <1>0, <1>2 DEF HasWritten, Stays
<1> QED
    BY <1>1, <1>3, OnlyOne DEF Change, Writer, s

LEMMA StepChanges == IInv /\ [Next]_vars => Changes
<1> SUFFICES ASSUME IInv, [Next]_vars PROVE Changes
    OBVIOUS
<1> USE DEF KeepsHigh, KeepsSend, KeepsSlot, KeepsWriter, KeepsRecord
<1>0. GoodConns /\ Rest
    BY DEF IInv
<1>1. CASE Publishes \/ Settles \/ SavesEnd \/ PublishesEnd \/ Dispatches \/ UNCHANGED vars
    BY <1>1, NoneChanges DEF Publishes, Settles, SavesEnd, PublishesEnd, Dispatches, vars
<1>2. ASSUME NEW c \in Conns, Delivers(c)
      PROVE  Changes
    BY <1>0, <1>2, QueuesChanges DEF Delivers
<1>3. ASSUME NEW c \in Conns, DropsTimeSync(c) \/ HangsUp(c) \/ Closes(c)
      PROVE  Changes
    <2>1. CASE Closes(c)
        BY <1>0, <2>1, OnlyOne, GivenUpIsEmptied DEF Closes, Closed, Change
    <2> QED
        BY <1>0, <1>3, <2>1, LeavesChanges DEF DropsTimeSync, HangsUp
<1>4. ASSUME NEW c \in Conns, EnqueuesTimeSync(c)
      PROVE  Changes
    <2> DEFINE r == conn[c]
               s == [r EXCEPT !.latest = sub.event]
               u == [r EXCEPT !.notify = TRUE]
    <2>0. r \in Connection
        BY <1>0, GoodParts
    <2>1. /\ GetsTime(r, s) /\ Stays(r, s) /\ s.latest = sub.event
          /\ GetsWoken(r, u) /\ Stays(r, u)
        BY <2>0 DEF Connection, GetsTime, GetsWoken, Stays
    <2>2. \/ Becomes(c, s) /\ sub' = [sub EXCEPT !.wakes = {c}]
          \/ Becomes(c, u)
        BY <1>4 DEF EnqueuesTimeSync
    <2>3. sub' = [sub EXCEPT !.wakes = {c}] => c \in sub'.wakes
        BY <1>0 DEF Rest
    <2> HIDE DEF s, u
    <2> QED
        BY <1>0, <2>1, <2>2, <2>3, OnlyOne DEF Change
<1>5. ASSUME NEW c \in Conns, Registers(c)
      PROVE  Changes
    <2> DEFINE r == conn[c]
    <2>0. r \in Connection /\ r.at = "new"
        BY <1>0, <1>5, GoodParts DEF Registers
    <2>1. PICK old : Becomes(c, [r EXCEPT !.at = "registering", !.replaced = old])
        BY <1>5 DEF Registers
    <2> DEFINE s == [r EXCEPT !.at = "registering", !.replaced = old]
    <2>2. Untouched(r, s) /\ s.at = "registering"
        BY <2>0 DEF Connection, Untouched
    <2> HIDE DEF s
    <2> QED
        BY <1>0, <2>0, <2>1, <2>2, OnlyOne DEF Change, s
<1>6. ASSUME NEW c \in Conns, ClosesReplaced(c)
      PROVE  Changes
    <2>1. PICK d \in conn[c].replaced :
              conn' = [conn EXCEPT ![c].replaced = @ \ {d}, ![d] = Closed(d)]
        BY <1>6 DEF ClosesReplaced
    <2>2. conn[c] \in Connection /\ d \in Conns /\ conn \in [Conns -> Connection]
        BY <1>0, GoodParts DEF Connection, GoodConns
    <2> DEFINE s == [conn[c] EXCEPT !.replaced = @ \ {d}]
    <2>3. conn' = [[conn EXCEPT ![c] = s] EXCEPT ![d] = Closed(d)]
        BY <2>1
    <2>4. Untouched(conn[c], s) /\ Stays(conn[c], s)
        BY <2>2 DEF Connection, Untouched, Stays
    <2> HIDE DEF s
    <2>5. ASSUME NEW e \in Conns
          PROVE  \/ conn'[e] = Closed(e)
                 \/ Untouched(conn[e], conn'[e]) /\ Stays(conn[e], conn'[e])
        <3>1. CASE e = d
            BY <2>2, <2>3, <3>1
        <3>2. CASE e # d /\ e = c
            BY <2>2, <2>3, <2>4, <3>2
        <3>3. CASE e # d /\ e # c
            <4>1. conn'[e] = conn[e]
                BY <2>2, <2>3, <3>3
            <4> QED
                BY <4>1 DEF Untouched, Stays
        <3> QED
            BY <3>1, <3>2, <3>3
    <2> QED
        BY <2>5, GivenUpIsEmptied DEF Changes, Change, Closed
<1>7. ASSUME NEW c \in Conns, ReadsSnapshot(c)
      PROVE  Changes
    <2>6. PICK status \in {phase, row} :
              \/ /\ Becomes(c, [conn[c] EXCEPT !.at = "snapshot", !.snapshot = Snapshot(status)])
                 /\ Accepts(c, "control")
              \/ Becomes(c, [conn[c] EXCEPT !.at = "up"])
        BY <1>7 DEF ReadsSnapshot
    <2> DEFINE r == conn[c]
               s == [r EXCEPT !.at = "snapshot", !.snapshot = Snapshot(status)]
               u == [r EXCEPT !.at = "up"]
    <2>0. r \in Connection /\ r.at = "registering"
        BY <1>0, <1>7, GoodParts DEF ReadsSnapshot
    <2>1. Untouched(r, s) /\ s.at = "snapshot" /\ s.snapshot = Snapshot(status)
        BY <2>0 DEF Connection, Untouched
    <2>2. Untouched(r, u) /\ u.at = "up"
        BY <2>0 DEF Connection, Untouched
    <2>3. \/ Becomes(c, s) /\ Accepts(c, "control")
          \/ Becomes(c, u)
        BY <2>6
    <2> HIDE DEF s, u
    <2>4. Becomes(c, s) /\ Accepts(c, "control") => Changes
        BY <1>0, <1>7, <2>0, <2>1, OnlyOne DEF Change
    <2>5. Becomes(c, u) => Changes
        BY <1>0, <2>0, <2>2, OnlyOne DEF Change
    <2> QED
        BY <2>3, <2>4, <2>5
<1>8. ASSUME NEW c \in Conns, DeliversSnapshot(c)
      PROVE  Changes
    <2>1. conn[c].at = "snapshot" /\ Queues(c, conn[c].snapshot, "up")
        BY <1>8 DEF DeliversSnapshot
    <2>2. Lane(conn[c].snapshot) = "high"
        BY <1>0, <2>1, GoodParts DEF Connection, Of
    <2> QED
        BY <1>0, <2>1, <2>2, QueuesChanges
<1>9. ASSUME NEW c \in Conns, Pings(c)
      PROVE  Changes
    <2> DEFINE r == conn[c]
               s == [r EXCEPT !.send = Append(@, Pong)]
    <2>0. r \in Connection
        BY <1>0, GoodParts
    <2>1. GetsOrdinary(r, s, Pong) /\ Stays(r, s)
        BY <2>0 DEF Connection, GetsOrdinary, Stays
    <2>2. UNCHANGED conn \/ Becomes(c, s)
        BY <1>9 DEF Pings
    <2> HIDE DEF s
    <2>3. Becomes(c, s) => Changes
        BY <1>0, <2>1, OnlyOne DEF Change
    <2> QED
        BY <2>2, <2>3, NoneChanges
<1> QED
    BY <1>0, <1>1, <1>2, <1>3, <1>4, <1>5, <1>6, <1>7, <1>8, <1>9, LooksChanges, SelectsChanges,
       WritesChanges DEF Next, SubscriberStep, RegisterStep, WriterStep

-----------------------------------------------------------------------------
(* The time: nobody waits at the select with a slot it was not woken for.  *)

\* Only the dispatch of a time_sync has a wake-up in hand, for one connection.
Waking ==
    /\ sub.wakes # {} => Lane(sub.event) = "latest"
    /\ \A c, d \in sub.wakes : c = d
    /\ NoLostWakeup

LEMMA WakingInitially == Init => Waking
<1> SUFFICES ASSUME Init PROVE Waking
    OBVIOUS
<1>1. sub.wakes = {} /\ \A c \in Conns : conn[c].latest = None
    BY DEF Init, NoDispatch, New
<1> QED
    BY <1>1 DEF Waking, NoLostWakeup

\* What happens to the wake-up in hand.
LEMMA WakesStep ==
    ASSUME IInv, Waking, [Next]_vars
    PROVE  /\ sub'.wakes # {} => Lane(sub'.event) = "latest"
           /\ \A c, d \in sub'.wakes : c = d
           /\ \A c \in sub.wakes : \/ c \in sub'.wakes
                                   \/ conn'[c].notify = TRUE \/ conn'[c].latest = None
<1>0. GoodConns /\ Rest /\ sub.wakes \subseteq Conns
      /\ sub \in [event: Made \cup {None}, to: SUBSET Conns, wakes: SUBSET Conns]
    BY DEF IInv, Rest
<1>1. CASE UNCHANGED sub
    BY <1>1 DEF Waking
<1>2. ASSUME Dispatches
      PROVE  sub'.wakes = {} /\ sub.wakes = {}
    BY <1>2 DEF Dispatches, NoDispatch
<1>3. ASSUME NEW c \in Conns, Served(c)
      PROVE  sub'.wakes = {}
    BY <1>0, <1>3 DEF Served, NoDispatch
<1>4. ASSUME NEW c \in Conns, Delivers(c)
      PROVE  sub'.wakes = {} /\ sub.wakes = {}
    BY <1>3, <1>4 DEF Delivers, Waking
<1>5. ASSUME NEW c \in Conns, DropsTimeSync(c)
      PROVE  sub'.wakes = {} /\ sub.wakes \subseteq {c} /\ conn'[c].latest = None
    BY <1>0, <1>3, <1>5 DEF DropsTimeSync, Leaves, Becomes, GivenUp, New, GoodConns
<1>6. ASSUME NEW c \in Conns, EnqueuesTimeSync(c)
      PROVE  \/ sub.wakes = {} /\ sub'.wakes = {c} /\ sub'.event = sub.event
                /\ Lane(sub.event) = "latest"
             \/ sub.wakes = {c} /\ sub'.wakes = {} /\ conn'[c].notify = TRUE
    <2>1. CASE sub.wakes = {} /\ sub' = [sub EXCEPT !.wakes = {c}]
        BY <1>0, <1>6, <2>1 DEF EnqueuesTimeSync
    <2>2. CASE sub.wakes = {c} /\ Becomes(c, [conn[c] EXCEPT !.notify = TRUE]) /\ Served(c)
        <3>1. conn[c] \in Connection
            BY <1>0, GoodParts
        <3>2. conn'[c] = [conn[c] EXCEPT !.notify = TRUE]
            BY <1>0, <2>2 DEF Becomes, GoodConns
        <3>3. conn'[c].notify = TRUE
            BY <3>1, <3>2 DEF Connection
        <3> QED
            BY <1>3, <2>2, <3>3
    <2> QED
        BY <1>6, <2>1, <2>2 DEF EnqueuesTimeSync
<1> QED
    BY <1>1, <1>2, <1>4, <1>5, <1>6
       DEF Next, SubscriberStep, RegisterStep, WriterStep, Publishes, Settles, SavesEnd,
           PublishesEnd, Registers, Closes, ClosesReplaced, ReadsSnapshot, DeliversSnapshot, WriterLooks,
           WriterSelects, Writes, HangsUp, Pings, vars

LEMMA WakingPreserved == IInv /\ Waking /\ [Next]_vars => Waking'
<1> SUFFICES ASSUME IInv, Waking, [Next]_vars PROVE Waking'
    OBVIOUS
<1>1. Changes
    BY StepChanges
<1>2. ASSUME NEW c \in Conns, conn'[c].latest # None, conn'[c].waits
      PROVE  conn'[c].notify \/ c \in sub'.wakes
    <2> DEFINE r == conn[c]
               s == conn'[c]
    <2>0. /\ Change(c, r, s)
          /\ r.latest # None /\ r.waits => r.notify \/ c \in sub.wakes
          /\ c \in sub.wakes => c \in sub'.wakes \/ s.notify = TRUE
          /\ s.latest # None /\ s.waits
        BY <1>1, <1>2, WakesStep DEF Changes, Waking, NoLostWakeup
    <2> HIDE DEF r, s
    <2>1. ~Emptied(s)
        BY <2>0 DEF Emptied
    <2>2. ASSUME s.latest = r.latest, s.notify = r.notify, s.waits = r.waits
          PROVE  s.notify \/ c \in sub'.wakes
        BY <2>0, <2>2, Zenon
    <2>3. ASSUME GetsWoken(r, s)
          PROVE  s.notify
        BY <2>3, Zenon DEF GetsWoken
    <2>4. ASSUME Writer(r, s)
          PROVE  s.notify \/ c \in sub'.wakes
        <3>1. s.waits # FALSE
            BY <2>0
        <3>2. ~(s.latest = None)
            BY <2>0
        <3>3. HasWritten(r, s)
            BY <2>4, <3>1, <3>2, Zenon
               DEF Writer, TakesUrgent, TakesTime, TakesDeferred, Waits, LooksAgain,
                   TakesOrdinary, KeepsSlot
        <3> QED
            BY <2>2, <3>3, Zenon DEF HasWritten, KeepsSlot
    <2>5. ASSUME \/ Untouched(r, s) \/ GetsOrdinary(r, s, Pong)
                 \/ GetsUrgent(r, s, sub.event) \/ GetsOrdinary(r, s, sub.event)
                 \/ GetsUrgent(r, s, r.snapshot)
          PROVE  s.notify \/ c \in sub'.wakes
        BY <2>2, <2>5, Zenon DEF Untouched, GetsUrgent, GetsOrdinary, KeepsSlot, KeepsWriter
    <2>6. s.notify \/ c \in sub'.wakes
        BY <2>0, <2>1, <2>3, <2>4, <2>5, Zenon DEF Change
    <2> QED
        BY <2>6 DEF s
<1> QED
    BY <1>2, WakesStep DEF Waking, NoLostWakeup

-----------------------------------------------------------------------------
(* Bids: what a connection holds it goes on to show.                       *)

\* The writer has nothing in hand while it waits at its select, so that what
\* the select receives pushes nothing out.
EmptyHands ==
    \A c \in Conns : conn[c].waits => conn[c].deferred = None /\ conn[c].writing = None

LEMMA EmptyHandsInitially == Init => EmptyHands
    BY DEF Init, New, EmptyHands

LEMMA EmptyHandsPreserved == IInv /\ EmptyHands /\ [Next]_vars => EmptyHands'
<1> SUFFICES ASSUME IInv, EmptyHands, [Next]_vars, NEW c \in Conns, conn'[c].waits
             PROVE  conn'[c].deferred = None /\ conn'[c].writing = None
    BY DEF EmptyHands
<1> DEFINE r == conn[c]
           s == conn'[c]
<1>1. /\ Change(c, r, s) /\ s.waits # FALSE
      /\ r.waits # FALSE => r.deferred = None /\ r.writing = None
    <2>1. r \in Connection
        BY GoodParts DEF IInv
    <2>2. r.waits \in BOOLEAN
        BY <2>1 DEF Connection
    <2> QED
        BY <2>2, StepChanges DEF Changes, EmptyHands
<1> HIDE DEF r, s
<1>2. ASSUME Writer(r, s)
      PROVE  s.deferred = None /\ s.writing = None
    BY <1>1, <1>2
       DEF Writer, TakesUrgent, TakesTime, TakesDeferred, Waits, LooksAgain,
           TakesOrdinary, HasWritten
<1> QED
    BY <1>1, <1>2
       DEF Change, Untouched, Emptied, GetsUrgent, GetsOrdinary, GetsTime, GetsWoken,
           KeepsWriter, s, r

\* What is in the queue is still there when something is put behind it, and
\* is there or at hand when its head is taken.
Queued(q, v) == \E i \in DOMAIN q : q[i].bid = v

LEMMA StillQueued ==
    ASSUME NEW S, NEW q \in Seq(S), NEW v, Queued(q, v)
    PROVE  /\ \A e \in S : Queued(Append(q, e), v)
           /\ q # <<>>
           /\ Head(q).bid = v \/ Queued(Tail(q), v)
<1> SUFFICES ASSUME NEW e
             PROVE  /\ e \in S => Queued(Append(q, e), v)
                    /\ q # <<>>
                    /\ Head(q).bid = v \/ Queued(Tail(q), v)
    OBVIOUS
<1> USE DEF Queued
<1>1. PICK i \in 1 .. Len(q) : q[i].bid = v
    OBVIOUS
<1>2. Len(q) \in Nat /\ q # <<>> /\ Head(q) = q[1]
    BY <1>1
<1>3. e \in S => /\ DOMAIN Append(q, e) = 1 .. Len(q) + 1 /\ i \in 1 .. Len(q) + 1
                 /\ Append(q, e)[i] = q[i]
    BY <1>1, <1>2
<1>4. CASE i = 1
    BY <1>1, <1>2, <1>3, <1>4
<1>5. CASE i # 1
    <2>1. i - 1 \in 1 .. Len(Tail(q)) /\ (i - 1) + 1 = i /\ DOMAIN Tail(q) = 1 .. Len(Tail(q))
        BY <1>1, <1>2, <1>5
    <2>2. Tail(q)[i - 1] = q[(i - 1) + 1]
        BY <1>2, <2>1
    <2>3. Tail(q)[i - 1].bid = v
        BY <1>1, <2>1, <2>2
    <2> QED
        BY <1>1, <1>2, <1>3, <2>1, <2>3
<1> QED
    BY <1>4, <1>5

HoldsIn(r, v) ==
    Queued(r.send, v) \/ r.deferred.bid = v \/ r.writing.bid = v

LEMMA HeldStays ==
    ASSUME IInv, EmptyHands, [Next]_vars, NEW c \in Conns, NEW v \in Bids,
           HoldsIn(conn[c], v)
    PROVE  HoldsIn(conn'[c], v) \/ v \in conn'[c].shown
                                 \/ conn'[c].at \in {"leaving", "closed"}
<1> DEFINE r == conn[c]
           s == conn'[c]
<1>1. /\ Change(c, r, s) /\ GoodConns
      /\ r.waits => r.deferred = None /\ r.writing = None
      /\ None.bid # v
    BY StepChanges DEF Changes, EmptyHands, IInv, None, Event, Bids
<1>2. r \in Connection /\ r.send \in Seq(Of("normal"))
    BY <1>1, GoodParts
<1>3. sub.event \in Made \cup {None}
    BY DEF IInv, Rest
<1>4. ASSUME NEW e, s.send = Append(r.send, e), KeepsWriter(r, s)
      PROVE  HoldsIn(s, v)
    <2>1. CASE Queued(r.send, v)
        <3>1. r.send \in Seq(Of("normal") \cup {e}) /\ e \in Of("normal") \cup {e}
            BY <1>2
        <3>2. Queued(Append(r.send, e), v)
            BY <2>1, <3>1, StillQueued
        <3> QED
            BY <1>4, <3>2 DEF HoldsIn
    <2>2. CASE r.deferred.bid = v \/ r.writing.bid = v
        BY <1>4, <2>2 DEF HoldsIn, KeepsWriter
    <2> QED
        BY <2>1, <2>2 DEF HoldsIn
<1> HIDE DEF r, s
<1>5. ASSUME KeepsSend(r, s), KeepsWriter(r, s)
      PROVE  HoldsIn(s, v)
    BY <1>5 DEF HoldsIn, KeepsSend, KeepsWriter, r
<1>6. HoldsIn(r, v)
    BY DEF r
<1>7. CASE Writer(r, s)
    <2>1. ASSUME TakesUrgent(r, s) \/ TakesTime(r, s) \/ TakesDeferred(r, s)
          PROVE  HoldsIn(s, v)
        BY <1>1, <1>6, <2>1 DEF TakesUrgent, TakesTime, TakesDeferred, KeepsSend, HoldsIn
    <2>2. ASSUME Waits(r, s) \/ LooksAgain(r, s)
          PROVE  HoldsIn(s, v)
        BY <1>1, <1>6, <2>2 DEF Waits, LooksAgain, KeepsSend, HoldsIn
    <2>3. ASSUME TakesOrdinary(r, s)
          PROVE  HoldsIn(s, v)
        <3>1. Queued(r.send, v)
            BY <1>1, <1>6, <2>3 DEF TakesOrdinary, HoldsIn
        <3>2. Head(r.send).bid = v \/ Queued(Tail(r.send), v)
            BY <1>2, <3>1, StillQueued
        <3> QED
            BY <2>3, <3>2 DEF TakesOrdinary, HoldsIn
    <2>4. CASE HasWritten(r, s)
        BY <1>6, <2>4 DEF HasWritten, KeepsSend, HoldsIn, s
    <2> QED
        BY <1>7, <2>1, <2>2, <2>3, <2>4 DEF Writer, s
<1> QED
    BY <1>1, <1>4, <1>5, <1>7
       DEF Change, Untouched, Emptied, GetsUrgent, GetsOrdinary, GetsTime, GetsWoken, s

-----------------------------------------------------------------------------
(* The end: who may be shown an ongoing auction has it coming.             *)

\* What says of the auction that it goes on.
SaysOngoing(e) == e.type \in {"auction_snapshot", "auction_ended"} /\ e.status = "ongoing"

AnyOngoing(q) == \E i \in DOMAIN q : SaysOngoing(q[i])

\* It was shown so, or will be by what the connection holds.
MaySee(r) ==
    \/ "ongoing" \in r.seen \/ SaysOngoing(r.writing)
    \/ r.at = "snapshot" /\ SaysOngoing(r.snapshot)
    \/ AnyOngoing(r.high)

\* The end was shown, or will be by what the connection holds; or is on its
\* way there.
HasEnd(r) == "ended" \in r.seen \/ r.writing = Ended \/ Among(Ended, r.high)
EndComes(c) == HasEnd(conn[c]) \/ Among(Ended, bus) \/ (c \in sub.to /\ sub.event = Ended)

\* Only snapshots say that it goes on, and none is taken once it has ended.
Coming ==
    /\ (ended => row = "ended") /\ (row = "ended" => phase = "ended")
    /\ ~AnyOngoing(bus) /\ ~SaysOngoing(sub.event)
    /\ \A c \in Conns : MaySee(conn[c]) => Accepts(c, "control") /\ conn[c].at # "new"
    /\ \A c \in registered : ended /\ MaySee(conn[c]) => EndComes(c)

LEMMA OtherEvents ==
    /\ ~SaysOngoing(None) /\ ~SaysOngoing(Ended) /\ Ended \in Made /\ Ended \in Of("high")
    /\ Ended # None /\ Lane(Ended) = "high" /\ Stream(Ended) = "control"
    /\ \A e \in Of("latest") \cup Of("normal") : ~SaysOngoing(e)
    BY DEF SaysOngoing, None, Ended, Event, Made, Of, Lane, Stream, Phases

LEMMA AmongStays ==
    ASSUME NEW S, NEW q \in Seq(S), NEW x, Among(x, q)
    PROVE  /\ \A e \in S : Among(x, Append(q, e))
           /\ q # <<>>
           /\ Head(q) = x \/ Among(x, Tail(q))
<1> SUFFICES ASSUME NEW e
             PROVE  /\ e \in S => Among(x, Append(q, e))
                    /\ q # <<>>
                    /\ Head(q) = x \/ Among(x, Tail(q))
    OBVIOUS
<1> USE DEF Among
<1>1. PICK i \in 1 .. Len(q) : q[i] = x
    OBVIOUS
<1>2. Len(q) \in Nat /\ q # <<>> /\ Head(q) = q[1]
    BY <1>1
<1>3. e \in S => /\ DOMAIN Append(q, e) = 1 .. Len(q) + 1 /\ i \in 1 .. Len(q) + 1
                 /\ Append(q, e)[i] = q[i]
    BY <1>1, <1>2
<1>4. CASE i = 1
    BY <1>1, <1>2, <1>3, <1>4
<1>5. CASE i # 1
    <2>1. i - 1 \in 1 .. Len(Tail(q)) /\ (i - 1) + 1 = i /\ DOMAIN Tail(q) = 1 .. Len(Tail(q))
        BY <1>1, <1>2, <1>5
    <2>2. Tail(q)[i - 1] = q[(i - 1) + 1]
        BY <1>2, <2>1
    <2>3. Tail(q)[i - 1] = x
        BY <1>1, <2>1, <2>2
    <2> QED
        BY <1>1, <1>2, <1>3, <2>1, <2>3
<1> QED
    BY <1>4, <1>5

LEMMA Appended ==
    ASSUME NEW S, NEW q \in Seq(S), NEW e \in S
    PROVE  /\ Among(e, Append(q, e))
           /\ AnyOngoing(Append(q, e)) => AnyOngoing(q) \/ SaysOngoing(e)
<1>1. /\ DOMAIN Append(q, e) = 1 .. Len(q) + 1 /\ Len(q) \in Nat /\ DOMAIN q = 1 .. Len(q)
      /\ Append(q, e)[Len(q) + 1] = e
      /\ \A i \in 1 .. Len(q) : Append(q, e)[i] = q[i]
    OBVIOUS
<1>2. Among(e, Append(q, e))
    <2>1. Len(q) + 1 \in DOMAIN Append(q, e)
        BY <1>1
    <2> QED
        BY <1>1, <2>1 DEF Among
<1>3. ASSUME NEW i \in DOMAIN Append(q, e), SaysOngoing(Append(q, e)[i])
      PROVE  AnyOngoing(q) \/ SaysOngoing(e)
    <2>1. i = Len(q) + 1 \/ i \in 1 .. Len(q)
        BY <1>1
    <2> QED
        BY <1>1, <1>3, <2>1 DEF AnyOngoing
<1> QED
    BY <1>2, <1>3 DEF AnyOngoing

LEMMA TakenOff ==
    ASSUME NEW S, NEW q \in Seq(S), q # <<>>
    PROVE  SaysOngoing(Head(q)) \/ AnyOngoing(Tail(q)) => AnyOngoing(q)
<1>1. /\ Len(q) \in Nat \ {0} /\ Head(q) = q[1] /\ DOMAIN q = 1 .. Len(q)
      /\ DOMAIN Tail(q) = 1 .. Len(q) - 1
      /\ \A i \in 1 .. Len(q) - 1 : Tail(q)[i] = q[i + 1] /\ i + 1 \in 1 .. Len(q)
    OBVIOUS
<1>2. SaysOngoing(Head(q)) => AnyOngoing(q)
    BY <1>1 DEF AnyOngoing
<1>3. ASSUME NEW i \in DOMAIN Tail(q), SaysOngoing(Tail(q)[i])
      PROVE  AnyOngoing(q)
    BY <1>1, <1>3 DEF AnyOngoing
<1> QED
    BY <1>2, <1>3 DEF AnyOngoing

\* A connection comes to see that the auction goes on only by the snapshot.
LEMMA SeesMore ==
    ASSUME IInv, Coming, [Next]_vars, NEW c \in Conns, MaySee(conn'[c])
    PROVE  /\ conn'[c].at # "new"
           /\ \/ MaySee(conn[c])
              \/ ReadsSnapshot(c) /\ row = "ongoing" /\ Accepts(c, "control")
<1> DEFINE r == conn[c]
           s == conn'[c]
<1>1. /\ Change(c, r, s) /\ r \in Connection /\ GoodConns
      /\ MaySee(r) => r.at # "new"
    BY StepChanges, GoodParts DEF Changes, IInv, Coming
<1>2. /\ r.high \in Seq(Of("high")) /\ ~SaysOngoing(r.latest) /\ ~SaysOngoing(r.deferred)
      /\ ~SaysOngoing(sub.event) /\ sub.event \in Made \cup {None} /\ ~SaysOngoing(Pong)
      /\ r.snapshot \in Of("high") \cup {None}
    BY <1>1, OtherEvents
       DEF Connection, IInv, Rest, Coming, SaysOngoing, Pong, Event
<1>3. SaysOngoing(Snapshot(phase)) \/ SaysOngoing(Snapshot(row)) => row = "ongoing"
    <2>1. phase = "ongoing" \/ row = "ongoing" => row = "ongoing"
        BY DEF IInv, Rest, Phases, Coming
    <2> QED
        BY <2>1 DEF SaysOngoing, Snapshot, Event
<1>4. ASSUME NEW e, s.high = Append(r.high, e), AnyOngoing(s.high)
      PROVE  AnyOngoing(r.high) \/ SaysOngoing(e)
    <2> DEFINE S == Of("high") \cup {e}
    <2>1. r.high \in Seq(S) /\ e \in S
        BY <1>2
    <2> HIDE DEF S
    <2> QED
        BY <1>4, <2>1, Appended
<1>5. MaySee(s)
    OBVIOUS
<1> HIDE DEF r, s
<1>6. ASSUME Emptied(s) PROVE FALSE
    <2>1. ~AnyOngoing(<<>>)
        BY DEF AnyOngoing
    <2>2. s.at # "snapshot" /\ s.high = <<>> /\ s.seen = {} /\ s.writing = None
        BY <1>6 DEF Emptied
    <2> QED
        BY <1>5, <2>1, <2>2, OtherEvents DEF MaySee
<1>7. ASSUME Writer(r, s), Stays(r, s) PROVE MaySee(r)
    <2>1. CASE TakesUrgent(r, s)
        <3>1. SaysOngoing(Head(r.high)) \/ AnyOngoing(Tail(r.high)) => AnyOngoing(r.high)
            BY <1>2, <2>1, TakenOff DEF TakesUrgent
        <3> QED
            BY <1>5, <1>7, <2>1, <3>1 DEF TakesUrgent, MaySee, Stays, KeepsRecord
    <2>2. CASE HasWritten(r, s)
        <3>1. "ongoing" \in s.seen => "ongoing" \in r.seen \/ SaysOngoing(r.writing)
            BY <2>2 DEF HasWritten, SaysOngoing
        <3> QED
            BY <1>5, <1>7, <2>2, <3>1, OtherEvents DEF HasWritten, MaySee, Stays, KeepsHigh
    <2> QED
        BY <1>2, <1>5, <1>7, <2>1, <2>2, OtherEvents
           DEF Writer, TakesTime, TakesDeferred, Waits, LooksAgain, TakesOrdinary,
               MaySee, Stays, KeepsHigh, KeepsRecord
<1>8. ASSUME Stays(r, s),
             \/ Untouched(r, s) \/ GetsTime(r, s) \/ GetsWoken(r, s)
             \/ GetsOrdinary(r, s, Pong) \/ GetsOrdinary(r, s, sub.event)
      PROVE  MaySee(r)
    BY <1>5, <1>8 DEF Untouched, GetsTime, GetsWoken, GetsOrdinary, MaySee, Stays, KeepsHigh,
                      KeepsWriter, KeepsRecord
<1>9. ASSUME Stays(r, s), GetsUrgent(r, s, sub.event) PROVE MaySee(r)
    BY <1>2, <1>4, <1>5, <1>9 DEF GetsUrgent, MaySee, Stays, KeepsWriter, KeepsRecord
<1>10. ASSUME r.at = "snapshot", s.at = "up", GetsUrgent(r, s, r.snapshot) PROVE MaySee(r)
    BY <1>4, <1>5, <1>10 DEF GetsUrgent, MaySee, KeepsWriter, KeepsRecord
<1>11. ASSUME Untouched(r, s), s.at # "snapshot" PROVE MaySee(r)
    BY <1>5, <1>11 DEF Untouched, MaySee, KeepsHigh, KeepsWriter, KeepsRecord
<1>12. ASSUME Untouched(r, s), s.snapshot \in {Snapshot(phase), Snapshot(row)}
       PROVE  MaySee(r) \/ row = "ongoing"
    BY <1>3, <1>5, <1>12 DEF Untouched, MaySee, KeepsHigh, KeepsWriter, KeepsRecord
<1>13. \/ MaySee(r)
       \/ ReadsSnapshot(c) /\ row = "ongoing" /\ Accepts(c, "control")
    BY <1>1, <1>6, <1>7, <1>8, <1>9, <1>10, <1>11, <1>12, Zenon DEF Change
<1>14. s.at # "new"
    <2>1. Stays(r, s) => s.at = r.at
        BY DEF Stays
    <2> QED
        BY <1>1, <1>6, <1>7, <1>8, <1>9, <2>1, Zenon DEF Change
<1> QED
    BY <1>13, <1>14 DEF r, s

\* What has the end coming keeps it, as long as it is open.
LEMMA StillComes ==
    ASSUME IInv, Coming, [Next]_vars, NEW c \in registered, EndComes(c),
           Accepts(c, "control"), c \in registered'
    PROVE  EndComes(c)'
<1> DEFINE r == conn[c]
           s == conn'[c]
<1>0. /\ c \in Conns /\ GoodConns /\ Rest
      /\ sub \in [event: Made \cup {None}, to: SUBSET Conns, wakes: SUBSET Conns]
    BY DEF IInv, Rest
<1>1. /\ Change(c, r, s) /\ r \in Connection /\ r.high \in Seq(Of("high"))
      /\ sub.event \in Made \cup {None} /\ ~Emptied(s)
    <2>1. s.at \notin {"leaving", "closed"}
        BY <1>0, SeatsPreserved DEF Seats, OneConnectionPerStream, Serves
    <2> QED
        BY <1>0, <2>1, StepChanges, GoodParts DEF Changes, Emptied
<1>2. ASSUME NEW e, s.high = Append(r.high, e)
      PROVE  /\ Among(Ended, r.high) => Among(Ended, s.high)
             /\ Among(e, s.high)
    <2> DEFINE S == Of("high") \cup {e}
    <2>1. r.high \in Seq(S) /\ e \in S
        BY <1>1
    <2> HIDE DEF S
    <2> QED
        BY <1>2, <2>1, Appended, AmongStays
<1>3. HasEnd(r) => HasEnd(s)
    <2> SUFFICES ASSUME HasEnd(r) PROVE HasEnd(s)
        OBVIOUS
    <2> HIDE DEF r, s
    <2>1. CASE KeepsHigh(r, s) /\ KeepsWriter(r, s) /\ KeepsRecord(r, s)
        BY <2>1 DEF HasEnd, KeepsHigh, KeepsWriter, KeepsRecord
    <2>2. ASSUME NEW e, GetsUrgent(r, s, e) PROVE HasEnd(s)
        BY <1>2, <2>2 DEF HasEnd, GetsUrgent, KeepsWriter, KeepsRecord
    <2>3. CASE TakesUrgent(r, s)
        <3>1. Among(Ended, r.high) => Head(r.high) = Ended \/ Among(Ended, Tail(r.high))
            BY <1>1, AmongStays
        <3> QED
            BY <2>3, <3>1, OtherEvents DEF HasEnd, TakesUrgent, KeepsRecord
    <2>4. CASE HasWritten(r, s)
        <3>1. r.writing = Ended => "ended" \in s.seen
            BY <2>4 DEF HasWritten, Ended, Event
        <3>2. "ended" \in r.seen => "ended" \in s.seen
            BY <2>4 DEF HasWritten
        <3> QED
            BY <2>4, <3>1, <3>2 DEF HasEnd, HasWritten, KeepsHigh
    <2>5. CASE Writer(r, s)
        BY <2>3, <2>4, <2>5, OtherEvents
           DEF Writer, TakesTime, TakesDeferred, Waits, LooksAgain, TakesOrdinary,
               HasEnd, KeepsHigh, KeepsRecord
    <2> QED
        BY <1>1, <2>1, <2>2, <2>5, Zenon
           DEF Change, Untouched, GetsOrdinary, GetsTime, GetsWoken
<1>4. ASSUME c \in sub.to, sub.event = Ended
      PROVE  HasEnd(s) \/ (c \in sub'.to /\ sub'.event = Ended)
    <2>1. CASE Delivers(c)
        <3>1. Queues(c, Ended, r.at)
            BY <1>4, <2>1 DEF Delivers
        <3>2. Lane(Ended) = "high"
            BY OtherEvents
        <3>3. ~Leaves(c)
            BY <1>0 DEF Leaves
        <3>4. Becomes(c, [r EXCEPT !.high = Append(@, Ended), !.at = r.at])
            BY <3>1, <3>2, <3>3 DEF Queues
        <3>5. s.high = Append(r.high, Ended)
            BY <1>0, <1>1, <3>4 DEF Becomes, GoodConns, Connection
        <3> QED
            BY <1>2, <3>5 DEF HasEnd
    <2>2. ASSUME NEW d \in Conns, d # c, Served(d)
          PROVE  c \in sub'.to /\ sub'.event = Ended
        <3>1. sub' = [sub EXCEPT !.to = @ \ {d}, !.wakes = {}]
            BY <1>4, <2>2 DEF Served
        <3> QED
            BY <1>0, <1>4, <2>2, <3>1
    <2>3. ~Dispatches
        BY <1>4 DEF Dispatches, NoDispatch
    <2>4. ASSUME NEW d \in Conns
          PROVE  ~DropsTimeSync(d) /\ ~EnqueuesTimeSync(d)
        BY <1>4, OtherEvents DEF DropsTimeSync, EnqueuesTimeSync
    <2>5. CASE UNCHANGED sub
        BY <1>4, <2>5
    <2> QED
        BY <2>1, <2>2, <2>3, <2>4, <2>5
           DEF Next, SubscriberStep, RegisterStep, WriterStep, Publishes, Settles, SavesEnd,
               PublishesEnd, Delivers, Registers, Closes, ClosesReplaced, ReadsSnapshot, DeliversSnapshot,
               WriterLooks, WriterSelects, Writes, HangsUp, Pings, vars
<1>5. ASSUME Among(Ended, bus)
      PROVE  Among(Ended, bus') \/ (c \in sub'.to /\ sub'.event = Ended)
    <2>1. bus \in Seq(Made)
        BY <1>0 DEF Rest
    <2>2. ASSUME NEW e, bus' = Append(bus, e)
          PROVE  Among(Ended, bus')
        <3> DEFINE S == Made \cup {e}
        <3>1. bus \in Seq(S) /\ e \in S
            BY <2>1
        <3> HIDE DEF S
        <3> QED
            BY <1>5, <2>2, <3>1, AmongStays
    <2>3. CASE Dispatches
        <3>1. Head(bus) = Ended \/ Among(Ended, Tail(bus))
            BY <1>5, <2>1, AmongStays
        <3>2. CASE Head(bus) = Ended
            <4>1. c \in Recipients(Ended)
                BY OtherEvents DEF Recipients, Ended, Event
            <4>2. sub' = [event |-> Ended, to |-> Recipients(Ended), wakes |-> {}]
                BY <2>3, <3>2, <4>1 DEF Dispatches
            <4> QED
                BY <4>1, <4>2
        <3>3. CASE Among(Ended, Tail(bus))
            BY <2>3, <3>3 DEF Dispatches
        <3> QED
            BY <3>1, <3>2, <3>3
    <2>4. CASE UNCHANGED bus
        BY <1>5, <2>4
    <2> QED
        BY <2>2, <2>3, <2>4
           DEF Next, SubscriberStep, RegisterStep, WriterStep, Publishes, Settles, SavesEnd,
               PublishesEnd, Receives, Delivers, DropsTimeSync, EnqueuesTimeSync, Registers,
               Closes, ClosesReplaced,
               ReadsSnapshot, DeliversSnapshot, WriterLooks, WriterSelects, Writes, HangsUp,
               Pings, vars, feedVars
<1> QED
    BY <1>3, <1>4, <1>5 DEF EndComes

LEMMA ComingInitially == Init => Coming
<1> SUFFICES ASSUME Init PROVE Coming
    OBVIOUS
<1>1. /\ ~AnyOngoing(bus) /\ sub.event = None /\ ended = FALSE
      /\ \A c \in Conns : conn[c] = New
    BY DEF Init, NoDispatch, AnyOngoing
<1>2. ~MaySee(New)
    BY OtherEvents DEF MaySee, New, AnyOngoing
<1> QED
    BY <1>1, <1>2, OtherEvents DEF Coming, Init

\* What the pod receives says nothing of the auction but that it has ended.
LEMMA WordPreserved ==
    ASSUME IInv, Coming, [Next]_vars
    PROVE  ~AnyOngoing(bus') /\ ~SaysOngoing(sub'.event)
<1>0. /\ bus \in Seq(Made) /\ ~AnyOngoing(bus) /\ ~SaysOngoing(sub.event)
      /\ sub \in [event: Made \cup {None}, to: SUBSET Conns, wakes: SUBSET Conns]
    BY DEF IInv, Rest, Coming
<1>1. ASSUME NEW e, Receives(e), ~SaysOngoing(e)
      PROVE  ~AnyOngoing(bus')
    <2> DEFINE S == Made \cup {e}
    <2>1. bus \in Seq(S) /\ e \in S
        BY <1>0
    <2> HIDE DEF S
    <2> QED
        BY <1>0, <1>1, <2>1, Appended DEF Receives
<1>2. /\ \A n : ~SaysOngoing(BidSuccess(n))
      /\ \A notice \in Notices : ~SaysOngoing(notice)
      /\ ~SaysOngoing(TimeSync)
    BY DEF SaysOngoing, BidSuccess, Notices, Outbid, Extended, TimeSync, Event
<1>3. CASE Publishes
    BY <1>0, <1>1, <1>2, <1>3 DEF Publishes
<1>4. CASE PublishesEnd
    BY <1>0, <1>1, <1>4, OtherEvents DEF PublishesEnd
<1>5. CASE Dispatches
    <2>1. ~SaysOngoing(Head(bus)) /\ ~AnyOngoing(Tail(bus))
        BY <1>0, <1>5, TakenOff DEF Dispatches
    <2>2. sub'.event \in {None, Head(bus)}
        BY <1>5 DEF Dispatches, NoDispatch
    <2> QED
        BY <1>5, <2>1, <2>2, OtherEvents DEF Dispatches
<1>6. ASSUME NEW c \in Conns, Served(c) \/ sub' = [sub EXCEPT !.wakes = {c}], UNCHANGED bus
      PROVE  ~AnyOngoing(bus') /\ ~SaysOngoing(sub'.event)
    <2>1. sub'.event \in {None, sub.event}
        <3>1. CASE sub' = NoDispatch
            BY <3>1 DEF NoDispatch
        <3>2. CASE sub' = [sub EXCEPT !.to = @ \ {c}, !.wakes = {}]
            BY <1>0, <3>2
        <3>3. CASE sub' = [sub EXCEPT !.wakes = {c}]
            BY <1>0, <3>3
        <3> QED
            BY <1>6, <3>1, <3>2, <3>3 DEF Served
    <2> QED
        BY <1>0, <1>6, <2>1, OtherEvents
<1>7. CASE UNCHANGED <<bus, sub>>
    BY <1>0, <1>7
<1> QED
    BY <1>3, <1>4, <1>5, <1>6, <1>7
       DEF Next, SubscriberStep, RegisterStep, WriterStep, Settles, SavesEnd,
           Delivers, DropsTimeSync, EnqueuesTimeSync, Registers, Closes, ClosesReplaced,
           ReadsSnapshot, DeliversSnapshot, WriterLooks, WriterSelects, Writes, HangsUp,
           Pings, vars

LEMMA ComingPreserved == IInv /\ Coming /\ [Next]_vars => Coming'
<1> SUFFICES ASSUME IInv, Coming, [Next]_vars PROVE Coming'
    OBVIOUS
<1>1. /\ (ended' => row' = "ended") /\ (row' = "ended" => phase' = "ended")
      /\ (ended' => ended \/ PublishesEnd) /\ (ended' => ended' = TRUE)
    <2>1. ended \in BOOLEAN /\ (ended => row = "ended") /\ (row = "ended" => phase = "ended")
        BY DEF IInv, Rest, Coming
    <2>2. CASE UNCHANGED <<phase, row, ended>>
        BY <2>1, <2>2
    <2>3. CASE Settles \/ SavesEnd
        BY <2>1, <2>3 DEF Settles, SavesEnd
    <2>4. CASE PublishesEnd
        <3>1. CASE row = "ended" /\ ended' = TRUE
            BY <2>1, <2>4, <3>1 DEF PublishesEnd
        <3>2. CASE UNCHANGED ended
            BY <2>1, <2>4, <3>2 DEF PublishesEnd
        <3> QED
            BY <2>4, <3>1, <3>2 DEF PublishesEnd
    <2> QED
        BY <2>2, <2>3, <2>4
           DEF Next, SubscriberStep, RegisterStep, WriterStep, Publishes, Dispatches,
               Delivers, DropsTimeSync, EnqueuesTimeSync, Registers, Closes, ClosesReplaced,
               ReadsSnapshot, DeliversSnapshot, WriterLooks, WriterSelects, Writes, HangsUp,
               Pings, vars, feedVars
<1>2. ASSUME NEW c \in Conns, MaySee(conn'[c])
      PROVE  Accepts(c, "control") /\ conn'[c].at # "new"
    BY <1>2, SeesMore DEF Coming
<1>3. ASSUME NEW c \in registered', ended', MaySee(conn'[c])
      PROVE  EndComes(c)'
    <2>0. c \in Conns /\ registered' \subseteq Conns /\ Rest
        BY RestPreserved DEF IInv, Rest
    <2>1. CASE PublishesEnd
        <3>1. bus \in Seq(Made) /\ bus' = Append(bus, Ended)
            BY <2>0, <2>1 DEF Rest, PublishesEnd, Receives
        <3>2. Among(Ended, bus')
            BY <3>1, Appended, OtherEvents
        <3> QED
            BY <3>2 DEF EndComes
    <2>2. CASE ~PublishesEnd
        <3>1. ended /\ row = "ended"
            BY <1>1, <1>3, <2>2 DEF Coming
        <3>2. MaySee(conn[c])
            BY <1>3, <2>0, <3>1, SeesMore
        <3>3. Accepts(c, "control") /\ conn[c].at # "new"
            BY <2>0, <3>2 DEF Coming
        <3>4. c \in registered
            <4>1. CASE \E d \in Conns : Registers(d)
                BY <1>3, <3>3, <4>1 DEF Registers
            <4>2. CASE Quiet \/ \E d \in Conns : Leaves(d) \/ Closes(d) \/ ClosesReplaced(d)
                BY <1>3, <4>2 DEF Quiet, Leaves, Closes, ClosesReplaced
            <4> QED
                BY <4>1, <4>2, StepKinds
        <3>5. EndComes(c)
            BY <3>1, <3>2, <3>4 DEF Coming
        <3> QED
            BY <1>3, <3>3, <3>4, <3>5, StillComes
    <2> QED
        BY <2>1, <2>2
<1> QED
    BY <1>1, <1>2, <1>3, WordPreserved DEF Coming

-----------------------------------------------------------------------------
(* The theorems.                                                           *)

LEMMA AlwaysWaking == SafeSpec => [](IInv /\ Waking)
    BY AlwaysIInv, WakingInitially, WakingPreserved, PTL DEF SafeSpec

LEMMA AlwaysEmptyHands == SafeSpec => [](IInv /\ EmptyHands)
    BY AlwaysIInv, EmptyHandsInitially, EmptyHandsPreserved, PTL DEF SafeSpec

LEMMA AlwaysComing == SafeSpec => [](IInv /\ Coming)
    BY AlwaysIInv, ComingInitially, ComingPreserved, PTL DEF SafeSpec

\* The subscriber puts a time_sync in the slot before it wakes the writer, the
\* writer empties the slot before it goes back to its select: in whatever order,
\* no writer waits beside a full slot with nobody about to wake it.
THEOREM NoLostWakeupHolds == SafeSpec => []NoLostWakeup
<1>1. Waking => NoLostWakeup
    BY DEF Waking
<1> QED
    BY <1>1, AlwaysWaking, PTL

\* An ordinary event that was accepted is not dropped: it stays in the queue,
\* aside or in hand until it is written, or its connection closes.
THEOREM HeldBidStaysHolds == SafeSpec => HeldBidStays
<1>1. ASSUME IInv, EmptyHands, [Next]_vars, NEW c \in Conns, NEW v \in Bids, Holds(c, v)
      PROVE  Holds(c, v)' \/ v \in conn'[c].shown
                           \/ conn'[c].at \in {"leaving", "closed"}
    BY <1>1, HeldStays DEF Holds, InQueue, HoldsIn, Queued
<1>2. IInv /\ EmptyHands /\ [Next]_vars
        => [\A c \in Conns, v \in Bids :
               Holds(c, v) => Holds(c, v)' \/ v \in conn'[c].shown
                                           \/ conn'[c].at \in {"leaving", "closed"}]_vars
    BY <1>1
<1> QED
    BY <1>2, AlwaysEmptyHands, PTL DEF SafeSpec, HeldBidStays

\* Whenever the snapshot is read, and however registration, dispatch and the
\* writer interleave: a client of the room that was shown an ongoing auction has
\* been shown its end once that is published, or the end is on its way to it.
THEOREM EndIsOnItsWayHolds == SafeSpec => []EndIsOnItsWay
<1>1. Coming => EndIsOnItsWay
    BY Zenon DEF Coming, EndIsOnItsWay, MaySee, EndComes, HasEnd
<1> QED
    BY <1>1, AlwaysComing, PTL
=============================================================================
