---------------------------- MODULE WsHubProofs -----------------------------
(***************************************************************************)
(* Theorems about WsHub, for any users, connections, capacities and number *)
(* of events.                                                              *)
(*                                                                         *)
(* Good says of one connection what its queues hold and what its writer is *)
(* at; Seats says how the room and the registrations under way share out   *)
(* the connections.  The first is disturbed by every step, but for one     *)
(* connection at a time; the second by three kinds of step only.           *)
(***************************************************************************)
EXTENDS WsHub, TLAPS, SequenceTheorems

-----------------------------------------------------------------------------
(* The inductive invariant.                                                *)

\* Every event but None, and those of each lane.
Made == [type: {"bid_success", "user_outbid", "auction_extended", "auction_ended",
                "auction_snapshot", "time_sync", "pong"},
         to: Users \cup {Room}, bid: Nat, status: Phases]
Of(lane) == {event \in Made : Lane(event) = lane}

Connection ==
    [at: {"new", "registering", "snapshot", "up", "leaving", "closed"},
     replaced: SUBSET Conns, snapshot: Of("high") \cup {None},
     high: Seq(Of("high")), send: Seq(Of("normal")), latest: Of("latest") \cup {None},
     notify: BOOLEAN, writing: Made \cup {None}, deferred: Of("normal") \cup {None},
     waits: BOOLEAN, behind: {0, 1}, seen: SUBSET Phases, shown: SUBSET Nat]

\* Once an ordinary event was written while an urgent one waited, the writer
\* is on its way to that one, or has it in hand.
Good(r) ==
    /\ r \in Connection
    /\ Len(r.high) <= HighCap /\ Len(r.send) <= SendCap
    /\ r.at = "snapshot" => r.snapshot # None
    /\ r.at = "new" => r.replaced = {}
    /\ r.writing # None => ~ r.waits
    /\ r.behind = 1 => \/ r.writing = None /\ r.high # <<>> /\ ~ r.waits
                       \/ r.writing # None /\ Lane(r.writing) = "high"

Seats ==
    /\ OneConnectionPerStream
    /\ \A c, d \in Conns : c \in conn[d].replaced => c \notin registered /\ conn[c].at # "new"

Rest ==
    /\ phase \in Phases /\ row \in Phases /\ ended \in BOOLEAN
    /\ made \in 0 .. MaxEvents
    /\ bus \in Seq(Made)
    /\ registered \subseteq Conns
    /\ sub \in [event: Made \cup {None}, to: SUBSET Conns, wakes: SUBSET Conns]
    /\ sub.to # {} => sub.event # None

GoodConns == conn \in [Conns -> Connection] /\ \A c \in Conns : Good(conn[c])

IInv == Rest /\ GoodConns /\ Seats

LEMMA NoneIsNotMade == None \notin Made /\ \A lane : None \notin Of(lane)
    BY DEF None, Event, Made, Of

LEMMA Lanes ==
    /\ \A event \in Made : Lane(event) \in {"high", "normal", "latest"}
                           /\ event \in Of(Lane(event))
    /\ \A lane : Of(lane) \subseteq Made
    BY DEF Lane, Of

LEMMA TypesFollow == Rest /\ GoodConns => TypeOK
<1> SUFFICES ASSUME Rest, GoodConns PROVE TypeOK
    OBVIOUS
<1>1. ASSUME NEW c \in Conns
      PROVE  /\ conn[c].at \in {"new", "registering", "snapshot", "up", "leaving", "closed"}
             /\ conn[c].replaced \subseteq Conns
             /\ Len(conn[c].high) <= HighCap /\ Len(conn[c].send) <= SendCap
             /\ conn[c].deferred # None => Lane(conn[c].deferred) = "normal"
             /\ conn[c].latest # None => Lane(conn[c].latest) = "latest"
    <2>1. conn[c] \in Connection /\ Good(conn[c])
        BY DEF GoodConns
    <2>2. conn[c].deferred \in Of("normal") \cup {None} /\ conn[c].latest \in Of("latest") \cup {None}
        BY <2>1 DEF Connection
    <2>3. /\ conn[c].at \in {"new", "registering", "snapshot", "up", "leaving", "closed"}
          /\ conn[c].replaced \subseteq Conns
        BY <2>1 DEF Connection
    <2> QED
        BY <2>1, <2>2, <2>3 DEF Good, Of
<1>2. sub.to \subseteq Conns
    BY DEF Rest
<1> QED
    BY <1>1, <1>2 DEF TypeOK, Rest

-----------------------------------------------------------------------------
(* The connections.                                                        *)

LEMMA NewIsGood == New \in Connection /\ Good(New)
<1>1. <<>> \in Seq(Of("high")) /\ <<>> \in Seq(Of("normal")) /\ Len(<<>>) = 0
    BY EmptySeq
<1>2. New \in Connection
    BY <1>1 DEF New, Connection
<1> QED
    BY <1>1, <1>2, BoundsAssumption DEF Good, New

LEMMA GivenUpIsGood ==
    ASSUME GoodConns, NEW c \in Conns, NEW at \in {"leaving", "closed"}
    PROVE  Good(GivenUp(c, at))
<1>1. conn[c].replaced \subseteq Conns
    BY DEF GoodConns, Connection
<1>2. GivenUp(c, at) \in Connection
    BY <1>1, NewIsGood DEF GivenUp, New, Connection
<1> QED
    BY <1>2, NewIsGood DEF GivenUp, Good, New

\* One connection changes.
LEMMA OneChanges ==
    ASSUME GoodConns, NEW c \in Conns, NEW r, Good(r), Becomes(c, r)
    PROVE  GoodConns'
<1>1. conn' = [conn EXCEPT ![c] = r] /\ conn' \in [Conns -> Connection]
    BY DEF Becomes, GoodConns, Good
<1>2. ASSUME NEW d \in Conns PROVE Good(conn'[d])
    BY <1>1 DEF GoodConns
<1> QED
    BY <1>1, <1>2 DEF GoodConns

LEMMA LeavesGood ==
    ASSUME GoodConns, NEW c \in Conns, Leaves(c)
    PROVE  GoodConns'
<1>1. PICK at \in {"leaving", "closed"} : Becomes(c, GivenUp(c, at))
    BY DEF Leaves
<1> QED
    BY <1>1, GivenUpIsGood, OneChanges

\* An event that fits is queued.
LEMMA QueuesGood ==
    ASSUME GoodConns, NEW c \in Conns, NEW event \in Made,
           NEW then \in {"new", "registering", "snapshot", "up", "leaving", "closed"},
           then \in {conn[c].at, "up"}, Queues(c, event, then)
    PROVE  GoodConns'
<1>0. conn[c] \in Connection /\ Good(conn[c])
    BY DEF GoodConns
<1>1. CASE Leaves(c)
    BY <1>1, LeavesGood
<1>2. CASE /\ Lane(event) = "high" /\ Fits(conn[c].high, HighCap)
           /\ Becomes(c, [conn[c] EXCEPT !.high = Append(@, event), !.at = then])
    <2> DEFINE q == Append(conn[c].high, event)
               r == [conn[c] EXCEPT !.high = q, !.at = then]
    <2>1. event \in Of("high") /\ conn[c].high \in Seq(Of("high"))
        BY <1>0, <1>2, Lanes DEF Connection
    <2>2. q \in Seq(Of("high")) /\ Len(q) = Len(conn[c].high) + 1 /\ q # <<>>
        BY <2>1, AppendProperties
    <2>3. Len(conn[c].high) \in Nat
        BY <2>1, LenProperties
    <2>4. Len(q) <= HighCap
        BY <1>2, <2>2, <2>3, BoundsAssumption DEF Fits
    <2>5. r \in Connection
        BY <1>0, <2>2 DEF Connection
    <2>6. r.high = q /\ r.send = conn[c].send /\ r.writing = conn[c].writing
          /\ r.waits = conn[c].waits /\ r.behind = conn[c].behind
          /\ r.replaced = conn[c].replaced /\ r.snapshot = conn[c].snapshot /\ r.at = then
        BY <1>0 DEF Connection
    <2>7. Good(r)
        BY <1>0, <2>2, <2>4, <2>5, <2>6 DEF Good
    <2> QED
        BY <1>2, <2>7, OneChanges
<1>3. CASE /\ Lane(event) = "normal" /\ Fits(conn[c].send, SendCap)
           /\ Becomes(c, [conn[c] EXCEPT !.send = Append(@, event), !.at = then])
    <2> DEFINE q == Append(conn[c].send, event)
               r == [conn[c] EXCEPT !.send = q, !.at = then]
    <2>1. event \in Of("normal") /\ conn[c].send \in Seq(Of("normal"))
        BY <1>0, <1>3, Lanes DEF Connection
    <2>2. q \in Seq(Of("normal")) /\ Len(q) = Len(conn[c].send) + 1
        BY <2>1, AppendProperties
    <2>3. Len(conn[c].send) \in Nat
        BY <2>1, LenProperties
    <2>4. Len(q) <= SendCap
        BY <1>3, <2>2, <2>3, BoundsAssumption DEF Fits
    <2>5. r \in Connection
        BY <1>0, <2>2 DEF Connection
    <2>6. r.high = conn[c].high /\ r.send = q /\ r.writing = conn[c].writing
          /\ r.waits = conn[c].waits /\ r.behind = conn[c].behind
          /\ r.replaced = conn[c].replaced /\ r.snapshot = conn[c].snapshot /\ r.at = then
        BY <1>0 DEF Connection
    <2>7. Good(r)
        BY <1>0, <2>2, <2>4, <2>5, <2>6 DEF Good
    <2> QED
        BY <1>3, <2>7, OneChanges
<1> QED
    BY <1>1, <1>2, <1>3 DEF Queues

\* The parts of a good connection, to be cited for a changed one.
LEMMA GoodParts ==
    ASSUME GoodConns, NEW c \in Conns
    PROVE  /\ conn[c] \in Connection
           /\ conn[c].high \in Seq(Of("high")) /\ conn[c].send \in Seq(Of("normal"))
           /\ Len(conn[c].high) \in Nat /\ Len(conn[c].high) <= HighCap
           /\ Len(conn[c].send) \in Nat /\ Len(conn[c].send) <= SendCap
           /\ conn[c].at = "snapshot" => conn[c].snapshot # None
           /\ conn[c].at = "new" => conn[c].replaced = {}
           /\ conn[c].writing # None => ~ conn[c].waits
           /\ conn[c].behind = 1 => \/ conn[c].writing = None /\ conn[c].high # <<>> /\ ~ conn[c].waits
                                    \/ conn[c].writing # None /\ Lane(conn[c].writing) = "high"
<1>1. conn[c] \in Connection /\ Good(conn[c])
    BY DEF GoodConns
<1>2. conn[c].high \in Seq(Of("high")) /\ conn[c].send \in Seq(Of("normal"))
    BY <1>1 DEF Connection
<1> QED
    BY <1>1, <1>2, LenProperties DEF Good

\* Taking the first event of a queue.
LEMMA Takes ==
    ASSUME NEW S, NEW q \in Seq(S), q # <<>>
    PROVE  Head(q) \in S /\ Tail(q) \in Seq(S) /\ Len(Tail(q)) = Len(q) - 1 /\ Len(q) \in Nat
    BY HeadTailProperties, LenProperties

LEMMA LooksGood ==
    ASSUME GoodConns, NEW c \in Conns, Runs(c), ~ conn[c].waits
    PROVE  Good(Looks(c))
<1>0. /\ conn[c] \in Connection
      /\ conn[c].at = "up" /\ conn[c].writing = None
    BY GoodParts DEF Runs
<1>1. CASE conn[c].high # <<>>
    <2> DEFINE r == [conn[c] EXCEPT !.high = Tail(conn[c].high), !.writing = Head(conn[c].high)]
    <2>1. /\ Head(conn[c].high) \in Of("high") /\ Tail(conn[c].high) \in Seq(Of("high"))
          /\ Len(Tail(conn[c].high)) = Len(conn[c].high) - 1 /\ Len(conn[c].high) \in Nat
        BY <1>1, GoodParts, Takes
    <2>2. Head(conn[c].high) \in Made /\ Head(conn[c].high) # None
          /\ Lane(Head(conn[c].high)) = "high"
        BY <2>1, Lanes, NoneIsNotMade DEF Of
    <2>3. Looks(c) = r
        BY <1>1 DEF Looks
    <2>4. r \in Connection
        BY <1>0, <2>1, <2>2 DEF Connection
    <2>5. /\ r.high = Tail(conn[c].high) /\ r.writing = Head(conn[c].high) /\ r.send = conn[c].send
          /\ r.at = "up"
        BY <1>0 DEF Connection
    <2> QED
        BY <2>1, <2>2, <2>3, <2>4, <2>5, GoodParts, BoundsAssumption DEF Good
<1>2. CASE conn[c].high = <<>> /\ conn[c].latest # None
    <2> DEFINE r == [conn[c] EXCEPT !.latest = None, !.writing = conn[c].latest]
    <2>1. conn[c].latest \in Made
        BY <1>0, <1>2, Lanes DEF Connection
    <2>2. Looks(c) = r
        BY <1>2 DEF Looks
    <2>3. r \in Connection
        BY <1>0, <2>1 DEF Connection
    <2>4. r.high = conn[c].high /\ r.send = conn[c].send /\ r.at = "up" /\ r.behind = conn[c].behind
        BY <1>0 DEF Connection
    <2> QED
        BY <1>0, <1>2, <2>2, <2>3, <2>4, GoodParts DEF Good
<1>3. CASE conn[c].high = <<>> /\ conn[c].latest = None /\ conn[c].deferred # None
    <2> DEFINE r == [conn[c] EXCEPT !.deferred = None, !.writing = conn[c].deferred]
    <2>1. conn[c].deferred \in Made
        BY <1>0, <1>3, Lanes DEF Connection
    <2>2. Looks(c) = r
        BY <1>3 DEF Looks
    <2>3. r \in Connection
        BY <1>0, <2>1 DEF Connection
    <2>4. r.high = conn[c].high /\ r.send = conn[c].send /\ r.at = "up" /\ r.behind = conn[c].behind
        BY <1>0 DEF Connection
    <2> QED
        BY <1>0, <1>3, <2>2, <2>3, <2>4, GoodParts DEF Good
<1>4. CASE conn[c].high = <<>> /\ conn[c].latest = None /\ conn[c].deferred = None
    <2> DEFINE r == [conn[c] EXCEPT !.waits = TRUE]
    <2>1. Looks(c) = r
        BY <1>4 DEF Looks
    <2>2. r \in Connection
        BY <1>0 DEF Connection
    <2>3. r.high = conn[c].high /\ r.send = conn[c].send /\ r.at = "up" /\ r.behind = conn[c].behind
        BY <1>0 DEF Connection
    <2> QED
        BY <1>0, <1>4, <2>1, <2>2, <2>3, GoodParts DEF Good
<1> QED
    BY <1>1, <1>2, <1>3, <1>4

LEMMA SelectsGood ==
    ASSUME GoodConns, NEW c \in Conns, WriterSelects(c)
    PROVE  GoodConns'
<1>0. /\ conn[c] \in Connection
      /\ conn[c].at = "up" /\ conn[c].writing = None /\ conn[c].waits /\ conn[c].behind # 1
    BY GoodParts DEF WriterSelects, Runs
<1>1. ASSUME conn[c].high # <<>>,
             Becomes(c, [conn[c] EXCEPT !.high = Tail(@), !.waits = FALSE,
                                        !.writing = Head(conn[c].high)])
      PROVE  GoodConns'
    <2> DEFINE r == [conn[c] EXCEPT !.high = Tail(conn[c].high), !.waits = FALSE,
                                    !.writing = Head(conn[c].high)]
    <2>1. /\ Head(conn[c].high) \in Of("high") /\ Tail(conn[c].high) \in Seq(Of("high"))
          /\ Len(Tail(conn[c].high)) = Len(conn[c].high) - 1 /\ Len(conn[c].high) \in Nat
        BY <1>1, GoodParts, Takes
    <2>2. Head(conn[c].high) \in Made
        BY <2>1, Lanes
    <2>3. r \in Connection
        BY <1>0, <2>1, <2>2 DEF Connection
    <2>4. r.high = Tail(conn[c].high) /\ r.send = conn[c].send /\ r.at = "up" /\ r.behind # 1
        BY <1>0 DEF Connection
    <2>5. Good(r)
        BY <2>1, <2>3, <2>4, GoodParts, BoundsAssumption DEF Good
    <2> QED
        BY <1>1, <2>5, OneChanges
<1>2. ASSUME Becomes(c, [conn[c] EXCEPT !.notify = FALSE, !.waits = FALSE])
      PROVE  GoodConns'
    <2> DEFINE r == [conn[c] EXCEPT !.notify = FALSE, !.waits = FALSE]
    <2>1. r \in Connection
        BY <1>0 DEF Connection
    <2>2. r.high = conn[c].high /\ r.send = conn[c].send /\ r.at = "up" /\ r.behind # 1
        BY <1>0 DEF Connection
    <2>3. Good(r)
        BY <2>1, <2>2, GoodParts DEF Good
    <2> QED
        BY <1>2, <2>3, OneChanges
<1>3. ASSUME conn[c].send # <<>>, Becomes(c, Defers(c))
      PROVE  GoodConns'
    <2> DEFINE r == [conn[c] EXCEPT !.send = Tail(conn[c].send), !.waits = FALSE,
                                    !.deferred = Head(conn[c].send)]
    <2>1. /\ Head(conn[c].send) \in Of("normal") /\ Tail(conn[c].send) \in Seq(Of("normal"))
          /\ Len(Tail(conn[c].send)) = Len(conn[c].send) - 1 /\ Len(conn[c].send) \in Nat
        BY <1>3, GoodParts, Takes
    <2>2. r \in Connection
        BY <1>0, <2>1 DEF Connection
    <2>3. r.high = conn[c].high /\ r.send = Tail(conn[c].send) /\ r.at = "up" /\ r.behind # 1
        BY <1>0 DEF Connection
    <2>4. Good(r)
        BY <2>1, <2>2, <2>3, GoodParts, BoundsAssumption DEF Good
    <2> QED
        BY <1>3, <2>4, OneChanges DEF Defers
<1> QED
    BY <1>1, <1>2, <1>3 DEF WriterSelects

\* An ordinary event is in hand only while none has been written before one
\* that is waiting, so at most one ever is.
LEMMA WritesGood ==
    ASSUME GoodConns, NEW c \in Conns, Writes(c)
    PROVE  GoodConns'
<1> DEFINE event == conn[c].writing
           behind == IF Lane(event) = "normal" /\ conn[c].high # <<>> THEN conn[c].behind + 1
                     ELSE IF Lane(event) = "normal" THEN conn[c].behind ELSE 0
           seen == IF event.type \in {"auction_snapshot", "auction_ended"}
                      THEN conn[c].seen \cup {event.status} ELSE conn[c].seen
           shown == conn[c].shown \cup {event.bid}
           r == [conn[c] EXCEPT !.writing = None, !.behind = behind, !.seen = seen,
                                !.shown = shown]
<1>0. conn[c] \in Connection /\ event # None /\ event \in Made /\ conn[c].at = "up"
    BY GoodParts DEF Writes, Connection
<1>1. Becomes(c, r)
    BY DEF Writes
<1>2. Lane(event) = "normal" => conn[c].behind = 0
    BY <1>0, GoodParts DEF Connection
<1>3. behind \in {0, 1} /\ (behind = 1 => conn[c].high # <<>> /\ Lane(event) = "normal")
    BY <1>2
<1>4. seen \in SUBSET Phases /\ shown \in SUBSET Nat
    <2>1. event.status \in Phases /\ event.bid \in Nat
        BY <1>0 DEF Made
    <2> QED
        BY <1>0, <2>1 DEF Connection
<1>5. r \in Connection
    BY <1>0, <1>3, <1>4 DEF Connection
<1>6. r.high = conn[c].high /\ r.send = conn[c].send /\ r.at = "up" /\ r.behind = behind
      /\ r.writing = None /\ r.waits = conn[c].waits
    BY <1>0 DEF Connection
<1>7. ~ conn[c].waits
    BY <1>0, GoodParts
<1>8. Good(r)
    BY <1>3, <1>5, <1>6, <1>7, GoodParts DEF Good
<1> QED
    BY <1>1, <1>8, OneChanges

LEMMA ConnsPreserved == IInv /\ [Next]_vars => GoodConns'
<1> SUFFICES ASSUME IInv, [Next]_vars PROVE GoodConns'
    OBVIOUS
<1>0. GoodConns /\ Rest /\ Seats
    BY DEF IInv
<1>1. ASSUME UNCHANGED conn PROVE GoodConns'
    BY <1>0, <1>1 DEF GoodConns
<1>2. CASE Publishes \/ Settles \/ SavesEnd \/ PublishesEnd \/ Dispatches \/ UNCHANGED vars
    BY <1>1, <1>2 DEF Publishes, Settles, SavesEnd, PublishesEnd, Dispatches, vars
<1>3. ASSUME NEW c \in Conns, c \in sub.to
      PROVE  sub.event \in Made
    BY <1>0, <1>3 DEF Rest
<1>4. ASSUME NEW c \in Conns, Delivers(c)
      PROVE  GoodConns'
    <2>1. conn[c].at \in {"new", "registering", "snapshot", "up", "leaving", "closed"}
        BY <1>0, GoodParts DEF Connection
    <2> QED
        BY <1>0, <1>3, <1>4, <2>1, QueuesGood DEF Delivers
<1>5. ASSUME NEW c \in Conns, Leaves(c) \/ Closes(c)
      PROVE  GoodConns'
    <2>1. CASE Closes(c)
        BY <1>0, <2>1, GivenUpIsGood, OneChanges DEF Closes, Closed
    <2> QED
        BY <1>0, <1>5, <2>1, LeavesGood
<1>6. ASSUME NEW c \in Conns, EnqueuesTimeSync(c)
      PROVE  GoodConns'
    <2> DEFINE r == [conn[c] EXCEPT !.latest = sub.event]
               q == [conn[c] EXCEPT !.notify = TRUE]
    <2>1. sub.event \in Of("latest")
        BY <1>3, <1>6, Lanes DEF EnqueuesTimeSync
    <2>2. conn[c] \in Connection
        BY <1>0, GoodParts
    <2>3. r \in Connection /\ q \in Connection
        BY <2>1, <2>2 DEF Connection
    <2>4. /\ r.at = conn[c].at /\ r.replaced = conn[c].replaced /\ r.snapshot = conn[c].snapshot
          /\ r.high = conn[c].high /\ r.send = conn[c].send /\ r.writing = conn[c].writing
          /\ r.waits = conn[c].waits /\ r.behind = conn[c].behind
        BY <2>2 DEF Connection
    <2>5. /\ q.at = conn[c].at /\ q.replaced = conn[c].replaced /\ q.snapshot = conn[c].snapshot
          /\ q.high = conn[c].high /\ q.send = conn[c].send /\ q.writing = conn[c].writing
          /\ q.waits = conn[c].waits /\ q.behind = conn[c].behind
        BY <2>2 DEF Connection
    <2>6. Good(r) /\ Good(q)
        BY <1>0, <2>3, <2>4, <2>5, GoodParts DEF Good
    <2> QED
        BY <1>0, <1>6, <2>6, OneChanges DEF EnqueuesTimeSync
<1>7. ASSUME NEW c \in Conns, Registers(c)
      PROVE  GoodConns'
    <2> DEFINE old == {d \in registered : UserOf[d] = UserOf[c] /\ StreamOf[d] = StreamOf[c]}
               r == [conn[c] EXCEPT !.at = "registering", !.replaced = old]
    <2>1. conn[c] \in Connection /\ old \subseteq Conns
        BY <1>0, GoodParts DEF Rest
    <2>2. r \in Connection
        BY <2>1 DEF Connection
    <2>3. /\ r.at = "registering" /\ r.high = conn[c].high /\ r.send = conn[c].send
          /\ r.writing = conn[c].writing /\ r.waits = conn[c].waits /\ r.behind = conn[c].behind
        BY <2>1 DEF Connection
    <2>4. Good(r)
        BY <1>0, <2>2, <2>3, GoodParts DEF Good
    <2> QED
        BY <1>0, <1>7, <2>4, OneChanges DEF Registers
<1>8. ASSUME NEW c \in Conns, ClosesReplaced(c)
      PROVE  GoodConns'
    <2>1. PICK d \in conn[c].replaced :
              conn' = [conn EXCEPT ![c].replaced = @ \ {d}, ![d] = Closed(d)]
        BY <1>8 DEF ClosesReplaced
    <2>2. conn[c] \in Connection /\ d \in Conns
        BY <1>0, GoodParts DEF Connection
    <2> DEFINE r == [conn[c] EXCEPT !.replaced = @ \ {d}]
    <2>3. r \in Connection
        BY <2>2 DEF Connection
    <2>4. /\ r.at = conn[c].at /\ r.replaced = conn[c].replaced \ {d}
          /\ r.snapshot = conn[c].snapshot
          /\ r.high = conn[c].high /\ r.send = conn[c].send /\ r.writing = conn[c].writing
          /\ r.waits = conn[c].waits /\ r.behind = conn[c].behind
        BY <2>2 DEF Connection
    <2>5. Good(r) /\ Good(Closed(d)) /\ Closed(d) \in Connection
        BY <1>0, <2>2, <2>3, <2>4, GoodParts, GivenUpIsGood DEF Good, Closed
    <2>6. conn' = [[conn EXCEPT ![c] = r] EXCEPT ![d] = Closed(d)]
        BY <2>1
    <2>7. conn' \in [Conns -> Connection]
        BY <1>0, <2>2, <2>3, <2>5, <2>6 DEF GoodConns
    <2>8. ASSUME NEW e \in Conns PROVE Good(conn'[e])
        BY <1>0, <2>2, <2>5, <2>6 DEF GoodConns
    <2> QED
        BY <2>7, <2>8 DEF GoodConns
<1>9. ASSUME NEW c \in Conns, ReadsSnapshot(c)
      PROVE  GoodConns'
    <2>0. PICK status \in {phase, row} :
              \/ Becomes(c, [conn[c] EXCEPT !.at = "snapshot", !.snapshot = Snapshot(status)])
              \/ Becomes(c, [conn[c] EXCEPT !.at = "up"])
        BY <1>9 DEF ReadsSnapshot
    <2> DEFINE r == [conn[c] EXCEPT !.at = "snapshot", !.snapshot = Snapshot(status)]
               q == [conn[c] EXCEPT !.at = "up"]
    <2>1. conn[c] \in Connection
        BY <1>0, GoodParts
    <2>2. Snapshot(status) \in Of("high") /\ Snapshot(status) # None
        BY <1>0 DEF Snapshot, Event, Of, Made, Lane, None, Rest
    <2>3. r \in Connection /\ q \in Connection
        BY <2>1, <2>2 DEF Connection
    <2>4. /\ r.at = "snapshot" /\ r.snapshot = Snapshot(status)
          /\ r.high = conn[c].high /\ r.send = conn[c].send /\ r.writing = conn[c].writing
          /\ r.waits = conn[c].waits /\ r.behind = conn[c].behind
        BY <2>1 DEF Connection
    <2>5. /\ q.at = "up"
          /\ q.high = conn[c].high /\ q.send = conn[c].send /\ q.writing = conn[c].writing
          /\ q.waits = conn[c].waits /\ q.behind = conn[c].behind
        BY <2>1 DEF Connection
    <2>6. Good(r) /\ Good(q)
        BY <1>0, <2>2, <2>3, <2>4, <2>5, GoodParts DEF Good
    <2> QED
        BY <1>0, <2>0, <2>6, OneChanges
<1>10. ASSUME NEW c \in Conns, DeliversSnapshot(c)
       PROVE  GoodConns'
    <2>1. conn[c].snapshot \in Made
        BY <1>0, <1>10, GoodParts, Lanes DEF DeliversSnapshot, Connection
    <2> QED
        BY <1>0, <1>10, <2>1, QueuesGood DEF DeliversSnapshot
<1>11. ASSUME NEW c \in Conns, WriterStep(c)
       PROVE  GoodConns'
    <2>1. CASE WriterLooks(c)
        BY <1>0, <2>1, LooksGood, OneChanges DEF WriterLooks
    <2> QED
        BY <1>0, <1>11, <2>1, SelectsGood, WritesGood DEF WriterStep
<1>12. ASSUME NEW c \in Conns, Pings(c)
       PROVE  GoodConns'
    <2>1. CASE UNCHANGED conn
        BY <2>1, <1>1
    <2>2. CASE /\ Fits(conn[c].send, SendCap)
               /\ Becomes(c, [conn[c] EXCEPT !.send = Append(@, Pong)])
        <3>1. conn[c] \in Connection
            BY <1>0, GoodParts
        <3>2. Pong \in Made /\ Lane(Pong) = "normal"
            BY DEF Pong, Event, Made, Lane, Phases
        <3>3. [conn[c] EXCEPT !.send = Append(@, Pong)]
                  = [conn[c] EXCEPT !.send = Append(@, Pong), !.at = conn[c].at]
            BY <3>1 DEF Connection
        <3>4. Queues(c, Pong, conn[c].at) /\ conn[c].at = "up"
            <4>1. conn[c].at = "up"
                BY <1>12 DEF Pings
            <4>2. registered' = registered
                BY <1>12 DEF Pings
            <4> QED
                BY <2>2, <3>2, <3>3, <4>1, <4>2 DEF Queues, Serves
        <3> QED
            BY <1>0, <3>2, <3>4, QueuesGood
    <2> QED
        BY <1>12, <2>1, <2>2 DEF Pings
<1> QED
    BY <1>2, <1>4, <1>5, <1>6, <1>7, <1>8, <1>9, <1>10, <1>11, <1>12
       DEF Next, SubscriberStep, DropsTimeSync, RegisterStep, HangsUp

-----------------------------------------------------------------------------
(* The rest of the state.                                                  *)

LEMMA RestPreserved == IInv /\ [Next]_vars => Rest'
<1> SUFFICES ASSUME IInv, [Next]_vars PROVE Rest'
    OBVIOUS
<1>0. Rest /\ GoodConns
    BY DEF IInv
<1> DEFINE Sub == [event: Made \cup {None}, to: SUBSET Conns, wakes: SUBSET Conns]
<1>1. NoDispatch \in Sub /\ NoDispatch.to = {}
    BY DEF NoDispatch
<1>2. ASSUME NEW event \in Made, Receives(event) PROVE bus' \in Seq(Made)
    BY <1>0, <1>2, AppendProperties DEF Receives, Rest
<1>3. CASE Publishes
    <2>1. made' \in 0 .. MaxEvents /\ made' \in Nat
        BY <1>0, <1>3, BoundsAssumption DEF Publishes, Makes, Rest
    <2>2. /\ BidSuccess(made') \in Made /\ TimeSync \in Made
          /\ \A notice \in Notices : notice \in Made
        BY <2>1 DEF BidSuccess, TimeSync, Notices, Outbid, Extended, Event, Made, Phases
    <2>3. bus' \in Seq(Made)
        BY <1>2, <1>3, <2>2 DEF Publishes
    <2> QED
        BY <1>0, <1>3, <2>1, <2>3 DEF Publishes, Rest
<1>4. CASE Settles \/ SavesEnd
    BY <1>0, <1>4 DEF Settles, SavesEnd, Rest, Phases
<1>5. CASE PublishesEnd
    <2>1. Ended \in Made
        BY DEF Ended, Event, Made, Phases
    <2>2. made' \in 0 .. MaxEvents
        BY <1>0, <1>5, BoundsAssumption DEF PublishesEnd, Makes, Rest
    <2> QED
        BY <1>0, <1>2, <1>5, <2>1, <2>2 DEF PublishesEnd, Rest
<1>6. CASE Dispatches
    <2>1. Head(bus) \in Made /\ bus' \in Seq(Made)
        BY <1>0, <1>6, Takes DEF Dispatches, Rest
    <2>2. Recipients(Head(bus)) \subseteq Conns /\ Head(bus) # None
        BY <1>0, <2>1, NoneIsNotMade DEF Recipients, Rest
    <2>3. sub' \in Sub /\ (sub'.to # {} => sub'.event # None)
        BY <1>1, <1>6, <2>1, <2>2 DEF Dispatches
    <2> QED
        BY <1>0, <1>6, <2>1, <2>3 DEF Dispatches, feedVars, Rest
<1>7. ASSUME NEW c \in Conns, c \in sub.to, Served(c)
      PROVE  sub' \in Sub /\ (sub'.to # {} => sub'.event # None)
    BY <1>0, <1>1, <1>7 DEF Served, Rest
<1>8. ASSUME NEW c \in Conns, NEW event, NEW then, Queues(c, event, then)
      PROVE  registered' \subseteq Conns
    BY <1>0, <1>8 DEF Queues, Leaves, Rest
<1>9. ASSUME NEW c \in Conns, Delivers(c)
      PROVE  Rest'
    BY <1>0, <1>7, <1>8, <1>9 DEF Delivers, feedVars, Rest
<1>10. ASSUME NEW c \in Conns, DropsTimeSync(c)
       PROVE  Rest'
    BY <1>0, <1>7, <1>10 DEF DropsTimeSync, Leaves, feedVars, Rest
<1>11. ASSUME NEW c \in Conns, EnqueuesTimeSync(c)
       PROVE  Rest'
    <2>1. CASE sub' = [sub EXCEPT !.wakes = {c}]
        BY <1>0, <1>11, <2>1 DEF EnqueuesTimeSync, feedVars, Rest
    <2>2. CASE Served(c)
        BY <1>0, <1>7, <1>11, <2>2 DEF EnqueuesTimeSync, feedVars, Rest
    <2> QED
        BY <1>11, <2>1, <2>2 DEF EnqueuesTimeSync
<1>12. ASSUME NEW c \in Conns, Registers(c)
       PROVE  Rest'
    BY <1>0, <1>12 DEF Registers, feedVars, Rest
<1>13. ASSUME NEW c \in Conns,
              Closes(c) \/ ClosesReplaced(c) \/ ReadsSnapshot(c) \/ WriterStep(c)
       PROVE  Rest'
    BY <1>0, <1>13 DEF Closes, ClosesReplaced, ReadsSnapshot, WriterStep, WriterLooks, WriterSelects,
                       Writes, feedVars, Rest
<1>14. ASSUME NEW c \in Conns, DeliversSnapshot(c)
       PROVE  Rest'
    BY <1>0, <1>8, <1>14 DEF DeliversSnapshot, feedVars, Rest
<1>15. ASSUME NEW c \in Conns, HangsUp(c)
       PROVE  Rest'
    BY <1>0, <1>15 DEF HangsUp, Leaves, feedVars, Rest
<1>16. ASSUME NEW c \in Conns, Pings(c)
       PROVE  Rest'
    BY <1>0, <1>16, BoundsAssumption DEF Pings, Makes, Rest
<1>17. CASE UNCHANGED vars
    BY <1>0, <1>17 DEF vars, feedVars, Rest
<1> QED
    BY <1>3, <1>4, <1>5, <1>6, <1>9, <1>10, <1>11, <1>12, <1>13, <1>14, <1>15, <1>16, <1>17
       DEF Next, SubscriberStep, RegisterStep

-----------------------------------------------------------------------------
(* The seats in the room.                                                  *)

Serving == {"registering", "snapshot", "up"}

\* A step that leaves the room, the registrations and whether a connection
\* serves as they are.
Quiet ==
    /\ registered' = registered
    /\ \A c \in Conns : /\ conn'[c].replaced = conn[c].replaced
                        /\ \/ conn'[c].at = conn[c].at
                           \/ conn'[c].at \in Serving /\ conn[c].at \in Serving

LEMMA QuietChange ==
    ASSUME GoodConns, NEW c \in Conns, NEW r, Becomes(c, r), registered' = registered,
           r.replaced = conn[c].replaced,
           r.at = conn[c].at \/ (r.at \in Serving /\ conn[c].at \in Serving)
    PROVE  Quiet
    BY DEF Becomes, Quiet, GoodConns

LEMMA QueuesKinds ==
    ASSUME GoodConns, NEW c \in Conns, NEW event, NEW then, Queues(c, event, then),
           then = conn[c].at \/ (then = "up" /\ conn[c].at = "snapshot")
    PROVE  Leaves(c) \/ Quiet
<1>1. conn[c] \in Connection
    BY GoodParts
<1>2. \A q : LET r == [conn[c] EXCEPT !.high = q, !.at = then]
             IN  r.replaced = conn[c].replaced /\ r.at = then
    BY <1>1 DEF Connection
<1>3. \A q : LET r == [conn[c] EXCEPT !.send = q, !.at = then]
             IN  r.replaced = conn[c].replaced /\ r.at = then
    BY <1>1 DEF Connection
<1> QED
    BY <1>2, <1>3, QuietChange DEF Queues, Serving

LEMMA StepKinds ==
    ASSUME IInv, [Next]_vars
    PROVE  Quiet \/ \E c \in Conns : Leaves(c) \/ Closes(c) \/ Registers(c) \/ ClosesReplaced(c)
<1>0. GoodConns
    BY DEF IInv
<1>1. ASSUME UNCHANGED <<conn, registered>> PROVE Quiet
    BY <1>1 DEF Quiet
<1>2. CASE Publishes \/ Settles \/ SavesEnd \/ PublishesEnd \/ Dispatches \/ UNCHANGED vars
    BY <1>1, <1>2 DEF Publishes, Settles, SavesEnd, PublishesEnd, Dispatches, vars
<1>3. ASSUME NEW c \in Conns, Delivers(c)
      PROVE  Quiet \/ Leaves(c)
    BY <1>0, <1>3, QueuesKinds DEF Delivers
<1>4. ASSUME NEW c \in Conns, DeliversSnapshot(c)
      PROVE  Quiet \/ Leaves(c)
    BY <1>0, <1>4, QueuesKinds DEF DeliversSnapshot
<1>5. ASSUME NEW c \in Conns, DropsTimeSync(c) \/ HangsUp(c)
      PROVE  Leaves(c)
    BY <1>5 DEF DropsTimeSync, HangsUp
<1>6. ASSUME NEW c \in Conns, EnqueuesTimeSync(c)
      PROVE  Quiet
    <2>1. conn[c] \in Connection
        BY <1>0, GoodParts
    <2>2. PICK r : /\ Becomes(c, r)
                   /\ r \in {[conn[c] EXCEPT !.latest = sub.event], [conn[c] EXCEPT !.notify = TRUE]}
        BY <1>6 DEF EnqueuesTimeSync
    <2>3. r.replaced = conn[c].replaced /\ r.at = conn[c].at
        BY <2>1, <2>2 DEF Connection
    <2> QED
        BY <1>0, <1>6, <2>2, <2>3, QuietChange DEF EnqueuesTimeSync
<1>7. ASSUME NEW c \in Conns, ReadsSnapshot(c)
      PROVE  Quiet
    <2>1. conn[c] \in Connection /\ conn[c].at = "registering"
        BY <1>0, <1>7, GoodParts DEF ReadsSnapshot
    <2>2. PICK status, r :
              /\ Becomes(c, r)
              /\ r \in {[conn[c] EXCEPT !.at = "snapshot", !.snapshot = Snapshot(status)],
                        [conn[c] EXCEPT !.at = "up"]}
        BY <1>7 DEF ReadsSnapshot
    <2>3. r.replaced = conn[c].replaced /\ r.at \in {"snapshot", "up"}
        BY <2>1, <2>2 DEF Connection
    <2> QED
        BY <1>0, <1>7, <2>1, <2>2, <2>3, QuietChange DEF ReadsSnapshot, Serving
<1>8. ASSUME NEW c \in Conns, WriterLooks(c)
      PROVE  Quiet
    <2>1. conn[c] \in Connection
        BY <1>0, GoodParts
    <2>2. Looks(c).replaced = conn[c].replaced /\ Looks(c).at = conn[c].at
        BY <2>1 DEF Looks, Connection
    <2> QED
        BY <1>0, <1>8, <2>2, QuietChange DEF WriterLooks
<1>9. ASSUME NEW c \in Conns, WriterSelects(c)
      PROVE  Quiet
    <2>1. conn[c] \in Connection
        BY <1>0, GoodParts
    <2>2. PICK r : /\ Becomes(c, r)
                   /\ r \in {[conn[c] EXCEPT !.high = Tail(@), !.waits = FALSE,
                                             !.writing = Head(conn[c].high)],
                             [conn[c] EXCEPT !.notify = FALSE, !.waits = FALSE], Defers(c)}
        BY <1>9 DEF WriterSelects
    <2>3. r.replaced = conn[c].replaced /\ r.at = conn[c].at
        BY <2>1, <2>2 DEF Connection, Defers
    <2> QED
        BY <1>0, <1>9, <2>2, <2>3, QuietChange DEF WriterSelects
<1>10. ASSUME NEW c \in Conns, Writes(c)
       PROVE  Quiet
    <2>1. conn[c] \in Connection
        BY <1>0, GoodParts
    <2>2. PICK b, s, v :
              Becomes(c, [conn[c] EXCEPT !.writing = None, !.behind = b, !.seen = s, !.shown = v])
        BY <1>10 DEF Writes
    <2> DEFINE r == [conn[c] EXCEPT !.writing = None, !.behind = b, !.seen = s, !.shown = v]
    <2>3. r.replaced = conn[c].replaced /\ r.at = conn[c].at
        BY <2>1 DEF Connection
    <2> QED
        BY <1>0, <1>10, <2>2, <2>3, QuietChange DEF Writes
<1>11. ASSUME NEW c \in Conns, Pings(c)
       PROVE  Quiet
    <2>1. CASE UNCHANGED conn
        BY <1>1, <1>11, <2>1 DEF Pings
    <2>2. CASE Becomes(c, [conn[c] EXCEPT !.send = Append(@, Pong)])
        <3>1. conn[c] \in Connection
            BY <1>0, GoodParts
        <3>2. LET r == [conn[c] EXCEPT !.send = Append(@, Pong)]
              IN  r.replaced = conn[c].replaced /\ r.at = conn[c].at
            BY <3>1 DEF Connection
        <3> QED
            BY <1>0, <1>11, <2>2, <3>2, QuietChange DEF Pings
    <2> QED
        BY <1>11, <2>1, <2>2 DEF Pings
<1> QED
    BY <1>2, <1>3, <1>4, <1>5, <1>6, <1>7, <1>8, <1>9, <1>10, <1>11
       DEF Next, SubscriberStep, RegisterStep, WriterStep

LEMMA SeatsPreserved == IInv /\ [Next]_vars => Seats'
<1> SUFFICES ASSUME IInv, [Next]_vars PROVE Seats'
    OBVIOUS
<1>0. /\ GoodConns /\ Rest /\ Seats /\ registered \subseteq Conns
      /\ \A c, d \in registered :
            UserOf[c] = UserOf[d] /\ StreamOf[c] = StreamOf[d] => c = d
      /\ \A c \in registered : conn[c].at \in Serving
      /\ \A c \in Conns \ registered :
            conn[c].at \in Serving => \E d \in Conns : c \in conn[d].replaced
      /\ \A c, d \in Conns : c \in conn[d].replaced => c \notin registered /\ conn[c].at # "new"
    BY DEF IInv, Rest, Seats, OneConnectionPerStream, Open, Serves, Serving
<1>11. \A c \in Conns : conn'[c].at \in {"new", "leaving", "closed"} \cup Serving
    BY ConnsPreserved DEF IInv, GoodConns, Connection, Serving
<1>12. ASSUME /\ \A c, d \in registered' :
                    UserOf[c] = UserOf[d] /\ StreamOf[c] = StreamOf[d] => c = d
              /\ \A c \in registered' : conn'[c].at \in Serving
              /\ \A c \in Conns \ registered' :
                    conn'[c].at \in Serving => \E d \in Conns : c \in conn'[d].replaced
              /\ \A c, d \in Conns :
                    c \in conn'[d].replaced => c \notin registered' /\ conn'[c].at # "new"
      PROVE  Seats'
    <2>1. \A c \in Conns : c \in registered' => Serves(c)'
        BY <1>12 DEF Serves, Serving
    <2>2. ASSUME NEW c \in Conns \ registered', Open(c)'
          PROVE  conn'[c].at = "leaving" \/ \E d \in Conns : c \in conn'[d].replaced
        <3>1. conn'[c].at = "leaving" \/ conn'[c].at \in Serving
            BY <1>11, <2>2 DEF Open
        <3> QED
            BY <1>12, <3>1
    <2>3. OneConnectionPerStream'
        BY <1>12, <2>1, <2>2 DEF OneConnectionPerStream
    <2> QED
        BY <1>12, <2>3 DEF Seats
<1>1. CASE Quiet
    BY <1>0, <1>1, <1>12 DEF Quiet, Serving
<1>2. ASSUME NEW c \in Conns, Leaves(c) \/ Closes(c)
      PROVE  Seats'
    <2>1. /\ registered' = registered \ {c}
          /\ conn'[c].at \in {"leaving", "closed"} /\ conn'[c].replaced = conn[c].replaced
          /\ \A d \in Conns : d # c => conn'[d] = conn[d]
        <3>1. ASSUME NEW at \in {"leaving", "closed"}, Becomes(c, GivenUp(c, at))
              PROVE  /\ conn'[c].at = at /\ conn'[c].replaced = conn[c].replaced
                     /\ \A d \in Conns : d # c => conn'[d] = conn[d]
            BY <1>0, <3>1 DEF Becomes, GivenUp, New, GoodConns
        <3>2. CASE Closes(c)
            <4>1. c \notin registered
                BY <1>0, <3>2 DEF Closes, Serving
            <4> QED
                BY <3>1, <3>2, <4>1 DEF Closes, Closed
        <3>3. CASE Leaves(c)
            BY <3>1, <3>3 DEF Leaves
        <3> QED
            BY <1>2, <3>2, <3>3
    <2>2. \A d \in Conns : conn'[d].replaced = conn[d].replaced
        BY <2>1
    <2> QED
        BY <1>0, <1>12, <2>1, <2>2 DEF Serving
<1>3. ASSUME NEW c \in Conns, Registers(c)
      PROVE  Seats'
    <2> DEFINE old == {d \in registered : UserOf[d] = UserOf[c] /\ StreamOf[d] = StreamOf[c]}
    <2>1. /\ conn[c].at = "new" /\ conn[c].replaced = {} /\ c \notin registered
          /\ registered' = (registered \ old) \cup {c}
          /\ conn'[c].at = "registering" /\ conn'[c].replaced = old
          /\ \A d \in Conns : d # c => conn'[d] = conn[d]
        <3>1. conn[c] \in Connection /\ conn[c].at = "new" /\ conn[c].replaced = {}
            BY <1>0, <1>3, GoodParts DEF Registers
        <3>2. c \notin registered /\ registered' = (registered \ old) \cup {c}
            BY <1>0, <1>3, <3>1 DEF Registers, Serving
        <3>3. conn' = [conn EXCEPT ![c] = [conn[c] EXCEPT !.at = "registering", !.replaced = old]]
            BY <1>3 DEF Registers, Becomes
        <3> QED
            BY <1>0, <3>1, <3>2, <3>3 DEF GoodConns, Connection
    <2>2. \A d, e \in registered' :
             UserOf[d] = UserOf[e] /\ StreamOf[d] = StreamOf[e] => d = e
        BY <1>0, <2>1
    <2>3. \A d \in registered' : conn'[d].at \in Serving
        BY <1>0, <2>1 DEF Serving
    <2>4. ASSUME NEW d \in Conns \ registered', conn'[d].at \in Serving
          PROVE  \E e \in Conns : d \in conn'[e].replaced
        <3>1. d # c
            BY <2>1, <2>4
        <3>2. CASE d \in old
            BY <2>1, <3>2
        <3>3. CASE d \notin old
            <4>1. PICK e \in Conns : d \in conn[e].replaced
                BY <1>0, <2>1, <2>4, <3>1, <3>3
            <4>2. e # c
                BY <2>1, <4>1
            <4> QED
                BY <2>1, <4>1, <4>2
        <3> QED
            BY <3>2, <3>3
    <2>5. ASSUME NEW d \in Conns, NEW e \in Conns, d \in conn'[e].replaced
          PROVE  d \notin registered' /\ conn'[d].at # "new"
        <3>1. CASE e = c
            BY <1>0, <2>1, <2>5, <3>1
        <3>2. CASE e # c
            BY <1>0, <2>1, <2>5, <3>2
        <3> QED
            BY <3>1, <3>2
    <2> QED
        BY <1>12, <2>2, <2>3, <2>4, <2>5
<1>4. ASSUME NEW c \in Conns, ClosesReplaced(c)
      PROVE  Seats'
    <2>1. PICK d \in conn[c].replaced :
              conn' = [conn EXCEPT ![c].replaced = @ \ {d}, ![d] = Closed(d)]
        BY <1>4 DEF ClosesReplaced
    <2>2. registered' = registered /\ conn[c] \in Connection /\ d \in Conns
        BY <1>0, <1>4, GoodParts DEF ClosesReplaced, Connection
    <2>3. d \notin registered /\ conn'[d].at = "closed" /\ conn'[d].replaced \subseteq conn[d].replaced
        BY <1>0, <2>1, <2>2 DEF Closed, GivenUp, New, GoodConns, Connection
    <2>4. ASSUME NEW e \in Conns, e # d
          PROVE  /\ conn'[e].at = conn[e].at
                 /\ conn'[e].replaced = IF e = c THEN conn[e].replaced \ {d} ELSE conn[e].replaced
        BY <1>0, <2>1, <2>2, <2>4 DEF GoodConns, Connection
    <2>5. ASSUME NEW e \in Conns, e # d, NEW f \in Conns, e \in conn[f].replaced
          PROVE  e \in conn'[f].replaced
        <3>1. CASE f = d
            <4>1. conn'[d].replaced = conn[d].replaced
                BY <1>0, <2>1, <2>2 DEF Closed, GivenUp, New, GoodConns, Connection
            <4> QED
                BY <2>5, <3>1, <4>1
        <3>2. CASE f # d
            BY <2>4, <2>5, <3>2
        <3> QED
            BY <3>1, <3>2
    <2>6. \A e, f \in Conns : e \in conn'[f].replaced => e \in conn[f].replaced
        BY <2>3, <2>4
    <2>7. ASSUME NEW e \in Conns \ registered', conn'[e].at \in Serving
          PROVE  \E f \in Conns : e \in conn'[f].replaced
        <3>1. e # d
            BY <2>3, <2>7 DEF Serving
        <3>2. PICK f \in Conns : e \in conn[f].replaced
            BY <1>0, <2>2, <2>4, <2>7, <3>1
        <3> QED
            BY <2>5, <3>1, <3>2
    <2>8. \A e \in registered' : conn'[e].at \in Serving
        BY <1>0, <2>2, <2>3, <2>4
    <2>9. \A e, f \in Conns :
              e \in conn'[f].replaced => e \notin registered' /\ conn'[e].at # "new"
        BY <1>0, <2>2, <2>3, <2>4, <2>6
    <2> QED
        BY <1>0, <1>12, <2>2, <2>7, <2>8, <2>9
<1> QED
    BY <1>1, <1>2, <1>3, <1>4, StepKinds

-----------------------------------------------------------------------------
(* The theorems.                                                           *)

LEMMA InitialState == Init => IInv
<1> SUFFICES ASSUME Init PROVE IInv
    OBVIOUS
<1>1. Rest
    <2>1. <<>> \in Seq(Made)
        BY EmptySeq
    <2>2. bus \in Seq(Made)
        BY <2>1 DEF Init
    <2>3. /\ sub \in [event: Made \cup {None}, to: SUBSET Conns, wakes: SUBSET Conns]
          /\ sub.to = {}
        BY DEF Init, NoDispatch
    <2>4. phase \in Phases /\ row \in Phases /\ ended \in BOOLEAN /\ registered \subseteq Conns
        BY DEF Init, Phases
    <2>5. made \in 0 .. MaxEvents
        BY BoundsAssumption DEF Init
    <2> QED
        BY <2>2, <2>3, <2>4, <2>5 DEF Rest
<1>2. GoodConns
    BY NewIsGood DEF Init, GoodConns
<1>3. \A c \in Conns : conn[c].at = "new" /\ conn[c].replaced = {}
    BY DEF Init, New
<1>4. Seats
    BY <1>3 DEF Init, Seats, OneConnectionPerStream, Open
<1> QED
    BY <1>1, <1>2, <1>4 DEF IInv

LEMMA AlwaysIInv == SafeSpec => []IInv
<1>1. IInv /\ [Next]_vars => IInv'
    BY RestPreserved, ConnsPreserved, SeatsPreserved DEF IInv
<1> QED
    BY <1>1, InitialState, PTL DEF SafeSpec

\* The queues keep to their capacities, and the lanes hold what belongs there.
THEOREM TypeCorrect == SafeSpec => []TypeOK
<1>1. IInv => TypeOK
    BY TypesFollow DEF IInv
<1> QED
    BY <1>1, AlwaysIInv, PTL

\* However registrations, failures and sends interleave, a user has one
\* connection per stream in the room, and an open connection outside of it is
\* about to be closed.
THEOREM OneConnectionPerStreamHolds == SafeSpec => []OneConnectionPerStream
<1>1. IInv => OneConnectionPerStream
    BY DEF IInv, Seats
<1> QED
    BY <1>1, AlwaysIInv, PTL

\* At most one ordinary event is written while an urgent one waits.
THEOREM UrgentFirstHolds == SafeSpec => []UrgentFirst
<1>1. IInv => UrgentFirst
    <2>1. ASSUME IInv, NEW c \in Conns PROVE conn[c].behind \in {0, 1}
        BY <2>1 DEF IInv, GoodConns, Connection
    <2> QED
        BY <2>1 DEF UrgentFirst
<1> QED
    BY <1>1, AlwaysIInv, PTL
=============================================================================
