------------------------------- MODULE BidFeed -------------------------------
(***************************************************************************)
(* What one auction tells the room it runs in.  Requests and crons change  *)
(* the auction in Redis and then publish, one command at a time, events on *)
(* a Redis channel that every pod listens to (WsHub has what follows).     *)
(* Successful bids are not published at once: each pod keeps the latest    *)
(* one, and what it stands for, until a timer or the end flushes it.       *)
(*                                                                         *)
(* A request, a run of a cron and a timer's callback are tasks.  A task    *)
(* holds the orders it has still to carry out, so that tasks overtake each *)
(* other between any two of them.                                          *)
(*                                                                         *)
(* Covered: publications that fail, handlers that give up because MySQL    *)
(* does, pods that die.  The bid script, the settlement and MySQL are      *)
(* HotAuction's and ItemLifecycle's: here a bid is a version, the auction  *)
(* is ongoing or ended, and order_created, auction_started and             *)
(* auction_cancelled, published as auction_ended is, are left out.         *)
(***************************************************************************)
EXTENDS Naturals, FiniteSets, Sequences

CONSTANTS
    Pods,       \* the backend processes
    Tasks,      \* bound: tasks at the same time
    Users,
    NoUser,
    MaxBids,    \* bound: accepted bids
    MaxFaults   \* bound: lost publications, errors of MySQL and dead pods

ASSUME PodsAssumption == Pods # {} /\ Pods \cap {"announced", "forgotten"} = {}
ASSUME NoUserAssumption == NoUser \notin Users
ASSUME BoundsAssumption == MaxBids \in Nat /\ MaxFaults \in Nat

VARIABLES
    version,   \* the auction's version in Redis: how many bids it accepted
    leader,    \* its leader_user_id
    phase,     \* its status in Redis
    row,       \* its status in MySQL
    pending,   \* pendingBidBroadcasts, per pod
    job,       \* per task: the pod it runs on and what it has still to do
    announced, \* the bids that published bid_success events stand for
    forgotten, \* the bids whose announcement died with a pod or was refused
    ended,     \* auction_ended has been published
    silenced,  \* an auction_ended was to be published and never will be
    faults

vars == <<version, leader, phase, row, pending, job, announced, forgotten,
          ended, silenced, faults>>

Phases == {"ongoing", "ended"}
Room   == "room"
Bids   == 1 .. MaxBids

-----------------------------------------------------------------------------
(* Events and orders.                                                      *)

Types == {"bid_success", "user_outbid", "auction_extended", "auction_ended"}

\* `bids`: the bids a bid_success stands for, its own and those it replaced.
Event(type, to, v, bids) == [type |-> type, to |-> to, version |-> v, bids |-> bids]

Events ==
    [type: Types, to: Users \cup {Room}, version: 0 .. MaxBids, bids: SUBSET Bids]

BidSuccess(v, bids) == Event("bid_success", Room, v, bids)
Outbid(user, v)     == Event("user_outbid", user, v, {})
Extended(v)         == Event("auction_extended", Room, v, {})
Ended(v)            == Event("auction_ended", Room, v, {})

\* What is published, or enqueued, or nothing that matters.
Publish(event) == [do |-> "publish", event |-> event]
Enqueue(v)     == [do |-> "enqueue", event |-> BidSuccess(v, {v})]
Persist        == [do |-> "persist", event |-> BidSuccess(0, {})]
Clear          == [do |-> "clear", event |-> BidSuccess(0, {})]
Flush          == [do |-> "flush", event |-> BidSuccess(0, {})]

Orders == [do: {"publish", "enqueue", "persist", "clear", "flush"}, event: Events]

NoPending == [version |-> 0, bids |-> {}]

Init ==
    /\ version = 0 /\ leader = NoUser
    /\ phase = "ongoing" /\ row = "ongoing"
    /\ pending = [p \in Pods |-> NoPending]
    /\ job = [t \in Tasks |-> [pod |-> CHOOSE p \in Pods : TRUE, todo |-> <<>>]]
    /\ announced = {} /\ forgotten = {}
    /\ ended = FALSE /\ silenced = FALSE /\ faults = 0

-----------------------------------------------------------------------------
(* How tasks begin.                                                        *)

Idle(t) == job[t].todo = <<>>

Begins(t, p, todo) ==
    /\ Idle(t)
    /\ job' = [job EXCEPT ![t] = [pod |-> p, todo |-> todo]]

If(condition, orders) == IF condition THEN orders ELSE <<>>

\* A bid the script accepted.  `capped`: it ended the auction; `buffered`:
\* MySQL is known to be away, so that the end is not persisted here.
PlaceBid(t, p, user) ==
    \E extended, capped, buffered \in BOOLEAN :
        LET v == version + 1
        IN  /\ phase = "ongoing" /\ version < MaxBids
            /\ buffered => capped
            /\ version' = v
            /\ leader' = user
            /\ phase' = IF capped THEN "ended" ELSE "ongoing"
            /\ Begins(t, p,
                 <<Enqueue(v)>>
                 \o If(leader \notin {NoUser, user}, <<Publish(Outbid(leader, v))>>)
                 \o If(extended, <<Publish(Extended(v))>>)
                 \o If(capped /\ ~buffered, <<Persist, Clear>>)
                 \o If(capped, <<Flush, Publish(Ended(v))>>))
            /\ UNCHANGED <<row, pending, announced, forgotten, ended, silenced,
                           faults>>

\* Mutant: an auction without a winner ends in silence.
Mut_TellsWinnersOnly(t, p) ==
    /\ phase = "ongoing"
    /\ phase' = "ended"
    /\ Begins(t, p, <<Persist>> \o If(leader # NoUser, <<Publish(Ended(version))>>))
    /\ UNCHANGED <<version, leader, row, pending, announced, forgotten, ended,
                   silenced, faults>>

\* SettleDueAuctions: the script ends the auction in Redis.
Settle(t, p) ==
    /\ phase = "ongoing"
    /\ phase' = "ended"
    /\ Begins(t, p, <<Persist, Publish(Ended(version))>>)
    /\ UNCHANGED <<version, leader, row, pending, announced, forgotten, ended,
                   silenced, faults>>

\* EndExpiredAuctions: what Redis has ended and MySQL still lists as ongoing.
Fallback(t, p) ==
    /\ phase = "ended" /\ row = "ongoing"
    /\ Begins(t, p, <<Persist, Publish(Ended(version))>>)
    /\ UNCHANGED <<version, leader, phase, row, pending, announced, forgotten,
                   ended, silenced, faults>>

\* Mutant: the entry stays in the map.
Mut_KeepsEntry(p) == UNCHANGED pending

\* delete(pendingBidBroadcasts, key)
Takes(p) == pending' = [pending EXCEPT ![p] = NoPending]

\* flushBidSuccess, the callback of the timer.
TimerFires(t, p) ==
    /\ pending[p] # NoPending
    /\ Takes(p)
    /\ Begins(t, p, <<Publish(BidSuccess(pending[p].version, pending[p].bids))>>)
    /\ UNCHANGED <<version, leader, phase, row, announced, forgotten, ended,
                   silenced, faults>>

-----------------------------------------------------------------------------
(* How they go on.                                                         *)

Order(t) == Head(job[t].todo)
Done(t)  == job' = [job EXCEPT ![t].todo = Tail(@)]
Must(t, do) == ~Idle(t) /\ Order(t).do = do

\* Mutant: a later bid replaces what the entry stood for.
Mut_Replaces(entry, event) == [version |-> event.version, bids |-> event.bids]

\* Mutant: the entry stands for the bid that created it.
Mut_CountsTheFirst(entry, event) ==
    [version |-> event.version,
     bids |-> IF entry = NoPending THEN event.bids ELSE entry.bids]

\* The later bid's payload replaces the earlier one's, whichever is newer.
Coalesced(entry, event) ==
    [version |-> event.version, bids |-> entry.bids \cup event.bids]

\* enqueueBidSuccess
Enqueues(t) ==
    LET p == job[t].pod
    IN  /\ Must(t, "enqueue") /\ Done(t)
        /\ pending' = [pending EXCEPT ![p] = Coalesced(@, Order(t).event)]
        /\ UNCHANGED <<version, leader, phase, row, announced, forgotten,
                       ended, silenced, faults>>

\* flushBidSuccessNow
Flushes(t) ==
    LET p == job[t].pod
        event == BidSuccess(pending[p].version, pending[p].bids)
    IN  /\ Must(t, "flush")
        /\ \/ pending[p] = NoPending /\ Done(t) /\ UNCHANGED pending
           \/ /\ pending[p] # NoPending
              /\ Takes(p)
              /\ job' = [job EXCEPT ![t].todo = <<Publish(event)>> \o Tail(@)]
        /\ UNCHANGED <<version, leader, phase, row, announced, forgotten,
                       ended, silenced, faults>>

\* UpdateItemWithRule: the ended row is saved.
Persists(t) ==
    /\ Must(t, "persist") /\ Done(t)
    /\ row' = "ended"
    /\ UNCHANGED <<version, leader, phase, pending, announced, forgotten,
                   ended, silenced, faults>>

\* ClearRoomCurrentItem, whose failure only a bid's handler minds.
Clears(t) ==
    /\ Must(t, "clear") /\ Done(t)
    /\ UNCHANGED <<version, leader, phase, row, pending, announced, forgotten,
                   ended, silenced, faults>>

Publishes(t) ==
    LET event == Order(t).event
    IN  /\ Must(t, "publish") /\ Done(t)
        /\ announced' = announced \cup event.bids
        /\ ended' = (ended \/ event.type = "auction_ended")
        /\ UNCHANGED <<version, leader, phase, row, pending, forgotten, silenced,
                       faults>>

-----------------------------------------------------------------------------
(* What goes wrong.                                                        *)

Fault == faults < MaxFaults /\ faults' = faults + 1

\* Redis refuses: nobody tries again.  An end that is not persisted yet is
\* announced by the fallback instead.
PublishLost(t) ==
    LET event == Order(t).event
    IN  /\ Fault /\ Must(t, "publish") /\ Done(t)
        /\ forgotten' = forgotten \cup event.bids
        /\ silenced' = (silenced \/ (row = "ended" /\ event.type = "auction_ended"))
        /\ UNCHANGED <<version, leader, phase, row, pending, announced, ended>>

\* MySQL refuses: the handler returns, although the row may be saved already.
MySQLFails(t) ==
    /\ Fault
    /\ \/ Must(t, "persist") /\ UNCHANGED silenced
       \/ Must(t, "clear") /\ silenced' = TRUE
    /\ job' = [job EXCEPT ![t].todo = <<>>]
    /\ UNCHANGED <<version, leader, phase, row, pending, announced, forgotten,
                   ended>>

OrdersOf(t) == {job[t].todo[i] : i \in DOMAIN job[t].todo}

\* A pod dies with its tasks and what it had coalesced.
Dies(p) ==
    LET mine == {t \in Tasks : job[t].pod = p}
        cut  == UNION {OrdersOf(t) : t \in mine}
    IN  /\ Fault
        /\ job' = [t \in Tasks |-> IF t \in mine
                                      THEN [job[t] EXCEPT !.todo = <<>>] ELSE job[t]]
        /\ pending' = [pending EXCEPT ![p] = NoPending]
        /\ forgotten' = forgotten \cup pending[p].bids
                                  \cup UNION {o.event.bids : o \in cut}
        /\ silenced' = (silenced \/ /\ row = "ended"
                                    /\ \E o \in cut : o.event.type = "auction_ended")
        /\ UNCHANGED <<version, leader, phase, row, announced, ended>>

-----------------------------------------------------------------------------

TaskStep(t) == Enqueues(t) \/ Flushes(t) \/ Persists(t) \/ Clears(t)
               \/ Publishes(t)

FaultStep ==
    \/ \E t \in Tasks : PublishLost(t) \/ MySQLFails(t)
    \/ \E p \in Pods : Dies(p)

Next ==
    \/ \E t \in Tasks, p \in Pods :
          \/ \E user \in Users : PlaceBid(t, p, user)
          \/ Settle(t, p) \/ Fallback(t, p) \/ TimerFires(t, p)
    \/ \E t \in Tasks : TaskStep(t)
    \/ FaultStep

\* Goroutines that can run do; the timer fires; the fallback cron comes back.
Fairness ==
    /\ \A t \in Tasks : WF_vars(TaskStep(t))
    /\ \A p \in Pods : WF_vars(\E t \in Tasks : TimerFires(t, p))
    /\ WF_vars(\E t \in Tasks, p \in Pods : Fallback(t, p))

SafeSpec == Init /\ [][Next]_vars

Spec == SafeSpec /\ Fairness

-----------------------------------------------------------------------------
(* Properties.                                                             *)

TypeOK ==
    /\ version \in 0 .. MaxBids /\ leader \in Users \cup {NoUser}
    /\ phase \in Phases /\ row \in Phases
    /\ pending \in [Pods -> [version: 0 .. MaxBids, bids: SUBSET Bids]]
    /\ \A p \in Pods : pending[p] # NoPending => pending[p].version \in pending[p].bids
    /\ \A t \in Tasks : job[t].pod \in Pods /\ OrdersOf(t) \subseteq Orders
    /\ announced \subseteq Bids /\ forgotten \subseteq Bids
    /\ ended \in BOOLEAN /\ silenced \in BOOLEAN
    /\ faults \in 0 .. MaxFaults

\* Where a bid may be: in one of a task's orders, of which there are at most
\* seven, in a pod's entry, with the room, or nowhere.
Places == (Tasks \X (1 .. 7)) \cup ((Pods \cup {"announced", "forgotten"}) \X {0})

BidsAt(place) ==
    IF place[2] # 0 THEN
        IF place[2] \in DOMAIN job[place[1]].todo
            THEN job[place[1]].todo[place[2]].event.bids ELSE {}
    ELSE IF place[1] = "announced" THEN announced
    ELSE IF place[1] = "forgotten" THEN forgotten
    ELSE pending[place[1]].bids

\* Every accepted bid is in exactly one place on its way to the room: owed by
\* one task, coalesced in one pod's entry, published, or lost for good.  A
\* timer that fires while the auction's end flushes the same entry, or a bid
\* that arrives meanwhile, neither announces a bid twice nor drops it.
EachBidAnnouncedOnce ==
    \A v \in Bids :
        Cardinality({l \in Places : v \in BidsAt(l)}) = IF v <= version THEN 1 ELSE 0

\* What the room makes of it is RoomFeed: whatever order tasks, timers and
\* flushes come in, no event stands for a bid another one stood for, for one
\* that was not accepted, or for an end that has not been.
Feed == INSTANCE RoomFeed WITH
    accepted <- 1 .. version,
    open     <- phase = "ongoing",
    told     <- announced,
    lost     <- forgotten,
    endTold  <- ended

ImplementsRoomFeed == Feed!SafeSpec

\* The fallback cron leaves an auction alone once MySQL has the ended row.
\* From then on the end has been announced, or will never be, or a task that
\* is past saving the row has it still to announce.
EndIsOwed ==
    row = "ended" =>
        \/ ended \/ silenced
        \/ \E t \in Tasks : /\ \E o \in OrdersOf(t) : o.event.type = "auction_ended"
                          /\ \A o \in OrdersOf(t) : o.do # "persist"

\* No bid stays coalesced for ever, also when the timer that would flush it
\* was stopped by the auction's end or a later bid joined its entry.
EveryBidIsAnnounced ==
    \A v \in Bids : (version >= v) ~> (v \in announced \cup forgotten)

\* An auction that Redis has ended is announced as ended whatever dies or
\* fails before MySQL has the ended row; after that a publication that fails, a
\* room that cannot be cleared or a pod that dies is the end of it.
EndIsAnnounced == (phase = "ended") ~> (ended \/ silenced)
=============================================================================
