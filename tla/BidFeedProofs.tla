---------------------------- MODULE BidFeedProofs ----------------------------
(***************************************************************************)
(* Theorems about BidFeed, for any number of pods, tasks, users and bids.  *)
(*                                                                         *)
(* A task's orders stand for bids only in the first of them: a bid is      *)
(* enqueued before anything else is published, and what a flush takes out  *)
(* of the map is published next.  This is why a handler that gives up on   *)
(* MySQL's account drops no bid, and it makes the bids a partition: held   *)
(* by one task each, in one pod's entry, announced or forgotten.           *)
(***************************************************************************)
EXTENDS BidFeed, TLAPS, SequenceTheorems, FiniteSetTheorems

-----------------------------------------------------------------------------
(* What tasks have still to do.                                            *)

\* Orders that stand for no bid.
Chores(s) ==
    /\ s \in Seq(Orders)
    /\ \A i \in 1 .. Len(s) : s[i].event.bids = {} /\ s[i].do # "enqueue"

\* Only the first order may stand for bids; the others are chores.
Plan(s) ==
    /\ s \in Seq(Orders)
    /\ \A i \in 2 .. Len(s) : s[i].event.bids = {} /\ s[i].do # "enqueue"
    /\ s # <<>> =>
          /\ s[1].do = "enqueue" => s[1].event.version \in s[1].event.bids
          /\ s[1].do \notin {"enqueue", "publish"} => s[1].event.bids = {}

HeldIn(j) == IF j.todo = <<>> THEN {} ELSE j.todo[1].event.bids

LEMMA EmptyIsChores == Chores(<<>>) /\ Plan(<<>>) /\ Len(<<>>) = 0
    BY DEF Chores, Plan

LEMMA OneChore ==
    ASSUME NEW o \in Orders, o.event.bids = {}, o.do # "enqueue"
    PROVE  Chores(<<o>>) /\ Len(<<o>>) = 1
    BY DEF Chores

LEMMA ChoresTogether ==
    ASSUME NEW s, NEW u, Chores(s), Chores(u)
    PROVE  Chores(s \o u) /\ Len(s \o u) = Len(s) + Len(u)
    BY DEF Chores

LEMMA PlanAndChores ==
    ASSUME NEW s, NEW u, Plan(s), s # <<>>, Chores(u)
    PROVE  /\ Plan(s \o u) /\ Len(s \o u) = Len(s) + Len(u)
           /\ s \o u # <<>> /\ (s \o u)[1] = s[1]
<1>1. s \in Seq(Orders) /\ u \in Seq(Orders) /\ Len(s) \in Nat \ {0} /\ Len(u) \in Nat
    BY DEF Plan, Chores
<1>2. s \o u \in Seq(Orders) /\ Len(s \o u) = Len(s) + Len(u) /\ s \o u # <<>>
      /\ (s \o u)[1] = s[1]
    BY <1>1
<1>3. ASSUME NEW i \in 2 .. Len(s \o u)
      PROVE  (s \o u)[i].event.bids = {} /\ (s \o u)[i].do # "enqueue"
    <2>1. CASE i <= Len(s)
        <3>1. (s \o u)[i] = s[i] /\ i \in 2 .. Len(s)
            BY <1>1, <1>2, <2>1
        <3> QED
            BY <3>1 DEF Plan
    <2>2. CASE i > Len(s)
        <3>1. (s \o u)[i] = u[i - Len(s)] /\ i - Len(s) \in 1 .. Len(u)
            BY <1>1, <1>2, <2>2
        <3> QED
            BY <3>1 DEF Chores
    <2> QED
        BY <1>1, <2>1, <2>2
<1> QED
    BY <1>2, <1>3 DEF Plan

\* After its first order a plan has only chores.
LEMMA Rest ==
    ASSUME NEW s, Plan(s), s # <<>>
    PROVE  /\ Chores(Tail(s)) /\ Plan(Tail(s)) /\ Len(Tail(s)) = Len(s) - 1
           /\ Head(s) = s[1] /\ s[1] \in Orders /\ Len(s) \in Nat \ {0}
<1>1. s \in Seq(Orders) /\ Len(s) \in Nat \ {0} /\ Head(s) = s[1] /\ s[1] \in Orders
    BY DEF Plan
<1>2. Tail(s) \in Seq(Orders) /\ Len(Tail(s)) = Len(s) - 1
      /\ \A i \in 1 .. Len(Tail(s)) : Tail(s)[i] = s[i + 1]
    BY <1>1
<1>3. Chores(Tail(s))
    BY <1>1, <1>2 DEF Chores, Plan
<1> QED
    BY <1>1, <1>2, <1>3 DEF Plan, Chores

LEMMA ChoresArePlan ==
    ASSUME NEW s, Chores(s)
    PROVE  Plan(s) /\ s \in Seq(Orders) /\ (s # <<>> => s[1].event.bids = {})
<1>1. s \in Seq(Orders) /\ (s # <<>> => 1 \in 1 .. Len(s))
    BY DEF Chores
<1> QED
    BY <1>1 DEF Chores, Plan

LEMMA OrderTypes ==
    /\ \A v \in 0 .. MaxBids : \A user \in Users : Publish(Outbid(user, v)) \in Orders
    /\ \A v \in 0 .. MaxBids : Publish(Extended(v)) \in Orders /\ Publish(Ended(v)) \in Orders
    /\ \A v \in 0 .. MaxBids, bids \in SUBSET Bids : Publish(BidSuccess(v, bids)) \in Orders
    /\ \A v \in Bids : Enqueue(v) \in Orders
    /\ Persist \in Orders /\ Clear \in Orders /\ Flush \in Orders
<1>1. MaxBids \in Nat /\ 0 \in 0 .. MaxBids /\ Bids \subseteq 0 .. MaxBids
    BY BoundsAssumption DEF Bids
<1>2. ASSUME NEW type \in Types, NEW to \in Users \cup {Room}, NEW v \in 0 .. MaxBids,
             NEW bids \in SUBSET Bids
      PROVE  Event(type, to, v, bids) \in Events
    BY DEF Event, Events
<1>3. \A v \in 0 .. MaxBids, bids \in SUBSET Bids : BidSuccess(v, bids) \in Events
    BY <1>2 DEF BidSuccess, Types
<1>4. \A v \in 0 .. MaxBids : Extended(v) \in Events /\ Ended(v) \in Events
    BY <1>2 DEF Extended, Ended, Types
<1>5. \A v \in 0 .. MaxBids : \A user \in Users : Outbid(user, v) \in Events
    BY <1>2 DEF Outbid, Types
<1>6. ASSUME NEW do \in {"publish", "enqueue", "persist", "clear", "flush"}, NEW e \in Events
      PROVE  [do |-> do, event |-> e] \in Orders
    BY DEF Orders
<1>7. \A v \in Bids : BidSuccess(v, {v}) \in Events
    BY <1>1, <1>3
<1>8. BidSuccess(0, {}) \in Events
    BY <1>1, <1>3
<1> QED
    BY <1>3, <1>4, <1>5, <1>6, <1>7, <1>8 DEF Publish, Enqueue, Persist, Clear, Flush

-----------------------------------------------------------------------------
(* The invariant.                                                          *)

Entry == [version: 0 .. MaxBids, bids: SUBSET Bids]

Tasked ==
    /\ job \in [Tasks -> [pod: Pods, todo: Seq(Orders)]]
    /\ \A t \in Tasks : Plan(job[t].todo) /\ Len(job[t].todo) <= 7

Typed ==
    /\ version \in 0 .. MaxBids /\ leader \in Users \cup {NoUser}
    /\ phase \in Phases /\ row \in Phases
    /\ pending \in [Pods -> Entry]
    /\ \A p \in Pods : pending[p] # NoPending => pending[p].version \in pending[p].bids
    /\ announced \subseteq Bids /\ forgotten \subseteq Bids
    /\ ended \in BOOLEAN /\ silenced \in BOOLEAN
    /\ faults \in 0 .. MaxFaults

Held(t) == HeldIn(job[t])

\* Nobody has a bid that was not accepted, and every accepted one is somewhere.
Accounted ==
    \A v \in Nat :
        (v \in 1 .. version) <=>
            \/ v \in announced \/ v \in forgotten
            \/ \E p \in Pods : v \in pending[p].bids
            \/ \E t \in Tasks : v \in HeldIn(job[t])

\* No bid is at two places.
Apart ==
    /\ announced \cap forgotten = {}
    /\ \A p \in Pods : pending[p].bids \cap (announced \cup forgotten) = {}
    /\ \A t \in Tasks : HeldIn(job[t]) \cap (announced \cup forgotten) = {}
    /\ \A p, q \in Pods : pending[p].bids \cap pending[q].bids # {} => p = q
    /\ \A t, u \in Tasks : HeldIn(job[t]) \cap HeldIn(job[u]) # {} => t = u
    /\ \A t \in Tasks, p \in Pods : HeldIn(job[t]) \cap pending[p].bids = {}

IInv == Typed /\ Tasked /\ Accounted /\ Apart

LEMMA NoPendingType == NoPending \in Entry /\ NoPending.bids = {}
    BY BoundsAssumption DEF NoPending, Entry, Bids

LEMMA Initially == Init => IInv
<1> SUFFICES ASSUME Init PROVE IInv
    OBVIOUS
<1>1. \A t \in Tasks : job[t].todo = <<>> /\ HeldIn(job[t]) = {}
    BY DEF Init, HeldIn
<1>2. Tasked
    <2>1. (CHOOSE p \in Pods : TRUE) \in Pods
        BY PodsAssumption
    <2>2. job \in [Tasks -> [pod: Pods, todo: Seq(Orders)]]
        BY <2>1 DEF Init
    <2> QED
        BY <1>1, <2>2, EmptyIsChores DEF Tasked
<1>3. Typed
    <2>1. \A p \in Pods : pending[p] = NoPending
        BY DEF Init
    <2>2. pending \in [Pods -> Entry]
        BY NoPendingType DEF Init
    <2>3. 0 \in 0 .. MaxBids /\ 0 \in 0 .. MaxFaults
        BY BoundsAssumption
    <2> QED
        BY <2>1, <2>2, <2>3 DEF Init, Typed, Phases
<1>4. \A p \in Pods : pending[p].bids = {}
    BY DEF Init, NoPending
<1>5. version = 0 /\ announced = {} /\ forgotten = {}
    BY DEF Init
<1>6. Accounted
    BY <1>1, <1>4, <1>5 DEF Accounted
<1>7. Apart
    BY <1>1, <1>4, <1>5 DEF Apart
<1> QED
    BY <1>2, <1>3, <1>6, <1>7 DEF IInv

-----------------------------------------------------------------------------
(* How bids move.                                                          *)

OthersStay(t) == \A u \in Tasks \ {t} : HeldIn(job'[u]) = HeldIn(job[u])
EntriesStay   == \A p \in Pods : pending'[p].bids = pending[p].bids

LEMMA NothingMoves ==
    ASSUME IInv, version' = version, announced' = announced, forgotten' = forgotten,
           EntriesStay, \A t \in Tasks : HeldIn(job'[t]) = HeldIn(job[t])
    PROVE  Accounted' /\ Apart'
<1>1. Accounted'
    BY DEF IInv, Accounted, EntriesStay
<1>2. Apart'
    BY DEF IInv, Apart, EntriesStay
<1> QED
    BY <1>1, <1>2

\* A task's bids are announced.
LEMMA BidsAnnounced ==
    ASSUME IInv, NEW t \in Tasks, version' = version, forgotten' = forgotten, EntriesStay,
           OthersStay(t), HeldIn(job'[t]) = {}, announced' = announced \cup HeldIn(job[t])
    PROVE  Accounted' /\ Apart'
<1>1. Accounted'
    BY DEF IInv, Accounted, EntriesStay, OthersStay
<1>2. Apart'
    BY DEF IInv, Apart, EntriesStay, OthersStay
<1> QED
    BY <1>1, <1>2

\* The event that stands for a task's bids is lost.
LEMMA BidsLost ==
    ASSUME IInv, NEW t \in Tasks, version' = version, announced' = announced, EntriesStay,
           OthersStay(t), HeldIn(job'[t]) = {}, forgotten' = forgotten \cup HeldIn(job[t])
    PROVE  Accounted' /\ Apart'
<1>1. Accounted'
    BY DEF IInv, Accounted, EntriesStay, OthersStay
<1>2. Apart'
    BY DEF IInv, Apart, EntriesStay, OthersStay
<1> QED
    BY <1>1, <1>2

\* A task's bids join an entry.
LEMMA BidsJoin ==
    ASSUME IInv, NEW t \in Tasks, NEW p \in Pods, version' = version, announced' = announced,
           forgotten' = forgotten, OthersStay(t), HeldIn(job'[t]) = {},
           pending'[p].bids = pending[p].bids \cup HeldIn(job[t]),
           \A q \in Pods \ {p} : pending'[q].bids = pending[q].bids
    PROVE  Accounted' /\ Apart'
<1>1. Accounted'
    BY DEF IInv, Accounted, OthersStay
<1>2. Apart'
    BY DEF IInv, Apart, OthersStay
<1> QED
    BY <1>1, <1>2

\* An entry's bids are taken by a task.
LEMMA BidsTaken ==
    ASSUME IInv, NEW t \in Tasks, NEW p \in Pods, version' = version, announced' = announced,
           forgotten' = forgotten, OthersStay(t), HeldIn(job[t]) = {},
           HeldIn(job'[t]) = pending[p].bids, pending'[p].bids = {},
           \A q \in Pods \ {p} : pending'[q].bids = pending[q].bids
    PROVE  Accounted' /\ Apart'
<1>1. Accounted'
    BY DEF IInv, Accounted, OthersStay
<1>2. Apart'
    BY DEF IInv, Apart, OthersStay
<1> QED
    BY <1>1, <1>2

\* A bid is accepted.
LEMMA BidAppears ==
    ASSUME IInv, NEW t \in Tasks, version' = version + 1, announced' = announced,
           forgotten' = forgotten, OthersStay(t), HeldIn(job[t]) = {},
           HeldIn(job'[t]) = {version + 1}, EntriesStay
    PROVE  Accounted' /\ Apart'
<1>0. version \in Nat
    BY BoundsAssumption DEF IInv, Typed
<1>1. version + 1 \notin announced \cup forgotten
      /\ (\A p \in Pods : version + 1 \notin pending[p].bids)
      /\ \A u \in Tasks : version + 1 \notin HeldIn(job[u])
    BY <1>0 DEF IInv, Accounted
<1>2. Accounted'
    <2>1. \A v \in Nat : v \in 1 .. version' <=> (v \in 1 .. version \/ v = version + 1)
        BY <1>0
    <2> QED
        BY <1>0, <2>1 DEF IInv, Accounted, EntriesStay, OthersStay
<1>3. Apart'
    BY <1>1 DEF IInv, Apart, EntriesStay, OthersStay
<1> QED
    BY <1>2, <1>3

\* A pod dies with the bids its tasks hold and those of its entry.
LEMMA BidsForgotten ==
    ASSUME IInv, NEW p \in Pods, NEW mine \in SUBSET Tasks, version' = version,
           announced' = announced,
           \A t \in mine : HeldIn(job'[t]) = {},
           \A t \in Tasks \ mine : HeldIn(job'[t]) = HeldIn(job[t]),
           pending'[p].bids = {},
           \A q \in Pods \ {p} : pending'[q].bids = pending[q].bids,
           \A v : v \in forgotten' <=>
              (v \in forgotten \/ v \in pending[p].bids \/ \E t \in mine : v \in HeldIn(job[t]))
    PROVE  Accounted' /\ Apart'
<1>1. Accounted'
    BY DEF IInv, Accounted
<1>2. /\ \A q \in Pods : pending'[q].bids \subseteq pending[q].bids
      /\ \A t \in Tasks : HeldIn(job'[t]) \subseteq HeldIn(job[t])
    OBVIOUS
<1>3. /\ \A v \in forgotten' : v \notin announced
      /\ \A q \in Pods : \A v \in pending'[q].bids : v \notin forgotten'
      /\ \A t \in Tasks : \A v \in HeldIn(job'[t]) : v \notin forgotten'
    BY DEF IInv, Apart
<1>4. Apart'
    BY <1>2, <1>3 DEF IInv, Apart
<1> QED
    BY <1>1, <1>4

-----------------------------------------------------------------------------
(* Steps.                                                                  *)

\* A task gets a new list of orders, at most as long as allowed, when it
\* begins and when it goes on.
LEMMA FirstList ==
    ASSUME Tasked, NEW t \in Tasks, NEW s, Plan(s), Len(s) <= 7, NEW p \in Pods,
           job' = [job EXCEPT ![t] = [pod |-> p, todo |-> s]]
    PROVE  /\ Tasked' /\ OthersStay(t)
           /\ s = <<>> => HeldIn(job'[t]) = {}
           /\ s # <<>> => HeldIn(job'[t]) = s[1].event.bids
<1>1. s \in Seq(Orders)
    BY DEF Plan
<1>2. job' \in [Tasks -> [pod: Pods, todo: Seq(Orders)]] /\ job'[t].todo = s
      /\ \A u \in Tasks \ {t} : job'[u] = job[u]
    BY <1>1 DEF Tasked
<1> QED
    BY <1>2 DEF Tasked, OthersStay, HeldIn

LEMMA NextList ==
    ASSUME Tasked, NEW t \in Tasks, NEW s, Plan(s), Len(s) <= 7,
           job' = [job EXCEPT ![t].todo = s]
    PROVE  /\ Tasked' /\ OthersStay(t)
           /\ s = <<>> => HeldIn(job'[t]) = {}
           /\ s # <<>> => HeldIn(job'[t]) = s[1].event.bids
<1>1. s \in Seq(Orders) /\ job[t] \in [pod: Pods, todo: Seq(Orders)]
    BY DEF Plan, Tasked
<1>2. job' = [job EXCEPT ![t] = [job[t] EXCEPT !.todo = s]]
    OBVIOUS
<1>3. [job[t] EXCEPT !.todo = s] = [pod |-> job[t].pod, todo |-> s] /\ job[t].pod \in Pods
    BY <1>1
<1>4. PICK q \in Pods : job' = [job EXCEPT ![t] = [pod |-> q, todo |-> s]]
    BY <1>2, <1>3
<1> QED
    BY <1>4, FirstList

LEMMA IdleHoldsNothing ==
    ASSUME NEW t \in Tasks, Idle(t) PROVE HeldIn(job[t]) = {}
    BY DEF Idle, HeldIn

\* A task that has done its first order has only chores left.
LEMMA DoneHoldsNothing ==
    ASSUME Tasked, NEW t \in Tasks, NEW do, Must(t, do), Done(t)
    PROVE  /\ Tasked' /\ OthersStay(t) /\ HeldIn(job'[t]) = {}
           /\ HeldIn(job[t]) = Order(t).event.bids /\ Order(t) \in Orders /\ Order(t).do = do
           /\ do = "enqueue" => Order(t).event.version \in Order(t).event.bids
           /\ do \notin {"enqueue", "publish"} => HeldIn(job[t]) = {}
<1>1. /\ Plan(job[t].todo) /\ Len(job[t].todo) <= 7 /\ job[t].todo # <<>>
      /\ job[t] \in [pod: Pods, todo: Seq(Orders)]
    BY DEF Tasked, Must, Idle
<1>2. /\ Chores(Tail(job[t].todo)) /\ Plan(Tail(job[t].todo)) /\ Len(Tail(job[t].todo)) <= 7
      /\ Order(t) = job[t].todo[1] /\ Order(t) \in Orders
    BY <1>1, Rest DEF Order
<1>3. job' = [job EXCEPT ![t].todo = Tail(job[t].todo)]
    BY DEF Done, Tasked
<1>4. Tasked' /\ OthersStay(t) /\ HeldIn(job'[t]) = {}
    <2> DEFINE s == Tail(job[t].todo)
    <2>1. Plan(s) /\ Len(s) <= 7 /\ job' = [job EXCEPT ![t].todo = s]
          /\ (s # <<>> => s[1].event.bids = {})
        BY <1>2, <1>3, ChoresArePlan
    <2> HIDE DEF s
    <2> QED
        BY <2>1, NextList
<1>5. HeldIn(job[t]) = Order(t).event.bids
    BY <1>1, <1>2 DEF HeldIn
<1> QED
    BY <1>1, <1>2, <1>4, <1>5 DEF Must, Plan

LEMMA BeginningKeeps ==
    ASSUME IInv, NEW t \in Tasks, NEW p \in Pods,
           \/ \E user \in Users : PlaceBid(t, p, user)
           \/ Settle(t, p) \/ Fallback(t, p) \/ TimerFires(t, p)
    PROVE  IInv'
<1>0. Tasked /\ Typed /\ MaxBids \in Nat
    BY BoundsAssumption DEF IInv
<1>1. ASSUME NEW user \in Users, PlaceBid(t, p, user)
      PROVE  IInv'
    <2> DEFINE v == version + 1
    <2>1. PICK extended, capped, buffered \in BOOLEAN :
            job' = [job EXCEPT ![t] = [pod |-> p, todo |->
                 <<Enqueue(v)>>
                 \o If(leader \notin {NoUser, user}, <<Publish(Outbid(leader, v))>>)
                 \o If(extended, <<Publish(Extended(v))>>)
                 \o If(capped /\ ~buffered, <<Persist, Clear>>)
                 \o If(capped, <<Flush, Publish(Ended(v))>>)]]
        BY <1>1 DEF PlaceBid, Begins
    <2>2. /\ version < MaxBids /\ version' = v /\ leader' = user
          /\ phase' \in Phases /\ Idle(t)
          /\ UNCHANGED <<row, pending, announced, forgotten, ended, silenced, faults>>
        BY <1>1 DEF PlaceBid, Begins, Phases
    <2>3. v \in 0 .. MaxBids /\ v \in Bids /\ version \in Nat
        BY <1>0, <2>2 DEF Typed, Bids
    <2> DEFINE a == If(leader \notin {NoUser, user}, <<Publish(Outbid(leader, v))>>)
               b == If(extended, <<Publish(Extended(v))>>)
               c == If(capped /\ ~buffered, <<Persist, Clear>>)
               d == If(capped, <<Flush, Publish(Ended(v))>>)
    <2>4. Chores(a) /\ Len(a) <= 1
        <3>1. CASE leader \notin {NoUser, user}
            <4>1. leader \in Users
                BY <1>0, <3>1 DEF Typed
            <4>2. Publish(Outbid(leader, v)) \in Orders
                BY <2>3, <4>1, OrderTypes
            <4>3. Publish(Outbid(leader, v)).event.bids = {}
                  /\ Publish(Outbid(leader, v)).do # "enqueue"
                BY DEF Publish, Outbid, Event
            <4> QED
                BY <3>1, <4>2, <4>3, OneChore DEF If
        <3>2. CASE leader \in {NoUser, user}
            BY <3>2, EmptyIsChores DEF If
        <3> QED
            BY <3>1, <3>2
    <2>5. Chores(b) /\ Len(b) <= 1
        <3>1. Publish(Extended(v)) \in Orders /\ Publish(Extended(v)).event.bids = {}
              /\ Publish(Extended(v)).do # "enqueue"
            BY <2>3, OrderTypes DEF Publish, Extended, Event
        <3> QED
            BY <3>1, OneChore, EmptyIsChores DEF If
    <2>6. Chores(c) /\ Len(c) <= 2
        <3>1. Chores(<<Persist, Clear>>) /\ Len(<<Persist, Clear>>) = 2
            BY OrderTypes DEF Chores, Persist, Clear, BidSuccess, Event
        <3> QED
            BY <3>1, EmptyIsChores DEF If
    <2>7. Chores(d) /\ Len(d) <= 2
        <3>1. Publish(Ended(v)) \in Orders /\ Publish(Ended(v)).event.bids = {}
              /\ Publish(Ended(v)).do # "enqueue"
            BY <2>3, OrderTypes DEF Publish, Ended, Event
        <3>2. Chores(<<Flush, Publish(Ended(v))>>) /\ Len(<<Flush, Publish(Ended(v))>>) = 2
            BY <3>1, OrderTypes DEF Chores, Flush, BidSuccess, Event
        <3> QED
            BY <3>2, EmptyIsChores DEF If
    <2>8. /\ Plan(<<Enqueue(v)>>) /\ <<Enqueue(v)>> # <<>> /\ Len(<<Enqueue(v)>>) = 1
          /\ <<Enqueue(v)>>[1].event.bids = {v}
        <3>1. Enqueue(v) \in Orders
            BY <2>3, OrderTypes
        <3> QED
            BY <3>1 DEF Plan, Enqueue, BidSuccess, Event
    <2> HIDE DEF v, a, b, c, d
    <2>9. /\ Plan(<<Enqueue(v)>> \o a) /\ <<Enqueue(v)>> \o a # <<>>
          /\ Len(<<Enqueue(v)>> \o a) = 1 + Len(a)
          /\ (<<Enqueue(v)>> \o a)[1].event.bids = {v}
        BY <2>4, <2>8, PlanAndChores
    <2> DEFINE s1 == <<Enqueue(v)>> \o a
    <2> HIDE DEF s1
    <2>10. Plan(s1 \o b) /\ s1 \o b # <<>> /\ Len(s1 \o b) = 1 + Len(a) + Len(b)
           /\ (s1 \o b)[1].event.bids = {v}
        BY <2>5, <2>9, PlanAndChores DEF s1
    <2> DEFINE s2 == s1 \o b
    <2> HIDE DEF s2
    <2>11. Plan(s2 \o c) /\ s2 \o c # <<>> /\ Len(s2 \o c) = 1 + Len(a) + Len(b) + Len(c)
           /\ (s2 \o c)[1].event.bids = {v}
        BY <2>6, <2>10, PlanAndChores DEF s2
    <2> DEFINE s3 == s2 \o c
    <2> HIDE DEF s3
    <2>12. Plan(s3 \o d) /\ s3 \o d # <<>> /\ Len(s3 \o d) = 1 + Len(a) + Len(b) + Len(c) + Len(d)
           /\ (s3 \o d)[1].event.bids = {v}
        BY <2>7, <2>11, PlanAndChores DEF s3
    <2>13. job' = [job EXCEPT ![t] = [pod |-> p, todo |-> s3 \o d]]
        BY <2>1 DEF s1, s2, s3, a, b, c, d, v
    <2>14. Len(a) \in Nat /\ Len(b) \in Nat /\ Len(c) \in Nat /\ Len(d) \in Nat
        BY <2>4, <2>5, <2>6, <2>7 DEF Chores
    <2>15. Len(s3 \o d) <= 7
        BY <2>4, <2>5, <2>6, <2>7, <2>12, <2>14
    <2>16. Tasked' /\ OthersStay(t) /\ HeldIn(job'[t]) = {version + 1}
        BY <1>0, <2>12, <2>13, <2>15, FirstList DEF v
    <2>17. EntriesStay /\ HeldIn(job[t]) = {}
        BY <2>2, IdleHoldsNothing DEF EntriesStay
    <2>18. Accounted' /\ Apart'
        BY <2>2, <2>16, <2>17, BidAppears DEF v
    <2>19. Typed'
        BY <1>0, <2>2, <2>3 DEF Typed
    <2> QED
        BY <2>16, <2>18, <2>19 DEF IInv
<1>2. CASE Settle(t, p) \/ Fallback(t, p)
    <2> DEFINE s == <<Persist, Publish(Ended(version))>>
    <2>1. /\ Idle(t) /\ job' = [job EXCEPT ![t] = [pod |-> p, todo |-> s]]
          /\ phase' \in Phases
          /\ UNCHANGED <<version, leader, row, pending, announced, forgotten, ended, silenced,
                         faults>>
        BY <1>0, <1>2 DEF Settle, Fallback, Begins, Phases, Typed
    <2>2. Publish(Ended(version)) \in Orders /\ Publish(Ended(version)).event.bids = {}
          /\ Publish(Ended(version)).do # "enqueue"
        BY <1>0, OrderTypes DEF Publish, Ended, Event, Typed
    <2>3. Chores(s) /\ Len(s) = 2
        BY <2>2, OrderTypes DEF Chores, Persist, BidSuccess, Event
    <2> HIDE DEF s
    <2>4. Plan(s) /\ Len(s) <= 7 /\ (s # <<>> => s[1].event.bids = {})
        BY <2>3, ChoresArePlan
    <2>5. Tasked' /\ OthersStay(t) /\ HeldIn(job'[t]) = {}
        BY <1>0, <2>1, <2>3, <2>4, FirstList
    <2>6. EntriesStay /\ HeldIn(job[t]) = {}
        BY <2>1, IdleHoldsNothing DEF EntriesStay
    <2>7. Accounted' /\ Apart'
        BY <2>1, <2>5, <2>6, NothingMoves DEF OthersStay
    <2>8. Typed'
        BY <1>0, <2>1 DEF Typed
    <2> QED
        BY <2>5, <2>7, <2>8 DEF IInv
<1>3. CASE TimerFires(t, p)
    <2> DEFINE o == Publish(BidSuccess(pending[p].version, pending[p].bids))
    <2>1. /\ Idle(t) /\ job' = [job EXCEPT ![t] = [pod |-> p, todo |-> <<o>>]]
          /\ pending' = [pending EXCEPT ![p] = NoPending]
          /\ UNCHANGED <<version, leader, phase, row, announced, forgotten, ended, silenced,
                         faults>>
        BY <1>3 DEF TimerFires, Takes, Begins
    <2>2. pending[p] \in Entry /\ pending \in [Pods -> Entry]
        BY <1>0 DEF Typed
    <2>3. o \in Orders /\ o.event.bids = pending[p].bids /\ o.do = "publish"
        <3>1. pending[p].version \in 0 .. MaxBids /\ pending[p].bids \in SUBSET Bids
            BY <2>2 DEF Entry
        <3> QED
            BY <3>1, OrderTypes DEF Publish, BidSuccess, Event
    <2> HIDE DEF o
    <2>4. Plan(<<o>>) /\ Len(<<o>>) <= 7 /\ <<o>> # <<>> /\ <<o>>[1].event.bids = pending[p].bids
        BY <2>3 DEF Plan
    <2>5. Tasked' /\ OthersStay(t) /\ HeldIn(job'[t]) = pending[p].bids
        BY <1>0, <2>1, <2>4, FirstList
    <2>6. /\ pending'[p].bids = {} /\ \A q \in Pods \ {p} : pending'[q].bids = pending[q].bids
          /\ pending' \in [Pods -> Entry]
          /\ \A q \in Pods : pending'[q] # NoPending => pending'[q].version \in pending'[q].bids
        BY <1>0, <2>1, <2>2, NoPendingType DEF Typed
    <2>7. Accounted' /\ Apart'
        BY <2>1, <2>5, <2>6, IdleHoldsNothing, BidsTaken
    <2>8. Typed'
        BY <1>0, <2>1, <2>6 DEF Typed
    <2> QED
        BY <2>5, <2>7, <2>8 DEF IInv
<1> QED
    BY <1>1, <1>2, <1>3

LEMMA GoingOnKeeps ==
    ASSUME IInv, NEW t \in Tasks,
           \/ TaskStep(t) \/ PublishLost(t) \/ MySQLFails(t)
    PROVE  IInv'
<1>0. /\ Tasked /\ Typed /\ pending \in [Pods -> Entry] /\ job[t].pod \in Pods
      /\ Plan(job[t].todo) /\ Len(job[t].todo) <= 7
    BY DEF IInv, Tasked, Typed
<1> USE DoneHoldsNothing
<1>1. CASE Enqueues(t)
    <2> DEFINE p == job[t].pod
               e == Order(t).event
    <2>1. /\ Must(t, "enqueue") /\ Done(t)
          /\ pending' = [pending EXCEPT ![p] = Coalesced(pending[p], e)]
          /\ UNCHANGED <<version, leader, phase, row, announced, forgotten, ended, silenced,
                         faults>>
        BY <1>0, <1>1 DEF Enqueues
    <2>2. /\ Tasked' /\ OthersStay(t) /\ HeldIn(job'[t]) = {} /\ HeldIn(job[t]) = e.bids
          /\ e \in Events /\ e.version \in e.bids
        BY <1>0, <2>1 DEF Orders
    <2>3. /\ Coalesced(pending[p], e) \in Entry
          /\ Coalesced(pending[p], e).bids = pending[p].bids \cup e.bids
          /\ Coalesced(pending[p], e).version \in Coalesced(pending[p], e).bids
        BY <1>0, <2>2 DEF Coalesced, Entry, Events
    <2>4. p \in Pods
        BY <1>0
    <2> HIDE DEF p, e
    <2>5. /\ pending' \in [Pods -> Entry]
          /\ pending'[p].bids = pending[p].bids \cup e.bids
          /\ \A q \in Pods \ {p} : pending'[q] = pending[q]
          /\ pending'[p].version \in pending'[p].bids
        BY <1>0, <2>1, <2>3, <2>4
    <2>6. Accounted' /\ Apart'
        BY <2>1, <2>2, <2>4, <2>5, BidsJoin
    <2>7. Typed'
        BY <1>0, <2>1, <2>4, <2>5 DEF Typed
    <2> QED
        BY <2>2, <2>6, <2>7 DEF IInv
<1>2. CASE Flushes(t)
    <2> DEFINE p == job[t].pod
               o == Publish(BidSuccess(pending[p].version, pending[p].bids))
    <2>1. /\ Must(t, "flush")
          /\ UNCHANGED <<version, leader, phase, row, announced, forgotten, ended, silenced,
                         faults>>
        BY <1>2 DEF Flushes
    <2>2. CASE Done(t) /\ UNCHANGED pending
        <3>1. Tasked' /\ OthersStay(t) /\ HeldIn(job'[t]) = {} /\ HeldIn(job[t]) = {}
            BY <1>0, <2>1, <2>2
        <3>2. Accounted' /\ Apart'
            BY <2>1, <2>2, <3>1, NothingMoves DEF OthersStay, EntriesStay
        <3>3. Typed'
            BY <1>0, <2>1, <2>2 DEF Typed
        <3> QED
            BY <3>1, <3>2, <3>3 DEF IInv
    <2>3. CASE /\ pending' = [pending EXCEPT ![p] = NoPending]
               /\ job' = [job EXCEPT ![t].todo = <<o>> \o Tail(@)]
        <3>1. p \in Pods /\ pending[p] \in Entry
            BY <1>0
        <3>2. o \in Orders /\ o.event.bids = pending[p].bids /\ o.do = "publish"
            <4>1. pending[p].version \in 0 .. MaxBids /\ pending[p].bids \in SUBSET Bids
                BY <3>1 DEF Entry
            <4> QED
                BY <4>1, OrderTypes DEF Publish, BidSuccess, Event
        <3>3. job[t].todo # <<>> /\ Order(t) = job[t].todo[1] /\ Order(t).do = "flush"
            BY <1>0, <2>1, Rest DEF Must, Idle, Order
        <3>4. HeldIn(job[t]) = {}
            BY <1>0, <3>3 DEF HeldIn, Plan
        <3> DEFINE s == <<o>> \o Tail(job[t].todo)
        <3>5. job' = [job EXCEPT ![t].todo = s]
            BY <2>3
        <3> HIDE DEF o, p
        <3>6. Plan(<<o>>) /\ <<o>> # <<>> /\ Len(<<o>>) = 1 /\ <<o>>[1] = o
            BY <3>2 DEF Plan
        <3>7. /\ Chores(Tail(job[t].todo)) /\ Len(Tail(job[t].todo)) = Len(job[t].todo) - 1
              /\ Len(job[t].todo) \in Nat
            BY <1>0, <3>3, Rest
        <3>8. Plan(s) /\ Len(s) = Len(job[t].todo) /\ s # <<>> /\ s[1] = o
            BY <3>6, <3>7, PlanAndChores
        <3> HIDE DEF s
        <3>9. Tasked' /\ OthersStay(t) /\ HeldIn(job'[t]) = pending[p].bids
            BY <1>0, <3>2, <3>5, <3>8, NextList
        <3>10. /\ pending'[p].bids = {} /\ \A q \in Pods \ {p} : pending'[q].bids = pending[q].bids
               /\ pending' \in [Pods -> Entry]
               /\ \A q \in Pods : pending'[q] # NoPending => pending'[q].version \in pending'[q].bids
            BY <1>0, <2>3, <3>1, NoPendingType DEF Typed
        <3>11. Accounted' /\ Apart'
            BY <2>1, <3>1, <3>4, <3>9, <3>10, BidsTaken
        <3>12. Typed'
            BY <1>0, <2>1, <3>10 DEF Typed
        <3> QED
            BY <3>9, <3>11, <3>12 DEF IInv
    <2> QED
        BY <1>2, <2>2, <2>3 DEF Flushes, Takes
<1>3. CASE Persists(t) \/ Clears(t)
    <2>1. /\ \E do \in {"persist", "clear"} : Must(t, do)
          /\ Done(t) /\ row' \in Phases
          /\ UNCHANGED <<version, leader, phase, pending, announced, forgotten, ended, silenced,
                         faults>>
        BY <1>0, <1>3 DEF Persists, Clears, Phases, Typed
    <2>2. Tasked' /\ OthersStay(t) /\ HeldIn(job'[t]) = {} /\ HeldIn(job[t]) = {}
        BY <1>0, <2>1
    <2>3. Accounted' /\ Apart'
        BY <2>1, <2>2, NothingMoves DEF OthersStay, EntriesStay
    <2>4. Typed'
        BY <1>0, <2>1 DEF Typed
    <2> QED
        BY <2>2, <2>3, <2>4 DEF IInv
<1>4. CASE Publishes(t) \/ PublishLost(t)
    <2>0. faults' \in 0 .. MaxFaults
        BY <1>0, <1>4, BoundsAssumption DEF Publishes, PublishLost, Typed, Fault
    <2>1. /\ Must(t, "publish") /\ Done(t)
          /\ UNCHANGED <<version, leader, phase, row, pending>>
          /\ \/ /\ announced' = announced \cup Order(t).event.bids
                /\ forgotten' = forgotten
             \/ /\ forgotten' = forgotten \cup Order(t).event.bids
                /\ announced' = announced
        BY <1>4 DEF Publishes, PublishLost
    <2>1a. ended' \in BOOLEAN /\ silenced' \in BOOLEAN
        BY <1>0, <1>4, Zenon DEF Publishes, PublishLost, Typed
    <2>2. /\ Tasked' /\ OthersStay(t) /\ HeldIn(job'[t]) = {}
          /\ HeldIn(job[t]) = Order(t).event.bids /\ Order(t) \in Orders
        BY <1>0, <2>1
    <2>3. Accounted' /\ Apart'
        BY <2>1, <2>2, BidsAnnounced, BidsLost DEF EntriesStay
    <2>4. Order(t).event.bids \subseteq Bids
        BY <2>2 DEF Orders, Events
    <2>5. Typed'
        BY <1>0, <2>0, <2>1, <2>1a, <2>4 DEF Typed
    <2> QED
        BY <2>2, <2>3, <2>5 DEF IInv
<1>5. CASE MySQLFails(t)
    <2>0. faults' \in 0 .. MaxFaults
        BY <1>0, <1>5, BoundsAssumption DEF MySQLFails, Typed, Fault
    <2>1. /\ \E do \in {"persist", "clear"} : Must(t, do)
          /\ job' = [job EXCEPT ![t].todo = <<>>]
          /\ UNCHANGED <<version, leader, phase, row, pending, announced, forgotten, ended>>
        BY <1>5 DEF MySQLFails
    <2>1a. silenced' \in BOOLEAN
        BY <1>0, <1>5, Zenon DEF MySQLFails, Typed
    <2>2. Tasked' /\ OthersStay(t) /\ HeldIn(job'[t]) = {}
        <3> DEFINE s == <<>>
        <3>1. Plan(s) /\ Len(s) <= 7 /\ job' = [job EXCEPT ![t].todo = s] /\ s = <<>>
            BY <2>1, EmptyIsChores
        <3> HIDE DEF s
        <3> QED
            BY <1>0, <3>1, NextList
    <2>3. job[t].todo # <<>> /\ job[t].todo[1].do \notin {"enqueue", "publish"}
        BY <1>0, <2>1, Rest DEF Must, Idle, Order
    <2>4. HeldIn(job[t]) = {}
        BY <1>0, <2>3 DEF HeldIn, Plan
    <2>5. Accounted' /\ Apart'
        BY <2>1, <2>2, <2>4, NothingMoves DEF OthersStay, EntriesStay
    <2>6. Typed'
        BY <1>0, <2>0, <2>1, <2>1a DEF Typed
    <2> QED
        BY <2>2, <2>5, <2>6 DEF IInv
<1> QED
    BY <1>1, <1>2, <1>3, <1>4, <1>5 DEF TaskStep

\* The bids of a task's orders are those it holds.
LEMMA HeldByOrders ==
    ASSUME Tasked, NEW t \in Tasks, NEW v
    PROVE  (\E o \in OrdersOf(t) : v \in o.event.bids) <=> v \in HeldIn(job[t])
<1>1. Plan(job[t].todo) /\ DOMAIN job[t].todo = 1 .. Len(job[t].todo) /\ Len(job[t].todo) \in Nat
      /\ (job[t].todo # <<>> <=> Len(job[t].todo) # 0)
    BY DEF Tasked, Plan
<1>2. ASSUME NEW i \in 1 .. Len(job[t].todo), v \in job[t].todo[i].event.bids
      PROVE  i = 1
    BY <1>1, <1>2 DEF Plan
<1> QED
    BY <1>1, <1>2 DEF OrdersOf, HeldIn

LEMMA DyingKeeps ==
    ASSUME IInv, NEW p \in Pods, Dies(p)
    PROVE  IInv'
<1> DEFINE mine == {t \in Tasks : job[t].pod = p}
           cut  == UNION {OrdersOf(t) : t \in mine}
<1>0. Tasked /\ Typed /\ pending \in [Pods -> Entry]
    BY DEF IInv, Typed
<1>1. /\ job' = [t \in Tasks |-> IF t \in mine THEN [job[t] EXCEPT !.todo = <<>>] ELSE job[t]]
      /\ pending' = [pending EXCEPT ![p] = NoPending]
      /\ forgotten' = forgotten \cup pending[p].bids \cup UNION {o.event.bids : o \in cut}
      /\ silenced' \in BOOLEAN /\ faults' \in 0 .. MaxFaults
      /\ UNCHANGED <<version, leader, phase, row, announced, ended>>
    BY <1>0, BoundsAssumption DEF Dies, Fault, Typed
<1>2. \A v : (\E o \in cut : v \in o.event.bids) <=> \E t \in mine : v \in HeldIn(job[t])
    BY <1>0, HeldByOrders
<1>3. \A v : v \in forgotten' <=>
        (v \in forgotten \/ v \in pending[p].bids \/ \E t \in mine : v \in HeldIn(job[t]))
    BY <1>1, <1>2
<1>4. ASSUME NEW t \in Tasks
      PROVE  /\ job'[t] \in [pod: Pods, todo: Seq(Orders)]
             /\ Plan(job'[t].todo) /\ Len(job'[t].todo) <= 7
             /\ t \in mine => HeldIn(job'[t]) = {}
             /\ t \notin mine => HeldIn(job'[t]) = HeldIn(job[t])
    <2>1. job[t] \in [pod: Pods, todo: Seq(Orders)]
        BY <1>0 DEF Tasked
    <2>2. CASE t \in mine
        <3>1. job'[t] = [pod |-> job[t].pod, todo |-> <<>>] /\ job[t].pod \in Pods
            BY <1>1, <2>1, <2>2
        <3> QED
            BY <2>2, <3>1, EmptyIsChores DEF HeldIn
    <2>3. CASE t \notin mine
        BY <1>0, <1>1, <2>1, <2>3 DEF Tasked
    <2> QED
        BY <2>2, <2>3
<1>5. Tasked'
    <2>1. job' \in [Tasks -> [pod: Pods, todo: Seq(Orders)]]
        BY <1>1, <1>4
    <2> QED
        BY <1>4, <2>1 DEF Tasked
<1>6. /\ pending'[p].bids = {} /\ \A q \in Pods \ {p} : pending'[q].bids = pending[q].bids
      /\ pending' \in [Pods -> Entry]
      /\ \A q \in Pods : pending'[q] # NoPending => pending'[q].version \in pending'[q].bids
    BY <1>0, <1>1, NoPendingType DEF Typed
<1>7. mine \in SUBSET Tasks
    OBVIOUS
<1> HIDE DEF mine
<1>8. Accounted' /\ Apart'
    BY <1>1, <1>3, <1>4, <1>6, <1>7, BidsForgotten
<1>9. forgotten' \subseteq Bids
    <2>1. ASSUME NEW t \in Tasks PROVE HeldIn(job[t]) \subseteq Bids
        <3>1. Plan(job[t].todo)
            BY <1>0 DEF Tasked
        <3>2. job[t].todo # <<>> => job[t].todo[1] \in Orders
            BY <3>1, Rest
        <3> QED
            BY <3>2 DEF HeldIn, Orders, Events
    <2> QED
        BY <1>0, <1>3, <1>7, <2>1 DEF Typed, Entry
<1>10. Typed'
    BY <1>0, <1>1, <1>6, <1>9 DEF Typed
<1> QED
    BY <1>5, <1>8, <1>10 DEF IInv

LEMMA Preserved == IInv /\ [Next]_vars => IInv'
<1> SUFFICES ASSUME IInv, [Next]_vars PROVE IInv'
    OBVIOUS
<1>1. CASE UNCHANGED vars
    <2>1. UNCHANGED <<version, leader, phase, row, pending, job, announced, forgotten, ended,
                      silenced, faults>>
        BY <1>1 DEF vars
    <2>2. Accounted' /\ Apart'
        BY <2>1, NothingMoves DEF EntriesStay
    <2> QED
        BY <2>1, <2>2 DEF IInv, Typed, Tasked
<1> QED
    BY <1>1, BeginningKeeps, GoingOnKeeps, DyingKeeps DEF Next, FaultStep

LEMMA AlwaysIInv == SafeSpec => []IInv
    BY Initially, Preserved, PTL DEF SafeSpec

-----------------------------------------------------------------------------
(* Theorems.                                                               *)

\* Every variable keeps the values the code gives it, and an entry of the map
\* has the version of one of the bids it stands for.
THEOREM TypeCorrect == SafeSpec => []TypeOK
<1>1. IInv => TypeOK
    <2> SUFFICES ASSUME IInv PROVE TypeOK
        OBVIOUS
    <2>1. Typed /\ Tasked
        BY DEF IInv
    <2>2. ASSUME NEW t \in Tasks PROVE job[t].pod \in Pods /\ OrdersOf(t) \subseteq Orders
        <3>1. job[t].pod \in Pods /\ job[t].todo \in Seq(Orders)
            BY <2>1 DEF Tasked
        <3> QED
            BY <3>1 DEF OrdersOf
    <2> QED
        BY <2>1, <2>2 DEF TypeOK, Typed, Entry
<1> QED
    BY <1>1, AlwaysIInv, PTL

\* However tasks, timers and the end's flush interleave, and whichever pods
\* die: every accepted bid is in exactly one place on its way to the room.
THEOREM EachBidAnnouncedOnceHolds == SafeSpec => []EachBidAnnouncedOnce
<1>1. IInv => EachBidAnnouncedOnce
    <2> SUFFICES ASSUME IInv, NEW v \in Bids
                 PROVE  Cardinality({l \in Places : v \in BidsAt(l)})
                        = IF v <= version THEN 1 ELSE 0
        BY DEF EachBidAnnouncedOnce
    <2> DEFINE L == {l \in Places : v \in BidsAt(l)}
    <2>0. v \in Nat \ {0} /\ version \in Nat /\ Tasked /\ Accounted /\ Apart
        BY BoundsAssumption DEF IInv, Typed, Bids
    <2>1. ASSUME NEW t \in Tasks, NEW i \in 1 .. 7, v \in BidsAt(<<t, i>>)
          PROVE  i = 1 /\ v \in HeldIn(job[t])
        <3>1. v \in job[t].todo[i].event.bids /\ i \in DOMAIN job[t].todo
            <4>1. i # 0 /\ <<t, i>>[1] = t /\ <<t, i>>[2] = i
                OBVIOUS
            <4> QED
                BY <2>1, <4>1 DEF BidsAt
        <3>2. Plan(job[t].todo) /\ DOMAIN job[t].todo = 1 .. Len(job[t].todo)
              /\ Len(job[t].todo) \in Nat
            BY <2>0 DEF Tasked, Plan
        <3>3. i = 1
            BY <3>1, <3>2 DEF Plan
        <3> QED
            BY <3>1, <3>2, <3>3 DEF HeldIn
    <2>2. ASSUME NEW t \in Tasks, v \in HeldIn(job[t])
          PROVE  <<t, 1>> \in L
        <3>1. job[t].todo # <<>> /\ v \in job[t].todo[1].event.bids
            BY <2>2 DEF HeldIn
        <3>2. 1 \in DOMAIN job[t].todo
            BY <2>0, <3>1 DEF Tasked, Plan
        <3> QED
            BY <3>1, <3>2 DEF BidsAt, Places
    <2>3. BidsAt(<<"announced", 0>>) = announced /\ BidsAt(<<"forgotten", 0>>) = forgotten
          /\ <<"announced", 0>> \in Places /\ <<"forgotten", 0>> \in Places
        BY DEF BidsAt, Places
    <2>4. \A p \in Pods : BidsAt(<<p, 0>>) = pending[p].bids /\ <<p, 0>> \in Places
        BY PodsAssumption DEF BidsAt, Places
    <2>5. \A l \in L : \/ l = <<"announced", 0>> \/ l = <<"forgotten", 0>>
                       \/ \E p \in Pods : l = <<p, 0>>
                       \/ \E t \in Tasks : l = <<t, 1>> /\ v \in HeldIn(job[t])
        <3>1. ASSUME NEW l \in L
              PROVE  \/ \E t \in Tasks, i \in 1 .. 7 : l = <<t, i>>
                     \/ \E p \in Pods \cup {"announced", "forgotten"} : l = <<p, 0>>
            BY DEF Places
        <3> QED
            BY <2>1, <3>1
    <2>6. CASE v <= version
        <3>1. v \in 1 .. version
            BY <2>0, <2>6
        <3>2. \E l \in Places : v \in BidsAt(l)
            BY <2>0, <2>2, <2>3, <2>4, <3>1 DEF Accounted
        <3>3. \A l, m \in L : l = m
            BY <2>0, <2>3, <2>4, <2>5 DEF Apart
        <3>4. PICK l \in L : L = {l}
            BY <3>2, <3>3
        <3> QED
            BY <2>6, <3>4, FS_Singleton
    <2>7. CASE ~(v <= version)
        <3>1. v \notin 1 .. version
            BY <2>0, <2>7
        <3>2. L = {}
            BY <2>0, <2>3, <2>4, <2>5, <3>1 DEF Accounted
        <3> QED
            BY <2>7, <3>2, FS_EmptySet
    <2> QED
        BY <2>6, <2>7
<1> QED
    BY <1>1, AlwaysIInv, PTL

-----------------------------------------------------------------------------
(* What tasks have still to say of the end.                                *)

Says(o) == o.event.type = "auction_ended"

\* Nothing of the end at all.
Silent(s) ==
    /\ s \in Seq(Orders)
    /\ \A i \in 1 .. Len(s) : ~Says(s[i]) /\ s[i].do # "persist"

\* At most one saving of the row.
SavesOnce(s) ==
    /\ s \in Seq(Orders)
    /\ \A i \in 1 .. Len(s) : ~Says(s[i])
    /\ \A i, j \in 1 .. Len(s) : s[i].do = "persist" /\ s[j].do = "persist" => i = j

\* Only publications say that the auction ended; whoever saves the row does so
\* once and has in the end to say it.
Telling(s) ==
    /\ s \in Seq(Orders)
    /\ \A i \in 1 .. Len(s) : Says(s[i]) => s[i].do = "publish" /\ s[i].event.bids = {}
    /\ \A i, j \in 1 .. Len(s) :
          s[i].do = "persist" => (s[j].do = "persist" => i = j) /\ Says(s[Len(s)])

\* The row is saved, and it has still to be said.
Owing(s) ==
    /\ \E i \in 1 .. Len(s) : Says(s[i])
    /\ \A i \in 1 .. Len(s) : s[i].do # "persist"

LEMMA EmptyIsSilent == Silent(<<>>) /\ ~Owing(<<>>)
    BY DEF Silent, Owing

LEMMA SilentIsTelling ==
    ASSUME NEW s, Silent(s)
    PROVE  Telling(s) /\ SavesOnce(s)
    BY DEF Silent, Telling, SavesOnce

LEMMA OneIsSilent ==
    ASSUME NEW o \in Orders, ~Says(o), o.do # "persist"
    PROVE  Silent(<<o>>)
    BY DEF Silent

LEMMA SilentTogether ==
    ASSUME NEW s, NEW u, Silent(s), Silent(u)
    PROVE  Silent(s \o u)
    BY ConcatProperties DEF Silent

LEMMA SavesAfterSilence ==
    ASSUME NEW s, NEW u, Silent(s), SavesOnce(u)
    PROVE  SavesOnce(s \o u)
<1>1. /\ s \in Seq(Orders) /\ u \in Seq(Orders) /\ Len(s) \in Nat /\ Len(u) \in Nat
      /\ s \o u \in Seq(Orders) /\ Len(s \o u) = Len(s) + Len(u)
      /\ \A i \in 1 .. Len(s) + Len(u) :
            (s \o u)[i] = IF i <= Len(s) THEN s[i] ELSE u[i - Len(s)]
    BY ConcatProperties, LenProperties DEF Silent, SavesOnce
<1>2. ASSUME NEW i \in 1 .. Len(s \o u)
      PROVE  ~Says((s \o u)[i])
    BY <1>1 DEF Silent, SavesOnce
<1>3. ASSUME NEW i \in 1 .. Len(s \o u), (s \o u)[i].do = "persist"
      PROVE  i > Len(s) /\ i - Len(s) \in 1 .. Len(u) /\ u[i - Len(s)].do = "persist"
    BY <1>1, <1>3 DEF Silent
<1>4. ASSUME NEW i \in 1 .. Len(s \o u), NEW j \in 1 .. Len(s \o u),
             (s \o u)[i].do = "persist", (s \o u)[j].do = "persist"
      PROVE  i = j
    <2>1. i - Len(s) = j - Len(s)
        BY <1>3, <1>4 DEF SavesOnce
    <2> QED
        BY <1>1, <2>1
<1> QED
    BY <1>1, <1>2, <1>4 DEF SavesOnce

LEMMA SavesAndSays ==
    ASSUME NEW s, NEW u, SavesOnce(s), Telling(u), Owing(u), Says(u[Len(u)])
    PROVE  Telling(s \o u)
<1>1. /\ s \in Seq(Orders) /\ u \in Seq(Orders) /\ Len(s) \in Nat /\ Len(u) \in Nat
      /\ s \o u \in Seq(Orders) /\ Len(s \o u) = Len(s) + Len(u)
      /\ \A i \in 1 .. Len(s) + Len(u) :
            (s \o u)[i] = IF i <= Len(s) THEN s[i] ELSE u[i - Len(s)]
    BY ConcatProperties, LenProperties DEF SavesOnce, Telling
<1>2. Len(u) >= 1
    BY <1>1 DEF Owing
<1>3. ~(Len(s) + Len(u) <= Len(s)) /\ Len(s) + Len(u) - Len(s) = Len(u)
      /\ Len(s) + Len(u) \in 1 .. Len(s) + Len(u)
    BY <1>1, <1>2
<1>4. Says((s \o u)[Len(s \o u)])
    BY <1>1, <1>3
<1>5. ASSUME NEW i \in 1 .. Len(s \o u), Says((s \o u)[i])
      PROVE  (s \o u)[i].do = "publish" /\ (s \o u)[i].event.bids = {}
    <2>1. i > Len(s) /\ i - Len(s) \in 1 .. Len(u) /\ (s \o u)[i] = u[i - Len(s)]
        BY <1>1, <1>5 DEF SavesOnce
    <2> QED
        BY <1>5, <2>1 DEF Telling
<1>6. ASSUME NEW i \in 1 .. Len(s \o u), (s \o u)[i].do = "persist"
      PROVE  i \in 1 .. Len(s) /\ s[i].do = "persist"
    BY <1>1, <1>6 DEF Owing
<1>7. ASSUME NEW i \in 1 .. Len(s \o u), NEW j \in 1 .. Len(s \o u),
             (s \o u)[i].do = "persist", (s \o u)[j].do = "persist"
      PROVE  i = j
    BY <1>6, <1>7 DEF SavesOnce
<1> QED
    BY <1>1, <1>4, <1>5, <1>7 DEF Telling

\* A task has done its first order.
LEMMA TellingGoesOn ==
    ASSUME NEW s, Telling(s), s # <<>>
    PROVE  /\ Telling(Tail(s))
           /\ s[1].do = "persist" => Owing(Tail(s))
           /\ Owing(s) /\ ~Says(s[1]) => Owing(Tail(s))
           /\ Silent(s) => Silent(Tail(s))
           /\ Silent(s) => ~Says(s[1]) /\ s[1].do # "persist"
           /\ Says(s[1]) => s[1].do = "publish" /\ s[1].event.bids = {}
<1> DEFINE r == Tail(s)
<1>1. /\ s \in Seq(Orders) /\ Len(s) \in Nat \ {0} /\ r \in Seq(Orders)
      /\ Len(r) = Len(s) - 1
      /\ \A i \in 1 .. Len(r) : r[i] = s[i + 1] /\ i + 1 \in 1 .. Len(s)
    BY DEF Telling
<1> HIDE DEF r
<1>2. ASSUME NEW i \in 1 .. Len(s), i # 1
      PROVE  i - 1 \in 1 .. Len(r) /\ s[i] = r[i - 1]
    <2>1. i - 1 \in 1 .. Len(r) /\ (i - 1) + 1 = i
        BY <1>1, <1>2
    <2>2. r[i - 1] = s[(i - 1) + 1]
        BY <1>1, <2>1
    <2> QED
        BY <2>1, <2>2
<1>3. Telling(r)
    <2>1. ASSUME NEW i \in 1 .. Len(r), r[i].do = "persist"
          PROVE  Says(r[Len(r)])
        <3>1. Says(s[Len(s)])
            BY <1>1, <2>1 DEF Telling
        <3>2. Len(r) \in 1 .. Len(r) /\ r[Len(r)] = s[Len(s)]
            BY <1>1
        <3> QED
            BY <3>1, <3>2
    <2>2. ASSUME NEW i \in 1 .. Len(r), NEW j \in 1 .. Len(r),
                 r[i].do = "persist", r[j].do = "persist"
          PROVE  i = j
        <3>1. i + 1 = j + 1
            BY <1>1, <2>2 DEF Telling
        <3> QED
            BY <3>1
    <2>3. \A i \in 1 .. Len(r) : Says(r[i]) => r[i].do = "publish" /\ r[i].event.bids = {}
        BY <1>1 DEF Telling
    <2> QED
        BY <1>1, <2>1, <2>2, <2>3 DEF Telling
<1>4. ASSUME s[1].do = "persist"
      PROVE  Owing(r)
    <2>1. Says(s[Len(s)]) /\ ~Says(s[1]) /\ Len(s) \in 1 .. Len(s)
        BY <1>1, <1>4 DEF Telling
    <2>2. Len(s) - 1 \in 1 .. Len(r) /\ Says(r[Len(s) - 1])
        BY <1>2, <2>1
    <2>3. ASSUME NEW i \in 1 .. Len(r) PROVE r[i].do # "persist"
        <3>1. 1 \in 1 .. Len(s) /\ i + 1 # 1
            BY <1>1
        <3> QED
            BY <1>1, <1>4, <3>1 DEF Telling
    <2> QED
        BY <2>2, <2>3 DEF Owing
<1>5. ASSUME Owing(s), ~Says(s[1])
      PROVE  Owing(r)
    <2>1. PICK i \in 1 .. Len(s) : Says(s[i])
        BY <1>5 DEF Owing
    <2>2. i - 1 \in 1 .. Len(r) /\ Says(r[i - 1])
        BY <1>2, <1>5, <2>1
    <2>3. \A j \in 1 .. Len(r) : r[j].do # "persist"
        BY <1>1, <1>5 DEF Owing
    <2> QED
        BY <2>2, <2>3 DEF Owing
<1>6. Silent(s) => Silent(r)
    BY <1>1 DEF Silent
<1>7. 1 \in 1 .. Len(s)
    BY <1>1
<1> QED
    BY <1>3, <1>4, <1>5, <1>6, <1>7 DEF r, Silent, Telling

\* What was coalesced is published before the rest.
LEMMA PutsFirst ==
    ASSUME NEW o \in Orders, ~Says(o), o.do # "persist", NEW s, Telling(s)
    PROVE  /\ Telling(<<o>> \o s)
           /\ Owing(s) => Owing(<<o>> \o s)
           /\ Silent(s) => Silent(<<o>> \o s)
<1> DEFINE u == <<o>> \o s
<1>1. /\ s \in Seq(Orders) /\ Len(s) \in Nat /\ u \in Seq(Orders) /\ Len(u) = Len(s) + 1
      /\ u[1] = o /\ \A i \in 1 .. Len(s) : u[i + 1] = s[i] /\ i + 1 \in 1 .. Len(u)
    <2>1. <<o>> \in Seq(Orders) /\ Len(<<o>>) = 1 /\ <<o>>[1] = o /\ s \in Seq(Orders)
        BY DEF Telling
    <2> QED
        BY <2>1, ConcatProperties, LenProperties
<1> HIDE DEF u
<1>2. ASSUME NEW i \in 1 .. Len(u), i # 1
      PROVE  i - 1 \in 1 .. Len(s) /\ u[i] = s[i - 1]
    <2>1. i - 1 \in 1 .. Len(s) /\ (i - 1) + 1 = i
        BY <1>1, <1>2
    <2>2. u[(i - 1) + 1] = s[i - 1]
        BY <1>1, <2>1
    <2> QED
        BY <2>1, <2>2
<1>3. Silent(s) => Silent(u)
    BY <1>1, <1>2 DEF Silent
<1>4. Owing(s) => Owing(u)
    <2> SUFFICES ASSUME Owing(s) PROVE Owing(u)
        OBVIOUS
    <2>1. PICK i \in 1 .. Len(s) : Says(s[i])
        BY DEF Owing
    <2>2. i + 1 \in 1 .. Len(u) /\ Says(u[i + 1])
        BY <1>1, <2>1
    <2>3. \A k \in 1 .. Len(s) : s[k].do # "persist"
        BY DEF Owing
    <2>4. ASSUME NEW j \in 1 .. Len(u) PROVE u[j].do # "persist"
        <3>1. CASE j = 1
            BY <1>1, <3>1
        <3>2. CASE j # 1
            BY <1>2, <2>3, <3>2
        <3> QED
            BY <3>1, <3>2
    <2> QED
        BY <2>2, <2>4 DEF Owing
<1>5. Telling(u)
    <2>1. ASSUME NEW i \in 1 .. Len(u), u[i].do = "persist"
          PROVE  i - 1 \in 1 .. Len(s) /\ s[i - 1].do = "persist" /\ Says(u[Len(u)])
        <3>1. i # 1
            BY <1>1, <2>1
        <3>2. i - 1 \in 1 .. Len(s) /\ s[i - 1].do = "persist"
            BY <1>2, <2>1, <3>1
        <3>3. Len(s) \in 1 .. Len(s)
            BY <1>1, <3>2
        <3>4. \E j \in 1 .. Len(s) : s[j].do = "persist"
            BY <3>2
        <3>5. Says(s[Len(s)])
            BY <3>4 DEF Telling
        <3> QED
            BY <1>1, <3>2, <3>3, <3>5
    <2>2. ASSUME NEW i \in 1 .. Len(u), NEW j \in 1 .. Len(u),
                 u[i].do = "persist", u[j].do = "persist"
          PROVE  i = j
        <3>1. i - 1 = j - 1
            BY <2>1, <2>2 DEF Telling
        <3> QED
            BY <3>1
    <2>3. \A i \in 1 .. Len(u) : Says(u[i]) => u[i].do = "publish" /\ u[i].event.bids = {}
        BY <1>1, <1>2 DEF Telling
    <2> QED
        BY <1>1, <2>1, <2>2, <2>3 DEF Telling
<1> QED
    BY <1>3, <1>4, <1>5 DEF u

-----------------------------------------------------------------------------
(* Who has still to say it.                                                *)

\* Nobody says it or saves the row before it is so; and once the row is saved
\* it was said, cannot be said any more, or somebody has still to say it.
Told ==
    /\ \A t \in Tasks : Telling(job[t].todo)
    /\ \A t \in Tasks : ~Silent(job[t].todo) => phase = "ended"
    /\ ended \/ row = "ended" => phase = "ended"
    /\ row = "ended" => ended \/ silenced \/ \E t \in Tasks : Owing(job[t].todo)

\* One task's list changes.
LEMMA OneTells ==
    ASSUME Told, NEW t \in Tasks, NEW s, Telling(s), job'[t].todo = s,
           \A u \in Tasks \ {t} : job'[u] = job[u],
           phase = "ended" => phase' = "ended", ~Silent(s) => phase' = "ended",
           ended' \/ row' = "ended" => phase' = "ended",
           row' = "ended" => \/ ended' \/ silenced' \/ Owing(s)
                             \/ \E u \in Tasks \ {t} : Owing(job[u].todo)
    PROVE  Told'
<1>1. \A u \in Tasks : /\ Telling(job'[u].todo)
                       /\ ~Silent(job'[u].todo) => phase' = "ended"
    BY DEF Told
<1>2. (\E u \in Tasks \ {t} : Owing(job[u].todo)) => \E u \in Tasks : Owing(job'[u].todo)
    <2> SUFFICES ASSUME NEW u \in Tasks \ {t}, Owing(job[u].todo)
                 PROVE  \E v \in Tasks : Owing(job'[v].todo)
        OBVIOUS
    <2>1. job'[u].todo = job[u].todo
        OBVIOUS
    <2> QED
        BY <2>1
<1>3. Owing(s) => \E u \in Tasks : Owing(job'[u].todo)
    OBVIOUS
<1> QED
    BY <1>1, <1>2, <1>3 DEF Told

LEMMA BeginningTells ==
    ASSUME IInv, Told, NEW t \in Tasks, NEW p \in Pods,
           \/ \E user \in Users : PlaceBid(t, p, user)
           \/ Settle(t, p) \/ Fallback(t, p) \/ TimerFires(t, p)
    PROVE  Told'
<1>0. /\ Tasked /\ Typed /\ Idle(t) /\ MaxBids \in Nat
      /\ phase = "ongoing" => ~ended /\ row # "ended"
    BY BoundsAssumption
       DEF IInv, Told, PlaceBid, Settle, Fallback, TimerFires, Begins
<1>1. ~Owing(job[t].todo)
    BY <1>0, EmptyIsSilent DEF Idle
<1>2. ASSUME NEW s, job' = [job EXCEPT ![t] = [pod |-> p, todo |-> s]]
      PROVE  job'[t].todo = s /\ \A u \in Tasks \ {t} : job'[u] = job[u]
    BY <1>0, <1>2 DEF Tasked
<1>3. ASSUME NEW user \in Users, PlaceBid(t, p, user)
      PROVE  Told'
    <2> DEFINE v == version + 1
    <2>1. PICK extended, capped, buffered \in BOOLEAN :
            /\ phase' = IF capped THEN "ended" ELSE "ongoing"
            /\ job' = [job EXCEPT ![t] = [pod |-> p, todo |->
                 <<Enqueue(v)>>
                 \o If(leader \notin {NoUser, user}, <<Publish(Outbid(leader, v))>>)
                 \o If(extended, <<Publish(Extended(v))>>)
                 \o If(capped /\ ~buffered, <<Persist, Clear>>)
                 \o If(capped, <<Flush, Publish(Ended(v))>>)]]
        BY <1>3 DEF PlaceBid, Begins
    <2>2. /\ phase = "ongoing" /\ version < MaxBids
          /\ UNCHANGED <<row, ended, silenced>>
        BY <1>3 DEF PlaceBid
    <2>3. v \in 0 .. MaxBids /\ v \in Bids
        BY <1>0, <2>2 DEF Typed, Bids
    <2> DEFINE a == If(leader \notin {NoUser, user}, <<Publish(Outbid(leader, v))>>)
               b == If(extended, <<Publish(Extended(v))>>)
               c == If(capped /\ ~buffered, <<Persist, Clear>>)
               d == If(capped, <<Flush, Publish(Ended(v))>>)
               e == <<Enqueue(v)>>
    <2>4. Silent(e)
        <3>1. Enqueue(v) \in Orders /\ ~Says(Enqueue(v)) /\ Enqueue(v).do # "persist"
            BY <2>3, OrderTypes DEF Enqueue, BidSuccess, Event, Says
        <3> QED
            BY <3>1, OneIsSilent
    <2>5. Silent(a)
        <3>1. CASE leader \notin {NoUser, user}
            <4>1. Publish(Outbid(leader, v)) \in Orders
                BY <1>0, <2>3, <3>1, OrderTypes DEF Typed
            <4>2. ~Says(Publish(Outbid(leader, v))) /\ Publish(Outbid(leader, v)).do # "persist"
                BY DEF Publish, Outbid, Event, Says
            <4> QED
                BY <3>1, <4>1, <4>2, OneIsSilent DEF If
        <3>2. CASE leader \in {NoUser, user}
            BY <3>2, EmptyIsSilent DEF If
        <3> QED
            BY <3>1, <3>2
    <2>6. Silent(b)
        <3>1. /\ Publish(Extended(v)) \in Orders /\ ~Says(Publish(Extended(v)))
              /\ Publish(Extended(v)).do # "persist"
            BY <2>3, OrderTypes DEF Publish, Extended, Event, Says
        <3> QED
            BY <3>1, OneIsSilent, EmptyIsSilent DEF If
    <2>7. SavesOnce(c) /\ (~capped => c = <<>>)
        <3>1. SavesOnce(<<Persist, Clear>>)
            BY OrderTypes DEF SavesOnce, Says, Persist, Clear, BidSuccess, Event
        <3>2. SavesOnce(<<>>)
            BY EmptyIsSilent, SilentIsTelling
        <3> QED
            BY <3>1, <3>2 DEF If
    <2>8. /\ capped => Telling(d) /\ Owing(d) /\ Says(d[Len(d)])
          /\ ~capped => d = <<>>
        <3> DEFINE end == Publish(Ended(v))
        <3>1. end \in Orders /\ Says(end) /\ end.do = "publish" /\ end.event.bids = {}
            BY <2>3, OrderTypes DEF Publish, Ended, Event, Says
        <3>2. Flush \in Orders /\ ~Says(Flush) /\ Flush.do = "flush"
            BY OrderTypes DEF Flush, BidSuccess, Event, Says
        <3> HIDE DEF end
        <3>3. Telling(<<Flush, end>>) /\ Owing(<<Flush, end>>)
              /\ Says(<<Flush, end>>[Len(<<Flush, end>>)])
            BY <3>1, <3>2 DEF Telling, Owing
        <3> QED
            BY <3>3 DEF If, end
    <2> DEFINE s == e \o a \o b \o c \o d
    <2>9. job' = [job EXCEPT ![t] = [pod |-> p, todo |-> s]]
        BY <2>1
    <2> HIDE DEF v, a, b, c, d, e
    <2>10. Silent(e \o a \o b)
        BY <2>4, <2>5, <2>6, SilentTogether
    <2>11. CASE capped
        <3>1. SavesOnce(e \o a \o b \o c)
            BY <2>7, <2>10, SavesAfterSilence
        <3>2. Telling(s)
            BY <2>8, <2>11, <3>1, SavesAndSays
        <3>3. phase' = "ended"
            BY <2>1, <2>11
        <3> HIDE DEF s
        <3> QED
            BY <1>0, <1>2, <2>2, <2>9, <3>2, <3>3, OneTells
    <2>12. CASE ~capped
        <3>1. Silent(e \o a \o b \o <<>> \o <<>>)
            BY <2>10, EmptyIsSilent, SilentTogether
        <3>2. Silent(s)
            BY <2>7, <2>8, <2>12, <3>1
        <3> HIDE DEF s
        <3>3. Telling(s)
            BY <3>2, SilentIsTelling
        <3> QED
            BY <1>0, <1>2, <2>2, <2>9, <3>2, <3>3, OneTells
    <2> QED
        BY <2>11, <2>12
<1>4. CASE Settle(t, p) \/ Fallback(t, p)
    <2> DEFINE end == Publish(Ended(version))
               s == <<Persist, end>>
    <2>1. /\ job' = [job EXCEPT ![t] = [pod |-> p, todo |-> s]]
          /\ phase' = "ended" /\ row' # "ended"
          /\ UNCHANGED <<row, ended, silenced>>
        BY <1>0, <1>4 DEF Settle, Fallback, Begins
    <2>2. end \in Orders /\ Says(end) /\ end.do = "publish" /\ end.event.bids = {}
        BY <1>0, OrderTypes DEF Publish, Ended, Event, Says, Typed
    <2>3. Persist \in Orders /\ ~Says(Persist)
        BY OrderTypes DEF Persist, BidSuccess, Event, Says
    <2> HIDE DEF end
    <2>4. Telling(s)
        BY <2>2, <2>3 DEF Telling
    <2> HIDE DEF s
    <2> QED
        BY <1>2, <2>1, <2>4, OneTells
<1>5. CASE TimerFires(t, p)
    <2> DEFINE o == Publish(BidSuccess(pending[p].version, pending[p].bids))
               s == <<o>>
    <2>1. /\ job' = [job EXCEPT ![t] = [pod |-> p, todo |-> s]]
          /\ UNCHANGED <<phase, row, ended, silenced>>
        BY <1>5 DEF TimerFires, Begins
    <2>2. o \in Orders
        <3>1. pending[p].version \in 0 .. MaxBids /\ pending[p].bids \in SUBSET Bids
            BY <1>0 DEF Typed, Entry
        <3> QED
            BY <3>1, OrderTypes
    <2>3. Silent(s)
        BY <2>2, OneIsSilent DEF Publish, BidSuccess, Event, Says
    <2>4. Telling(s)
        BY <2>3, SilentIsTelling
    <2> HIDE DEF s
    <2>5. row = "ended" => ended \/ silenced \/ \E u \in Tasks \ {t} : Owing(job[u].todo)
        BY <1>1 DEF Told
    <2> QED
        BY <1>2, <2>1, <2>3, <2>4, <2>5, OneTells DEF Told
<1> QED
    BY <1>3, <1>4, <1>5

LEMMA GoingOnTells ==
    ASSUME IInv, Told, NEW t \in Tasks,
           \/ TaskStep(t) \/ PublishLost(t) \/ MySQLFails(t)
    PROVE  Told'
<1> DEFINE s == job[t].todo
           r == Tail(s)
<1>0. /\ Tasked /\ Typed /\ Plan(s) /\ Telling(s)
      /\ ~Silent(s) => phase = "ended"
      /\ ended \/ row = "ended" => phase = "ended"
      /\ row = "ended" => \/ ended \/ silenced \/ Owing(s)
                          \/ \E u \in Tasks \ {t} : Owing(job[u].todo)
    BY DEF IInv, Tasked, Told
<1>1. s # <<>> /\ Order(t) = s[1]
    BY <1>0, Rest DEF TaskStep, Enqueues, Flushes, Persists, Clears, Publishes, PublishLost,
                      MySQLFails, Must, Idle, Order
<1>2. /\ Telling(r)
      /\ s[1].do = "persist" => Owing(r)
      /\ Owing(s) /\ ~Says(s[1]) => Owing(r)
      /\ Silent(s) => Silent(r)
      /\ Silent(s) => ~Says(s[1]) /\ s[1].do # "persist"
      /\ Says(s[1]) => s[1].do = "publish"
    BY <1>0, <1>1, TellingGoesOn
<1>3. ASSUME NEW q, job' = [job EXCEPT ![t].todo = q]
      PROVE  job'[t].todo = q /\ \A u \in Tasks \ {t} : job'[u] = job[u]
    <2>1. job[t] \in [pod: Pods, todo: Seq(Orders)] /\ job \in [Tasks -> [pod: Pods, todo: Seq(Orders)]]
        BY <1>0 DEF Tasked
    <2> QED
        BY <1>3, <2>1
<1>4. Done(t) => job'[t].todo = r /\ \A u \in Tasks \ {t} : job'[u] = job[u]
    BY <1>3 DEF Done
<1> HIDE DEF s, r
<1>5. CASE Enqueues(t) \/ Clears(t) \/ (Flushes(t) /\ Done(t))
    <2>1. Done(t) /\ UNCHANGED <<phase, row, ended, silenced>> /\ s[1].do # "publish"
        BY <1>1, <1>5 DEF Enqueues, Clears, Flushes, Must
    <2> QED
        BY <1>0, <1>2, <1>4, <2>1, OneTells
<1>6. CASE Flushes(t) /\ ~Done(t)
    <2> DEFINE p == job[t].pod
               o == Publish(BidSuccess(pending[p].version, pending[p].bids))
               q == <<o>> \o r
    <2>1. /\ job' = [job EXCEPT ![t].todo = q] /\ s[1].do = "flush"
          /\ UNCHANGED <<phase, row, ended, silenced>>
        BY <1>1, <1>6 DEF Flushes, Must, r, s
    <2>2. o \in Orders
        <3>1. pending[p].version \in 0 .. MaxBids /\ pending[p].bids \in SUBSET Bids
            BY <1>0 DEF Typed, Entry, Tasked
        <3> QED
            BY <3>1, OrderTypes
    <2>3. ~Says(o) /\ o.do # "persist"
        BY DEF Publish, BidSuccess, Event, Says
    <2>4. /\ Telling(q) /\ (Owing(r) => Owing(q)) /\ (Silent(r) => Silent(q))
        BY <1>2, <2>2, <2>3, PutsFirst
    <2> HIDE DEF q
    <2> QED
        BY <1>0, <1>2, <1>3, <2>1, <2>4, OneTells
<1>7. CASE Persists(t)
    <2>1. /\ Done(t) /\ row' = "ended" /\ s[1].do = "persist"
          /\ UNCHANGED <<phase, ended, silenced>>
        BY <1>1, <1>7 DEF Persists, Must
    <2>2. phase = "ended" /\ Owing(r)
        BY <1>0, <1>2, <2>1
    <2> QED
        BY <1>2, <1>4, <2>1, <2>2, OneTells
<1>8. CASE Publishes(t) \/ PublishLost(t)
    <2>1. /\ Done(t) /\ UNCHANGED <<phase, row>>
          /\ Says(s[1]) /\ row = "ended" => ended' = TRUE \/ silenced' = TRUE
          /\ ended' => ended \/ Says(s[1])
          /\ (ended => ended') /\ (silenced => silenced')
        <3>1. CASE Publishes(t)
            <4>1. /\ Done(t) /\ UNCHANGED <<phase, row, silenced>>
                  /\ ended' = (ended \/ Says(Order(t)))
                BY <3>1, Zenon DEF Publishes, Says
            <4> QED
                BY <1>1, <4>1, Zenon
        <3>2. CASE PublishLost(t)
            BY <1>1, <3>2, Zenon DEF PublishLost, Says
        <3> QED
            BY <1>8, <3>1, <3>2
    <2>2. ended' => phase = "ended"
        BY <1>0, <1>2, <2>1
    <2>3. row' = "ended" => \/ ended' \/ silenced' \/ Owing(r)
                            \/ \E u \in Tasks \ {t} : Owing(job[u].todo)
        BY <1>0, <1>2, <2>1
    <2>4. ~Silent(r) => phase' = "ended"
        BY <1>0, <1>2, <2>1
    <2>5. ended' \/ row' = "ended" => phase' = "ended"
        BY <1>0, <2>1, <2>2
    <2> QED
        BY <1>2, <1>4, <2>1, <2>3, <2>4, <2>5, OneTells
<1>9. CASE MySQLFails(t)
    <2>1. /\ job' = [job EXCEPT ![t].todo = <<>>]
          /\ UNCHANGED <<phase, row, ended>>
          /\ s[1].do = "persist" \/ silenced' = TRUE
          /\ silenced => silenced'
        <3>1. job' = [job EXCEPT ![t].todo = <<>>] /\ UNCHANGED <<phase, row, ended>>
            BY <1>9 DEF MySQLFails
        <3>2. \/ Order(t).do = "persist" /\ silenced' = silenced
              \/ silenced' = TRUE
            BY <1>9, Zenon DEF MySQLFails, Must
        <3>3. s[1].do = "persist" \/ silenced' = TRUE
            BY <1>1, <3>2, Zenon
        <3>4. silenced => silenced'
            BY <3>2, Zenon
        <3> QED
            BY <3>1, <3>3, <3>4
    <2>2. s[1].do = "persist" => ~Owing(s)
        <3>1. 1 \in 1 .. Len(s)
            BY <1>0, <1>1 DEF Telling
        <3> QED
            BY <3>1 DEF Owing
    <2>3. Telling(<<>>) /\ Silent(<<>>)
        BY EmptyIsSilent, SilentIsTelling
    <2> DEFINE q == <<>>
    <2>4. job'[t].todo = q /\ \A u \in Tasks \ {t} : job'[u] = job[u]
        BY <1>3, <2>1
    <2>5. row' = "ended" => \/ ended' \/ silenced' \/ Owing(q)
                            \/ \E u \in Tasks \ {t} : Owing(job[u].todo)
        BY <1>0, <2>1, <2>2
    <2> QED
        BY <1>0, <2>1, <2>3, <2>4, <2>5, OneTells
<1> QED
    BY <1>5, <1>6, <1>7, <1>8, <1>9 DEF TaskStep

\* The orders that die with a pod were cut or are others' to carry out.
LEMMA DyingTells ==
    ASSUME IInv, Told, NEW p \in Pods, Dies(p)
    PROVE  Told'
<1> DEFINE mine == {t \in Tasks : job[t].pod = p}
           cut  == UNION {OrdersOf(t) : t \in mine}
<1>1. /\ Tasked
      /\ job' = [t \in Tasks |-> IF t \in mine THEN [job[t] EXCEPT !.todo = <<>>] ELSE job[t]]
      /\ UNCHANGED <<phase, row, ended>>
    BY DEF Dies, IInv
<1>2. /\ silenced => silenced'
      /\ row = "ended" /\ (\E o \in cut : Says(o)) => silenced'
    BY Zenon DEF Dies, Says
<1>3. ASSUME NEW t \in Tasks
      PROVE  /\ t \in mine => job'[t].todo = <<>>
             /\ t \notin mine => job'[t].todo = job[t].todo
    BY <1>1 DEF Tasked
<1>4. ASSUME NEW t \in Tasks
      PROVE  Telling(job'[t].todo) /\ (~Silent(job'[t].todo) => phase' = "ended")
    BY <1>1, <1>3, EmptyIsSilent, SilentIsTelling DEF Told
<1>5. ASSUME NEW t \in mine, Owing(job[t].todo)
      PROVE  \E o \in cut : Says(o)
    <2>1. PICK i \in 1 .. Len(job[t].todo) : Says(job[t].todo[i])
        BY <1>5 DEF Owing
    <2>2. job[t].todo \in Seq(Orders)
        BY <1>1 DEF Tasked
    <2>3. job[t].todo[i] \in OrdersOf(t)
        BY <2>1, <2>2 DEF OrdersOf
    <2> QED
        BY <2>1, <2>3
<1>6. ASSUME NEW t \in Tasks \ mine, Owing(job[t].todo)
      PROVE  \E u \in Tasks : Owing(job'[u].todo)
    BY <1>3, <1>6
<1> HIDE DEF mine, cut
<1>7. row' = "ended" => ended' \/ silenced' \/ \E u \in Tasks : Owing(job'[u].todo)
    <2> SUFFICES ASSUME row' = "ended"
                 PROVE  ended' \/ silenced' \/ \E u \in Tasks : Owing(job'[u].todo)
        OBVIOUS
    <2>1. CASE ended
        BY <1>1, <2>1
    <2>2. CASE silenced
        BY <1>2, <2>2
    <2>3. CASE ~ended /\ ~silenced
        <3>1. row = "ended"
            BY <1>1
        <3>2. PICK t \in Tasks : Owing(job[t].todo)
            BY <2>3, <3>1 DEF Told
        <3>3. CASE t \in mine
            BY <1>2, <1>5, <3>1, <3>2, <3>3, Zenon
        <3>4. CASE t \notin mine
            BY <1>6, <3>2, <3>4
        <3> QED
            BY <3>3, <3>4
    <2> QED
        BY <2>1, <2>2, <2>3
<1> QED
    BY <1>1, <1>4, <1>7 DEF Told

LEMMA ToldInitially == Init => Told
<1> SUFFICES ASSUME Init PROVE Told
    OBVIOUS
<1>1. \A t \in Tasks : job[t].todo = <<>>
    BY DEF Init
<1>2. phase = "ongoing" /\ row = "ongoing" /\ ended = FALSE
    BY DEF Init
<1> QED
    BY <1>1, <1>2, EmptyIsSilent, SilentIsTelling DEF Told

LEMMA ToldPreserved == IInv /\ Told /\ [Next]_vars => Told'
<1> SUFFICES ASSUME IInv, Told, [Next]_vars PROVE Told'
    OBVIOUS
<1>1. CASE UNCHANGED vars
    BY <1>1 DEF vars, Told
<1> QED
    BY <1>1, BeginningTells, GoingOnTells, DyingTells DEF Next, FaultStep

LEMMA AlwaysTold == SafeSpec => [](IInv /\ Told)
    BY AlwaysIInv, ToldInitially, ToldPreserved, PTL DEF SafeSpec

-----------------------------------------------------------------------------
(* Theorems about the end, and what the room makes of it all.              *)

\* Whatever dies or fails and however tasks interleave: once MySQL has the
\* ended row, so that the fallback cron leaves the auction alone, the end has
\* been announced, or a task past saving the row has it still to announce, or
\* one of the three faults that silence it has happened.
THEOREM EndIsOwedHolds == SafeSpec => []EndIsOwed
<1>1. IInv /\ Told => EndIsOwed
    <2> SUFFICES ASSUME IInv, Told, NEW t \in Tasks, Owing(job[t].todo)
                 PROVE  /\ \E o \in OrdersOf(t) : o.event.type = "auction_ended"
                        /\ \A o \in OrdersOf(t) : o.do # "persist"
        BY Zenon DEF Told, EndIsOwed
    <2>1. job[t].todo \in Seq(Orders)
        BY DEF IInv, Tasked
    <2>2. OrdersOf(t) = {job[t].todo[i] : i \in 1 .. Len(job[t].todo)}
        BY <2>1 DEF OrdersOf
    <2> QED
        BY <2>2 DEF Owing, Says
<1> QED
    BY <1>1, AlwaysTold, PTL

\* The room hears of an end only after Redis has ended the auction, and MySQL
\* has the ended row only then.
THEOREM EndIsNotEarly == SafeSpec => [](ended \/ row = "ended" => phase = "ended")
<1>1. Told => (ended \/ row = "ended" => phase = "ended")
    BY DEF Told
<1> QED
    BY <1>1, AlwaysTold, PTL

\* What a task holds and what an entry stands for is owed to the room.
LEMMA HeldIsOwed ==
    ASSUME IInv
    PROVE  /\ \A t \in Tasks : HeldIn(job[t]) \subseteq Feed!Owed
           /\ \A p \in Pods : pending[p].bids \subseteq Feed!Owed
<1>1. ASSUME NEW t \in Tasks PROVE HeldIn(job[t]) \subseteq Nat
    <2>1. job[t].todo # <<>> => job[t].todo[1] \in Orders
        BY Rest DEF IInv, Tasked
    <2> QED
        BY <2>1, BoundsAssumption DEF HeldIn, Orders, Events, Bids
<1>2. ASSUME NEW p \in Pods PROVE pending[p].bids \subseteq Nat
    BY BoundsAssumption DEF IInv, Typed, Entry, Bids
<1> QED
    BY <1>1, <1>2 DEF IInv, Accounted, Apart, Feed!Owed

LEMMA FeedStep == IInv /\ Told /\ [Next]_vars => [Feed!Next]_(Feed!vars)
<1> SUFFICES ASSUME IInv, Told, [Next]_vars PROVE [Feed!Next]_(Feed!vars)
    OBVIOUS
<1> USE DEF Feed!vars
<1>0. Tasked /\ Typed /\ MaxBids \in Nat /\ version \in Nat
    BY BoundsAssumption DEF IInv, Typed
<1>1. ASSUME NEW t \in Tasks, NEW p \in Pods, NEW user \in Users, PlaceBid(t, p, user)
      PROVE  Feed!Next
    <2> DEFINE b == version + 1
    <2>1. /\ phase = "ongoing" /\ version < MaxBids /\ version' = version + 1
          /\ UNCHANGED <<announced, forgotten, ended>>
        BY <1>1 DEF PlaceBid
    <2>2. b \in Bids /\ b \notin 1 .. version /\ 1 .. version' = (1 .. version) \cup {b}
        BY <1>0, <2>1 DEF Bids
    <2>3. (phase' = "ongoing") \in BOOLEAN
        OBVIOUS
    <2> HIDE DEF b
    <2>4. Feed!Accept(b)
        BY <2>1, <2>2, <2>3 DEF Feed!Accept
    <2> QED
        BY <2>2, <2>4 DEF Feed!Next
<1>2. ASSUME NEW t \in Tasks, NEW p \in Pods, Settle(t, p)
      PROVE  Feed!Next
    <2>1. /\ phase = "ongoing" /\ phase' = "ended"
          /\ UNCHANGED <<version, announced, forgotten, ended>>
        BY <1>2 DEF Settle
    <2>2. Feed!Close
        BY <2>1 DEF Feed!Close
    <2> QED
        BY <2>2 DEF Feed!Next
<1>3. ASSUME NEW t \in Tasks, Publishes(t)
      PROVE  Feed!Next
    <2> DEFINE o == Order(t)
    <2>1. /\ Must(t, "publish") /\ Done(t)
          /\ announced' = announced \cup o.event.bids
          /\ UNCHANGED <<version, phase, forgotten>>
        BY <1>3 DEF Publishes
    <2>2. \/ UNCHANGED ended
          \/ Says(o) /\ ended' = TRUE
        <3>1. CASE Says(o)
            BY <1>3, <3>1, Zenon DEF Publishes, Says
        <3>2. CASE ~Says(o)
            BY <1>0, <1>3, <3>2, Zenon DEF Publishes, Says, Typed
        <3> QED
            BY <3>1, <3>2
    <2>3. o.event.bids = HeldIn(job[t])
        BY <1>0, <2>1, DoneHoldsNothing
    <2>4. /\ job[t].todo # <<>> /\ o = job[t].todo[1]
          /\ Says(o) => o.event.bids = {} /\ phase = "ended"
        <3>1. job[t].todo # <<>> /\ Plan(job[t].todo) /\ Telling(job[t].todo)
              /\ (~Silent(job[t].todo) => phase = "ended")
            BY <1>0, <2>1 DEF Must, Idle, Tasked, Told
        <3>2. o = job[t].todo[1]
            BY <3>1, Rest DEF Order
        <3> HIDE DEF o
        <3> QED
            BY <3>1, <3>2, TellingGoesOn
    <2>5. o.event.bids \subseteq Feed!Owed
        BY <2>3, HeldIsOwed
    <2> HIDE DEF o
    <2>6. CASE UNCHANGED ended
        <3>1. PICK some \in SUBSET Feed!Owed : some = o.event.bids
            BY <2>5
        <3>2. Feed!Tell(some)
            BY <2>1, <2>6, <3>1 DEF Feed!Tell
        <3> QED
            BY <3>1, <3>2 DEF Feed!Next
    <2>7. CASE Says(o) /\ ended' = TRUE
        <3>1. Feed!TellEnd
            BY <2>1, <2>4, <2>7 DEF Feed!TellEnd
        <3> QED
            BY <3>1 DEF Feed!Next
    <2> QED
        BY <2>2, <2>6, <2>7
<1>3a. ASSUME NEW t \in Tasks, PublishLost(t)
       PROVE  Feed!Next
    <2> DEFINE o == Order(t)
    <2>1. /\ Must(t, "publish") /\ Done(t)
          /\ forgotten' = forgotten \cup o.event.bids
          /\ UNCHANGED <<version, phase, announced, ended>>
        BY <1>3a DEF PublishLost
    <2>2. o.event.bids \subseteq Feed!Owed
        BY <1>0, <2>1, DoneHoldsNothing, HeldIsOwed
    <2> HIDE DEF o
    <2>3. PICK lost \in SUBSET Feed!Owed : lost = o.event.bids
        BY <2>2
    <2>4. Feed!Lose(lost)
        BY <2>1, <2>3 DEF Feed!Lose
    <2> QED
        BY <2>3, <2>4 DEF Feed!Next
<1>4. ASSUME NEW p \in Pods, Dies(p)
      PROVE  Feed!Next
    <2> DEFINE mine == {t \in Tasks : job[t].pod = p}
               cut  == UNION {OrdersOf(t) : t \in mine}
               some == pending[p].bids \cup UNION {o.event.bids : o \in cut}
    <2>1. /\ forgotten' = forgotten \cup some
          /\ UNCHANGED <<version, phase, announced, ended>>
        BY <1>4 DEF Dies
    <2>2. \A v : (\E o \in cut : v \in o.event.bids) <=> \E t \in mine : v \in HeldIn(job[t])
        BY <1>0, HeldByOrders
    <2>3. some \subseteq Feed!Owed
        BY <2>2, HeldIsOwed
    <2> HIDE DEF some
    <2>4. PICK lost \in SUBSET Feed!Owed : lost = some
        BY <2>3
    <2>5. Feed!Lose(lost)
        BY <2>1, <2>4 DEF Feed!Lose
    <2> QED
        BY <2>4, <2>5 DEF Feed!Next
<1>5. ASSUME NEW t \in Tasks,
             \/ \E p \in Pods : Fallback(t, p) \/ TimerFires(t, p)
             \/ Enqueues(t) \/ Flushes(t) \/ Persists(t) \/ Clears(t) \/ MySQLFails(t)
      PROVE  UNCHANGED Feed!vars
    BY <1>5 DEF Fallback, TimerFires, Enqueues, Flushes, Persists, Clears, MySQLFails
<1>6. CASE UNCHANGED vars
    BY <1>6 DEF vars
<1> QED
    BY <1>1, <1>2, <1>3, <1>3a, <1>4, <1>5, <1>6 DEF Next, TaskStep, FaultStep

\* Tasks, timers and flushes in any order make the room hear of every accepted
\* bid at most once, of none that was not accepted, and of no end that was not.
THEOREM ImplementsRoomFeedHolds == SafeSpec => ImplementsRoomFeed
<1>1. Init => Feed!Init
    BY DEF Init, Feed!Init
<1> QED
    BY <1>1, FeedStep, AlwaysTold, PTL DEF SafeSpec, ImplementsRoomFeed, Feed!SafeSpec
=============================================================================
