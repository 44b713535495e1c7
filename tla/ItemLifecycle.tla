--------------------------- MODULE ItemLifecycle ----------------------------
(***************************************************************************)
(* One item across its two stores: the row MySQL keeps and the hot state   *)
(* Redis keeps while the item is on sale, with every handler and cron that *)
(* moves the item along.  No handler holds a lock or a conditional update: *)
(* each reads the row once, then performs a sequence of MySQL and Redis    *)
(* commands, and any of them may fail or be the last before a crash.       *)
(*                                                                         *)
(* A handler at work is a job in a slot; job[s].at names its next command. *)
(* Saving a row writes every column, so it puts the status the handler     *)
(* decided on over whatever another handler stored since the read.         *)
(*                                                                         *)
(* A bid is named by its place in the order of acceptance, 0 being none,   *)
(* and different bids stand for different bidders.  HotAuction has the     *)
(* scripts in detail; here the clock has three readings: before the rule's *)
(* end time (0), after it (1), and after any extension as well (2).        *)
(*                                                                         *)
(* A read or a bid that finds the hash missing or not usable rebuilds it   *)
(* from MySQL, whose log lags behind: the "view" requests.  The hash is    *)
(* written without a condition, over whatever is there by then.            *)
(*                                                                         *)
(* Not here: the detail cache, broadcasts, the room queue, what a room's   *)
(* current item is set to (nothing here reads it, but that setting it may  *)
(* fail matters), a Redis that loses data or is changed for another        *)
(* (Failover has that), and bids on a bare hash, one with nothing but its  *)
(* authority: the script takes a missing status for an open one, but such  *)
(* a hash is only ready when a rebuild lost the one it had just written.   *)
(* An operator named Mut_... is a wrong variant of the definition after it *)
(* and is used nowhere in this module.                                     *)
(***************************************************************************)
EXTENDS Naturals, FiniteSets

CONSTANTS
    Slots,      \* bound: handlers at work at the same time
    MaxBids,    \* bound: accepted bids
    MaxAsked,   \* bound: per kind of request, how often it is made
    FreeStart   \* the rule's start price is 0

MerchantKinds == {"update", "publish", "delete", "start", "cancel"}
FinishKinds   == {"cap", "settle", "fallback"}
RequestKinds  == MerchantKinds \cup {"view"}
Kinds == RequestKinds \cup FinishKinds \cup {"capOffline", "compensate"}

ASSUME SlotsAssumption == IsFiniteSet(Slots)
ASSUME RuleAssumption == FreeStart \in BOOLEAN
ASSUME BoundsAssumption == MaxBids \in Nat /\ MaxAsked \in [RequestKinds -> Nat]

VARIABLES
    row,        \* auction_items: status and winner_id
    hash,       \* auction:item:{id}:state
    expiring,   \* the hash has a time to live
    scheduled,  \* the item is in auction:ending
    clock,      \* 0, 1 or 2, see above
    bids,       \* how many bids were accepted
    order,      \* the winner the item's order is for, or NoOrder
    refunded,   \* the bidders whose deposit went back
    job,        \* per slot, the handler at work
    asked,      \* how many requests of each kind were made
    rebuilt     \* a rebuild has written the hash: not state of the program

vars == <<row, hash, expiring, scheduled, clock, bids, order, refunded, job,
          asked, rebuilt>>

redis == <<hash, expiring, scheduled>>
mysql == <<row, order, refunded>>
world == <<clock, bids, asked, rebuilt>>

NoOrder == MaxBids + 1
Gone    == [status |-> "absent", leader |-> 0, end |-> 1, ready |-> TRUE]
Idle    == [kind |-> "none", at |-> "none", winner |-> 0]

Init ==
    /\ row = [status |-> "draft", winner |-> 0]
    /\ hash = Gone
    /\ expiring = FALSE
    /\ scheduled = FALSE
    /\ clock = 0
    /\ bids = 0
    /\ order = NoOrder
    /\ refunded = {}
    /\ job = [s \in Slots |-> Idle]
    /\ asked = [k \in RequestKinds |-> 0]
    /\ rebuilt = FALSE

Begins(s, kind, at, winner) ==
    /\ job[s] = Idle
    /\ job' = [job EXCEPT ![s] = [kind |-> kind, at |-> at, winner |-> winner]]

At(s, kinds, at) == job[s].kind \in kinds /\ job[s].at = at
Goes(s, to)      == job' = [job EXCEPT ![s].at = to]
Ends(s)          == job' = [job EXCEPT ![s] = Idle]

\* A command whose error the code ignores: it took effect, or it did not.
MayBecome(var, new, old) == var \in {new, old}

-----------------------------------------------------------------------------
(* The merchant's requests; StartDueAuctions makes "start" requests too.   *)

\* The status check of each handler.
StartsFrom(kind) ==
    CASE kind \in {"update", "publish"} -> {"draft"}
      [] kind = "delete" -> {"draft", "published"}
      [] kind = "start"  -> {"published"}
      [] kind = "cancel" -> {"published", "ongoing"}

FirstCommand(kind) ==
    CASE kind = "start"  -> "init"
      [] kind = "delete" -> "delete"
      [] OTHER -> "save"

Asks(kind) ==
    /\ asked[kind] < MaxAsked[kind]
    /\ asked' = [asked EXCEPT ![kind] = @ + 1]

MerchantAsks(s, kind) ==
    /\ Asks(kind)
    /\ row.status \in StartsFrom(kind)
    /\ Begins(s, kind, FirstCommand(kind), row.winner)
    /\ UNCHANGED <<redis, mysql, clock, bids, rebuilt>>

\* A soft delete; a row already deleted is not found.
DeleteRow(s) ==
    /\ At(s, {"delete"}, "delete")
    /\ row' = [row EXCEPT !.status = "deleted"]
    /\ Ends(s)
    /\ UNCHANGED <<redis, order, refunded, world>>

\* InitAuctionState: open until the rule's end.
OpenFor(leader) == [status |-> "ongoing", leader |-> leader, end |-> 1, ready |-> TRUE]

InitHash(s) ==
    /\ At(s, {"start"}, "init")
    /\ hash' = OpenFor(0)
    /\ Goes(s, "schedule")
    /\ UNCHANGED <<expiring, scheduled, mysql, world>>

ScheduleEnd(s) ==
    /\ At(s, {"start"}, "schedule")
    /\ scheduled' = TRUE
    /\ Goes(s, "save")
    /\ UNCHANGED <<hash, expiring, mysql, world>>

\* ScheduleAuctionEnd failed: only the hash is deleted again.
ScheduleFails(s) ==
    /\ At(s, {"start"}, "schedule")
    /\ MayBecome(hash', Gone, hash)
    /\ expiring' = (expiring /\ hash'.status # "absent")
    /\ Ends(s)
    /\ UNCHANGED <<scheduled, mysql, world>>

\* The room's current item, in MySQL and then in Redis, where no error counts.
SetRoom(s) ==
    /\ At(s, {"start"}, "room")
    /\ Ends(s)
    /\ UNCHANGED <<redis, mysql, world>>

SetRoomFails(s) ==
    /\ At(s, {"start"}, "room")
    /\ Goes(s, "undo")
    /\ UNCHANGED <<redis, mysql, world>>

\* The compensation of a failed start, and the Redis half of a cancellation.
UndoRedis(s) ==
    /\ At(s, {"start"}, "undo") \/ At(s, {"cancel"}, "clean")
    /\ MayBecome(scheduled', FALSE, scheduled)
    /\ MayBecome(hash', Gone, hash)
    /\ expiring' = (expiring /\ hash'.status # "absent")
    /\ Ends(s)
    /\ UNCHANGED <<mysql, world>>

-----------------------------------------------------------------------------
(* The rebuild of the hash, on demand.                                     *)

\* A hash without a price counts as missing, even one in use without bids.
Unusable ==
    \/ hash.status \in {"absent", "bare"} \/ ~hash.ready
    \/ hash.leader = 0 /\ FreeStart

\* auctionStateForRead; a bid that finds no hash at all does the same.
ViewBegins(s) ==
    /\ Unusable
    /\ row.status = "ongoing"
    /\ Asks("view")
    /\ Begins(s, "view", "read", 0)
    /\ UNCHANGED <<redis, mysql, clock, bids, rebuilt>>

\* The row and the bids that have reached MySQL: the highest of them leads.
ReadLog(s) ==
    /\ At(s, {"view"}, "read")
    /\ row.status = "ongoing"
    /\ \E b \in 0..bids :
          job' = [job EXCEPT ![s].at = "rewrite", ![s].winner = b]
    /\ UNCHANGED <<redis, mysql, world>>

RewriteHash(s) ==
    /\ At(s, {"view"}, "rewrite")
    /\ hash' = OpenFor(job[s].winner)
    /\ rebuilt' = TRUE
    /\ Goes(s, "reschedule")
    /\ UNCHANGED <<expiring, scheduled, mysql, clock, bids, asked>>

\* SetItemAuthority, also on a hash that is not there: it is bare then.
WithAuthority(ready) ==
    [hash EXCEPT !.ready = ready, !.status = IF @ = "absent" THEN "bare" ELSE @]

\* ScheduleAuctionEnd for the rule's end, SetRoomCurrentItem and, unless it
\* fails, the last SetItemAuthority.
DeclareReady(s) ==
    /\ At(s, {"view"}, "reschedule")
    /\ scheduled' = TRUE
    /\ MayBecome(hash', WithAuthority(TRUE), hash)
    /\ Ends(s)
    /\ UNCHANGED <<expiring, mysql, world>>

\* The row is not ongoing any more, or a command has failed.
Protect(s) ==
    /\ job[s].kind = "view"
    /\ MayBecome(hash', WithAuthority(FALSE), hash)
    /\ Ends(s)
    /\ UNCHANGED <<expiring, scheduled, mysql, world>>

-----------------------------------------------------------------------------
(* The row, saved whole.                                                   *)

StatusSaved(kind) ==
    CASE kind = "update"  -> "draft"
      [] kind = "publish" -> "published"
      [] kind = "start"   -> "ongoing"
      [] kind = "cancel"  -> "cancelled"
      [] OTHER -> "ended"

SaveRow(s) ==
    /\ job[s].at = "save"
    /\ row' = [status |-> StatusSaved(job[s].kind), winner |-> job[s].winner]
    /\ IF job[s].kind \in {"update", "publish"} THEN Ends(s) ELSE Goes(s, "room")
    /\ UNCHANGED <<redis, order, refunded, world>>

SaveFails(s) ==
    /\ job[s].at = "save"
    /\ IF job[s].kind = "start" THEN Goes(s, "undo") ELSE Ends(s)
    /\ UNCHANGED <<redis, mysql, world>>

ClearRoom(s) ==
    /\ At(s, FinishKinds \cup {"cancel"}, "room")
    /\ Goes(s, "clean")
    /\ UNCHANGED <<redis, mysql, world>>

\* Settlement goes on without; cancelling and a capping bid give up here.
ClearRoomFails(s) ==
    /\ At(s, FinishKinds \cup {"cancel"}, "room")
    /\ IF job[s].kind \in {"cancel", "cap"} THEN Ends(s) ELSE Goes(s, "clean")
    /\ UNCHANGED <<redis, mysql, world>>

-----------------------------------------------------------------------------
(* Bidding and the end of the auction.                                     *)

\* Mutant: the script does not test the status.
Mut_AnyStatus == hash.status # "absent" /\ hash.ready /\ clock < hash.end

Open == hash.status = "ongoing" /\ hash.ready /\ clock < hash.end

\* An accepted bid below the cap; one that extends rewrites the schedule.
PlaceBid ==
    /\ Open
    /\ bids < MaxBids
    /\ bids' = bids + 1
    /\ \/ hash' = [hash EXCEPT !.leader = bids + 1] /\ UNCHANGED scheduled
       \/ /\ hash' = [hash EXCEPT !.leader = bids + 1, !.end = 2]
          /\ scheduled' = TRUE
    /\ UNCHANGED <<expiring, mysql, clock, job, asked, rebuilt>>

\* A bid at the cap ends the auction in Redis and goes on to persist it,
\* unless MySQL was known to be down: then it only cleans Redis up.
PlaceCapBid(s) ==
    /\ Open
    /\ bids < MaxBids
    /\ bids' = bids + 1
    /\ hash' = [hash EXCEPT !.leader = bids + 1, !.status = "ended"]
    /\ scheduled' = FALSE
    /\ \/ Begins(s, "cap", "find", bids + 1)
       \/ Begins(s, "capOffline", "clean", bids + 1)
    /\ UNCHANGED <<expiring, mysql, clock, asked, rebuilt>>

Due == hash.status = "ongoing" /\ hash.end <= clock

\* SettleDueAuctions lists the item and its script claims the end.
SettleDue(s) ==
    /\ scheduled
    /\ Due
    /\ hash' = [hash EXCEPT !.status = "ended"]
    /\ scheduled' = FALSE
    /\ Begins(s, "settle", "find", hash.leader)
    /\ UNCHANGED <<expiring, mysql, world>>

\* EndExpiredAuctions, first the list of ongoing rows past their end time.
FallbackLists(s) ==
    /\ row.status = "ongoing"
    /\ clock >= 1
    /\ Begins(s, "fallback", "state", 0)
    /\ UNCHANGED <<redis, mysql, world>>

\* Mutant: a hash that has ended already is passed over, as one whose
\* settlement another handler saw to.
Mut_SkipsEnded(s) ==
    \/ hash.status \in {"absent", "bare"} /\ Goes(s, "find")
    \/ hash.status = "ongoing" /\ Due /\ Goes(s, "claim")
    \/ (hash.status = "ended" \/ (hash.status = "ongoing" /\ ~Due)) /\ Ends(s)

\* Then the hash: with none, or a bare one, there is no winner, an open auction
\* is left alone, a due one is to be claimed, an ended one gives its result.
FallbackDecides(s) ==
    \/ hash.status \in {"absent", "bare"} /\ Goes(s, "find")
    \/ hash.status = "ongoing" /\ ~Due /\ Ends(s)
    \/ hash.status = "ongoing" /\ Due /\ Goes(s, "claim")
    \/ /\ hash.status = "ended"
       /\ job' = [job EXCEPT ![s].at = "find", ![s].winner = hash.leader]

FallbackReads(s) ==
    /\ At(s, {"fallback"}, "state")
    /\ FallbackDecides(s)
    /\ UNCHANGED <<redis, mysql, world>>

\* Mutant: the claim is taken for granted, as due when it was read.
Mut_UnclaimedWins(s) ==
    /\ At(s, {"fallback"}, "claim")
    /\ job' = [job EXCEPT ![s].at = "find", ![s].winner = IF Due THEN hash.leader ELSE 0]
    /\ hash' = IF Due THEN [hash EXCEPT !.status = "ended"] ELSE hash
    /\ scheduled' = (scheduled /\ ~Due)
    /\ UNCHANGED <<expiring, mysql, world>>

\* The claim may be lost to another handler, to an extension or to a start.
FallbackClaims(s) ==
    /\ At(s, {"fallback"}, "claim")
    /\ \/ /\ Due
          /\ hash' = [hash EXCEPT !.status = "ended"]
          /\ scheduled' = FALSE
          /\ job' = [job EXCEPT ![s].at = "find", ![s].winner = hash.leader]
       \/ ~Due /\ Ends(s) /\ UNCHANGED <<hash, scheduled>>
    /\ UNCHANGED <<expiring, mysql, world>>

\* FindItemWithRule does not look at the status of the row it finds.
FindRow(s) ==
    /\ At(s, FinishKinds, "find")
    /\ IF row.status = "deleted" THEN Ends(s) ELSE Goes(s, "save")
    /\ UNCHANGED <<redis, mysql, world>>

\* Mutant: an order is made for no winner too.
Mut_OrdersForNobody(s) ==
    IF job[s].kind = "capOffline" THEN Ends(s) ELSE Goes(s, "order")

AfterClean(s) ==
    IF job[s].kind = "capOffline" THEN Ends(s)
    ELSE IF job[s].winner # 0 THEN Goes(s, "order")
    ELSE Goes(s, "refund")

CleanRedis(s) ==
    /\ At(s, FinishKinds \cup {"capOffline"}, "clean")
    /\ MayBecome(scheduled', FALSE, scheduled)
    /\ MayBecome(expiring', hash.status # "absent", expiring)
    /\ AfterClean(s)
    /\ UNCHANGED <<hash, mysql, world>>

AfterOrder(s) == IF job[s].kind = "compensate" THEN Ends(s) ELSE Goes(s, "refund")

\* One order per item: a second one is not made, by the read or by the index.
CreateOrder(s) ==
    /\ At(s, FinishKinds \cup {"compensate"}, "order")
    /\ order' = IF order = NoOrder THEN job[s].winner ELSE order
    /\ AfterOrder(s)
    /\ UNCHANGED <<redis, row, refunded, world>>

CreateOrderFails(s) ==
    /\ At(s, FinishKinds \cup {"compensate"}, "order")
    /\ AfterOrder(s)
    /\ UNCHANGED <<redis, mysql, world>>

\* Mutant: the winner is refunded with the others.
Mut_Everybody(winner) == 1..bids

Losers(winner) == (1..bids) \ {winner}

\* RefundNonWinners goes through the paid deposits and stops at an error.
RefundNonWinners(s) ==
    /\ At(s, FinishKinds, "refund")
    /\ \E done \in SUBSET Losers(job[s].winner) : refunded' = refunded \cup done
    /\ Ends(s)
    /\ UNCHANGED <<redis, row, order, world>>

\* Mutant: the scan looks for items that are still on sale.
Mut_StillOngoing == row.status = "ongoing" /\ row.winner # 0 /\ order = NoOrder

\* ListEndedItemsWithoutOrder.
LacksOrder == row.status = "ended" /\ row.winner # 0 /\ order = NoOrder

ScanCompensation(s) ==
    /\ LacksOrder
    /\ Begins(s, "compensate", "order", row.winner)
    /\ UNCHANGED <<redis, mysql, world>>

-----------------------------------------------------------------------------
(* The environment.                                                        *)

\* A process dies, or a read or a Redis command at the head of a handler
\* fails: what was done stays done and the rest is not.
Crash(s) ==
    /\ job[s] # Idle
    /\ Ends(s)
    /\ UNCHANGED <<redis, mysql, world>>

\* No handler is still at work after the 24 hours of the final snapshot.
HashExpires ==
    /\ expiring
    /\ \A s \in Slots : job[s] = Idle
    /\ hash' = Gone
    /\ expiring' = FALSE
    /\ UNCHANGED <<scheduled, mysql, world, job>>

\* A start takes no longer than its auction lasts.
Tick ==
    /\ clock < 2
    /\ \A s \in Slots : job[s].kind # "start"
    /\ clock' = clock + 1
    /\ UNCHANGED <<redis, mysql, bids, job, asked, rebuilt>>

StartStep(s) ==
    \/ InitHash(s)
    \/ ScheduleEnd(s)
    \/ ScheduleFails(s)
    \/ SetRoom(s)
    \/ SetRoomFails(s)
    \/ UndoRedis(s)

ViewStep(s) ==
    \/ ReadLog(s)
    \/ RewriteHash(s)
    \/ DeclareReady(s)
    \/ Protect(s)

RowStep(s) ==
    \/ DeleteRow(s)
    \/ SaveRow(s)
    \/ SaveFails(s)
    \/ ClearRoom(s)
    \/ ClearRoomFails(s)

FinishStep(s) ==
    \/ FallbackReads(s)
    \/ FallbackClaims(s)
    \/ FindRow(s)
    \/ CleanRedis(s)
    \/ CreateOrder(s)
    \/ CreateOrderFails(s)
    \/ RefundNonWinners(s)

JobStep(s) == StartStep(s) \/ ViewStep(s) \/ RowStep(s) \/ FinishStep(s)

Next ==
    \/ PlaceBid
    \/ HashExpires
    \/ Tick
    \/ \E s \in Slots :
          \/ \E kind \in MerchantKinds : MerchantAsks(s, kind)
          \/ ViewBegins(s)
          \/ PlaceCapBid(s)
          \/ SettleDue(s)
          \/ FallbackLists(s)
          \/ ScanCompensation(s)
          \/ JobStep(s)
          \/ Crash(s)

SafeSpec == Init /\ [][Next]_vars

\* Time passes, handlers go on, and the fallback and compensation crons keep
\* firing and sometimes get each of their commands through: they retry for
\* ever, so no failure or crash is the last word.
Fairness ==
    /\ WF_vars(Tick)
    /\ \A s \in Slots : WF_vars(JobStep(s))
    /\ SF_vars(\E s \in Slots : FallbackLists(s))
    /\ SF_vars(\E s \in Slots : FallbackReads(s))
    /\ SF_vars(\E s \in Slots : FallbackClaims(s))
    /\ SF_vars(\E s \in Slots : FindRow(s))
    /\ SF_vars(\E s \in Slots : SaveRow(s))
    /\ SF_vars(\E s \in Slots : ScanCompensation(s))
    /\ SF_vars(\E s \in Slots : CreateOrder(s))

Spec == SafeSpec /\ Fairness

-----------------------------------------------------------------------------
(* Properties.                                                             *)

\* Rows, hashes and jobs have the values the code gives them.
TypeOK ==
    /\ row \in [status: {"draft", "published", "ongoing", "ended", "cancelled", "deleted"},
                winner: 0..MaxBids]
    /\ hash \in [status: {"absent", "bare", "ongoing", "ended"}, leader: 0..MaxBids,
                 end: 1..2, ready: BOOLEAN]
    /\ {expiring, scheduled, rebuilt} \subseteq BOOLEAN
    /\ clock \in 0..2
    /\ bids \in 0..MaxBids
    /\ order \in (1..MaxBids) \cup {NoOrder}
    /\ refunded \subseteq 1..MaxBids
    /\ job \in [Slots -> [kind: Kinds \cup {"none"},
                          at: {"none", "delete", "init", "schedule", "save", "room",
                               "undo", "clean", "state", "claim", "find", "order", "refund",
                               "read", "rewrite", "reschedule"},
                          winner: 0..MaxBids]]
    /\ asked \in [RequestKinds -> Nat]

\* For an item started once, until a rebuild writes its hash: MySQL does not
\* call the item ended while Redis still takes bids for it, and as long as
\* the final snapshot exists the row names the snapshot's winner, whichever
\* handlers persisted it, however often, and whatever rebuild is under way.
RowAgreesWithSnapshot ==
    row.status = "ended" /\ ~rebuilt =>
        /\ hash.status # "ongoing"
        /\ hash.status = "ended" => row.winner = hash.leader

\* For an item started once, until a rebuild writes its hash: the order is
\* never for one bidder and the row's winner another.
OneWinner ==
    order # NoOrder /\ row.winner # 0 /\ ~rebuilt => row.winner = order

\* For an item started once, until a rebuild writes its hash: while Redis
\* holds the item's state, nobody has refunded the deposit of the bidder the
\* order is for.
BuyerKeepsDeposit ==
    order # NoOrder /\ hash.status \notin {"absent", "bare"} /\ ~rebuilt => order \notin refunded

\* An item on sale in MySQL does not stay so, whatever failed on the way:
\* the fallback cron persists what Redis had already decided.
OngoingIsSettled == row.status = "ongoing" ~> row.status # "ongoing"

\* As long as MySQL names a winner the winner gets an order, even if the
\* handler that persisted the result died before creating it.  (The winner
\* may be taken away again by a handler that saves an older row.)
WinnerGetsOrder ==
    (row.status = "ended" /\ row.winner # 0) ~>
        (order # NoOrder \/ row.winner = 0 \/ row.status # "ended")

\* For an item started once, until a rebuild writes its hash: no order is
\* made for anybody, from a row or a handler's old result, while bids are
\* still taken, and as long as the final snapshot exists the order is for its
\* leader.
OrderIsForTheLeader ==
    order # NoOrder /\ hash.status \notin {"absent", "bare"} /\ ~rebuilt =>
        hash.status = "ended" /\ order = hash.leader

\* The rebuild's InitAuctionState, at any slot.
Rewrites == \E s \in Slots : RewriteHash(s)

\* For an item started once: after Redis has ended the auction nothing but a
\* rebuild reopens it or changes its result, and only its expiry, a
\* cancellation or a start that fails takes it away.
EndedIsFinal ==
    [][hash.status = "ended" =>
          hash' = Gone \/ Rewrites \/ \E r \in BOOLEAN : hash' = [hash EXCEPT !.ready = r]]_vars

\* For an item started once: while bids are taken nothing but a rebuild goes
\* back behind a bid that was accepted.
OnlyRebuildsForget ==
    [][hash.status = "ongoing" /\ hash'.status = "ongoing" =>
          hash'.leader >= hash.leader \/ Rewrites]_vars

\* docs/5-21.md:731 asks start for a conditional update or a lock against
\* starting twice: bids accepted since a start are not wiped out by another.
AcceptedBidsSurvive ==
    [][hash.status = "ongoing" /\ hash'.status = "ongoing" => hash'.leader >= hash.leader]_vars

\* docs/superpowers/specs/2026-06-09-local-authority-failover-design.md:200: a
\* rebuild "never overwrites a ready state that has accepted bids in the same
\* epoch".
ReadyStateIsKept ==
    [][hash.status = "ongoing" /\ hash.ready /\ hash.leader # 0 => ~Rewrites]_vars
=============================================================================
