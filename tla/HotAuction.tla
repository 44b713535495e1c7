----------------------------- MODULE HotAuction -----------------------------
(***************************************************************************)
(* The Redis hot state of one auctioned item and everything that writes it *)
(* in normal operation: the start sequence, the bid script, the settlement *)
(* script, cancellation, and the clean-up of a settled item.               *)
(*                                                                         *)
(* Redis runs one command or script at a time, so a Lua script is one      *)
(* action.  What surrounds the scripts is not atomic: a bid handler reads  *)
(* the clock before its script runs, a settlement cron lists due items     *)
(* with the time it read first, and start, cancel and clean-up are         *)
(* sequences of separate Redis commands.  Each of those is a step here.    *)
(*                                                                         *)
(* Times are in milliseconds; the constants called ...Sec are in seconds   *)
(* of SecMS milliseconds (1000 in the code, less in a model).              *)
(*                                                                         *)
(* Not here: rebuilding the hash from MySQL (every start initialises it    *)
(* once), so authority_epoch and authority_state keep the values 0 and     *)
(* "ready" that start writes and bid.go:73-76 never refuses; the           *)
(* availability guards and the deposit check in front of the bid script.   *)
(* A read rebuilds a hash that is lost, and also one with the price 0:     *)
(* where the start price is 0 that is the live hash until the first bid.   *)
(* RuleAssumption therefore asks for a start price, which the code does    *)
(* not; ItemLifecycle has both rebuilds and the free start.                *)
(*                                                                         *)
(* An operator named Mut_... is a wrong variant of the definition after    *)
(* it.  Nothing uses it here: swapped in, it shows that a property notices.*)
(***************************************************************************)
EXTENDS Integers, Sequences, FiniteSets

CONSTANTS
    Users,         \* bidders
    NoUser,        \* the empty leader_user_id
    Keys,          \* idempotency keys clients choose
    Prices,        \* prices clients offer
    StartPrice, BidIncr, PriceCap,                \* the item's AuctionRule
    RuleEnd,                                      \* rule.EndTime
    ExtTrigSec, ExtSec, MaxExtCount, MaxExtTotal, \* AuctionPolicy
    SecMS,         \* milliseconds in a second
    Settlers,      \* settlement passes that may run at the same time
    MaxInflight,   \* bound: bid handlers between clock read and script
    MaxClock       \* bound: the last instant of a behaviour

\* service.go:649-663, dto/item.go:27-29; but service.go:650 lets StartPrice be 0.
ASSUME RuleAssumption ==
    /\ StartPrice \in Nat \ {0}
    /\ BidIncr \in Nat \ {0}
    /\ PriceCap \in Nat
    /\ PriceCap = 0 \/ PriceCap >= StartPrice
    /\ RuleEnd \in Nat \ {0}
ASSUME PolicyAssumption == \* dto/item.go:17-24
    /\ {ExtTrigSec, ExtSec, MaxExtCount, MaxExtTotal} \subseteq Nat \ {0}
    /\ SecMS \in Nat \ {0}
ASSUME SetsAssumption ==
    /\ IsFiniteSet(Users)
    /\ NoUser \notin Users
    /\ Prices \subseteq Nat
    /\ MaxInflight \in Nat
    /\ MaxClock \in Nat

VARIABLES
    clock,      \* the wall clock every process reads
    hash,       \* auction:item:{id}:state
    ending,     \* the item's score in auction:ending, or NotScheduled
    ranking,    \* auction:item:{id}:ranking, 0 for a user it does not hold
    idem,       \* auction:item:{id}:idempotency:{key}: a version, 0 if absent
    stream,     \* the bid-log stream's entries for this item
    inflight,   \* bids whose handler has read the clock, script still to run
    settleAt,   \* per settlement pass: the time it captured, or NotRunning
    owner,      \* how far the start or cancel sequence has come
    cleanup,    \* how far the clean-up after the end has come
    claims      \* the replies that told a caller "you ended this auction"

vars == <<clock, hash, ending, ranking, idem, stream, inflight, settleAt,
          owner, cleanup, claims>>

NotScheduled == -1
NotRunning   == -1

Request  == [user: Users, price: Prices, key: Keys, at: 0..MaxClock]
LogEntry == [user: Users, price: Prices, key: Keys, at: 0..MaxClock, version: Nat]
Claim    == [leader: Users \cup {NoUser}, price: Nat, reason: {"time_expired", "price_cap"}]
Hash     == [status: {"absent", "ongoing", "ended"}, price: Nat,
             leader: Users \cup {NoUser}, endMS: Nat, endedAt: Nat,
             endReason: {"", "time_expired", "price_cap"},
             bidCount: Nat, partCount: Nat, version: Nat,
             extCount: Nat, extTotal: Nat]

NoHash ==
    [status |-> "absent", price |-> 0, leader |-> NoUser, endMS |-> 0,
     endedAt |-> 0, endReason |-> "", bidCount |-> 0, partCount |-> 0,
     version |-> 0, extCount |-> 0, extTotal |-> 0]

\* Mutant: InitAuctionState without its default for an empty Status.
Mut_NoDefaultStatus ==
    [NoHash EXCEPT !.status = "", !.price = StartPrice, !.endMS = RuleEnd]

\* What startItemWithRule asks InitAuctionState to write.
FreshHash ==
    [NoHash EXCEPT !.status = "ongoing", !.price = StartPrice, !.endMS = RuleEnd]

Init ==
    /\ clock = 0
    /\ hash = NoHash
    /\ ending = NotScheduled
    /\ ranking = [u \in Users |-> 0]
    /\ idem = [k \in Keys |-> 0]
    /\ stream = <<>>
    /\ inflight = {}
    /\ settleAt = [s \in Settlers |-> NotRunning]
    /\ owner = "published"
    /\ cleanup = "none"
    /\ claims = <<>>

Tick ==
    /\ clock < MaxClock
    /\ clock' = clock + 1
    /\ UNCHANGED <<hash, ending, ranking, idem, stream, inflight, settleAt,
                   owner, cleanup, claims>>

-----------------------------------------------------------------------------
(* Start, and the two ways it is undone: the compensation in               *)
(* startItemWithRule when a later step fails, and CancelItem.              *)

bidData == <<ranking, idem, stream, inflight, settleAt, cleanup, claims>>

InitAuctionState ==
    /\ owner = "published"
    /\ owner' = "initialised"
    /\ hash' = FreshHash
    /\ UNCHANGED <<clock, ending, bidData>>

\* A bid may have been accepted, and have extended or ended the auction,
\* since the hash was written: the score is the rule's end time all the same.
ScheduleAuctionEnd ==
    /\ owner = "initialised"
    /\ owner' = "scheduled"
    /\ ending' = RuleEnd
    /\ UNCHANGED <<clock, hash, bidData>>

UnscheduleAuctionEnd ==
    /\ owner = "scheduled"
    /\ owner' = "unscheduled"
    /\ ending' = NotScheduled
    /\ UNCHANGED <<clock, hash, bidData>>

\* After UnscheduleAuctionEnd, or at once when ScheduleAuctionEnd failed.
DeleteAuctionState ==
    /\ owner \in {"initialised", "unscheduled"}
    /\ owner' = "withdrawn"
    /\ hash' = NoHash
    /\ UNCHANGED <<clock, ending, bidData>>

-----------------------------------------------------------------------------
(* Bidding.                                                                *)

\* PlaceBid up to its clock read: bidHotConfig found an ongoing hash.
BidReadsClock(u, p, k) ==
    /\ hash.status = "ongoing"
    /\ Cardinality(inflight) < MaxInflight
    /\ inflight' = inflight \cup {[user |-> u, price |-> p, key |-> k, at |-> clock]}
    /\ UNCHANGED <<clock, hash, ending, ranking, idem, stream, settleAt,
                   owner, cleanup, claims>>

\* The script receives now.Unix() and computes now_ms = now_unix * 1000.
NowMS(r) == (r.at \div SecMS) * SecMS

\* Result code 1: the key is taken, the bid that took it is the answer.
Replayed(r) == idem[r.key] # 0

\* Mutants of the next definition, one dropped test each.
Mut_AnyStatus(r) ==
    /\ NowMS(r) < hash.endMS
    /\ r.price > hash.price
    /\ (r.price - hash.price) % BidIncr = 0
Mut_NoDeadline(r) ==
    /\ hash.status = "ongoing"
    /\ r.price > hash.price
    /\ (r.price - hash.price) % BidIncr = 0

\* The complement of result codes 2, 3 and 4.
Admissible(r) ==
    /\ hash.status = "ongoing"
    /\ NowMS(r) < hash.endMS
    /\ r.price > hash.price
    /\ (r.price - hash.price) % BidIncr = 0

\* Mutant: the trigger window is not tested.
Mut_NoWindow(r) ==
    /\ hash.extCount < MaxExtCount
    /\ hash.extTotal + ExtSec <= MaxExtTotal

Extends(r) ==
    /\ hash.endMS - NowMS(r) <= ExtTrigSec * SecMS
    /\ hash.extCount < MaxExtCount
    /\ hash.extTotal + ExtSec <= MaxExtTotal

ReachesCap(r) == PriceCap > 0 /\ r.price >= PriceCap

\* Mutant: every change of leader counts as a new participant.
Mut_NewLeader(r) == hash.leader # r.user

\* ZSCORE, read before the script's ZADD.
NewParticipant(r) == ranking[r.user] = 0

\* The two HSETs of the script.
HashAfterBid(r) ==
    LET ext == Extends(r)
        cap == ReachesCap(r)
    IN  [status    |-> IF cap THEN "ended" ELSE "ongoing",
         price     |-> r.price,
         leader    |-> r.user,
         endMS     |-> IF ext THEN hash.endMS + ExtSec * SecMS ELSE hash.endMS,
         endedAt   |-> IF cap THEN NowMS(r) ELSE hash.endedAt,
         endReason |-> IF cap THEN "price_cap" ELSE hash.endReason,
         bidCount  |-> hash.bidCount + 1,
         partCount |-> IF NewParticipant(r) THEN hash.partCount + 1 ELSE hash.partCount,
         version   |-> hash.version + 1,
         extCount  |-> IF ext THEN hash.extCount + 1 ELSE hash.extCount,
         extTotal  |-> IF ext THEN hash.extTotal + ExtSec ELSE hash.extTotal]

\* ZADD when the end moves, then ZREM when the cap is reached.
EndingAfterBid(r) ==
    IF ReachesCap(r) THEN NotScheduled
    ELSE IF Extends(r) THEN hash.endMS + ExtSec * SecMS
    ELSE ending

\* ZADD ... GT: a score never goes down.
RankingAfterBid(r) ==
    [ranking EXCEPT ![r.user] = IF r.price > @ THEN r.price ELSE @]

\* Mutant: the idempotency value carries the version before the increment.
Mut_IdemOldVersion(r) == [idem EXCEPT ![r.key] = hash.version]

IdemAfterBid(r) == [idem EXCEPT ![r.key] = hash.version + 1]

\* Mutant: XADD runs before the version is incremented.
Mut_EntryOldVersion(r) ==
    [user |-> r.user, price |-> r.price, key |-> r.key, at |-> r.at,
     version |-> hash.version]

EntryOf(r) ==
    [user |-> r.user, price |-> r.price, key |-> r.key, at |-> r.at,
     version |-> hash.version + 1]

PlaceBidAccepted(r) ==
    /\ ~Replayed(r)
    /\ Admissible(r)
    /\ hash' = HashAfterBid(r)
    /\ ending' = EndingAfterBid(r)
    /\ ranking' = RankingAfterBid(r)
    /\ idem' = IdemAfterBid(r)
    /\ stream' = Append(stream, EntryOf(r))
    /\ IF ReachesCap(r)
       THEN /\ claims' = Append(claims, [leader |-> r.user, price |-> r.price,
                                         reason |-> "price_cap"])
            /\ cleanup' = "claimed"
       ELSE UNCHANGED <<claims, cleanup>>
    /\ inflight' = inflight \ {r}
    /\ UNCHANGED <<clock, settleAt, owner>>

\* Codes 1 to 4 change nothing; the handler answers and is gone.
PlaceBidAnswered(r) ==
    /\ Replayed(r) \/ ~Admissible(r)
    /\ inflight' = inflight \ {r}
    /\ UNCHANGED <<clock, hash, ending, ranking, idem, stream, settleAt,
                   owner, cleanup, claims>>

\* SET ... EX 86400: a key may lapse while the auction still runs.
IdempotencyExpires(k) ==
    /\ idem[k] # 0
    /\ idem' = [idem EXCEPT ![k] = 0]
    /\ UNCHANGED <<clock, hash, ending, ranking, stream, inflight, settleAt,
                   owner, cleanup, claims>>

-----------------------------------------------------------------------------
(* Settlement.  Passes of several pods, or of the two crons, may overlap:  *)
(* the cron lease is shorter than a slow pass.                             *)

\* SettleDueAuctions: the score is due at the time the pass captured.
ListDueAuctionEnds(s) ==
    /\ settleAt[s] = NotRunning
    /\ ending # NotScheduled
    /\ ending <= clock
    /\ settleAt' = [settleAt EXCEPT ![s] = clock]
    /\ UNCHANGED <<clock, hash, ending, ranking, idem, stream, inflight,
                   owner, cleanup, claims>>

\* EndExpiredAuctions: MySQL says ongoing and past rule.end_time, and the
\* hash read back is ongoing with its end reached.
ListOngoingPastEnd(s) ==
    /\ settleAt[s] = NotRunning
    /\ owner = "scheduled"
    /\ RuleEnd < clock
    /\ hash.status = "ongoing"
    /\ hash.endMS <= clock
    /\ settleAt' = [settleAt EXCEPT ![s] = clock]
    /\ UNCHANGED <<clock, hash, ending, ranking, idem, stream, inflight,
                   owner, cleanup, claims>>

\* Mutants: the script trusts the list and does not test the status, or the
\* end time, again.
Mut_ClaimAnyStatus(s) ==
    /\ hash.status # "absent"
    /\ hash.endMS # 0
    /\ hash.endMS <= settleAt[s]
Mut_ClaimAnyTime(s) == hash.status = "ongoing" /\ hash.endMS # 0

\* The script's own test, with the captured time.
Claimable(s) ==
    /\ hash.status = "ongoing"
    /\ hash.endMS # 0
    /\ hash.endMS <= settleAt[s]

\* Mutant: the script pops the item off auction:ending before it decides.
Mut_PopFirst(s) == NotScheduled

EndingAfterSettle(s) == IF Claimable(s) THEN NotScheduled ELSE ending

SettleAuctionLua(s) ==
    /\ settleAt[s] # NotRunning
    /\ settleAt' = [settleAt EXCEPT ![s] = NotRunning]
    /\ IF Claimable(s)
       THEN /\ hash' = [hash EXCEPT !.status = "ended",
                                    !.endedAt = settleAt[s],
                                    !.endReason = "time_expired"]
            /\ claims' = Append(claims, [leader |-> hash.leader, price |-> hash.price,
                                         reason |-> "time_expired"])
            /\ cleanup' = "claimed"
       ELSE UNCHANGED <<hash, claims, cleanup>>
    /\ ending' = EndingAfterSettle(s)
    /\ UNCHANGED <<clock, ranking, idem, stream, inflight, owner>>

\* The claimer's clean-up: ZREM, EXPIRE, and 24 hours later the hash is gone.
CleanupUnschedules ==
    /\ cleanup = "claimed"
    /\ cleanup' = "unscheduled"
    /\ ending' = NotScheduled
    /\ UNCHANGED <<clock, hash, ranking, idem, stream, inflight, settleAt, owner, claims>>

CleanupExpires ==
    /\ cleanup = "unscheduled"
    /\ cleanup' = "expiring"
    /\ UNCHANGED <<clock, hash, ending, ranking, idem, stream, inflight, settleAt, owner, claims>>

FinalSnapshotExpires ==
    /\ cleanup = "expiring"
    /\ cleanup' = "gone"
    /\ hash' = NoHash
    /\ UNCHANGED <<clock, ending, ranking, idem, stream, inflight, settleAt, owner, claims>>

-----------------------------------------------------------------------------
Settle(s) ==
    \/ ListDueAuctionEnds(s)
    \/ ListOngoingPastEnd(s)
    \/ SettleAuctionLua(s)

Next ==
    \/ Tick
    \/ InitAuctionState
    \/ ScheduleAuctionEnd
    \/ UnscheduleAuctionEnd
    \/ DeleteAuctionState
    \/ \E u \in Users, p \in Prices, k \in Keys : BidReadsClock(u, p, k)
    \/ \E r \in inflight : PlaceBidAccepted(r)
    \/ \E r \in inflight : PlaceBidAnswered(r)
    \/ \E k \in Keys : IdempotencyExpires(k)
    \/ \E s \in Settlers : Settle(s)
    \/ CleanupUnschedules
    \/ CleanupExpires
    \/ FinalSnapshotExpires

\* Time passes, a start sequence that has begun goes on, a cancellation is
\* completed, and the one-second settlement cron keeps firing in some pod.
\* Nobody has to bid, to cancel or to clean up.
Fairness ==
    /\ WF_vars(Tick)
    /\ WF_vars(ScheduleAuctionEnd)
    /\ WF_vars(owner = "unscheduled" /\ DeleteAuctionState)
    /\ \A s \in Settlers : WF_vars(Settle(s))

SafeSpec == Init /\ [][Next]_vars
Spec == SafeSpec /\ Fairness

-----------------------------------------------------------------------------
(* Properties.                                                             *)

\* Every variable keeps the shape its Redis value or Go struct has.
TypeOK ==
    /\ clock \in 0..MaxClock
    /\ hash \in Hash
    /\ ending \in Nat \cup {NotScheduled}
    /\ ranking \in [Users -> Nat]
    /\ idem \in [Keys -> Nat]
    /\ stream \in Seq(LogEntry)
    /\ inflight \subseteq Request
    /\ settleAt \in [Settlers -> (0..MaxClock) \cup {NotRunning}]
    /\ owner \in {"published", "initialised", "scheduled", "unscheduled", "withdrawn"}
    /\ cleanup \in {"none", "claimed", "unscheduled", "expiring", "gone"}
    /\ claims \in Seq(Claim)

LastPrice  == IF stream = <<>> THEN StartPrice ELSE stream[Len(stream)].price
LastBidder == IF stream = <<>> THEN NoUser ELSE stream[Len(stream)].user

\* The bid log alone determines the hot state: entry number i carries version
\* i, and while the hash exists its version and bid count are the length of
\* the log and its price and leader are the last entry's.  Rebuilding a lost
\* hash from the persisted log (availability_rebuild.go) rests on this.
LogDeterminesState ==
    /\ \A i \in 1..Len(stream) : stream[i].version = i
    /\ hash.status # "absent" =>
          /\ hash.version = Len(stream)
          /\ hash.bidCount = Len(stream)
          /\ hash.price = LastPrice
          /\ hash.leader = LastBidder

\* Accepted prices rise strictly from the start price, however the handlers
\* that carry them interleave.  So a retried bid is logged at most once even
\* after its idempotency key has lapsed.
PricesAscend ==
    /\ \A i \in 1..Len(stream) : stream[i].price > StartPrice
    /\ \A i, j \in 1..Len(stream) : i < j => stream[i].price < stream[j].price

\* The ranking, a second Redis key, holds exactly each bidder's best logged
\* bid, and participant_count counts the users it holds.
RankingIsBestBid ==
    /\ \A u \in Users :
          /\ \A i \in 1..Len(stream) :
                stream[i].user = u => stream[i].price <= ranking[u]
          /\ ranking[u] # 0 =>
                \E i \in 1..Len(stream) : stream[i].user = u /\ stream[i].price = ranking[u]
    /\ hash.status # "absent" =>
          hash.partCount = Cardinality({u \in Users : ranking[u] # 0})

\* The end time has moved by exactly the extensions counted, and both limits
\* of the policy hold.
ExtensionBudget ==
    hash.status # "absent" =>
        /\ hash.endMS = RuleEnd + hash.extTotal * SecMS
        /\ hash.extTotal = hash.extCount * ExtSec
        /\ hash.extCount <= MaxExtCount
        /\ hash.extTotal <= MaxExtTotal

\* A live idempotency key names the bid that was made with it, and no later
\* bid was accepted under the same key: a replay answers with the original.
IdempotencyNamesItsBid ==
    \A k \in Keys : idem[k] # 0 =>
        /\ idem[k] \in 1..Len(stream)
        /\ stream[idem[k]].key = k
        /\ \A j \in 1..Len(stream) : j > idem[k] => stream[j].key # k

\* Among all bid handlers, settlement passes and crons, one at most is told
\* that it ended the auction, it is told the last logged bid (or no winner),
\* and an ended hash means that somebody was told.
OneOwnerOfTheEnd ==
    /\ Len(claims) <= 1
    /\ hash.status = "ended" => claims # <<>>
    /\ claims # <<>> =>
          /\ hash.status # "ongoing"
          /\ claims[1].leader = LastBidder
          /\ claims[1].price = LastPrice

\* An auction is ended for a reason: at the cap, or at or after its end time,
\* extensions included.  And one whose last bid reached the cap is not open.
EndIsJustified ==
    LET capped == PriceCap > 0 /\ stream # <<>> /\ LastPrice >= PriceCap
    IN  /\ hash.status = "ongoing" => ~capped
        /\ hash.status = "ended" =>
              \/ hash.endReason = "price_cap" /\ capped
              \/ hash.endReason = "time_expired" /\ ~capped /\ hash.endedAt >= hash.endMS

\* While a started auction is open the settlement cron can find it, and its
\* score is never later than its end, although start writes the score after
\* the hash is already open to bids.
NeverScheduledLate ==
    hash.status = "ongoing" /\ owner = "scheduled" =>
        ending # NotScheduled /\ ending <= hash.endMS

\* The bidder of the last bid, if there was one, leads the ranking alone.
Leads(bidder, price) ==
    \A u \in Users :
        /\ bidder = NoUser => ranking[u] = 0
        /\ u = bidder => ranking[u] = price
        /\ u # bidder /\ bidder # NoUser => ranking[u] < price

\* Three Redis keys and the reply of a script agree on who is ahead: the
\* leader in the hash, and whoever the claim that ended the auction names,
\* is alone at the top of the ranking, with the price given there; without
\* a bid the ranking is empty.
WinnerTopsRanking ==
    /\ hash.status # "absent" => Leads(hash.leader, hash.price)
    /\ claims # <<>> => Leads(claims[1].leader, claims[1].price)

\* A bid at the cap is the last one of the log, however many handlers had
\* read an open hash by then.
OnlyLastReachesCap ==
    PriceCap > 0 => \A i \in 1..Len(stream) : i < Len(stream) => stream[i].price < PriceCap

\* Once an auction is no longer open no bid handler in flight adds to the log
\* or the ranking, no pass claims it again, and the final hash is not
\* rewritten: it can only disappear.
FinalResultFrozen ==
    [][hash.status # "ongoing" =>
         /\ UNCHANGED <<stream, ranking, claims>>
         /\ owner # "published" => hash' \in {hash, NoHash}]_vars

\* The bid a step logs, if it logs one.
LogsBid == Len(stream') > Len(stream)
NewBid  == stream'[Len(stream')]

\* The script compares whole seconds with a millisecond end, so a bid may be
\* accepted late, but by less than a second.
LateByLessThanASecond ==
    [][LogsBid => NewBid.at < hash.endMS + SecMS]_vars

\* Anti-sniping, up to the second the script rounds away: a bid surely inside
\* the trigger window moves the end unless the budget is used up, and a bid
\* outside the window never does.
AntiSnipe ==
    [][LogsBid =>
         LET remaining == hash.endMS - NewBid.at
             extended  == hash'.endMS > hash.endMS
         IN  /\ extended => remaining <= ExtTrigSec * SecMS
             /\ remaining + SecMS <= ExtTrigSec * SecMS =>
                   \/ extended
                   \/ hash.extCount = MaxExtCount
                   \/ hash.extTotal + ExtSec > MaxExtTotal]_vars

-----------------------------------------------------------------------------
(* The abstract auction this component implements.                         *)

AbstractPhase ==
    IF owner = "published" THEN "before"
    ELSE IF hash.status = "ongoing" THEN "open"
    ELSE "closed"

BidsOf(log) ==
    [i \in 1..Len(log) |-> [user |-> log[i].user, price |-> log[i].price]]

SaleOf(replies) ==
    [i \in 1..Len(replies) |-> [winner |-> replies[i].leader, price |-> replies[i].price]]

English == INSTANCE EnglishAuction
    WITH phase <- AbstractPhase, bids <- BidsOf(stream), sale <- SaleOf(claims)

\* The hot state with all its writers is an ascending auction that opens once,
\* sells at most once, to the last bidder, and does not stay open for ever:
\* bids extend it, but the extension budget is finite.
ImplementsEnglishAuction == English!Spec
=============================================================================
