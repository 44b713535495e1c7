-------------------------- MODULE HotAuctionProofs --------------------------
(***************************************************************************)
(* Theorems about HotAuction, for any bidders, prices, rule, policy,       *)
(* number of settlement passes and bounds.                                 *)
(*                                                                         *)
(* Every invariant below is about the same few pieces of state (the log,   *)
(* the hash, the ranking, the claims), and only three kinds of step touch  *)
(* them: starting, accepting a bid, and a settlement script that claims.   *)
(* StepKinds says so once; the later proofs have one case for each kind.   *)
(***************************************************************************)
EXTENDS HotAuction, TLAPS, SequenceTheorems, FiniteSetTheorems

-----------------------------------------------------------------------------
(* Types.                                                                  *)

\* An accepted bid leaves hash, index, ranking and key with values of their
\* types, and its log entry and its claim (if it reaches the cap) are typed.
LEMMA AcceptedBidTypes ==
    ASSUME TypeOK, NEW r \in inflight
    PROVE  /\ r \in Request
           /\ NowMS(r) \in Int
           /\ Admissible(r) => NowMS(r) \in Nat
           /\ Admissible(r) => HashAfterBid(r) \in Hash
           /\ EndingAfterBid(r) \in Nat \cup {NotScheduled}
           /\ RankingAfterBid(r) \in [Users -> Nat]
           /\ IdemAfterBid(r) \in [Keys -> Nat]
           /\ EntryOf(r) \in LogEntry
           /\ [leader |-> r.user, price |-> r.price, reason |-> "price_cap"] \in Claim
<1>1. /\ r \in Request
      /\ r.user \in Users /\ r.price \in Nat /\ r.key \in Keys
      /\ r.at \in 0..MaxClock /\ r.at \in Nat
    <2>1. r \in Request
        BY DEF TypeOK
    <2>2. r.user \in Users /\ r.price \in Prices /\ r.key \in Keys /\ r.at \in 0..MaxClock
        BY <2>1 DEF Request
    <2>3. r.price \in Nat
        BY <2>2, SetsAssumption
    <2>4. r.at \in Nat
        BY <2>2, SetsAssumption
    <2> QED
        BY <2>1, <2>2, <2>3, <2>4
<1>2. /\ hash \in Hash
      /\ hash.endMS \in Nat /\ hash.endedAt \in Nat /\ hash.version \in Nat /\ hash.bidCount \in Nat
      /\ hash.partCount \in Nat /\ hash.extCount \in Nat /\ hash.extTotal \in Nat
    <2>1. hash \in Hash
        BY DEF TypeOK
    <2> QED
        BY <2>1 DEF Hash
<1>3. NowMS(r) \in Nat
    BY <1>1, PolicyAssumption DEF NowMS
<1>4. ExtSec * SecMS \in Nat /\ ExtSec \in Nat
    BY PolicyAssumption
<1>5. HashAfterBid(r) \in Hash
    <2> DEFINE h == HashAfterBid(r)
    <2>1. /\ h.status \in {"absent", "ongoing", "ended"}
          /\ h.endReason \in {"", "time_expired", "price_cap"}
        BY <1>2 DEF HashAfterBid, Hash
    <2>2. h.price \in Nat /\ h.leader \in Users \cup {NoUser}
        BY <1>1 DEF HashAfterBid
    <2>3. h.endMS \in Nat /\ h.endedAt \in Nat
        <3>1. h.endMS \in {hash.endMS, hash.endMS + ExtSec * SecMS}
            BY DEF HashAfterBid
        <3>2. h.endedAt \in {hash.endedAt, NowMS(r)}
            BY DEF HashAfterBid
        <3> QED
            BY <3>1, <3>2, <1>2, <1>3, <1>4
    <2>4. h.bidCount \in Nat /\ h.partCount \in Nat /\ h.version \in Nat
        BY <1>2 DEF HashAfterBid
    <2>5. h.extCount \in Nat /\ h.extTotal \in Nat
        BY <1>2, <1>4 DEF HashAfterBid
    <2>6. h = [status |-> h.status, price |-> h.price, leader |-> h.leader,
               endMS |-> h.endMS, endedAt |-> h.endedAt, endReason |-> h.endReason,
               bidCount |-> h.bidCount, partCount |-> h.partCount,
               version |-> h.version, extCount |-> h.extCount, extTotal |-> h.extTotal]
        BY DEF HashAfterBid
    <2> QED
        BY <2>1, <2>2, <2>3, <2>4, <2>5, <2>6 DEF Hash
<1>6. EndingAfterBid(r) \in Nat \cup {NotScheduled}
    BY <1>2, <1>4 DEF EndingAfterBid, TypeOK
<1>7. RankingAfterBid(r) \in [Users -> Nat]
    BY <1>1 DEF RankingAfterBid, TypeOK
<1>8. IdemAfterBid(r) \in [Keys -> Nat]
    BY <1>1, <1>2 DEF IdemAfterBid, TypeOK
<1>9. EntryOf(r) \in LogEntry
    BY <1>1, <1>2 DEF EntryOf, LogEntry, Request
<1>10. [leader |-> r.user, price |-> r.price, reason |-> "price_cap"] \in Claim
    BY <1>1 DEF Claim
<1> QED
    BY <1>1, <1>3, <1>5, <1>6, <1>7, <1>8, <1>9, <1>10

LEMMA InitialTypes == Init => TypeOK
<1> SUFFICES ASSUME Init PROVE TypeOK
    OBVIOUS
<1>1. NoHash \in Hash
    BY DEF NoHash, Hash
<1>2. stream \in Seq(LogEntry) /\ claims \in Seq(Claim)
    BY EmptySeq DEF Init
<1> QED
    BY <1>1, <1>2, SetsAssumption DEF Init, TypeOK, NotScheduled, NotRunning

LEMMA TypesPreserved == TypeOK /\ [Next]_vars => TypeOK'
<1> SUFFICES ASSUME TypeOK, [Next]_vars PROVE TypeOK'
    OBVIOUS
<1> USE DEF TypeOK
<1>1. CASE Tick
    BY <1>1, SetsAssumption DEF Tick
<1>2. CASE InitAuctionState
    <2>1. FreshHash \in Hash
        BY RuleAssumption DEF FreshHash, NoHash, Hash
    <2> QED
        BY <1>2, <2>1 DEF InitAuctionState, bidData
<1>3. CASE ScheduleAuctionEnd
    BY <1>3, RuleAssumption DEF ScheduleAuctionEnd, bidData
<1>4. CASE UnscheduleAuctionEnd
    BY <1>4 DEF UnscheduleAuctionEnd, bidData
<1>5. CASE DeleteAuctionState
    <2>1. NoHash \in Hash
        BY DEF NoHash, Hash
    <2> QED
        BY <1>5, <2>1 DEF DeleteAuctionState, bidData
<1>6. ASSUME NEW u \in Users, NEW p \in Prices, NEW k \in Keys, BidReadsClock(u, p, k)
      PROVE  TypeOK'
    <2>1. [user |-> u, price |-> p, key |-> k, at |-> clock] \in Request
        BY DEF Request
    <2> QED
        BY <1>6, <2>1 DEF BidReadsClock
<1>7. ASSUME NEW r \in inflight, PlaceBidAccepted(r)
      PROVE  TypeOK'
    <2>1. HashAfterBid(r) \in Hash
        BY <1>7, AcceptedBidTypes DEF PlaceBidAccepted
    <2>2. stream' \in Seq(LogEntry)
        BY <1>7, AcceptedBidTypes, AppendProperties DEF PlaceBidAccepted
    <2>3. claims' \in Seq(Claim)
        <3>1. CASE ReachesCap(r)
            <4>1. claims' = Append(claims, [leader |-> r.user, price |-> r.price,
                                            reason |-> "price_cap"])
                BY <1>7, <3>1 DEF PlaceBidAccepted
            <4> QED
                BY <4>1, AcceptedBidTypes, AppendProperties
        <3>2. CASE ~ReachesCap(r)
            BY <1>7, <3>2 DEF PlaceBidAccepted
        <3> QED
            BY <3>1, <3>2
    <2>4. /\ EndingAfterBid(r) \in Nat \cup {NotScheduled}
          /\ RankingAfterBid(r) \in [Users -> Nat]
          /\ IdemAfterBid(r) \in [Keys -> Nat]
        BY AcceptedBidTypes
    <2>5. cleanup' \in {"none", "claimed", "unscheduled", "expiring", "gone"}
        BY <1>7 DEF PlaceBidAccepted
    <2> QED
        BY <1>7, <2>1, <2>2, <2>3, <2>4, <2>5 DEF PlaceBidAccepted
<1>8. ASSUME NEW r \in inflight, PlaceBidAnswered(r)
      PROVE  TypeOK'
    BY <1>8 DEF PlaceBidAnswered
<1>9. ASSUME NEW k \in Keys, IdempotencyExpires(k)
      PROVE  TypeOK'
    BY <1>9 DEF IdempotencyExpires
<1>10. ASSUME NEW s \in Settlers, ListDueAuctionEnds(s)
       PROVE  TypeOK'
    BY <1>10 DEF ListDueAuctionEnds
<1>11. ASSUME NEW s \in Settlers, ListOngoingPastEnd(s)
       PROVE  TypeOK'
    BY <1>11 DEF ListOngoingPastEnd
<1>12. ASSUME NEW s \in Settlers, SettleAuctionLua(s)
       PROVE  TypeOK'
    <2>1. settleAt[s] \in 0..MaxClock
        BY <1>12 DEF SettleAuctionLua, NotRunning
    <2>2. hash' \in Hash
        <3>1. CASE Claimable(s)
            <4>1. settleAt[s] \in Nat
                BY <2>1, SetsAssumption
            <4>2. hash' = [hash EXCEPT !.status = "ended", !.endedAt = settleAt[s],
                                       !.endReason = "time_expired"]
                BY <1>12, <3>1 DEF SettleAuctionLua
            <4> QED
                BY <4>1, <4>2 DEF Hash
        <3>2. CASE ~Claimable(s)
            BY <1>12, <3>2 DEF SettleAuctionLua
        <3> QED
            BY <3>1, <3>2
    <2>3. [leader |-> hash.leader, price |-> hash.price, reason |-> "time_expired"] \in Claim
        BY DEF Hash, Claim
    <2>4. claims' \in Seq(Claim)
        <3>1. CASE Claimable(s)
            <4>1. claims' = Append(claims, [leader |-> hash.leader, price |-> hash.price,
                                            reason |-> "time_expired"])
                BY <1>12, <3>1 DEF SettleAuctionLua
            <4> QED
                BY <4>1, <2>3, AppendProperties
        <3>2. CASE ~Claimable(s)
            BY <1>12, <3>2 DEF SettleAuctionLua
        <3> QED
            BY <3>1, <3>2
    <2>5. ending' \in Nat \cup {NotScheduled} /\ cleanup' \in {"none", "claimed", "unscheduled", "expiring", "gone"}
        BY <1>12 DEF SettleAuctionLua, EndingAfterSettle
    <2>6. settleAt' \in [Settlers -> (0..MaxClock) \cup {NotRunning}]
        BY <1>12 DEF SettleAuctionLua
    <2> QED
        BY <1>12, <2>2, <2>4, <2>5, <2>6 DEF SettleAuctionLua
<1>13. CASE CleanupUnschedules
    BY <1>13 DEF CleanupUnschedules
<1>14. CASE CleanupExpires
    BY <1>14 DEF CleanupExpires
<1>15. CASE FinalSnapshotExpires
    <2>1. NoHash \in Hash
        BY DEF NoHash, Hash
    <2> QED
        BY <1>15, <2>1 DEF FinalSnapshotExpires
<1>16. CASE UNCHANGED vars
    BY <1>16 DEF vars
<1> QED
    BY <1>1, <1>2, <1>3, <1>4, <1>5, <1>6, <1>7, <1>8, <1>9, <1>10, <1>11,
       <1>12, <1>13, <1>14, <1>15, <1>16 DEF Next, Settle

\* Type correctness: every value the code writes to Redis, and every value a
\* handler holds between two commands, has the type its reader expects.
THEOREM TypeCorrect == SafeSpec => []TypeOK
<1> QED
    BY InitialTypes, TypesPreserved, PTL DEF SafeSpec

-----------------------------------------------------------------------------
(* The kinds of step.                                                      *)

\* A step that neither starts, nor logs a bid, nor claims: it may delete the
\* hash, expire an idempotency key, or write the rule's end to the index.
Quiet ==
    /\ UNCHANGED <<stream, ranking, claims>>
    /\ hash' \in {hash, NoHash}
    /\ \A k \in Keys : idem'[k] \in {idem[k], 0}
    /\ owner' = "published" <=> owner = "published"
    /\ cleanup' # "none" => cleanup # "none"
    /\ owner' = "scheduled" =>
          \/ owner = "scheduled" /\ ending' = ending
          \/ ending' = RuleEnd
          \/ cleanup # "none"

Claims(s) == SettleAuctionLua(s) /\ Claimable(s)

LEMMA StepKinds ==
    ASSUME TypeOK, [Next]_vars
    PROVE  \/ InitAuctionState
           \/ \E r \in inflight : PlaceBidAccepted(r)
           \/ \E s \in Settlers : Claims(s)
           \/ Quiet
<1> USE DEF Quiet
<1>0. idem \in [Keys -> Nat]
    BY DEF TypeOK
<1>1. CASE Tick
    BY <1>1 DEF Tick
<1>2. CASE InitAuctionState
    BY <1>2
<1>3. CASE ScheduleAuctionEnd
    BY <1>3 DEF ScheduleAuctionEnd, bidData
<1>4. CASE UnscheduleAuctionEnd
    BY <1>4 DEF UnscheduleAuctionEnd, bidData
<1>5. CASE DeleteAuctionState
    BY <1>5 DEF DeleteAuctionState, bidData
<1>6. ASSUME NEW u \in Users, NEW p \in Prices, NEW k \in Keys, BidReadsClock(u, p, k)
      PROVE  Quiet
    BY <1>6 DEF BidReadsClock
<1>7. ASSUME NEW r \in inflight, PlaceBidAnswered(r)
      PROVE  Quiet
    BY <1>7 DEF PlaceBidAnswered
<1>8. ASSUME NEW k \in Keys, IdempotencyExpires(k)
      PROVE  Quiet
    BY <1>0, <1>8 DEF IdempotencyExpires
<1>9. ASSUME NEW s \in Settlers, Settle(s), ~Claims(s)
      PROVE  Quiet
    BY <1>9 DEF Settle, ListDueAuctionEnds, ListOngoingPastEnd, SettleAuctionLua,
                EndingAfterSettle, Claims
<1>10. CASE CleanupUnschedules
    BY <1>10 DEF CleanupUnschedules
<1>11. CASE CleanupExpires
    BY <1>11 DEF CleanupExpires
<1>12. CASE FinalSnapshotExpires
    BY <1>12 DEF FinalSnapshotExpires
<1>13. CASE UNCHANGED vars
    BY <1>13 DEF vars
<1> QED
    BY <1>1, <1>2, <1>3, <1>4, <1>5, <1>6, <1>7, <1>8, <1>9, <1>10, <1>11,
       <1>12, <1>13 DEF Next

\* What an accepted bid does to the log.
LEMMA AcceptedBidLog ==
    ASSUME TypeOK, NEW r \in inflight, PlaceBidAccepted(r)
    PROVE  /\ Len(stream) \in Nat
           /\ Len(stream') = Len(stream) + 1
           /\ stream' # <<>>
           /\ \A i \in 1..Len(stream) : stream'[i] = stream[i] /\ stream[i] \in LogEntry
           /\ stream'[Len(stream) + 1] = EntryOf(r)
           /\ EntryOf(r).user = r.user /\ EntryOf(r).price = r.price
           /\ EntryOf(r).key = r.key /\ EntryOf(r).at = r.at
           /\ LastPrice' = r.price
           /\ LastBidder' = r.user
<1>1. stream \in Seq(LogEntry) /\ EntryOf(r) \in LogEntry
    BY AcceptedBidTypes DEF TypeOK
<1>2. stream' = Append(stream, EntryOf(r))
    BY DEF PlaceBidAccepted
<1>3. Len(stream) \in Nat
    BY <1>1, LenProperties
<1>4. \A i \in 1..Len(stream) : stream[i] \in LogEntry
    BY <1>1, ElementOfSeq
<1>5. /\ Len(stream') = Len(stream) + 1
      /\ stream' # <<>>
      /\ \A i \in 1..Len(stream) : stream'[i] = stream[i]
      /\ stream'[Len(stream) + 1] = EntryOf(r)
    BY <1>1, <1>2, AppendProperties
<1>6. /\ EntryOf(r).user = r.user /\ EntryOf(r).price = r.price
      /\ EntryOf(r).key = r.key /\ EntryOf(r).at = r.at
    BY DEF EntryOf
<1>7. LastPrice' = r.price /\ LastBidder' = r.user
    BY <1>5, <1>6 DEF LastPrice, LastBidder
<1> QED
    BY <1>3, <1>4, <1>5, <1>6, <1>7

-----------------------------------------------------------------------------
(* The inductive invariant.  The first two parts only strengthen it: a     *)
(* start finds nothing of an earlier life, and clean-up follows a claim.   *)

NothingBeforeStart ==
    owner = "published" =>
        /\ hash = NoHash
        /\ stream = <<>>
        /\ claims = <<>>
        /\ ranking = [u \in Users |-> 0]
        /\ cleanup = "none"

CleanupFollowsClaim == cleanup # "none" => claims # <<>>

IInv ==
    /\ TypeOK
    /\ NothingBeforeStart
    /\ CleanupFollowsClaim
    /\ LogDeterminesState
    /\ PricesAscend
    /\ RankingIsBestBid
    /\ ExtensionBudget
    /\ IdempotencyNamesItsBid
    /\ OneOwnerOfTheEnd
    /\ EndIsJustified
    /\ NeverScheduledLate

LEMMA InitialInvariant == Init => IInv
<1> SUFFICES ASSUME Init PROVE IInv
    OBVIOUS
<1>1. /\ TypeOK
      /\ hash = NoHash /\ hash.status = "absent"
      /\ stream = <<>> /\ Len(stream) = 0 /\ 1..Len(stream) = {}
      /\ claims = <<>> /\ Len(claims) = 0
    <2>1. Len(stream) = 0 /\ Len(claims) = 0
        BY EmptySeq DEF Init
    <2>2. 1..0 = {}
        OBVIOUS
    <2> QED
        BY <2>1, <2>2, InitialTypes DEF Init, NoHash
<1>2. NothingBeforeStart /\ CleanupFollowsClaim
    BY <1>1 DEF NothingBeforeStart, CleanupFollowsClaim, Init
<1>3. LogDeterminesState /\ PricesAscend
    BY <1>1 DEF LogDeterminesState, PricesAscend
<1>4. RankingIsBestBid
    BY <1>1 DEF RankingIsBestBid, Init
<1>5. ExtensionBudget /\ NeverScheduledLate
    BY <1>1 DEF ExtensionBudget, NeverScheduledLate
<1>6. IdempotencyNamesItsBid
    BY DEF IdempotencyNamesItsBid, Init
<1>7. OneOwnerOfTheEnd /\ EndIsJustified
    BY <1>1 DEF OneOwnerOfTheEnd, EndIsJustified
<1> QED
    BY <1>1, <1>2, <1>3, <1>4, <1>5, <1>6, <1>7 DEF IInv

LEMMA NoHashIsAbsent == NoHash.status = "absent"
BY DEF NoHash

\* What the other two kinds of step do to the state the invariant reads.
LEMMA StartState ==
    ASSUME IInv, InitAuctionState
    PROVE  /\ hash' = FreshHash /\ hash'.status = "ongoing"
           /\ stream = <<>> /\ claims = <<>> /\ cleanup = "none"
           /\ ranking = [u \in Users |-> 0]
           /\ UNCHANGED <<ending, ranking, idem, stream, claims, cleanup>>
           /\ owner' = "initialised"
BY DEF IInv, NothingBeforeStart, InitAuctionState, bidData, FreshHash, NoHash

LEMMA ClaimState ==
    ASSUME TypeOK, NEW s \in Settlers, Claims(s)
    PROVE  /\ hash.status = "ongoing" /\ hash.endMS <= settleAt[s]
           /\ hash' = [hash EXCEPT !.status = "ended", !.endedAt = settleAt[s],
                                   !.endReason = "time_expired"]
           /\ claims' = Append(claims, [leader |-> hash.leader, price |-> hash.price,
                                        reason |-> "time_expired"])
           /\ UNCHANGED <<stream, ranking, idem, owner>>
BY DEF Claims, SettleAuctionLua, Claimable

LEMMA BookkeepingPreserved ==
    ASSUME IInv, [Next]_vars
    PROVE  NothingBeforeStart' /\ CleanupFollowsClaim'
<1> USE DEF NothingBeforeStart, CleanupFollowsClaim
<1>0. /\ TypeOK /\ NothingBeforeStart /\ CleanupFollowsClaim
      /\ hash.status = "ongoing" => owner # "published"
    BY NoHashIsAbsent DEF IInv
<1>1. CASE InitAuctionState
    BY <1>1, StartState
<1>2. ASSUME NEW r \in inflight, PlaceBidAccepted(r)
      PROVE  NothingBeforeStart' /\ CleanupFollowsClaim'
    <2>1. owner' # "published"
        BY <1>0, <1>2 DEF PlaceBidAccepted, Admissible
    <2>2. ReachesCap(r) => claims' # <<>>
        BY <1>0, <1>2, AcceptedBidTypes, AppendProperties DEF PlaceBidAccepted, TypeOK
    <2>3. ~ReachesCap(r) => UNCHANGED <<claims, cleanup>>
        BY <1>2 DEF PlaceBidAccepted
    <2> QED
        BY <1>0, <2>1, <2>2, <2>3
<1>3. ASSUME NEW s \in Settlers, Claims(s)
      PROVE  NothingBeforeStart' /\ CleanupFollowsClaim'
    <2>1. owner' # "published"
        BY <1>0, <1>3, ClaimState
    <2>2. [leader |-> hash.leader, price |-> hash.price, reason |-> "time_expired"] \in Claim
        BY <1>0 DEF TypeOK, Hash, Claim
    <2>3. claims \in Seq(Claim)
        BY <1>0 DEF TypeOK
    <2>4. claims' = Append(claims, [leader |-> hash.leader, price |-> hash.price,
                                    reason |-> "time_expired"])
        BY <1>0, <1>3, ClaimState
    <2>5. claims' # <<>>
        BY <2>2, <2>3, <2>4, AppendProperties
    <2> QED
        BY <2>1, <2>5
<1>4. CASE Quiet
    BY <1>0, <1>4 DEF Quiet
<1> QED
    BY <1>0, <1>1, <1>2, <1>3, <1>4, StepKinds

LEMMA LogDeterminesStatePreserved ==
    ASSUME IInv, [Next]_vars
    PROVE  LogDeterminesState'
<1> USE DEF LogDeterminesState
<1>0. TypeOK /\ LogDeterminesState
    BY DEF IInv
<1>1. CASE InitAuctionState
    <2>1. Len(stream) = 0 /\ stream' = <<>> /\ LastPrice' = StartPrice /\ LastBidder' = NoUser
        BY <1>1, StartState, EmptySeq DEF LastPrice, LastBidder
    <2>2. /\ hash'.version = 0 /\ hash'.bidCount = 0
          /\ hash'.price = StartPrice /\ hash'.leader = NoUser
        BY <1>1, StartState DEF FreshHash, NoHash
    <2> QED
        BY <1>0, <1>1, <2>1, <2>2, StartState
<1>2. ASSUME NEW r \in inflight, PlaceBidAccepted(r)
      PROVE  LogDeterminesState'
    <2>1. hash.version = Len(stream) /\ hash.bidCount = Len(stream)
        BY <1>0, <1>2 DEF PlaceBidAccepted, Admissible
    <2>2. /\ hash'.version = Len(stream) + 1 /\ hash'.bidCount = Len(stream) + 1
          /\ hash'.price = r.price /\ hash'.leader = r.user
        BY <1>2, <2>1 DEF PlaceBidAccepted, HashAfterBid
    <2>3. EntryOf(r).version = Len(stream) + 1
        BY <2>1 DEF EntryOf
    <2> QED
        BY <1>0, <1>2, <2>2, <2>3, AcceptedBidLog
<1>3. ASSUME NEW s \in Settlers, Claims(s)
      PROVE  LogDeterminesState'
    <2>1. /\ hash'.version = hash.version /\ hash'.bidCount = hash.bidCount
          /\ hash'.price = hash.price /\ hash'.leader = hash.leader
        BY <1>0, <1>3, ClaimState DEF TypeOK, Hash
    <2>2. LastPrice' = LastPrice /\ LastBidder' = LastBidder /\ stream' = stream
        BY <1>0, <1>3, ClaimState DEF LastPrice, LastBidder
    <2> QED
        BY <1>0, <1>3, <2>1, <2>2, ClaimState
<1>4. CASE Quiet
    <2>1. LastPrice' = LastPrice /\ LastBidder' = LastBidder /\ stream' = stream
        BY <1>4 DEF Quiet, LastPrice, LastBidder
    <2> QED
        BY <1>0, <1>4, <2>1, NoHashIsAbsent DEF Quiet
<1> QED
    BY <1>0, <1>1, <1>2, <1>3, <1>4, StepKinds

LEMMA PricesAscendPreserved ==
    ASSUME IInv, [Next]_vars
    PROVE  PricesAscend'
<1> USE DEF PricesAscend
<1>0. TypeOK /\ LogDeterminesState /\ PricesAscend
    BY DEF IInv
<1>1. ASSUME NEW r \in inflight, PlaceBidAccepted(r)
      PROVE  PricesAscend'
    <2>1. r.price \in Nat /\ r.price > LastPrice
        BY <1>0, <1>1, AcceptedBidTypes, SetsAssumption
        DEF PlaceBidAccepted, Admissible, LogDeterminesState, Request
    <2>2. \A i \in 1..Len(stream) : stream[i].price \in Nat
        BY <1>0, <1>1, AcceptedBidLog, SetsAssumption DEF LogEntry
    <2>3. Len(stream) \in Nat /\ StartPrice \in Nat
        BY <1>0, <1>1, AcceptedBidLog, RuleAssumption
    <2>4. \A i \in 1..Len(stream) : stream[i].price <= LastPrice
        <3>1. CASE stream = <<>>
            BY <3>1, EmptySeq
        <3>2. CASE stream # <<>>
            <4>1. Len(stream) \in 1..Len(stream)
                BY <1>0, <2>3, <3>2, EmptySeq DEF TypeOK
            <4> QED
                BY <1>0, <2>2, <2>3, <3>2, <4>1 DEF LastPrice
        <3> QED
            BY <3>1, <3>2
    <2>5. LastPrice \in Nat /\ StartPrice <= LastPrice
        <3>1. CASE stream = <<>>
            BY <2>3, <3>1 DEF LastPrice
        <3>2. CASE stream # <<>>
            <4>1. Len(stream) \in 1..Len(stream)
                BY <1>0, <2>3, <3>2, EmptySeq DEF TypeOK
            <4> QED
                BY <1>0, <2>2, <2>3, <3>2, <4>1 DEF LastPrice
        <3> QED
            BY <3>1, <3>2
    <2>6. stream'[Len(stream) + 1].price = r.price
        BY <1>0, <1>1, AcceptedBidLog
    <2>7. \A i \in 1..Len(stream) : stream[i].price < r.price
        BY <2>1, <2>2, <2>4, <2>5
    <2>8. StartPrice < r.price
        BY <2>1, <2>3, <2>5
    <2>9. /\ Len(stream') = Len(stream) + 1
          /\ \A i \in 1..Len(stream) : stream'[i] = stream[i]
        BY <1>0, <1>1, AcceptedBidLog
    <2> QED
        BY <1>0, <2>3, <2>6, <2>7, <2>8, <2>9
<1>2. ASSUME stream' = stream
      PROVE  PricesAscend'
    BY <1>0, <1>2
<1> QED
    BY <1>0, <1>1, <1>2, StepKinds, StartState, ClaimState DEF Quiet

LEMMA Distributes ==
    ASSUME NEW a \in Nat, NEW b \in Nat, NEW c \in Nat
    PROVE  (a + b) * c = a * c + b * c /\ a * c \in Nat
OBVIOUS

LEMMA ExtensionBudgetPreserved ==
    ASSUME IInv, [Next]_vars
    PROVE  ExtensionBudget'
<1> USE DEF ExtensionBudget
<1>0. TypeOK /\ ExtensionBudget
    BY DEF IInv
<1>a. ExtSec \in Nat /\ SecMS \in Nat /\ MaxExtCount \in Nat /\ MaxExtTotal \in Nat /\ RuleEnd \in Nat
    BY RuleAssumption, PolicyAssumption
<1>1. CASE InitAuctionState
    <2>1. hash'.endMS = RuleEnd /\ hash'.extTotal = 0 /\ hash'.extCount = 0
        BY <1>1, StartState DEF FreshHash, NoHash
    <2>2. 0 * SecMS = 0 /\ 0 * ExtSec = 0
        BY <1>a
    <2> QED
        BY <1>a, <2>1, <2>2
<1>2. ASSUME NEW r \in inflight, PlaceBidAccepted(r)
      PROVE  ExtensionBudget'
    <2>1. hash.status = "ongoing" /\ hash' = HashAfterBid(r)
        BY <1>2 DEF PlaceBidAccepted, Admissible
    <2>2. hash.endMS \in Nat /\ hash.extCount \in Nat /\ hash.extTotal \in Nat
        BY <1>0 DEF TypeOK, Hash
    <2>3. CASE Extends(r)
        <3>1. /\ hash'.endMS = hash.endMS + ExtSec * SecMS
              /\ hash'.extCount = hash.extCount + 1
              /\ hash'.extTotal = hash.extTotal + ExtSec
            BY <2>1, <2>3 DEF HashAfterBid
        <3>2. hash.extCount < MaxExtCount /\ hash.extTotal + ExtSec <= MaxExtTotal
            BY <2>3 DEF Extends
        <3>3. (hash.extTotal + ExtSec) * SecMS = hash.extTotal * SecMS + ExtSec * SecMS
            BY <1>a, <2>2, Distributes
        <3>4. (hash.extCount + 1) * ExtSec = hash.extCount * ExtSec + ExtSec
            BY <1>a, <2>2
        <3>5. hash.extTotal * SecMS \in Nat /\ ExtSec * SecMS \in Nat
            BY <1>a, <2>2
        <3>6. hash'.endMS = RuleEnd + hash'.extTotal * SecMS
            BY <1>0, <1>a, <2>1, <3>1, <3>3, <3>5
        <3> QED
            BY <1>0, <1>a, <2>1, <2>2, <3>1, <3>2, <3>4, <3>6
    <2>4. CASE ~Extends(r)
        <3>1. /\ hash'.endMS = hash.endMS
              /\ hash'.extCount = hash.extCount
              /\ hash'.extTotal = hash.extTotal
            BY <2>1, <2>4 DEF HashAfterBid
        <3> QED
            BY <1>0, <2>1, <3>1
    <2> QED
        BY <2>3, <2>4
<1>3. ASSUME NEW s \in Settlers, Claims(s)
      PROVE  ExtensionBudget'
    <2>1. /\ hash'.endMS = hash.endMS
          /\ hash'.extCount = hash.extCount
          /\ hash'.extTotal = hash.extTotal
        BY <1>0, <1>3, ClaimState DEF TypeOK, Hash
    <2> QED
        BY <1>0, <1>3, <2>1, ClaimState
<1>4. CASE Quiet
    BY <1>0, <1>4, NoHashIsAbsent DEF Quiet
<1> QED
    BY <1>0, <1>1, <1>2, <1>3, <1>4, StepKinds

LEMMA IdempotencyNamesItsBidPreserved ==
    ASSUME IInv, [Next]_vars
    PROVE  IdempotencyNamesItsBid'
<1> USE DEF IdempotencyNamesItsBid
<1>0. TypeOK /\ LogDeterminesState /\ IdempotencyNamesItsBid /\ idem \in [Keys -> Nat]
    BY DEF IInv, TypeOK
<1>1. ASSUME NEW r \in inflight, PlaceBidAccepted(r)
      PROVE  IdempotencyNamesItsBid'
    <2>1. hash.version = Len(stream)
        BY <1>0, <1>1 DEF PlaceBidAccepted, Admissible, LogDeterminesState
    <2>2. \A k \in Keys : idem'[k] = IF k = r.key THEN Len(stream) + 1 ELSE idem[k]
        BY <1>0, <1>1, <2>1 DEF PlaceBidAccepted, IdemAfterBid
    <2>3. /\ Len(stream) \in Nat
          /\ Len(stream') = Len(stream) + 1
          /\ \A i \in 1..Len(stream) : stream'[i] = stream[i]
          /\ stream'[Len(stream) + 1].key = r.key
        BY <1>0, <1>1, AcceptedBidLog
    <2>4. ASSUME NEW k \in Keys, idem'[k] # 0
          PROVE  /\ idem'[k] \in 1..Len(stream')
                 /\ stream'[idem'[k]].key = k
                 /\ \A j \in 1..Len(stream') : j > idem'[k] => stream'[j].key # k
        <3>1. CASE k = r.key
            BY <2>2, <2>3, <3>1
        <3>2. CASE k # r.key
            <4>1. /\ idem'[k] = idem[k] /\ idem[k] \in 1..Len(stream)
                  /\ stream[idem[k]].key = k
                  /\ \A j \in 1..Len(stream) : j > idem[k] => stream[j].key # k
                BY <1>0, <2>2, <2>4, <3>2
            <4>2. \A j \in 1..Len(stream') : j \in 1..Len(stream) \/ j = Len(stream) + 1
                BY <2>3
            <4> QED
                BY <2>3, <3>2, <4>1, <4>2
        <3> QED
            BY <3>1, <3>2
    <2> QED
        BY <2>4
<1>2. ASSUME stream' = stream, \A k \in Keys : idem'[k] \in {idem[k], 0}
      PROVE  IdempotencyNamesItsBid'
    BY <1>0, <1>2
<1> QED
    BY <1>0, <1>1, <1>2, StepKinds, StartState, ClaimState DEF Quiet

LEMMA OneOwnerOfTheEndPreserved ==
    ASSUME IInv, [Next]_vars
    PROVE  OneOwnerOfTheEnd'
<1> USE DEF OneOwnerOfTheEnd
<1>0. TypeOK /\ LogDeterminesState /\ OneOwnerOfTheEnd /\ claims \in Seq(Claim)
    BY DEF IInv, TypeOK
<1>1. CASE InitAuctionState
    BY <1>0, <1>1, StartState
<1>2. ASSUME NEW r \in inflight, PlaceBidAccepted(r)
      PROVE  OneOwnerOfTheEnd'
    <2>1. claims = <<>> /\ hash' = HashAfterBid(r)
        BY <1>0, <1>2 DEF PlaceBidAccepted, Admissible
    <2>2. CASE ReachesCap(r)
        <3> DEFINE c == [leader |-> r.user, price |-> r.price, reason |-> "price_cap"]
        <3>1. c \in Claim /\ c.leader = r.user /\ c.price = r.price
            BY <1>0, AcceptedBidTypes
        <3>2. claims' = Append(claims, c)
            BY <1>2, <2>2 DEF PlaceBidAccepted
        <3>3. claims' # <<>> /\ Len(claims') = 1 /\ claims'[1] = c
            <4> HIDE DEF c
            <4>1. Len(claims) = 0
                BY <2>1, EmptySeq
            <4> QED
                BY <1>0, <3>1, <3>2, <4>1, AppendProperties
        <3>4. hash'.status = "ended"
            BY <2>1, <2>2 DEF HashAfterBid
        <3> QED
            BY <1>0, <1>2, <3>1, <3>3, <3>4, AcceptedBidLog
    <2>3. CASE ~ReachesCap(r)
        <3>1. claims' = <<>> /\ Len(claims') = 0
            BY <1>2, <2>1, <2>3, EmptySeq DEF PlaceBidAccepted
        <3>2. hash'.status = "ongoing"
            BY <2>1, <2>3 DEF HashAfterBid
        <3> QED
            BY <3>1, <3>2
    <2> QED
        BY <2>2, <2>3
<1>3. ASSUME NEW s \in Settlers, Claims(s)
      PROVE  OneOwnerOfTheEnd'
    <2> DEFINE c == [leader |-> hash.leader, price |-> hash.price, reason |-> "time_expired"]
    <2>1. claims = <<>> /\ Len(claims) = 0
        BY <1>0, <1>3, ClaimState, EmptySeq
    <2>2. c \in Claim /\ c.leader = LastBidder /\ c.price = LastPrice
        <3>1. hash.leader = LastBidder /\ hash.price = LastPrice
            BY <1>0, <1>3, ClaimState DEF LogDeterminesState
        <3> QED
            BY <1>0, <3>1 DEF TypeOK, Hash, Claim
    <2>3. claims' = Append(claims, c)
        BY <1>0, <1>3, ClaimState
    <2>4. Len(claims') = 1 /\ claims' # <<>> /\ claims'[1] = c
        <3> HIDE DEF c
        <3> QED
            BY <1>0, <2>1, <2>2, <2>3, AppendProperties
    <2>5. hash'.status = "ended"
        BY <1>0, <1>3, ClaimState DEF TypeOK, Hash
    <2>6. LastPrice' = LastPrice /\ LastBidder' = LastBidder
        BY <1>0, <1>3, ClaimState DEF LastPrice, LastBidder
    <2> QED
        BY <2>2, <2>4, <2>5, <2>6
<1>4. CASE Quiet
    <2>1. LastPrice' = LastPrice /\ LastBidder' = LastBidder
        BY <1>4 DEF Quiet, LastPrice, LastBidder
    <2> QED
        BY <1>0, <1>4, <2>1, NoHashIsAbsent DEF Quiet
<1> QED
    BY <1>0, <1>1, <1>2, <1>3, <1>4, StepKinds

LEMMA EndIsJustifiedPreserved ==
    ASSUME IInv, [Next]_vars
    PROVE  EndIsJustified'
<1> USE DEF EndIsJustified
<1>0. TypeOK /\ EndIsJustified
    BY DEF IInv
<1>1. CASE InitAuctionState
    BY <1>0, <1>1, StartState
<1>2. ASSUME NEW r \in inflight, PlaceBidAccepted(r)
      PROVE  EndIsJustified'
    <2>1. hash' = HashAfterBid(r) /\ LastPrice' = r.price /\ stream' # <<>>
        BY <1>0, <1>2, AcceptedBidLog DEF PlaceBidAccepted
    <2>2. CASE ReachesCap(r)
        <3>1. hash'.status = "ended" /\ hash'.endReason = "price_cap"
            BY <2>1, <2>2 DEF HashAfterBid
        <3> QED
            BY <2>1, <2>2, <3>1 DEF ReachesCap
    <2>3. CASE ~ReachesCap(r)
        <3>1. hash'.status = "ongoing"
            BY <2>1, <2>3 DEF HashAfterBid
        <3> QED
            BY <2>1, <2>3, <3>1 DEF ReachesCap
    <2> QED
        BY <2>2, <2>3
<1>3. ASSUME NEW s \in Settlers, Claims(s)
      PROVE  EndIsJustified'
    <2>1. /\ hash.status = "ongoing" /\ hash.endMS <= settleAt[s]
          /\ hash'.status = "ended" /\ hash'.endReason = "time_expired"
          /\ hash'.endedAt = settleAt[s] /\ hash'.endMS = hash.endMS
        BY <1>0, <1>3, ClaimState DEF TypeOK, Hash
    <2>2. settleAt[s] \in Int /\ hash.endMS \in Int
        <3>1. hash.endMS \in Nat
            <4>1. hash \in Hash
                BY <1>0 DEF TypeOK
            <4> QED
                BY <4>1 DEF Hash
        <3>2. settleAt[s] \in (0..MaxClock) \cup {NotRunning}
            BY <1>0, <1>3 DEF TypeOK
        <3>3. settleAt[s] \in Int
            BY <3>2, SetsAssumption DEF NotRunning
        <3> QED
            BY <3>1, <3>3
    <2>3. stream' = stream /\ LastPrice' = LastPrice
        BY <1>0, <1>3, ClaimState DEF LastPrice
    <2> QED
        BY <1>0, <2>1, <2>2, <2>3
<1>4. CASE Quiet
    <2>1. stream' = stream /\ LastPrice' = LastPrice
        BY <1>4 DEF Quiet, LastPrice
    <2> QED
        BY <1>0, <1>4, <2>1, NoHashIsAbsent DEF Quiet
<1> QED
    BY <1>0, <1>1, <1>2, <1>3, <1>4, StepKinds

LEMMA NeverScheduledLatePreserved ==
    ASSUME IInv, [Next]_vars
    PROVE  NeverScheduledLate'
<1> USE DEF NeverScheduledLate
<1>0. /\ TypeOK /\ CleanupFollowsClaim /\ ExtensionBudget /\ OneOwnerOfTheEnd
      /\ NeverScheduledLate
    BY DEF IInv
<1>a. hash.endMS \in Nat /\ ending \in Int /\ RuleEnd \in Nat /\ ExtSec * SecMS \in Nat
    <2>1. hash.endMS \in Nat
        BY <1>0 DEF TypeOK, Hash
    <2>2. ending \in Int
        BY <1>0 DEF TypeOK, NotScheduled
    <2>3. ExtSec \in Nat /\ SecMS \in Nat /\ RuleEnd \in Nat
        BY RuleAssumption, PolicyAssumption
    <2> QED
        BY <2>1, <2>2, <2>3
<1>1. CASE InitAuctionState
    BY <1>0, <1>1, StartState
<1>2. ASSUME NEW r \in inflight, PlaceBidAccepted(r)
      PROVE  NeverScheduledLate'
    <2>1. /\ hash.status = "ongoing" /\ hash' = HashAfterBid(r)
          /\ ending' = EndingAfterBid(r) /\ owner' = owner
        BY <1>2 DEF PlaceBidAccepted, Admissible
    <2>2. CASE ReachesCap(r)
        BY <2>1, <2>2 DEF HashAfterBid
    <2>3. CASE ~ReachesCap(r) /\ Extends(r)
        <3>1. ending' = hash.endMS + ExtSec * SecMS /\ hash'.endMS = hash.endMS + ExtSec * SecMS
            BY <2>1, <2>3 DEF HashAfterBid, EndingAfterBid
        <3> QED
            BY <1>a, <3>1 DEF NotScheduled
    <2>4. CASE ~ReachesCap(r) /\ ~Extends(r)
        <3>1. ending' = ending /\ hash'.endMS = hash.endMS
            BY <2>1, <2>4 DEF HashAfterBid, EndingAfterBid
        <3> QED
            BY <1>0, <2>1, <3>1
    <2> QED
        BY <2>2, <2>3, <2>4
<1>3. ASSUME NEW s \in Settlers, Claims(s)
      PROVE  NeverScheduledLate'
    <2>1. hash'.status = "ended"
        BY <1>0, <1>3, ClaimState DEF TypeOK, Hash
    <2> QED
        BY <2>1
<1>4. CASE Quiet
    <2> SUFFICES ASSUME hash'.status = "ongoing", owner' = "scheduled"
                 PROVE  ending' # NotScheduled /\ ending' <= hash'.endMS
        OBVIOUS
    <2>1. hash' = hash /\ hash.status = "ongoing"
        BY <1>4, NoHashIsAbsent DEF Quiet
    <2>2. cleanup = "none"
        BY <1>0, <2>1 DEF CleanupFollowsClaim, OneOwnerOfTheEnd
    <2>3. RuleEnd <= hash.endMS
        <3>1. hash.endMS = RuleEnd + hash.extTotal * SecMS
            BY <1>0, <2>1 DEF ExtensionBudget
        <3>2. hash.extTotal * SecMS \in Nat
            <4>1. hash.extTotal \in Nat /\ SecMS \in Nat
                BY <1>0, PolicyAssumption DEF TypeOK, Hash
            <4> QED
                BY <4>1
        <3> QED
            BY <1>a, <3>1, <3>2
    <2>4. CASE owner = "scheduled" /\ ending' = ending
        BY <1>0, <2>1, <2>4
    <2>5. CASE ending' = RuleEnd
        BY <1>a, <2>1, <2>3, <2>5 DEF NotScheduled
    <2> QED
        BY <1>4, <2>2, <2>4, <2>5 DEF Quiet
<1> QED
    BY <1>0, <1>1, <1>2, <1>3, <1>4, StepKinds

LEMMA RankingIsBestBidPreserved ==
    ASSUME IInv, [Next]_vars
    PROVE  RankingIsBestBid'
<1> DEFINE ranked == {u \in Users : ranking[u] # 0}
<1>0. /\ TypeOK /\ PricesAscend /\ PricesAscend' /\ RankingIsBestBid
      /\ ranking \in [Users -> Nat]
    BY PricesAscendPreserved DEF IInv, TypeOK
<1>1. CASE InitAuctionState
    <2>1. hash'.partCount = 0
        BY <1>1, StartState DEF FreshHash, NoHash
    <2>2. {u \in Users : ranking'[u] # 0} = {}
        BY <1>1, StartState
    <2>3. Cardinality({u \in Users : ranking'[u] # 0}) = 0
        BY <2>2, FS_EmptySet
    <2> QED
        BY <1>0, <1>1, <2>1, <2>3, StartState DEF RankingIsBestBid
<1>2. ASSUME NEW r \in inflight, PlaceBidAccepted(r)
      PROVE  RankingIsBestBid'
    <2>1. /\ r.user \in Users /\ r.price \in Nat
          /\ \A i \in 1..Len(stream) : stream[i].price \in Nat
          /\ StartPrice \in Nat
        <3>1. r \in Request /\ \A i \in 1..Len(stream) : stream[i] \in LogEntry
            BY <1>0, <1>2, AcceptedBidTypes, AcceptedBidLog
        <3> QED
            BY <3>1, SetsAssumption, RuleAssumption DEF Request, LogEntry
    <2>2. /\ Len(stream) \in Nat
          /\ Len(stream') = Len(stream) + 1
          /\ \A i \in 1..Len(stream) : stream'[i] = stream[i]
          /\ stream'[Len(stream) + 1].user = r.user
          /\ stream'[Len(stream) + 1].price = r.price
        BY <1>0, <1>2, AcceptedBidLog
    <2>3. r.price > 0 /\ \A i \in 1..Len(stream) : stream[i].price < r.price
        <3>1. Len(stream) + 1 \in 1..Len(stream')
            BY <2>2
        <3>2. stream'[Len(stream) + 1].price > StartPrice
            BY <1>0, <3>1 DEF PricesAscend
        <3>3. r.price > 0
            BY <2>1, <2>2, <3>2, RuleAssumption
        <3>4. ASSUME NEW i \in 1..Len(stream)
              PROVE  stream[i].price < r.price
            <4>1. i \in 1..Len(stream') /\ i < Len(stream) + 1
                BY <2>2
            <4>2. stream'[i].price < stream'[Len(stream) + 1].price
                BY <1>0, <3>1, <4>1 DEF PricesAscend
            <4> QED
                BY <2>2, <4>2
        <3> QED
            BY <3>3, <3>4
    <2>4. ranking[r.user] < r.price
        <3>1. CASE ranking[r.user] = 0
            BY <2>3, <3>1
        <3>2. CASE ranking[r.user] # 0
            BY <1>0, <2>1, <2>3, <3>2 DEF RankingIsBestBid
        <3> QED
            BY <3>1, <3>2
    <2>5. \A u \in Users : ranking'[u] = IF u = r.user THEN r.price ELSE ranking[u]
        BY <1>0, <1>2, <2>1, <2>4 DEF PlaceBidAccepted, RankingAfterBid
    <2>6. ASSUME NEW u \in Users
          PROVE  /\ \A i \in 1..Len(stream') :
                       stream'[i].user = u => stream'[i].price <= ranking'[u]
                 /\ ranking'[u] # 0 =>
                       \E i \in 1..Len(stream') :
                          stream'[i].user = u /\ stream'[i].price = ranking'[u]
        <3>1. \A i \in 1..Len(stream') : i \in 1..Len(stream) \/ i = Len(stream) + 1
            BY <2>2
        <3>2. Len(stream) + 1 \in 1..Len(stream') /\ 1..Len(stream) \subseteq 1..Len(stream')
            BY <2>2
        <3>3. CASE u = r.user
            BY <2>1, <2>2, <2>3, <2>5, <3>1, <3>2, <3>3
        <3>4. CASE u # r.user
            <4>1. ranking'[u] = ranking[u]
                BY <2>5, <3>4
            <4> QED
                BY <1>0, <2>2, <3>1, <3>2, <3>4, <4>1 DEF RankingIsBestBid
        <3> QED
            BY <3>3, <3>4
    <2>7. hash'.partCount = Cardinality({u \in Users : ranking'[u] # 0})
        <3>1. hash.partCount = Cardinality(ranked) /\ hash' = HashAfterBid(r)
            BY <1>0, <1>2 DEF PlaceBidAccepted, Admissible, RankingIsBestBid
        <3>2. {u \in Users : ranking'[u] # 0} = ranked \cup {r.user}
            BY <2>1, <2>3, <2>5
        <3>3. IsFiniteSet(ranked)
            BY SetsAssumption, FS_Subset
        <3>4. Cardinality(ranked \cup {r.user}) =
                 IF r.user \in ranked THEN Cardinality(ranked) ELSE Cardinality(ranked) + 1
            BY <3>3, FS_AddElement
        <3>5. NewParticipant(r) <=> r.user \notin ranked
            BY <2>1 DEF NewParticipant
        <3>6. hash'.partCount = IF NewParticipant(r) THEN hash.partCount + 1 ELSE hash.partCount
            BY <3>1 DEF HashAfterBid
        <3> HIDE DEF ranked
        <3> QED
            BY <3>1, <3>2, <3>4, <3>5, <3>6
    <2> QED
        BY <2>6, <2>7 DEF RankingIsBestBid
<1>3. ASSUME NEW s \in Settlers, Claims(s)
      PROVE  RankingIsBestBid'
    <2>1. hash'.partCount = hash.partCount
        BY <1>0, <1>3, ClaimState DEF TypeOK, Hash
    <2> QED
        <3>1. hash.status = "ongoing" /\ ranking' = ranking /\ stream' = stream
            BY <1>0, <1>3, ClaimState
        <3>2. hash.partCount = Cardinality(ranked)
            BY <1>0, <3>1 DEF RankingIsBestBid
        <3>3. hash'.partCount = Cardinality({u \in Users : ranking'[u] # 0})
            BY <2>1, <3>1, <3>2
        <3> QED
            BY <1>0, <3>1, <3>3 DEF RankingIsBestBid
<1>4. CASE Quiet
    BY <1>0, <1>4, NoHashIsAbsent DEF Quiet, RankingIsBestBid
<1> QED
    BY <1>0, <1>1, <1>2, <1>3, <1>4, StepKinds

LEMMA InvariantPreserved == IInv /\ [Next]_vars => IInv'
<1> SUFFICES ASSUME IInv, [Next]_vars PROVE IInv'
    OBVIOUS
<1>1. TypeOK'
    BY TypesPreserved DEF IInv
<1>2. NothingBeforeStart' /\ CleanupFollowsClaim'
    BY BookkeepingPreserved
<1>3. LogDeterminesState' /\ PricesAscend' /\ RankingIsBestBid'
    BY LogDeterminesStatePreserved, PricesAscendPreserved, RankingIsBestBidPreserved
<1>4. ExtensionBudget' /\ IdempotencyNamesItsBid'
    BY ExtensionBudgetPreserved, IdempotencyNamesItsBidPreserved
<1>5. OneOwnerOfTheEnd' /\ EndIsJustified' /\ NeverScheduledLate'
    BY OneOwnerOfTheEndPreserved, EndIsJustifiedPreserved, NeverScheduledLatePreserved
<1> QED
    BY <1>1, <1>2, <1>3, <1>4, <1>5 DEF IInv

LEMMA InductiveInvariant == SafeSpec => []IInv
<1> QED
    BY InitialInvariant, InvariantPreserved, PTL DEF SafeSpec

-----------------------------------------------------------------------------
(* The invariants, one theorem each.                                       *)

\* The persisted bid log is enough to rebuild the hot state after a loss.
THEOREM LogDeterminesStateHolds == SafeSpec => []LogDeterminesState
<1>1. IInv => LogDeterminesState
    BY DEF IInv
<1> QED
    BY <1>1, InductiveInvariant, PTL

\* Bids are accepted at strictly rising prices only.
THEOREM PricesAscendHolds == SafeSpec => []PricesAscend
<1>1. IInv => PricesAscend
    BY DEF IInv
<1> QED
    BY <1>1, InductiveInvariant, PTL

\* The ranking key agrees with the log, and participant_count with the ranking.
THEOREM RankingIsBestBidHolds == SafeSpec => []RankingIsBestBid
<1>1. IInv => RankingIsBestBid
    BY DEF IInv
<1> QED
    BY <1>1, InductiveInvariant, PTL

\* The extension limits bound how far the end of an auction moves.
THEOREM ExtensionBudgetHolds == SafeSpec => []ExtensionBudget
<1>1. IInv => ExtensionBudget
    BY DEF IInv
<1> QED
    BY <1>1, InductiveInvariant, PTL

\* A replayed bid request is answered with the bid it first made.
THEOREM IdempotencyNamesItsBidHolds == SafeSpec => []IdempotencyNamesItsBid
<1>1. IInv => IdempotencyNamesItsBid
    BY DEF IInv
<1> QED
    BY <1>1, InductiveInvariant, PTL

\* Whatever bid handlers and settlement passes run at the same time, one at
\* most is told to persist the result, and with the last bid as the winner.
THEOREM OneOwnerOfTheEndHolds == SafeSpec => []OneOwnerOfTheEnd
<1>1. IInv => OneOwnerOfTheEnd
    BY DEF IInv
<1> QED
    BY <1>1, InductiveInvariant, PTL

\* An auction ends at its cap or not before its end time.
THEOREM EndIsJustifiedHolds == SafeSpec => []EndIsJustified
<1>1. IInv => EndIsJustified
    BY DEF IInv
<1> QED
    BY <1>1, InductiveInvariant, PTL

\* The settlement index never misses an open auction.
THEOREM NeverScheduledLateHolds == SafeSpec => []NeverScheduledLate
<1>1. IInv => NeverScheduledLate
    BY DEF IInv
<1> QED
    BY <1>1, InductiveInvariant, PTL

\* The last bid of the log is the best one.
LEMMA LastIsBest ==
    ASSUME TypeOK, PricesAscend, stream # <<>>
    PROVE  /\ Len(stream) \in 1..Len(stream)
           /\ LastPrice = stream[Len(stream)].price /\ LastBidder = stream[Len(stream)].user
           /\ LastPrice \in Nat /\ LastPrice > 0 /\ LastBidder \in Users
           /\ \A i \in 1..Len(stream) :
                 /\ stream[i].price \in Nat
                 /\ stream[i].price <= LastPrice
                 /\ i # Len(stream) => stream[i].price < LastPrice
<1>1. stream \in Seq(LogEntry) /\ Len(stream) \in Nat
    BY LenProperties DEF TypeOK
<1>2. Len(stream) \in 1..Len(stream)
    BY <1>1, EmptySeq
<1>3. \A i \in 1..Len(stream) : stream[i].price \in Nat /\ stream[i].user \in Users
    <2>1. \A i \in 1..Len(stream) : stream[i] \in LogEntry
        BY <1>1, ElementOfSeq
    <2> QED
        BY <2>1, SetsAssumption DEF LogEntry
<1>4. LastPrice = stream[Len(stream)].price /\ LastBidder = stream[Len(stream)].user
    BY DEF LastPrice, LastBidder
<1>5. \A i \in 1..Len(stream) : i # Len(stream) => stream[i].price < LastPrice
    BY <1>1, <1>2, <1>4 DEF PricesAscend
<1>6. stream[Len(stream)].price > StartPrice /\ StartPrice \in Nat
    BY <1>2, RuleAssumption DEF PricesAscend
<1> QED
    BY <1>1, <1>2, <1>3, <1>4, <1>5, <1>6

LEMMA LastLeads ==
    ASSUME TypeOK, PricesAscend, RankingIsBestBid
    PROVE  Leads(LastBidder, LastPrice)
<1>0. ranking \in [Users -> Nat]
    BY DEF TypeOK
<1>1. CASE stream = <<>>
    <2>1. Len(stream) = 0 /\ LastBidder = NoUser
        BY <1>1, EmptySeq DEF LastBidder
    <2>2. \A u \in Users : ranking[u] = 0
        BY <2>1 DEF RankingIsBestBid
    <2> QED
        BY <2>1, <2>2, SetsAssumption DEF Leads
<1>2. CASE stream # <<>>
    <2>1. LastBidder # NoUser
        BY <1>2, LastIsBest, SetsAssumption
    <2>2. ASSUME NEW u \in Users, u = LastBidder PROVE ranking[u] = LastPrice
        <3>1. LastPrice <= ranking[u]
            BY <1>2, <2>2, LastIsBest DEF RankingIsBestBid
        <3>2. PICK i \in 1..Len(stream) : stream[i].price = ranking[u]
            BY <1>0, <1>2, <3>1, LastIsBest DEF RankingIsBestBid
        <3> QED
            BY <1>0, <1>2, <3>1, <3>2, LastIsBest
    <2>3. ASSUME NEW u \in Users, u # LastBidder PROVE ranking[u] < LastPrice
        <3>1. CASE ranking[u] = 0
            BY <1>2, <3>1, LastIsBest
        <3>2. CASE ranking[u] # 0
            <4>1. PICK i \in 1..Len(stream) : stream[i].user = u /\ stream[i].price = ranking[u]
                BY <3>2 DEF RankingIsBestBid
            <4>2. i # Len(stream)
                BY <1>2, <2>3, <4>1, LastIsBest
            <4> QED
                BY <1>2, <4>1, <4>2, LastIsBest
        <3> QED
            BY <3>1, <3>2
    <2> QED
        BY <2>1, <2>2, <2>3 DEF Leads
<1> QED
    BY <1>1, <1>2

\* The leader of the hash and the winner a claim names lead the ranking.
THEOREM WinnerTopsRankingHolds == SafeSpec => []WinnerTopsRanking
<1>1. IInv => WinnerTopsRanking
    BY LastLeads DEF IInv, WinnerTopsRanking, LogDeterminesState, OneOwnerOfTheEnd
<1> QED
    BY <1>1, InductiveInvariant, PTL

\* Nothing is logged after a bid that reached the cap.
THEOREM OnlyLastReachesCapHolds == SafeSpec => []OnlyLastReachesCap
<1>1. Init => OnlyLastReachesCap
    <2> SUFFICES ASSUME Init PROVE Len(stream) = 0
        BY DEF OnlyLastReachesCap
    <2> QED
        BY EmptySeq DEF Init
<1>2. IInv /\ OnlyLastReachesCap /\ [Next]_vars => OnlyLastReachesCap'
    <2> SUFFICES ASSUME IInv, OnlyLastReachesCap, [Next]_vars PROVE OnlyLastReachesCap'
        OBVIOUS
    <2>0. TypeOK /\ PricesAscend /\ EndIsJustified
        BY DEF IInv
    <2>1. ASSUME NEW r \in inflight, PlaceBidAccepted(r)
          PROVE  OnlyLastReachesCap'
        <3> SUFFICES ASSUME PriceCap > 0, NEW i \in 1..Len(stream'), i < Len(stream')
                     PROVE  stream'[i].price < PriceCap
            BY DEF OnlyLastReachesCap
        <3>1. /\ Len(stream) \in Nat /\ Len(stream') = Len(stream) + 1
              /\ \A j \in 1..Len(stream) : stream'[j] = stream[j]
            BY <2>0, <2>1, AcceptedBidLog
        <3>2. i \in 1..Len(stream) /\ stream'[i] = stream[i] /\ stream # <<>>
            BY <3>1, EmptySeq
        <3>3. ~(LastPrice >= PriceCap)
            BY <2>0, <2>1, <3>2 DEF PlaceBidAccepted, Admissible, EndIsJustified
        <3>4. stream[i].price \in Nat /\ stream[i].price <= LastPrice /\ LastPrice \in Nat
            BY <2>0, <3>2, LastIsBest
        <3> QED
            BY <3>2, <3>3, <3>4, RuleAssumption
    <2>2. ASSUME stream' = stream
          PROVE  OnlyLastReachesCap'
        BY <2>2 DEF OnlyLastReachesCap
    <2> QED
        BY <2>0, <2>1, <2>2, StepKinds, StartState, ClaimState DEF Quiet
<1> QED
    BY <1>1, <1>2, InductiveInvariant, PTL DEF SafeSpec

-----------------------------------------------------------------------------
(* The action properties.                                                  *)

\* The result of an auction that is over cannot change any more.
THEOREM FinalResultFrozenHolds == SafeSpec => FinalResultFrozen
<1> DEFINE Frozen ==
        hash.status # "ongoing" =>
            /\ UNCHANGED <<stream, ranking, claims>>
            /\ owner # "published" => hash' \in {hash, NoHash}
<1>1. TypeOK /\ [Next]_vars => [Frozen]_vars
    <2> SUFFICES ASSUME TypeOK, [Next]_vars, hash.status # "ongoing"
                 PROVE  /\ UNCHANGED <<stream, ranking, claims>>
                        /\ owner # "published" => hash' \in {hash, NoHash}
        OBVIOUS
    <2>1. CASE InitAuctionState
        BY <2>1 DEF InitAuctionState, bidData
    <2>2. ~ \E r \in inflight : PlaceBidAccepted(r)
        BY DEF PlaceBidAccepted, Admissible
    <2>3. ~ \E s \in Settlers : Claims(s)
        BY ClaimState
    <2>4. CASE Quiet
        BY <2>4 DEF Quiet
    <2> QED
        BY <2>1, <2>2, <2>3, <2>4, StepKinds
<1> QED
    BY <1>1, TypeCorrect, PTL DEF SafeSpec, FinalResultFrozen

LEMMA RoundedDown ==
    ASSUME NEW a \in Nat, NEW n \in Nat \ {0}
    PROVE  /\ (a \div n) * n \in Nat
           /\ (a \div n) * n <= a
           /\ a < (a \div n) * n + n
OBVIOUS

\* What is known of a step that logs a bid.
LEMMA LoggedBid ==
    ASSUME TypeOK, [Next]_vars, LogsBid
    PROVE  \E r \in inflight :
              /\ PlaceBidAccepted(r)
              /\ NewBid.at = r.at
              /\ NowMS(r) \in Nat /\ NowMS(r) <= r.at /\ r.at < NowMS(r) + SecMS
<1>1. Len(stream) \in Nat
    BY LenProperties DEF TypeOK
<1>2. PICK r \in inflight : PlaceBidAccepted(r)
    <2>1. stream' # stream
        BY <1>1 DEF LogsBid
    <2>2. ~InitAuctionState
        BY <2>1 DEF InitAuctionState, bidData
    <2>3. ~Quiet /\ ~ \E s \in Settlers : Claims(s)
        BY <2>1, ClaimState DEF Quiet
    <2> QED
        BY <2>2, <2>3, StepKinds
<1>3. NewBid.at = r.at
    BY <1>2, AcceptedBidLog DEF NewBid
<1>4. r.at \in 0..MaxClock
    <2>1. r \in Request
        BY AcceptedBidTypes
    <2> QED
        BY <2>1 DEF Request
<1>5. r.at \in Nat
    BY <1>4, SetsAssumption
<1>6. NowMS(r) \in Nat /\ NowMS(r) <= r.at /\ r.at < NowMS(r) + SecMS
    BY <1>5, PolicyAssumption, RoundedDown DEF NowMS
<1> QED
    BY <1>2, <1>3, <1>6

\* Rounding the clock to seconds lets a bid in late by less than a second.
THEOREM LateByLessThanASecondHolds == SafeSpec => LateByLessThanASecond
<1>1. TypeOK /\ [Next]_vars => [LogsBid => NewBid.at < hash.endMS + SecMS]_vars
    <2> SUFFICES ASSUME TypeOK, [Next]_vars, LogsBid
                 PROVE  NewBid.at < hash.endMS + SecMS
        OBVIOUS
    <2>1. PICK r \in inflight :
              /\ PlaceBidAccepted(r)
              /\ NewBid.at = r.at
              /\ NowMS(r) \in Nat /\ NowMS(r) <= r.at /\ r.at < NowMS(r) + SecMS
        BY LoggedBid
    <2>2. NowMS(r) < hash.endMS
        BY <2>1 DEF PlaceBidAccepted, Admissible
    <2>3. hash.endMS \in Nat /\ SecMS \in Nat
        <3>1. hash \in Hash
            BY DEF TypeOK
        <3> QED
            BY <3>1, PolicyAssumption DEF Hash
    <2>4. r.at \in Int
        <3>1. r \in Request
            BY AcceptedBidTypes
        <3> QED
            BY <3>1, SetsAssumption DEF Request
    <2> QED
        BY <2>1, <2>2, <2>3, <2>4
<1> QED
    BY <1>1, TypeCorrect, PTL DEF SafeSpec, LateByLessThanASecond

\* Anti-sniping moves the end when it must, and only then.
THEOREM AntiSnipeHolds == SafeSpec => AntiSnipe
<1> DEFINE Sniped ==
        LogsBid =>
            LET remaining == hash.endMS - NewBid.at
                extended  == hash'.endMS > hash.endMS
            IN  /\ extended => remaining <= ExtTrigSec * SecMS
                /\ remaining + SecMS <= ExtTrigSec * SecMS =>
                      \/ extended
                      \/ hash.extCount = MaxExtCount
                      \/ hash.extTotal + ExtSec > MaxExtTotal
<1>1. IInv /\ [Next]_vars => [Sniped]_vars
    <2> SUFFICES ASSUME IInv, [Next]_vars, LogsBid
                 PROVE  Sniped
        OBVIOUS
    <2>0. TypeOK /\ ExtensionBudget
        BY DEF IInv
    <2>1. PICK r \in inflight :
              /\ PlaceBidAccepted(r)
              /\ NewBid.at = r.at
              /\ NowMS(r) \in Nat /\ NowMS(r) <= r.at /\ r.at < NowMS(r) + SecMS
        BY <2>0, LoggedBid
    <2>2. hash.endMS \in Nat /\ hash.extCount \in Nat /\ hash.extTotal \in Nat
        <3>1. hash \in Hash
            BY <2>0 DEF TypeOK
        <3> QED
            BY <3>1 DEF Hash
    <2>3. r.at \in Int
        <3>1. r \in Request
            BY <2>0, AcceptedBidTypes
        <3> QED
            BY <3>1, SetsAssumption DEF Request
    <2>4. SecMS \in Nat /\ MaxExtCount \in Nat /\ MaxExtTotal \in Nat /\ ExtSec \in Nat
        BY PolicyAssumption
    <2>5. ExtTrigSec * SecMS \in Nat /\ ExtSec * SecMS \in Nat /\ ExtSec * SecMS > 0
        <3>1. /\ ExtTrigSec \in Nat /\ ExtSec \in Nat /\ SecMS \in Nat
              /\ ExtSec > 0 /\ SecMS > 0
            BY PolicyAssumption
        <3> QED
            BY <3>1
    <2>6. hash.extCount <= MaxExtCount /\ hash' = HashAfterBid(r)
        BY <2>0, <2>1 DEF PlaceBidAccepted, Admissible, ExtensionBudget
    <2>7. CASE Extends(r)
        <3>1. hash'.endMS = hash.endMS + ExtSec * SecMS
            BY <2>6, <2>7 DEF HashAfterBid
        <3>2. hash.endMS - NowMS(r) <= ExtTrigSec * SecMS
            BY <2>7 DEF Extends
        <3>3. hash'.endMS > hash.endMS /\ hash.endMS - NewBid.at <= ExtTrigSec * SecMS
            BY <2>1, <2>2, <2>3, <2>5, <3>1, <3>2
        <3> QED
            BY <3>3
    <2>8. CASE ~Extends(r)
        <3>1. ~(hash'.endMS > hash.endMS)
            BY <2>2, <2>6, <2>8 DEF HashAfterBid
        <3>2. ASSUME hash.endMS - NewBid.at + SecMS <= ExtTrigSec * SecMS
              PROVE  hash.extCount = MaxExtCount \/ hash.extTotal + ExtSec > MaxExtTotal
            <4>1. hash.endMS - NowMS(r) <= ExtTrigSec * SecMS
                BY <2>1, <2>2, <2>3, <2>4, <2>5, <3>2
            <4>2. ~(hash.extCount < MaxExtCount) \/ ~(hash.extTotal + ExtSec <= MaxExtTotal)
                BY <2>8, <4>1 DEF Extends
            <4> QED
                BY <2>2, <2>4, <2>6, <4>2
        <3> QED
            BY <3>1, <3>2
    <2> QED
        BY <2>7, <2>8
<1> QED
    BY <1>1, InductiveInvariant, PTL DEF SafeSpec, AntiSnipe

-----------------------------------------------------------------------------
(* The hot state implements the abstract auction, safety part.  That an    *)
(* open auction closes rests on fairness and is TLC's to check.            *)

LEMMA SequenceByIndex ==
    ASSUME NEW S, NEW n \in Nat, NEW f \in [1..n -> S]
    PROVE  f \in Seq(S) /\ Len(f) = n
<1>1. f \in Seq(S)
    BY SeqDef
<1>2. DOMAIN f = 1..n /\ DOMAIN f = 1..Len(f) /\ Len(f) \in Nat
    BY <1>1, LenProperties
<1>3. Len(f) = n
    <2>1. CASE Len(f) < n
        <3>1. Len(f) + 1 \in 1..n /\ Len(f) + 1 \notin 1..Len(f)
            BY <1>2, <2>1
        <3> QED
            BY <1>2, <3>1
    <2>2. CASE Len(f) > n
        <3>1. n + 1 \in 1..Len(f) /\ n + 1 \notin 1..n
            BY <1>2, <2>2
        <3> QED
            BY <1>2, <3>1
    <2> QED
        BY <1>2, <2>1, <2>2
<1> QED
    BY <1>1, <1>3

LEMMA BidsOfProperties ==
    ASSUME NEW log \in Seq(LogEntry)
    PROVE  /\ BidsOf(log) \in Seq(English!Bid)
           /\ Len(BidsOf(log)) = Len(log) /\ Len(log) \in Nat
           /\ log = <<>> <=> BidsOf(log) = <<>>
<1>1. Len(log) \in Nat /\ \A i \in 1..Len(log) : log[i] \in LogEntry
    BY LenProperties, ElementOfSeq
<1>2. BidsOf(log) \in [1..Len(log) -> English!Bid]
    BY <1>1 DEF BidsOf, English!Bid, LogEntry
<1>3. BidsOf(log) \in Seq(English!Bid) /\ Len(BidsOf(log)) = Len(log)
    BY <1>1, <1>2, SequenceByIndex
<1>4. log = <<>> <=> Len(log) = 0
    BY EmptySeq
<1>5. BidsOf(log) = <<>> <=> Len(BidsOf(log)) = 0
    BY <1>3, EmptySeq
<1> QED
    BY <1>1, <1>3, <1>4, <1>5

LEMMA AbstractPrice ==
    ASSUME TypeOK
    PROVE  English!Price = LastPrice /\ English!Leader = LastBidder
<1>1. /\ Len(BidsOf(stream)) = Len(stream) /\ Len(stream) \in Nat
      /\ stream = <<>> <=> BidsOf(stream) = <<>>
      /\ stream # <<>> => Len(stream) # 0
    BY BidsOfProperties, EmptySeq DEF TypeOK
<1>2. ASSUME stream # <<>>
      PROVE  /\ BidsOf(stream)[Len(stream)].user = stream[Len(stream)].user
             /\ BidsOf(stream)[Len(stream)].price = stream[Len(stream)].price
    <2>1. Len(stream) \in 1..Len(stream)
        BY <1>1, <1>2
    <2> QED
        BY <2>1 DEF BidsOf
<1>3. English!Price = LastPrice
    BY <1>1, <1>2 DEF English!Price, LastPrice
<1>4. English!Leader = LastBidder
    BY <1>1, <1>2 DEF English!Leader, LastBidder
<1> QED
    BY <1>3, <1>4

LEMMA SaleOfProperties ==
    ASSUME NEW replies \in Seq(Claim)
    PROVE  /\ replies = <<>> => SaleOf(replies) = <<>>
           /\ Len(replies) = 1 =>
                 SaleOf(replies) = <<[winner |-> replies[1].leader, price |-> replies[1].price]>>
<1> DEFINE T == [winner : Users \cup {NoUser}, price : Nat]
<1>1. Len(replies) \in Nat /\ \A i \in 1..Len(replies) : replies[i] \in Claim
    BY LenProperties, ElementOfSeq
<1>2. SaleOf(replies) \in [1..Len(replies) -> T]
    BY <1>1 DEF SaleOf, Claim
<1>3. SaleOf(replies) \in Seq(T) /\ Len(SaleOf(replies)) = Len(replies)
    BY <1>1, <1>2, SequenceByIndex
<1>4. replies = <<>> => SaleOf(replies) = <<>>
    BY <1>3, EmptySeq
<1>5. ASSUME Len(replies) = 1
      PROVE  SaleOf(replies) = <<[winner |-> replies[1].leader, price |-> replies[1].price]>>
    <2> DEFINE sold == [winner |-> replies[1].leader, price |-> replies[1].price]
    <2>1. SaleOf(replies)[1] = sold /\ sold \in T
        BY <1>2, <1>5 DEF SaleOf
    <2> HIDE DEF sold, T
    <2>2. <<sold>> \in Seq(T) /\ Len(<<sold>>) = 1 /\ <<sold>>[1] = sold
        BY <2>1
    <2>3. \A i \in 1..1 : SaleOf(replies)[i] = <<sold>>[i]
        BY <2>1, <2>2
    <2>4. SaleOf(replies) = <<sold>>
        BY <1>3, <1>5, <2>2, <2>3, SeqEqual
    <2> QED
        BY <2>4 DEF sold
<1> QED
    BY <1>4, <1>5

LEMMA AbstractInit == Init => English!Init
<1> SUFFICES ASSUME Init PROVE English!Init
    OBVIOUS
<1>1. TypeOK /\ stream = <<>> /\ claims = <<>> /\ owner = "published"
    BY InitialTypes DEF Init
<1>2. BidsOf(stream) = <<>>
    BY <1>1, BidsOfProperties DEF TypeOK
<1>3. SaleOf(claims) = <<>>
    BY <1>1, SaleOfProperties DEF TypeOK
<1> QED
    BY <1>1, <1>2, <1>3 DEF English!Init, AbstractPhase

LEMMA AbstractStep ==
    ASSUME IInv, IInv', [Next]_vars
    PROVE  [English!Next]_(English!vars)
<1>0. /\ TypeOK /\ TypeOK' /\ OneOwnerOfTheEnd' /\ LogDeterminesState
      /\ stream \in Seq(LogEntry) /\ stream' \in Seq(LogEntry) /\ claims' \in Seq(Claim)
      /\ hash.status = "ongoing" => owner # "published"
    BY NoHashIsAbsent DEF IInv, NothingBeforeStart, TypeOK
<1>a. ASSUME UNCHANGED stream PROVE UNCHANGED BidsOf(stream)
    BY <1>a DEF BidsOf
<1>b. ASSUME UNCHANGED claims PROVE UNCHANGED SaleOf(claims)
    BY <1>b DEF SaleOf
<1>c. ASSUME claims' # <<>>
      PROVE  SaleOf(claims') = <<[winner |-> LastBidder', price |-> LastPrice']>>
    <2>1. Len(claims') = 1
        <3> DEFINE n == Len(claims')
        <3>1. n \in Nat /\ n # 0
            BY <1>0, <1>c, EmptySeq
        <3>2. n <= 1
            BY <1>0 DEF OneOwnerOfTheEnd
        <3>3. n = 1
            <4> HIDE DEF n
            <4> QED
                BY <3>1, <3>2
        <3> QED
            BY <3>3
    <2>2. claims'[1].leader = LastBidder' /\ claims'[1].price = LastPrice'
        BY <1>0, <1>c DEF OneOwnerOfTheEnd
    <2>3. SaleOf(claims') = <<[winner |-> claims'[1].leader, price |-> claims'[1].price]>>
        BY <1>0, <2>1, SaleOfProperties
    <2> QED
        BY <2>2, <2>3
<1>1. CASE InitAuctionState
    <2>1. AbstractPhase = "before" /\ AbstractPhase' = "open"
        BY <1>1, StartState DEF AbstractPhase, InitAuctionState
    <2> QED
        BY <1>1, <1>a, <1>b, <2>1, StartState DEF English!Next, English!Open
<1>2. ASSUME NEW r \in inflight, PlaceBidAccepted(r)
      PROVE  English!Next
    <2> DEFINE b == [user |-> r.user, price |-> r.price]
    <2>1. /\ hash.status = "ongoing" /\ AbstractPhase = "open" /\ owner' = owner
          /\ r.price > English!Price
        BY <1>0, <1>2, AbstractPrice
        DEF PlaceBidAccepted, Admissible, AbstractPhase, LogDeterminesState
    <2>2. b \in English!Bid
        <3>1. r \in Request
            BY <1>0, AcceptedBidTypes
        <3> QED
            BY <3>1 DEF Request, English!Bid
    <2>3. BidsOf(stream') = Append(BidsOf(stream), b)
        <3>1. /\ BidsOf(stream) \in Seq(English!Bid) /\ Len(BidsOf(stream)) = Len(stream)
              /\ BidsOf(stream') \in Seq(English!Bid) /\ Len(BidsOf(stream')) = Len(stream')
            BY <1>0, BidsOfProperties
        <3>2. /\ Append(BidsOf(stream), b) \in Seq(English!Bid)
              /\ Len(Append(BidsOf(stream), b)) = Len(stream) + 1
              /\ \A i \in 1..Len(stream) : Append(BidsOf(stream), b)[i] = BidsOf(stream)[i]
              /\ Append(BidsOf(stream), b)[Len(stream) + 1] = b
            BY <2>2, <3>1, AppendProperties
        <3>3. /\ Len(stream) \in Nat /\ Len(stream') = Len(stream) + 1
              /\ \A i \in 1..Len(stream) : stream'[i] = stream[i]
              /\ stream'[Len(stream) + 1].user = r.user
              /\ stream'[Len(stream) + 1].price = r.price
            BY <1>0, <1>2, AcceptedBidLog
        <3>4. \A i \in 1..Len(stream) : BidsOf(stream')[i] = BidsOf(stream)[i]
            BY <3>3 DEF BidsOf
        <3>5. BidsOf(stream')[Len(stream) + 1] = b
            BY <3>3 DEF BidsOf
        <3>6. \A i \in 1..Len(BidsOf(stream')) : BidsOf(stream')[i] = Append(BidsOf(stream), b)[i]
            <4> HIDE DEF b
            <4> QED
                BY <3>1, <3>2, <3>3, <3>4, <3>5
        <3> HIDE DEF b
        <3> QED
            BY <3>1, <3>2, <3>3, <3>6, SeqEqual
    <2>4. CASE ReachesCap(r)
        <3>1. hash'.status = "ended" /\ claims' # <<>>
            <4>1. hash'.status = "ended"
                BY <1>2, <2>4 DEF PlaceBidAccepted, HashAfterBid
            <4> QED
                BY <1>0, <4>1 DEF OneOwnerOfTheEnd
        <3>2. AbstractPhase' = "closed"
            BY <1>0, <2>1, <3>1 DEF AbstractPhase
        <3>3. SaleOf(claims') = <<[winner |-> b.user, price |-> b.price]>>
            BY <1>0, <1>2, <1>c, <3>1, AcceptedBidLog
        <3> QED
            BY <2>1, <2>2, <2>3, <3>2, <3>3 DEF English!Next, English!AcceptBid
    <2>5. CASE ~ReachesCap(r)
        <3>1. hash'.status = "ongoing" /\ UNCHANGED claims
            BY <1>2, <2>5 DEF PlaceBidAccepted, HashAfterBid
        <3>2. AbstractPhase' = AbstractPhase
            BY <1>0, <2>1, <3>1 DEF AbstractPhase
        <3> QED
            BY <1>b, <2>1, <2>2, <2>3, <3>1, <3>2 DEF English!Next, English!AcceptBid
    <2> QED
        BY <2>4, <2>5
<1>3. ASSUME NEW s \in Settlers, Claims(s)
      PROVE  English!Next
    <2>1. /\ hash.status = "ongoing" /\ hash'.status = "ended"
          /\ UNCHANGED stream /\ owner' = owner
        BY <1>0, <1>3, ClaimState DEF TypeOK, Hash
    <2>2. AbstractPhase = "open" /\ AbstractPhase' = "closed"
        BY <1>0, <2>1 DEF AbstractPhase
    <2>3. claims' # <<>>
        BY <1>0, <2>1 DEF OneOwnerOfTheEnd
    <2>4. SaleOf(claims') = <<[winner |-> English!Leader, price |-> English!Price]>>
        <3>1. LastBidder' = LastBidder /\ LastPrice' = LastPrice
            BY <2>1 DEF LastBidder, LastPrice
        <3> QED
            BY <1>0, <1>c, <2>3, <3>1, AbstractPrice
    <2> QED
        BY <1>a, <2>1, <2>2, <2>4 DEF English!Next, English!Sell
<1>4. CASE Quiet
    <2>1. UNCHANGED BidsOf(stream) /\ UNCHANGED SaleOf(claims)
        BY <1>4, <1>a, <1>b DEF Quiet
    <2>2. CASE AbstractPhase' = AbstractPhase
        BY <2>1, <2>2 DEF English!vars
    <2>3. CASE AbstractPhase' # AbstractPhase
        <3>1. AbstractPhase = "open" /\ AbstractPhase' = "closed"
            BY <1>0, <1>4, <2>3, NoHashIsAbsent DEF Quiet, AbstractPhase
        <3> QED
            BY <2>1, <3>1 DEF English!Next, English!Withdraw
    <2> QED
        BY <2>2, <2>3
<1> QED
    BY <1>0, <1>1, <1>2, <1>3, <1>4, StepKinds

\* With all its bid handlers, settlement passes, cancellations and expiries,
\* one item's hot state behaves as an ascending auction that opens once and
\* is sold once at most, to its last bidder.
THEOREM ImplementsEnglishSafety == SafeSpec => English!SafeSpec
<1>1. IInv /\ IInv' /\ [Next]_vars => [English!Next]_(English!vars)
    BY AbstractStep
<1> QED
    BY <1>1, AbstractInit, InductiveInvariant, PTL DEF SafeSpec, English!SafeSpec

=============================================================================
