------------------------------ MODULE Failover -------------------------------
(***************************************************************************)
(* One running auction while pods fail over from the cloud Redis to the    *)
(* local one and back.  Each Redis has its own hash of the item, its own   *)
(* entry in auction:ending and its own stream of accepted bids; MySQL has  *)
(* the bid log and the row of the item.                                    *)
(*                                                                         *)
(* A hash that is missing or not usable is rebuilt from MySQL on demand,   *)
(* command by command, each command going to the Redis that is active when *)
(* it is sent.  While local Redis is active a prewarm rebuilds the hash on *)
(* the cloud Redis and then allows the pod to go back.                     *)
(*                                                                         *)
(* The bid script, the settlement script and the lines of bid_logs are     *)
(* those of HotAuction and BidLogPipeline, reduced to the leader and its   *)
(* price; price cap and extensions are left out.  Consecutive commands     *)
(* that touch one Redis only, or read MySQL only, are one step where no    *)
(* property can tell.                                                      *)
(***************************************************************************)
EXTENDS Authority, Sequences, FiniteSets

CONSTANTS
    StartPrice, \* rule.StartPrice, which may be 0
    MaxBids,    \* bound: accepted bids
    MaxPrice,   \* bound: the price of a bid
    MaxBusy,    \* bound: rebuilds on demand and settlements in flight
    Expires     \* bound: whether the end time is reached

ASSUME BidsAssumption ==
    MaxBids \in Nat /\ MaxPrice \in Nat /\ StartPrice \in 0..MaxPrice
ASSUME BusyAssumption == MaxBusy \in Nat /\ Expires \in BOOLEAN

VARIABLES
    bids,      \* the accepted bids, in the order of their acceptance
    hash,      \* per Redis: item:{id}:state
    ending,    \* per Redis: whether the item is in auction:ending
    stream,    \* per Redis: the bids of its stream not yet acknowledged
    logs,      \* the bids in bid_logs
    row,       \* the item's status and winner in MySQL
    over,      \* the end time has passed
    task,      \* per pod: its rebuild on demand and its prewarm
    worker,    \* per pod: its bid log worker
    settling   \* per pod: the winner it has claimed and not yet saved

data == <<bids, hash, ending, stream, logs, row, over>>
vars == <<up, faults, node, data, task, worker, settling>>

Bids       == 1..MaxBids
Kinds      == {"demand", "prewarm"}
NoBid      == 0
NoClaim    == -1

\* A hash without a status is "bare" while it has the two authority fields and
\* nothing else, "filled" once a bid has added the rule.
Missing == [status |-> "missing", authority |-> "", leader |-> NoBid, price |-> 0]
Ongoing(leader, price) ==
    [status |-> "ongoing", authority |-> "ready", leader |-> leader, price |-> price]

Idle    == [at |-> "idle", leader |-> NoBid]
Resting == [at |-> "rest", from |-> "none", batch |-> {}]

\* The auction has just been started on the cloud Redis.
Init ==
    /\ AuthorityInit
    /\ bids = <<>>
    /\ hash = [r \in Redises |-> IF r = "cloud" THEN Ongoing(NoBid, StartPrice) ELSE Missing]
    /\ ending = [r \in Redises |-> r = "cloud"]
    /\ stream = [r \in Redises |-> {}]
    /\ logs = {}
    /\ row = [status |-> "ongoing", winner |-> NoBid]
    /\ over = FALSE
    /\ task = [p \in Pods |-> [k \in Kinds |-> Idle]]
    /\ worker = [p \in Pods |-> Resting]
    /\ settling = [p \in Pods |-> NoClaim]

Busy == Cardinality({p \in Pods : task[p]["demand"] # Idle})
        + Cardinality({p \in Pods : settling[p] # NoClaim})

At(p, k)       == task[p][k].at
Goes(p, k, to) == task' = [task EXCEPT ![p][k].at = to]
Ends(p, k)     == task' = [task EXCEPT ![p][k] = Idle]

-----------------------------------------------------------------------------
(* Bids.                                                                   *)

\* PlaceBidLua on the active Redis; what the handler checked before can only
\* refuse more.  The script takes a hash without a status for an open one.
PlaceBid(p) ==
    /\ Reaches(p) /\ ~over /\ Len(bids) < MaxBids
    /\ LET r == node[p].active
       IN  /\ hash[r].status \in {"filled", "ongoing"} /\ hash[r].authority = "ready"
           /\ \E price \in (hash[r].price + 1)..MaxPrice :
                 /\ bids' = Append(bids, [at |-> r, price |-> price])
                 /\ hash' = [hash EXCEPT ![r].status = "ongoing", ![r].leader = Len(bids'),
                                         ![r].price = price]
           /\ stream' = [stream EXCEPT ![r] = @ \cup {Len(bids')}]
    /\ UNCHANGED <<up, faults, node, ending, logs, row, over, task, worker, settling>>

\* bidHotConfig meets a hash that has nothing but the two authority fields:
\* it adds the rule it finds in MySQL, but no status, price or leader.
FillHotFields(p) ==
    /\ Reaches(p) /\ up["mysql"] /\ row.status = "ongoing"
    /\ hash[node[p].active].status = "bare"
    /\ hash' = [hash EXCEPT ![node[p].active].status = "filled"]
    /\ UNCHANGED <<up, faults, node, bids, ending, stream, logs, row, over, task, worker, settling>>

-----------------------------------------------------------------------------
(* The rebuild of a hash, and the prewarm around it.                       *)

\* Where the start price is 0, a hash without bids is not usable.
usable(h) == h.authority # "protected" /\ h.price > 0

\* auctionStateForRead; a bid that finds no hash at all does the same.  One
\* rebuild at a time in each pod.
DemandStarts(p) ==
    /\ At(p, "demand") = "idle" /\ Busy < MaxBusy
    /\ Reaches(p) /\ ~usable(hash[node[p].active])
    /\ Goes(p, "demand", "read")
    /\ UNCHANGED <<up, faults, node, data, worker, settling>>

\* No lag and nothing pending.
Drained(r) == up[r] /\ stream[r] = {}

\* PrewarmCloudRedisForFailback up to the list of rebuildActiveItems; without
\* a list there is nothing that could go wrong.
PrewarmStarts(p) ==
    /\ At(p, "prewarm") = "idle"
    /\ node[p].mode = "local_redis_active" /\ node[p].cloudHealthy
    /\ Drained("local")
    /\ Goes(p, "prewarm",
            IF up["mysql"] /\ row.status = "ongoing" THEN "read" ELSE "recheck")
    /\ UNCHANGED <<up, faults, node, data, worker, settling>>

\* verifyBidLogContinuity: the highest price of the log leads.
Leading(S) ==
    IF S = {} THEN {NoBid}
              ELSE {b \in S : \A c \in S : bids[c].price <= bids[b].price}

\* The item and its bid log are read from MySQL.
RebuildReads(p, k) ==
    /\ At(p, k) = "read"
    /\ IF up["mysql"] /\ row.status = "ongoing"
          THEN \E b \in Leading(logs) :
                  task' = [task EXCEPT ![p][k] = [at |-> "write", leader |-> b]]
          ELSE Goes(p, k, "protect")
    /\ UNCHANGED <<up, faults, node, data, worker, settling>>

\* The Redis a rebuild's next command goes to, and whether it gets there.
Target(p, k)  == IF k = "prewarm" THEN "cloud" ELSE node[p].active
Arrives(p, k) == IF k = "prewarm" THEN up["cloud"] ELSE Reaches(p)

PriceOf(b) == IF b = NoBid THEN StartPrice ELSE bids[b].price

\* InitAuctionState, whatever the hash was before.
RebuildWrites(p, k) ==
    /\ At(p, k) = "write"
    /\ IF Arrives(p, k)
          THEN /\ hash' = [hash EXCEPT ![Target(p, k)] =
                              Ongoing(task[p][k].leader, PriceOf(task[p][k].leader))]
               /\ Goes(p, k, "finish")
          ELSE Goes(p, k, "protect") /\ UNCHANGED hash
    /\ UNCHANGED <<up, faults, node, bids, ending, stream, logs, row, over, worker, settling>>

\* SetItemAuthority, on a hash that need not exist.
WithAuthority(h, a) ==
    [h EXCEPT !.authority = a, !.status = IF @ = "missing" THEN "bare" ELSE @]

\* ScheduleAuctionEnd, SetRoomCurrentItem and the last SetItemAuthority.
RebuildFinishes(p, k) ==
    /\ At(p, k) = "finish"
    /\ IF Arrives(p, k)
          THEN /\ ending' = [ending EXCEPT ![Target(p, k)] = TRUE]
               /\ hash' = [hash EXCEPT ![Target(p, k)] = WithAuthority(@, "ready")]
               /\ IF k = "prewarm" THEN Goes(p, k, "recheck") ELSE Ends(p, k)
          ELSE Goes(p, k, "protect") /\ UNCHANGED <<ending, hash>>
    /\ UNCHANGED <<up, faults, node, bids, stream, logs, row, over, worker, settling>>

\* The rebuild has failed; its prewarm fails with it.
RebuildProtects(p, k) ==
    /\ At(p, k) = "protect"
    /\ hash' = IF Arrives(p, k)
                  THEN [hash EXCEPT ![Target(p, k)] = WithAuthority(@, "protected")]
                  ELSE hash
    /\ Ends(p, k)
    /\ UNCHANGED <<up, faults, node, bids, ending, stream, logs, row, over, worker, settling>>

\* The second answer of the drain checker and MarkCloudFailbackReady; the
\* Refresh that follows may come at any time.
PrewarmMarks(p) ==
    /\ At(p, "prewarm") = "recheck"
    /\ node' = [node EXCEPT ![p].cloudFailbackReady = @ \/ Drained("local")]
    /\ Ends(p, "prewarm")
    /\ UNCHANGED <<up, faults, data, worker, settling>>

-----------------------------------------------------------------------------
(* The bid log workers: BidLogPipeline with two streams.                   *)

\* A batch from the active Redis, new or idle for long enough to be claimed.
WorkerReads(p) ==
    /\ worker[p] = Resting /\ Reaches(p)
    /\ \E B \in SUBSET stream[node[p].active] \ {{}} :
          worker' = [worker EXCEPT ![p] =
                        [at |-> "insert", from |-> node[p].active, batch |-> B]]
    /\ UNCHANGED <<up, faults, node, data, task, settling>>

\* Mutant: a batch is acknowledged although MySQL refused it.
Mut_InsertsOrNot(p) ==
    /\ worker[p].at = "insert"
    /\ logs' = IF up["mysql"] THEN logs \cup worker[p].batch ELSE logs
    /\ worker' = [worker EXCEPT ![p].at = "ack"]
    /\ UNCHANGED <<up, faults, node, bids, hash, ending, stream, row, over, task, settling>>

WorkerInserts(p) ==
    /\ worker[p].at = "insert"
    /\ IF up["mysql"]
          THEN /\ logs' = logs \cup worker[p].batch
               /\ worker' = [worker EXCEPT ![p].at = "ack"]
          ELSE worker' = [worker EXCEPT ![p] = Resting] /\ UNCHANGED logs
    /\ UNCHANGED <<up, faults, node, bids, hash, ending, stream, row, over, task, settling>>

\* To the Redis the batch was read from, even if another one is active now.
WorkerAcks(p) ==
    /\ worker[p].at = "ack"
    /\ stream' = IF up[worker[p].from]
                    THEN [stream EXCEPT ![worker[p].from] = @ \ worker[p].batch]
                    ELSE stream
    /\ worker' = [worker EXCEPT ![p] = Resting]
    /\ UNCHANGED <<up, faults, node, bids, hash, ending, logs, row, over, task, settling>>

-----------------------------------------------------------------------------
(* The settlement crons.                                                   *)

EndTimePasses ==
    /\ Expires
    /\ over' = TRUE
    /\ UNCHANGED <<up, faults, node, bids, hash, ending, stream, logs, row, task, worker, settling>>

\* The settlement script claims an ongoing hash.
Claims(p, r) ==
    /\ hash' = [hash EXCEPT ![r].status = "ended"]
    /\ ending' = [ending EXCEPT ![r] = FALSE]
    /\ settling' = [settling EXCEPT ![p] = hash[r].leader]

\* SettleDueAuctions.
SettleDue(p) ==
    /\ settling[p] = NoClaim /\ Busy < MaxBusy /\ ~shouldPauseSettlement(p)
    /\ Reaches(p) /\ over
    /\ ending[node[p].active] /\ hash[node[p].active].status = "ongoing"
    /\ Claims(p, node[p].active)
    /\ UNCHANGED <<up, faults, node, bids, stream, logs, row, over, task, worker>>

\* EndExpiredAuctions: a hash that is not ongoing, or not there, is taken
\* for a result.
EndExpired(p) ==
    /\ settling[p] = NoClaim /\ Busy < MaxBusy /\ ~shouldPauseSettlement(p)
    /\ Reaches(p) /\ up["mysql"] /\ row.status = "ongoing" /\ over
    /\ IF hash[node[p].active].status = "ongoing"
          THEN Claims(p, node[p].active)
          ELSE /\ settling' = [settling EXCEPT ![p] = hash[node[p].active].leader]
               /\ UNCHANGED <<hash, ending>>
    /\ UNCHANGED <<up, faults, node, bids, stream, logs, row, over, task, worker>>

\* persistSettledAuction, given up if MySQL does not answer.
Persists(p) ==
    /\ settling[p] # NoClaim
    /\ IF up["mysql"]
          THEN /\ row' = [status |-> "ended", winner |-> settling[p]]
               /\ ending' = IF Reaches(p)
                               THEN [ending EXCEPT ![node[p].active] = FALSE]
                               ELSE ending
          ELSE UNCHANGED <<row, ending>>
    /\ settling' = [settling EXCEPT ![p] = NoClaim]
    /\ UNCHANGED <<up, faults, node, bids, hash, stream, logs, over, task, worker>>

-----------------------------------------------------------------------------
(* The system.                                                             *)

\* What a pod had in hand is gone with it.
PodRestarts(p) ==
    /\ Restarts(p)
    /\ task' = [task EXCEPT ![p] = [k \in Kinds |-> Idle]]
    /\ worker' = [worker EXCEPT ![p] = Resting]
    /\ settling' = [settling EXCEPT ![p] = NoClaim]
    /\ UNCHANGED data

RebuildStep(p, k) ==
    \/ RebuildReads(p, k)
    \/ RebuildWrites(p, k)
    \/ RebuildFinishes(p, k)
    \/ RebuildProtects(p, k)

PrewarmStep(p) ==
    \/ PrewarmStarts(p)
    \/ RebuildStep(p, "prewarm")
    \/ PrewarmMarks(p)

WorkerStep(p) == WorkerReads(p) \/ WorkerInserts(p) \/ WorkerAcks(p)

Refreshes(p) == Refresh(p) /\ UNCHANGED <<data, task, worker, settling>>

PodStep(p) ==
    \/ Refreshes(p)
    \/ PlaceBid(p)
    \/ FillHotFields(p)
    \/ DemandStarts(p) \/ RebuildStep(p, "demand")
    \/ PrewarmStep(p)
    \/ WorkerStep(p)
    \/ SettleDue(p) \/ EndExpired(p) \/ Persists(p)
    \/ PodRestarts(p)

OutageStep(d) == (Fails(d) \/ Recovers(d)) /\ UNCHANGED <<data, task, worker, settling>>

Next ==
    \/ \E p \in Pods : PodStep(p)
    \/ \E d \in Dependencies : OutageStep(d)
    \/ EndTimePasses

SafeSpec == Init /\ [][Next]_vars

\* Each pod's probe loop, prewarm loop and bid log worker run for ever.
Fairness ==
    \A p \in Pods :
       /\ WF_vars(Refreshes(p))
       /\ WF_vars(PrewarmStep(p))
       /\ WF_vars(WorkerStep(p))

Spec == SafeSpec /\ Fairness

-----------------------------------------------------------------------------
(* Properties.                                                             *)

TypeOK ==
    /\ up \in [Dependencies -> BOOLEAN]
    /\ faults \in [Faults -> Nat] /\ \A f \in Faults : faults[f] <= MaxFaults[f]
    /\ node \in [Pods -> [mode: Modes, active: Redises \cup {"none"},
                          cloudHealthy: BOOLEAN, cloudDownSince: BOOLEAN,
                          localAuthorityActivated: BOOLEAN,
                          cloudFailbackReady: BOOLEAN]]
    /\ \A p \in Pods : node[p].active = "none" <=> node[p].mode = "auction_protected"
    /\ bids \in Seq([at: Redises, price: 1..MaxPrice]) /\ Len(bids) <= MaxBids
    /\ hash \in [Redises -> [status: {"missing", "bare", "filled", "ongoing", "ended"},
                             authority: {"", "ready", "protected"},
                             leader: 0..Len(bids), price: 0..MaxPrice]]
    /\ ending \in [Redises -> BOOLEAN]
    /\ stream \in [Redises -> SUBSET (1..Len(bids))]
    /\ logs \subseteq 1..Len(bids)
    /\ row \in [status: {"ongoing", "ended"}, winner: 0..Len(bids)]
    /\ over \in BOOLEAN
    /\ task \in [Pods -> [Kinds -> [at: {"idle", "read", "write", "finish",
                                         "protect", "recheck"},
                                    leader: 0..Len(bids)]]]
    /\ worker \in [Pods -> [at: {"rest", "insert", "ack"},
                            from: Redises \cup {"none"},
                            batch: SUBSET (1..Len(bids))]]
    /\ settling \in [Pods -> {NoClaim} \cup 0..Len(bids)]

\* docs/superpowers/specs/2026-06-09-local-authority-failover-design.md:255:
\* accepted bids remain in the stream until they are persisted.  Whatever
\* happens, a bid is in bid_logs or in the stream of the Redis that took it.
KeptSomewhere == \A b \in 1..Len(bids) : b \in logs \/ b \in stream[bids[b].at]

\* However pods change between the Redises, the two streams together are the
\* one DurableLog that BidLogPipeline is.
Log == INSTANCE DurableLog WITH
    accepted <- 1..Len(bids),
    queued   <- UNION {stream[r] : r \in Redises},
    kept     <- logs

ImplementsDurableLog == Log!SafeSpec

\* Once every dependency answers again and goes on doing so, every pod is
\* back on the cloud Redis in the end, whatever was being rebuilt, drained or
\* restarted when they came back: what 2026-06-09-in-process-availability-
\* controller-design.md:80 asks for.  The documents disagree here.  2026-06-
\* 09-in-process-dependency-degradation-design.md:73 wants no such switch
\* while auctions are active; that the code makes it all the same, with the
\* auction still ongoing, is part of what this property says.
BackToCloud ==
    <>[](\A d \in Dependencies : up[d])
        => \A p \in Pods : <>[](node[p].mode = "normal_cloud")

\* docs/superpowers/specs/2026-06-09-in-process-dependency-degradation-
\* design.md:30: "Do not merge cloud Redis auction state back after local
\* Redis has accepted writes."  So an auction won by a bid that local Redis
\* took keeps its winner.
LocalWinnerStays ==
    [][row.winner # NoBid /\ bids[row.winner].at = "local" => row' = row]_vars
=============================================================================
