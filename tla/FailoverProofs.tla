--------------------------- MODULE FailoverProofs ---------------------------
(***************************************************************************)
(* Theorems about Failover, for any number of pods, outages, restarts,     *)
(* bids, prices and rebuilds or settlements in flight.                     *)
(*                                                                         *)
(* An accepted bid is lost only if it leaves its stream before bid_logs    *)
(* has it.  It leaves by an acknowledgement, which a worker sends after    *)
(* the insertion; WorkersKnow is what a worker has to know in between,     *)
(* whatever has become of the Redises and of the pod's decision meanwhile. *)
(***************************************************************************)
EXTENDS Failover, TLAPS, SequenceTheorems

WorkersKnow ==
    \A p \in Pods :
       /\ worker[p].at # "rest" => worker[p].from \in Redises
       /\ worker[p].at = "ack" => worker[p].batch \subseteq logs

IInv == TypeOK /\ WorkersKnow /\ KeptSomewhere

-----------------------------------------------------------------------------
(* Types.                                                                  *)

Runtime == [mode: Modes, active: Redises \cup {"none"}, cloudHealthy: BOOLEAN,
            cloudDownSince: BOOLEAN, localAuthorityActivated: BOOLEAN,
            cloudFailbackReady: BOOLEAN]
Bid == [at: Redises, price: 1..MaxPrice]
Hash(n) == [status: {"missing", "bare", "filled", "ongoing", "ended"},
            authority: {"", "ready", "protected"},
            leader: 0..n, price: 0..MaxPrice]
Rebuild(n) == [at: {"idle", "read", "write", "finish", "protect", "recheck"}, leader: 0..n]
Batch(n) == [at: {"rest", "insert", "ack"}, from: Redises \cup {"none"}, batch: SUBSET (1..n)]

\* The types of the runtimes, and of the item's data when n bids have been
\* accepted.
NodeTypes ==
    /\ up \in [Dependencies -> BOOLEAN]
    /\ faults \in [Faults -> Nat] /\ \A f \in Faults : faults[f] <= MaxFaults[f]
    /\ node \in [Pods -> Runtime]
    /\ \A p \in Pods : node[p].active = "none" <=> node[p].mode = "auction_protected"
BidTypes == bids \in Seq(Bid) /\ Len(bids) <= MaxBids
DataTypes(n) ==
    /\ hash \in [Redises -> Hash(n)]
    /\ ending \in [Redises -> BOOLEAN]
    /\ stream \in [Redises -> SUBSET (1..n)]
    /\ logs \subseteq 1..n
    /\ row \in [status: {"ongoing", "ended"}, winner: 0..n]
    /\ over \in BOOLEAN
TaskTypes(n) == task \in [Pods -> [Kinds -> Rebuild(n)]]
WorkTypes(n) ==
    /\ worker \in [Pods -> Batch(n)]
    /\ settling \in [Pods -> {NoClaim} \cup 0..n]

LEMMA TypeParts ==
    TypeOK <=> NodeTypes /\ BidTypes /\ DataTypes(Len(bids)) /\ TaskTypes(Len(bids))
               /\ WorkTypes(Len(bids))
    BY DEF TypeOK, NodeTypes, BidTypes, DataTypes, TaskTypes, WorkTypes, Runtime, Bid, Hash,
           Rebuild, Batch

\* What is typed for n bids is typed for one more.
LEMMA TypesGrow ==
    ASSUME NEW n \in Nat
    PROVE  /\ Hash(n) \subseteq Hash(n + 1)
           /\ Rebuild(n) \subseteq Rebuild(n + 1)
           /\ Batch(n) \subseteq Batch(n + 1)
           /\ 0..n \subseteq 0..(n + 1) /\ 1..n \subseteq 1..(n + 1)
<1>1. 0..n \subseteq 0..(n + 1) /\ 1..n \subseteq 1..(n + 1)
    OBVIOUS
<1> QED
    BY <1>1 DEF Hash, Rebuild, Batch

LEMMA InitialTypes == Init => TypeOK
<1> SUFFICES ASSUME Init PROVE TypeOK
    OBVIOUS
<1>1. NodeTypes
    <2>1. Unprobed \in Runtime
        BY DEF Unprobed, Runtime, Modes
    <2>2. faults \in [Faults -> Nat] /\ \A f \in Faults : faults[f] <= MaxFaults[f]
        BY FaultsAssumption DEF Init, AuthorityInit
    <2>3. /\ node \in [Pods -> Runtime]
          /\ \A p \in Pods : node[p].active = "none" /\ node[p].mode = "auction_protected"
        BY <2>1 DEF Init, AuthorityInit, Unprobed
    <2>4. up \in [Dependencies -> BOOLEAN]
        BY DEF Init, AuthorityInit
    <2> QED
        BY <2>2, <2>3, <2>4 DEF NodeTypes
<1>2. bids = <<>> /\ Len(bids) = 0 /\ BidTypes
    BY BidsAssumption DEF Init, BidTypes
<1>3. DataTypes(0)
    <2>1. Ongoing(NoBid, StartPrice) \in Hash(0) /\ Missing \in Hash(0)
        BY BidsAssumption DEF Ongoing, Missing, NoBid, Hash
    <2>2. hash \in [Redises -> Hash(0)]
        BY <2>1 DEF Init
    <2>3. /\ stream \in [Redises -> SUBSET (1..0)] /\ ending \in [Redises -> BOOLEAN]
          /\ logs \subseteq 1..0
        BY DEF Init
    <2>4. 0 \in 0..0 /\ row = [status |-> "ongoing", winner |-> 0] /\ over = FALSE
        BY DEF Init, NoBid
    <2>5. row \in [status: {"ongoing", "ended"}, winner: 0..0]
        BY <2>4
    <2> QED
        BY <2>2, <2>3, <2>4, <2>5 DEF DataTypes
<1>4. TaskTypes(0)
    BY DEF Init, TaskTypes, Idle, NoBid, Rebuild
<1>5. WorkTypes(0)
    BY DEF Init, WorkTypes, Resting, Batch, Redises
<1> QED
    BY <1>1, <1>2, <1>3, <1>4, <1>5, TypeParts

\* A pod's decision has a Redis exactly if it is not the protected mode.
LEMMA DecidedType ==
    ASSUME up \in [Dependencies -> BOOLEAN], NEW n \in Runtime, NEW late \in BOOLEAN
    PROVE  /\ Decided(n, late) \in Runtime
           /\ Decided(n, late).active = "none" <=> Decided(n, late).mode = "auction_protected"
<1> DEFINE mode == RedisMode(n, late)
<1>1. mode \in {"normal_cloud", "local_redis_active", "local_redis_switching",
                "auction_protected"}
    BY DEF RedisMode
<1>2. /\ ActiveIn(mode) \in Redises \cup {"none"}
      /\ ActiveIn(mode) = "none" <=> mode = "auction_protected"
    BY <1>1 DEF ActiveIn, Redises
<1>3. up["cloud"] \in BOOLEAN
    BY DEF Dependencies, Redises
<1>4. Decided(n, late).mode \in Modes
    BY <1>1 DEF Decided, Modes
<1>5. /\ Decided(n, late).cloudHealthy \in BOOLEAN
      /\ Decided(n, late).cloudDownSince \in BOOLEAN
      /\ Decided(n, late).localAuthorityActivated \in BOOLEAN
      /\ Decided(n, late).cloudFailbackReady \in BOOLEAN
    BY <1>3 DEF Decided
<1>6. Decided(n, late) =
          [mode |-> Decided(n, late).mode, active |-> ActiveIn(mode),
           cloudHealthy |-> Decided(n, late).cloudHealthy,
           cloudDownSince |-> Decided(n, late).cloudDownSince,
           localAuthorityActivated |-> Decided(n, late).localAuthorityActivated,
           cloudFailbackReady |-> Decided(n, late).cloudFailbackReady]
    BY DEF Decided
<1>7. Decided(n, late) \in Runtime
    BY <1>2, <1>4, <1>5, <1>6 DEF Runtime
<1>8. Decided(n, late).mode = "auction_protected" <=> mode = "auction_protected"
    BY DEF Decided
<1> QED
    BY <1>2, <1>6, <1>7, <1>8

LEMMA NodeTypesPreserved == NodeTypes /\ [Next]_vars => NodeTypes'
<1> SUFFICES ASSUME NodeTypes, [Next]_vars PROVE NodeTypes'
    OBVIOUS
<1> USE DEF NodeTypes
<1>0. ASSUME UNCHANGED <<up, faults, node>> PROVE NodeTypes'
    BY <1>0
<1>1. ASSUME NEW f \in Faults, Occurs(f)
      PROVE  faults' \in [Faults -> Nat] /\ \A g \in Faults : faults'[g] <= MaxFaults[g]
    <2>1. faults[f] \in Nat /\ MaxFaults[f] \in Nat /\ faults[f] < MaxFaults[f]
        BY <1>1, FaultsAssumption DEF Occurs
    <2>2. faults' = [faults EXCEPT ![f] = faults[f] + 1]
        BY <1>1 DEF Occurs
    <2>3. faults[f] + 1 \in Nat /\ faults[f] + 1 <= MaxFaults[f]
        BY <2>1
    <2>4. faults' \in [Faults -> Nat]
        BY <2>2, <2>3
    <2>5. ASSUME NEW g \in Faults PROVE faults'[g] <= MaxFaults[g]
        <3>1. CASE g = f
            BY <2>2, <2>3, <3>1
        <3>2. CASE g # f
            BY <2>2, <3>2
        <3> QED
            BY <3>1, <3>2
    <2> QED
        BY <2>4, <2>5
<1>2. ASSUME NEW d \in Dependencies, OutageStep(d)
      PROVE  NodeTypes'
    BY <1>2, <1>1 DEF OutageStep, Fails, Recovers, Faults
<1>3. ASSUME NEW p \in Pods, Refreshes(p)
      PROVE  NodeTypes'
    <2>1. PICK late \in BOOLEAN : node' = [node EXCEPT ![p] = Decided(node[p], late)]
        BY <1>3 DEF Refreshes, Refresh
    <2>2. node[p] \in Runtime
        OBVIOUS
    <2> QED
        BY <1>3, <2>1, <2>2, DecidedType DEF Refreshes, Refresh
<1>4. ASSUME NEW p \in Pods, PodRestarts(p)
      PROVE  NodeTypes'
    <2>1. Unprobed \in Runtime /\ Unprobed.active = "none" /\ Unprobed.mode = "auction_protected"
        BY DEF Unprobed, Runtime, Modes
    <2>2. /\ node' \in [Pods -> Runtime]
          /\ \A q \in Pods : node'[q].active = "none" <=> node'[q].mode = "auction_protected"
        BY <1>4, <2>1 DEF PodRestarts, Restarts
    <2> QED
        BY <1>4, <2>2, <1>1 DEF PodRestarts, Restarts, Faults
<1>5. ASSUME NEW p \in Pods, PrewarmMarks(p)
      PROVE  NodeTypes'
    <2>1. PICK ready \in BOOLEAN : node' = [node EXCEPT ![p].cloudFailbackReady = ready]
        BY <1>5 DEF PrewarmMarks
    <2>2. /\ node' \in [Pods -> Runtime]
          /\ \A q \in Pods : node'[q].active = "none" <=> node'[q].mode = "auction_protected"
        BY <2>1 DEF Runtime
    <2> QED
        BY <1>5, <2>2 DEF PrewarmMarks
<1>6. ASSUME NEW p \in Pods,
             \/ PlaceBid(p) \/ FillHotFields(p) \/ DemandStarts(p) \/ PrewarmStarts(p)
             \/ \E k \in Kinds : RebuildStep(p, k)
             \/ WorkerStep(p) \/ SettleDue(p) \/ EndExpired(p) \/ Persists(p)
      PROVE  UNCHANGED <<up, faults, node>>
    BY <1>6 DEF PlaceBid, FillHotFields, DemandStarts, PrewarmStarts, RebuildStep, RebuildReads,
                RebuildWrites, RebuildFinishes, RebuildProtects, WorkerStep, WorkerReads,
                WorkerInserts, WorkerAcks, SettleDue, EndExpired, Persists
<1>7. CASE EndTimePasses \/ UNCHANGED vars
    BY <1>7, <1>0 DEF EndTimePasses, vars
<1> QED
    BY <1>0, <1>2, <1>3, <1>4, <1>5, <1>6, <1>7 DEF Next, PodStep, PrewarmStep, Kinds

\* A command that reaches the active Redis reaches one of the two.
LEMMA ReachesRedis ==
    ASSUME NodeTypes, NEW p \in Pods, Reaches(p)
    PROVE  node[p].active \in Redises
    BY DEF NodeTypes, Runtime, Reaches, Writable

LEMMA ArrivesRedis ==
    ASSUME NodeTypes, NEW p \in Pods, NEW k \in Kinds, Arrives(p, k)
    PROVE  Target(p, k) \in Redises
    BY ReachesRedis DEF Arrives, Target, Redises

\* What a step writes into a hash is a hash again.
LEMMA HashTypes ==
    ASSUME BidTypes
    PROVE  /\ \A b \in 0..Len(bids) : Ongoing(b, PriceOf(b)) \in Hash(Len(bids))
           /\ \A h \in Hash(Len(bids)), a \in {"ready", "protected"} :
                 WithAuthority(h, a) \in Hash(Len(bids))
           /\ \A h \in Hash(Len(bids)), status \in {"filled", "ongoing", "ended"} :
                 [h EXCEPT !.status = status] \in Hash(Len(bids))
<1>1. ASSUME NEW b \in 0..Len(bids) PROVE Ongoing(b, PriceOf(b)) \in Hash(Len(bids))
    <2>1. PriceOf(b) \in 0..MaxPrice
        <3>1. CASE b = NoBid
            BY <3>1, BidsAssumption DEF PriceOf
        <3>2. CASE b # NoBid
            <4>1. bids[b] \in Bid
                BY <3>2, ElementOfSeq DEF BidTypes, NoBid
            <4> QED
                BY <3>2, <4>1, BidsAssumption DEF PriceOf, Bid
        <3> QED
            BY <3>1, <3>2
    <2> QED
        BY <2>1 DEF Ongoing, Hash
<1>2. ASSUME NEW h \in Hash(Len(bids)), NEW a \in {"ready", "protected"}
      PROVE  WithAuthority(h, a) \in Hash(Len(bids))
    BY DEF WithAuthority, Hash
<1>3. ASSUME NEW h \in Hash(Len(bids)), NEW status \in {"filled", "ongoing", "ended"}
      PROVE  [h EXCEPT !.status = status] \in Hash(Len(bids))
    BY DEF Hash
<1> QED
    BY <1>1, <1>2, <1>3

\* The hash after a bid, when there is one bid more.
LEMMA PlaceBidTypes ==
    ASSUME TypeOK, NEW p \in Pods, PlaceBid(p)
    PROVE  TypeOK'
<1> PICK n \in Nat : n = Len(bids)
    BY TypeParts, LenProperties DEF BidTypes
<1> DEFINE r == node[p].active
<1>0. /\ NodeTypes /\ BidTypes /\ DataTypes(n) /\ TaskTypes(n) /\ WorkTypes(n)
      /\ n \in Nat /\ r \in Redises /\ r # "none"
    BY TypeParts, ReachesRedis, LenProperties DEF BidTypes, PlaceBid, Reaches, Writable
<1>1. PICK price \in (hash[r].price + 1)..MaxPrice :
          /\ bids' = Append(bids, [at |-> r, price |-> price])
          /\ hash' = [hash EXCEPT ![r].status = "ongoing", ![r].leader = Len(bids'),
                                  ![r].price = price]
    BY DEF PlaceBid
<1>2. price \in 1..MaxPrice /\ price \in 0..MaxPrice
    <2>1. hash[r].price \in 0..MaxPrice
        BY <1>0 DEF DataTypes, Hash
    <2> QED
        BY <1>1, <2>1, BidsAssumption
<1>3. bids' \in Seq(Bid) /\ Len(bids') = n + 1 /\ n + 1 <= MaxBids
    <2>1. [at |-> r, price |-> price] \in Bid
        BY <1>0, <1>2 DEF Bid
    <2> QED
        BY <1>0, <1>1, <2>1, AppendProperties, BidsAssumption DEF PlaceBid, BidTypes
<1>4. hash' \in [Redises -> Hash(n + 1)]
    <2>1. hash \in [Redises -> Hash(n + 1)]
        BY <1>0, TypesGrow DEF DataTypes
    <2>2. hash[r] \in Hash(n + 1) /\ n + 1 \in 0..(n + 1)
        BY <1>0, <2>1
    <2>3. [hash[r] EXCEPT !.status = "ongoing", !.leader = n + 1, !.price = price] \in Hash(n + 1)
        BY <1>2, <2>2 DEF Hash
    <2> QED
        BY <1>1, <1>3, <2>1, <2>3
<1>5. stream' \in [Redises -> SUBSET (1..(n + 1))]
    <2>1. stream' = [stream EXCEPT ![r] = stream[r] \cup {n + 1}]
        BY <1>3 DEF PlaceBid
    <2>2. stream \in [Redises -> SUBSET (1..(n + 1))]
        BY <1>0, TypesGrow DEF DataTypes
    <2>3. stream[r] \cup {n + 1} \in SUBSET (1..(n + 1))
        BY <1>0, <2>2
    <2> QED
        BY <2>1, <2>2, <2>3
<1>6. DataTypes(n + 1)'
    <2>1. logs' \subseteq 1..(n + 1) /\ ending' \in [Redises -> BOOLEAN] /\ over' \in BOOLEAN
        BY <1>0, TypesGrow DEF DataTypes, PlaceBid
    <2>2. row' \in [status: {"ongoing", "ended"}, winner: 0..(n + 1)]
        BY <1>0, TypesGrow DEF DataTypes, PlaceBid
    <2> QED
        BY <1>4, <1>5, <2>1, <2>2 DEF DataTypes
<1>7. TaskTypes(n + 1)'
    BY <1>0, TypesGrow DEF TaskTypes, PlaceBid
<1>8. WorkTypes(n + 1)'
    BY <1>0, TypesGrow DEF WorkTypes, PlaceBid
<1>9. NodeTypes'
    BY <1>0 DEF PlaceBid, NodeTypes
<1>10. /\ BidTypes' /\ DataTypes(Len(bids))' /\ TaskTypes(Len(bids))' /\ WorkTypes(Len(bids))'
    BY <1>3, <1>6, <1>7, <1>8 DEF BidTypes, DataTypes, TaskTypes, WorkTypes
<1> QED
    BY <1>9, <1>10, TypeParts, PTL

\* A rebuild that goes on or ends is a rebuild again.
LEMMA TaskTypesKept ==
    ASSUME NEW n \in Nat, TaskTypes(n), NEW p \in Pods, NEW k \in Kinds
    PROVE  /\ \A at \in {"read", "write", "finish", "protect", "recheck"} :
                 Goes(p, k, at) => TaskTypes(n)'
           /\ Ends(p, k) => TaskTypes(n)'
<1>1. task[p] \in [Kinds -> Rebuild(n)] /\ task[p][k] \in Rebuild(n)
    BY DEF TaskTypes
<1>2. ASSUME NEW t \in Rebuild(n), task' = [task EXCEPT ![p][k] = t]
      PROVE  TaskTypes(n)'
    BY <1>1, <1>2 DEF TaskTypes
<1>3. Idle \in Rebuild(n)
    BY DEF Idle, NoBid, Rebuild
<1>4. ASSUME NEW at \in {"read", "write", "finish", "protect", "recheck"}, Goes(p, k, at)
      PROVE  TaskTypes(n)'
    <2>1. [task[p][k] EXCEPT !.at = at] \in Rebuild(n)
        BY <1>1 DEF Rebuild
    <2> QED
        BY <1>4, <1>2, <2>1 DEF Goes
<1> QED
    BY <1>2, <1>3, <1>4 DEF Ends

LEMMA TypesPreserved == TypeOK /\ [Next]_vars => TypeOK'
<1> SUFFICES ASSUME TypeOK, [Next]_vars PROVE TypeOK'
    OBVIOUS
<1> PICK n \in Nat : n = Len(bids)
    BY TypeParts, LenProperties DEF BidTypes
<1>0. /\ NodeTypes /\ BidTypes /\ DataTypes(n) /\ TaskTypes(n) /\ WorkTypes(n) /\ NodeTypes'
    BY TypeParts, NodeTypesPreserved
<1>0a. ASSUME bids' = bids, DataTypes(n)', TaskTypes(n)', WorkTypes(n)'
       PROVE  TypeOK'
    <2>1. /\ NodeTypes' /\ BidTypes' /\ DataTypes(Len(bids))' /\ TaskTypes(Len(bids))'
          /\ WorkTypes(Len(bids))'
        BY <1>0, <1>0a DEF BidTypes, DataTypes, TaskTypes, WorkTypes
    <2> QED
        BY <2>1, TypeParts, PTL
<1>0b. ASSUME UNCHANGED data PROVE bids' = bids /\ DataTypes(n)'
    BY <1>0, <1>0b DEF data, DataTypes
<1>0c. ASSUME UNCHANGED task PROVE TaskTypes(n)'
    BY <1>0, <1>0c DEF TaskTypes
<1>0d. ASSUME UNCHANGED <<worker, settling>> PROVE WorkTypes(n)'
    BY <1>0, <1>0d DEF WorkTypes
<1>1. ASSUME NEW p \in Pods, Refreshes(p)
      PROVE  TypeOK'
    BY <1>1, <1>0a, <1>0b, <1>0c, <1>0d DEF Refreshes
<1>2. ASSUME NEW p \in Pods, PlaceBid(p)
      PROVE  TypeOK'
    BY <1>2, PlaceBidTypes
<1>3. ASSUME NEW p \in Pods, FillHotFields(p)
      PROVE  TypeOK'
    <2>1. node[p].active \in Redises
        BY <1>3, <1>0, ReachesRedis DEF FillHotFields
    <2>2. hash' = [hash EXCEPT ![node[p].active] =
                      [hash[node[p].active] EXCEPT !.status = "filled"]]
        BY <1>3 DEF FillHotFields
    <2>3. hash' \in [Redises -> Hash(n)]
        BY <2>1, <2>2, <1>0, HashTypes DEF DataTypes
    <2>4. DataTypes(n)'
        BY <1>3, <2>3, <1>0 DEF FillHotFields, DataTypes
    <2> QED
        BY <1>3, <2>4, <1>0a, <1>0c, <1>0d DEF FillHotFields
<1>4. ASSUME NEW p \in Pods, DemandStarts(p)
      PROVE  TypeOK'
    <2>1. TaskTypes(n)'
        BY <1>4, <1>0, TaskTypesKept DEF DemandStarts, Kinds
    <2> QED
        BY <1>4, <2>1, <1>0a, <1>0b, <1>0d DEF DemandStarts
<1>5. ASSUME NEW p \in Pods, PrewarmStarts(p)
      PROVE  TypeOK'
    <2>1. TaskTypes(n)'
        <3>1. Goes(p, "prewarm", "read") \/ Goes(p, "prewarm", "recheck")
            BY <1>5 DEF PrewarmStarts
        <3> QED
            BY <3>1, <1>0, TaskTypesKept DEF Kinds
    <2> QED
        BY <1>5, <2>1, <1>0a, <1>0b, <1>0d DEF PrewarmStarts
<1>6. ASSUME NEW p \in Pods, NEW k \in Kinds, RebuildReads(p, k)
      PROVE  TypeOK'
    <2>1. CASE Goes(p, k, "protect")
        BY <1>6, <2>1, <1>0, <1>0a, <1>0b, <1>0d, TaskTypesKept DEF RebuildReads
    <2>2. ASSUME NEW b \in Leading(logs), task' = [task EXCEPT ![p][k] = [at |-> "write", leader |-> b]]
          PROVE  TaskTypes(n)'
        <3>1. b \in 0..n
            BY <1>0 DEF Leading, DataTypes, NoBid
        <3>2. [at |-> "write", leader |-> b] \in Rebuild(n)
            BY <3>1 DEF Rebuild
        <3> QED
            BY <2>2, <3>2, <1>0 DEF TaskTypes
    <2> QED
        BY <1>6, <2>1, <2>2, <1>0a, <1>0b, <1>0d DEF RebuildReads
<1>7. ASSUME NEW p \in Pods, NEW k \in Kinds, RebuildWrites(p, k)
      PROVE  TypeOK'
    <2> DEFINE b == task[p][k].leader
    <2>1. hash' \in [Redises -> Hash(n)]
        <3>1. b \in 0..n
            BY <1>0 DEF TaskTypes, Rebuild
        <3>2. Ongoing(b, PriceOf(b)) \in Hash(n)
            BY <3>1, <1>0, HashTypes
        <3> QED
            BY <1>7, <3>2, <1>0, ArrivesRedis DEF RebuildWrites, DataTypes
    <2>2. TaskTypes(n)'
        BY <1>7, <1>0, TaskTypesKept DEF RebuildWrites
    <2>3. DataTypes(n)'
        BY <1>7, <2>1, <1>0 DEF RebuildWrites, DataTypes
    <2> QED
        BY <1>7, <2>2, <2>3, <1>0a, <1>0d DEF RebuildWrites
<1>8. ASSUME NEW p \in Pods, NEW k \in Kinds, RebuildFinishes(p, k)
      PROVE  TypeOK'
    <2>1. hash' \in [Redises -> Hash(n)] /\ ending' \in [Redises -> BOOLEAN]
        <3>1. CASE Arrives(p, k)
            <4>1. Target(p, k) \in Redises
                BY <3>1, <1>0, ArrivesRedis
            <4>2. /\ hash' = [hash EXCEPT ![Target(p, k)] = WithAuthority(hash[Target(p, k)], "ready")]
                  /\ ending' = [ending EXCEPT ![Target(p, k)] = TRUE]
                BY <1>8, <3>1 DEF RebuildFinishes
            <4> QED
                BY <4>1, <4>2, <1>0, HashTypes DEF DataTypes
        <3>2. CASE ~Arrives(p, k)
            BY <1>8, <3>2, <1>0 DEF RebuildFinishes, DataTypes
        <3> QED
            BY <3>1, <3>2
    <2>2. TaskTypes(n)'
        BY <1>8, <1>0, TaskTypesKept DEF RebuildFinishes
    <2>3. DataTypes(n)'
        BY <1>8, <2>1, <1>0 DEF RebuildFinishes, DataTypes
    <2> QED
        BY <1>8, <2>2, <2>3, <1>0a, <1>0d DEF RebuildFinishes
<1>9. ASSUME NEW p \in Pods, NEW k \in Kinds, RebuildProtects(p, k)
      PROVE  TypeOK'
    <2>1. hash' \in [Redises -> Hash(n)]
        <3>1. CASE Arrives(p, k)
            <4>1. Target(p, k) \in Redises
                BY <3>1, <1>0, ArrivesRedis
            <4>2. hash' = [hash EXCEPT ![Target(p, k)] =
                              WithAuthority(hash[Target(p, k)], "protected")]
                BY <1>9, <3>1 DEF RebuildProtects
            <4> QED
                BY <4>1, <4>2, <1>0, HashTypes DEF DataTypes
        <3>2. CASE ~Arrives(p, k)
            BY <1>9, <3>2, <1>0 DEF RebuildProtects, DataTypes
        <3> QED
            BY <3>1, <3>2
    <2>2. TaskTypes(n)'
        BY <1>9, <1>0, TaskTypesKept DEF RebuildProtects
    <2>3. DataTypes(n)'
        BY <1>9, <2>1, <1>0 DEF RebuildProtects, DataTypes
    <2> QED
        BY <1>9, <2>2, <2>3, <1>0a, <1>0d DEF RebuildProtects
<1>10. ASSUME NEW p \in Pods, PrewarmMarks(p)
       PROVE  TypeOK'
    <2>1. TaskTypes(n)'
        BY <1>10, <1>0, TaskTypesKept DEF PrewarmMarks, Kinds
    <2> QED
        BY <1>10, <2>1, <1>0a, <1>0b, <1>0d DEF PrewarmMarks
<1>11. ASSUME NEW p \in Pods, WorkerReads(p)
       PROVE  TypeOK'
    <2>1. PICK B \in SUBSET stream[node[p].active] :
              worker' = [worker EXCEPT ![p] =
                            [at |-> "insert", from |-> node[p].active, batch |-> B]]
        BY <1>11 DEF WorkerReads
    <2>2. node[p].active \in Redises
        BY <1>11, <1>0, ReachesRedis DEF WorkerReads
    <2>3. [at |-> "insert", from |-> node[p].active, batch |-> B] \in Batch(n)
        <3>1. B \in SUBSET (1..n)
            BY <2>1, <2>2, <1>0 DEF DataTypes
        <3> QED
            BY <2>2, <3>1 DEF Batch
    <2>4. WorkTypes(n)'
        BY <1>11, <2>1, <2>3, <1>0 DEF WorkerReads, WorkTypes
    <2> QED
        BY <1>11, <2>4, <1>0a, <1>0b, <1>0c DEF WorkerReads
<1>12. ASSUME NEW p \in Pods, WorkerInserts(p)
       PROVE  TypeOK'
    <2>1. worker[p] \in Batch(n) /\ Resting \in Batch(n)
        BY <1>0 DEF WorkTypes, Batch, Resting
    <2>2. [worker[p] EXCEPT !.at = "ack"] \in Batch(n) /\ worker[p].batch \subseteq 1..n
        BY <2>1 DEF Batch
    <2>3. WorkTypes(n)'
        BY <1>12, <2>1, <2>2, <1>0 DEF WorkerInserts, WorkTypes
    <2>4. DataTypes(n)'
        BY <1>12, <2>2, <1>0 DEF WorkerInserts, DataTypes
    <2> QED
        BY <1>12, <2>3, <2>4, <1>0a, <1>0c DEF WorkerInserts
<1>13. ASSUME NEW p \in Pods, WorkerAcks(p)
       PROVE  TypeOK'
    <2>1. Resting \in Batch(n)
        BY DEF Batch, Resting
    <2>2. WorkTypes(n)'
        BY <1>13, <2>1, <1>0 DEF WorkerAcks, WorkTypes
    <2>3. DataTypes(n)'
        BY <1>13, <1>0 DEF WorkerAcks, DataTypes
    <2> QED
        BY <1>13, <2>2, <2>3, <1>0a, <1>0c DEF WorkerAcks
<1>14. ASSUME NEW p \in Pods, NEW r \in Redises, Claims(p, r),
              UNCHANGED <<up, faults, node, bids, stream, logs, row, over, task, worker>>
       PROVE  TypeOK'
    <2>1. hash[r] \in Hash(n)
        BY <1>0 DEF DataTypes
    <2>2. hash' \in [Redises -> Hash(n)]
        BY <1>14, <2>1, <1>0, HashTypes DEF Claims, DataTypes
    <2>3. hash[r].leader \in 0..n
        BY <2>1 DEF Hash
    <2>4. WorkTypes(n)'
        BY <1>14, <2>3, <1>0 DEF Claims, WorkTypes
    <2>5. DataTypes(n)'
        BY <1>14, <2>2, <1>0 DEF Claims, DataTypes
    <2> QED
        BY <1>14, <2>4, <2>5, <1>0a, <1>0c
<1>15. ASSUME NEW p \in Pods, SettleDue(p)
       PROVE  TypeOK'
    BY <1>15, <1>14, <1>0, ReachesRedis DEF SettleDue
<1>16. ASSUME NEW p \in Pods, EndExpired(p)
       PROVE  TypeOK'
    <2>1. node[p].active \in Redises
        BY <1>16, <1>0, ReachesRedis DEF EndExpired
    <2>2. CASE Claims(p, node[p].active)
        BY <1>16, <2>1, <2>2, <1>14 DEF EndExpired
    <2>3. CASE /\ settling' = [settling EXCEPT ![p] = hash[node[p].active].leader]
               /\ UNCHANGED <<hash, ending>>
        <3>1. hash[node[p].active].leader \in 0..n
            BY <2>1, <1>0 DEF DataTypes, Hash
        <3>2. WorkTypes(n)'
            BY <1>16, <2>3, <3>1, <1>0 DEF EndExpired, WorkTypes
        <3>3. DataTypes(n)'
            BY <1>16, <2>3, <1>0 DEF EndExpired, DataTypes
        <3> QED
            BY <1>16, <3>2, <3>3, <1>0a, <1>0c DEF EndExpired
    <2> QED
        BY <1>16, <2>2, <2>3 DEF EndExpired
<1>17. ASSUME NEW p \in Pods, Persists(p)
       PROVE  TypeOK'
    <2>1. settling[p] \in 0..n
        BY <1>17, <1>0 DEF Persists, WorkTypes
    <2>2. row' \in [status: {"ongoing", "ended"}, winner: 0..n]
        BY <1>17, <2>1, <1>0 DEF Persists, DataTypes
    <2>3. ending' \in [Redises -> BOOLEAN]
        BY <1>17, <1>0 DEF Persists, DataTypes
    <2>4. DataTypes(n)'
        BY <1>17, <2>2, <2>3, <1>0 DEF Persists, DataTypes
    <2>5. WorkTypes(n)'
        BY <1>17, <1>0 DEF Persists, WorkTypes
    <2> QED
        BY <1>17, <2>4, <2>5, <1>0a, <1>0c DEF Persists
<1>18. ASSUME NEW p \in Pods, PodRestarts(p)
       PROVE  TypeOK'
    <2>1. Idle \in Rebuild(n) /\ Resting \in Batch(n)
        BY DEF Idle, NoBid, Rebuild, Batch, Resting
    <2>2. TaskTypes(n)'
        BY <1>18, <2>1, <1>0 DEF PodRestarts, TaskTypes
    <2>3. WorkTypes(n)'
        BY <1>18, <2>1, <1>0 DEF PodRestarts, WorkTypes
    <2> QED
        BY <1>18, <2>2, <2>3, <1>0a, <1>0b DEF PodRestarts
<1>19. ASSUME NEW d \in Dependencies, OutageStep(d)
       PROVE  TypeOK'
    BY <1>19, <1>0a, <1>0b, <1>0c, <1>0d DEF OutageStep
<1>20. CASE EndTimePasses
    <2>1. DataTypes(n)'
        BY <1>20, <1>0 DEF EndTimePasses, DataTypes
    <2> QED
        BY <1>20, <2>1, <1>0a, <1>0c, <1>0d DEF EndTimePasses
<1>21. CASE UNCHANGED vars
    BY <1>21, <1>0a, <1>0b, <1>0c, <1>0d DEF vars
<1>22. "demand" \in Kinds /\ "prewarm" \in Kinds
    BY DEF Kinds
<1> QED
    BY <1>1, <1>2, <1>3, <1>4, <1>5, <1>6, <1>7, <1>8, <1>9, <1>10, <1>11, <1>12, <1>13, <1>15,
       <1>16, <1>17, <1>18, <1>19, <1>20, <1>21, <1>22
       DEF Next, PodStep, RebuildStep, PrewarmStep, WorkerStep

-----------------------------------------------------------------------------
(* No accepted bid is lost.                                                *)

LEMMA InitialState == Init => IInv
<1> SUFFICES ASSUME Init PROVE IInv
    OBVIOUS
<1>1. TypeOK
    BY InitialTypes
<1>2. WorkersKnow
    BY DEF Init, WorkersKnow, Resting
<1>3. KeptSomewhere
    <2>1. Len(bids) = 0
        BY DEF Init
    <2> QED
        BY <2>1 DEF KeptSomewhere
<1> QED
    BY <1>1, <1>2, <1>3 DEF IInv

\* bid_logs only grows, and what a worker takes from its stream is in it.
LEMMA KeptPreserved == IInv /\ [Next]_vars => KeptSomewhere'
<1> SUFFICES ASSUME IInv, [Next]_vars PROVE KeptSomewhere'
    OBVIOUS
<1> PICK n \in Nat : n = Len(bids)
    BY TypeParts, LenProperties DEF IInv, BidTypes
<1>0. /\ NodeTypes /\ BidTypes /\ DataTypes(n) /\ WorkTypes(n) /\ WorkersKnow /\ KeptSomewhere
    BY TypeParts DEF IInv
<1>1. ASSUME UNCHANGED <<bids, stream>>, logs \subseteq logs'
      PROVE  KeptSomewhere'
    BY <1>0, <1>1 DEF KeptSomewhere
<1>2. ASSUME NEW p \in Pods, PlaceBid(p)
      PROVE  KeptSomewhere'
    <2> DEFINE r == node[p].active
    <2>1. r \in Redises
        BY <1>2, <1>0, ReachesRedis DEF PlaceBid
    <2>2. PICK price \in Int : bids' = Append(bids, [at |-> r, price |-> price])
        <3>1. hash[r].price \in Int
            <4>1. hash[r].price \in 0..MaxPrice
                BY <2>1, <1>0 DEF DataTypes, Hash
            <4> QED
                BY <4>1, BidsAssumption
        <3> QED
            BY <1>2, <3>1, BidsAssumption DEF PlaceBid
    <2>3. /\ bids \in Seq(Bid \cup {[at |-> r, price |-> price]})
          /\ Len(bids') = n + 1
          /\ \A b \in 1..n : bids'[b] = bids[b]
          /\ bids'[n + 1].at = r
        <3>1. bids \in Seq(Bid \cup {[at |-> r, price |-> price]})
            BY <1>0 DEF BidTypes
        <3> QED
            BY <3>1, <2>2, AppendProperties
    <2>4. stream' = [stream EXCEPT ![r] = stream[r] \cup {n + 1}] /\ logs' = logs
        BY <1>2, <2>3 DEF PlaceBid
    <2>5. ASSUME NEW b \in 1..(n + 1)
          PROVE  b \in logs' \/ b \in stream'[bids'[b].at]
        <3>1. CASE b = n + 1
            BY <3>1, <2>1, <2>3, <2>4, <1>0 DEF DataTypes
        <3>2. CASE b \in 1..n
            <4>1. b \in logs \/ b \in stream[bids[b].at]
                BY <3>2, <1>0 DEF KeptSomewhere
            <4>2. bids[b].at \in Redises
                <5>1. bids[b] \in Bid
                    BY <3>2, <1>0, ElementOfSeq DEF BidTypes
                <5> QED
                    BY <5>1 DEF Bid
            <4> QED
                BY <3>2, <4>1, <4>2, <2>1, <2>3, <2>4, <1>0 DEF DataTypes
        <3> QED
            BY <3>1, <3>2
    <2> QED
        BY <2>3, <2>5 DEF KeptSomewhere
<1>3. ASSUME NEW p \in Pods, WorkerAcks(p)
      PROVE  KeptSomewhere'
    <2>1. worker[p].batch \subseteq logs /\ worker[p].from \in Redises
        BY <1>3, <1>0 DEF WorkerAcks, WorkersKnow
    <2>2. ASSUME NEW r \in Redises, NEW b \in stream[r], b \notin stream'[r]
          PROVE  b \in logs
        BY <1>3, <2>1, <2>2, <1>0 DEF WorkerAcks, DataTypes
    <2>3. ASSUME NEW b \in 1..n PROVE bids[b].at \in Redises
        <3>1. bids[b] \in Bid
            BY <1>0, ElementOfSeq DEF BidTypes
        <3> QED
            BY <3>1 DEF Bid
    <2>4. bids' = bids /\ logs' = logs
        BY <1>3 DEF WorkerAcks
    <2> QED
        BY <2>2, <2>3, <2>4, <1>0 DEF KeptSomewhere
<1>4. ASSUME NEW p \in Pods, WorkerInserts(p)
      PROVE  KeptSomewhere'
    BY <1>4, <1>1 DEF WorkerInserts
<1>5. ASSUME NEW p \in Pods,
             \/ Refreshes(p) \/ FillHotFields(p) \/ DemandStarts(p) \/ PrewarmStarts(p)
             \/ PrewarmMarks(p) \/ (\E k \in Kinds : RebuildStep(p, k))
             \/ WorkerReads(p) \/ SettleDue(p) \/ EndExpired(p) \/ Persists(p) \/ PodRestarts(p)
      PROVE  UNCHANGED <<bids, stream, logs>>
    BY <1>5 DEF Refreshes, FillHotFields, DemandStarts, PrewarmStarts, PrewarmMarks, RebuildStep,
                RebuildReads, RebuildWrites, RebuildFinishes, RebuildProtects, WorkerReads,
                SettleDue, EndExpired, Persists, PodRestarts, data
<1>6. CASE EndTimePasses \/ (\E d \in Dependencies : OutageStep(d)) \/ UNCHANGED vars
    BY <1>6, <1>1 DEF EndTimePasses, OutageStep, vars, data
<1> QED
    BY <1>1, <1>2, <1>3, <1>4, <1>5, <1>6 DEF Next, PodStep, PrewarmStep, WorkerStep, Kinds

LEMMA WorkersPreserved == IInv /\ [Next]_vars => WorkersKnow'
<1> SUFFICES ASSUME IInv, [Next]_vars PROVE WorkersKnow'
    OBVIOUS
<1> PICK n \in Nat : n = Len(bids)
    BY TypeParts, LenProperties DEF IInv, BidTypes
<1>0. NodeTypes /\ WorkersKnow /\ worker \in [Pods -> Batch(n)]
    BY TypeParts DEF IInv, WorkTypes
<1>1. ASSUME UNCHANGED <<worker, logs>> PROVE WorkersKnow'
    BY <1>0, <1>1 DEF WorkersKnow
<1>2. ASSUME NEW p \in Pods, WorkerReads(p)
      PROVE  WorkersKnow'
    <2>1. node[p].active \in Redises
        BY <1>2, <1>0, ReachesRedis DEF WorkerReads
    <2> QED
        BY <1>2, <2>1, <1>0 DEF WorkerReads, WorkersKnow, data
<1>3. ASSUME NEW p \in Pods, WorkerInserts(p)
      PROVE  WorkersKnow'
    <2>1. worker[p] \in Batch(n) /\ worker[p].from \in Redises
        BY <1>3, <1>0 DEF WorkerInserts, WorkersKnow
    <2>2. CASE up["mysql"]
        <3>1. logs' = logs \cup worker[p].batch
            BY <1>3, <2>2 DEF WorkerInserts
        <3>2. worker' = [worker EXCEPT ![p] = [worker[p] EXCEPT !.at = "ack"]]
            BY <1>3, <2>2 DEF WorkerInserts
        <3>3. worker'[p].at = "ack" /\ worker'[p].batch = worker[p].batch
              /\ worker'[p].from = worker[p].from
            BY <2>1, <3>2, <1>0 DEF Batch
        <3> QED
            BY <2>1, <3>1, <3>2, <3>3, <1>0 DEF WorkersKnow
    <2>3. CASE ~up["mysql"]
        BY <1>3, <2>3, <1>0 DEF WorkerInserts, WorkersKnow, Resting
    <2> QED
        BY <2>2, <2>3
<1>4. ASSUME NEW p \in Pods, WorkerAcks(p) \/ PodRestarts(p)
      PROVE  WorkersKnow'
    BY <1>4, <1>0 DEF WorkerAcks, PodRestarts, WorkersKnow, Resting, data
<1>5. ASSUME NEW p \in Pods,
             \/ Refreshes(p) \/ PlaceBid(p) \/ FillHotFields(p) \/ DemandStarts(p)
             \/ PrewarmStarts(p) \/ PrewarmMarks(p) \/ (\E k \in Kinds : RebuildStep(p, k))
             \/ SettleDue(p) \/ EndExpired(p) \/ Persists(p)
      PROVE  UNCHANGED <<worker, logs>>
    BY <1>5 DEF Refreshes, PlaceBid, FillHotFields, DemandStarts, PrewarmStarts, PrewarmMarks,
                RebuildStep, RebuildReads, RebuildWrites, RebuildFinishes, RebuildProtects,
                SettleDue, EndExpired, Persists, data
<1>6. CASE EndTimePasses \/ (\E d \in Dependencies : OutageStep(d)) \/ UNCHANGED vars
    BY <1>6, <1>1 DEF EndTimePasses, OutageStep, vars, data
<1> QED
    BY <1>1, <1>2, <1>3, <1>4, <1>5, <1>6 DEF Next, PodStep, PrewarmStep, WorkerStep, Kinds

LEMMA Inductive == IInv /\ [Next]_vars => IInv'
    BY TypesPreserved, WorkersPreserved, KeptPreserved DEF IInv

LEMMA AlwaysIInv == SafeSpec => []IInv
    BY InitialState, Inductive, PTL DEF SafeSpec

\* Every variable keeps the values the code gives it; a pod has an active
\* Redis exactly if its mode is not the protected one.
THEOREM TypeCorrect == SafeSpec => []TypeOK
<1>1. IInv => TypeOK
    BY DEF IInv
<1> QED
    BY <1>1, AlwaysIInv, PTL

\* Whatever fails, restarts and is rebuilt, an accepted bid is in bid_logs or
\* in the stream of the Redis that took it.
THEOREM KeptSomewhereHolds == SafeSpec => []KeptSomewhere
<1>1. IInv => KeptSomewhere
    BY DEF IInv
<1> QED
    BY <1>1, AlwaysIInv, PTL

-----------------------------------------------------------------------------
(* The refinement of DurableLog.                                           *)

Queued == UNION {stream[r] : r \in Redises}

\* A bid that bid_logs does not have yet is queued, whoever has it in hand.
LEMMA LostOrQueued ==
    ASSUME IInv, NEW S, S \subseteq 1..Len(bids)
    PROVE  S \ logs \subseteq Queued
<1> SUFFICES ASSUME NEW b \in 1..Len(bids), b \notin logs PROVE b \in Queued
    OBVIOUS
<1>1. bids[b] \in Bid
    BY TypeParts, ElementOfSeq DEF IInv, BidTypes
<1> QED
    BY <1>1 DEF IInv, KeptSomewhere, Queued, Bid

\* A step that accepts nothing is Work if bids are kept for good and leave
\* their streams only when they are.
LEMMA IsWork ==
    ASSUME bids' = bids, logs \subseteq logs', logs' \ logs \subseteq Queued,
           Queued' \subseteq Queued, Queued \ Queued' \subseteq logs'
    PROVE  Log!Next
<1>1. PICK S, T : S = logs' \ logs /\ T = Queued \ Queued'
    OBVIOUS
<1>2. S \in SUBSET Queued /\ T \in SUBSET Queued
    BY <1>1
<1>3. T \subseteq logs \cup S /\ logs' = logs \cup S /\ Queued' = Queued \ T
    BY <1>1
<1>4. Log!Work(S, T)
    BY <1>3 DEF Log!Work, Queued
<1> QED
    BY <1>2, <1>4 DEF Log!Next, Queued

LEMMA StepRefines == IInv /\ [Next]_vars => [Log!Next]_Log!vars
<1> SUFFICES ASSUME IInv, [Next]_vars PROVE [Log!Next]_Log!vars
    OBVIOUS
<1> PICK n \in Nat : n = Len(bids)
    BY TypeParts, LenProperties DEF IInv, BidTypes
<1>0. /\ NodeTypes /\ BidTypes /\ DataTypes(n) /\ WorkTypes(n) /\ WorkersKnow
    BY TypeParts DEF IInv
<1>1. ASSUME UNCHANGED <<bids, stream, logs>>
      PROVE  UNCHANGED Log!vars
    BY <1>1 DEF Log!vars
<1>2. ASSUME NEW p \in Pods, PlaceBid(p)
      PROVE  Log!Next
    <2> DEFINE r == node[p].active
    <2>1. r \in Redises /\ n + 1 \in Bids /\ n + 1 \notin 1..n
        BY <1>2, <1>0, ReachesRedis, BidsAssumption DEF PlaceBid, Bids
    <2>2. PICK bid : bids' = Append(bids, bid)
        BY <1>2 DEF PlaceBid
    <2>3. Len(bids') = n + 1
        BY <1>0, <2>2 DEF BidTypes
    <2>4. stream' = [stream EXCEPT ![r] = stream[r] \cup {n + 1}] /\ logs' = logs
        BY <1>2, <2>3 DEF PlaceBid
    <2>5. /\ stream'[r] = stream[r] \cup {n + 1}
          /\ \A q \in Redises \ {r} : stream'[q] = stream[q]
        BY <1>0, <2>1, <2>4 DEF DataTypes
    <2>6. Queued' = Queued \cup {n + 1}
        <3>1. \A b : b \in Queued' <=> \E q \in Redises : b \in stream'[q]
            BY DEF Queued
        <3>2. \A b : b \in Queued <=> \E q \in Redises : b \in stream[q]
            BY DEF Queued
        <3>3. \A b : b \in Queued' <=> b \in Queued \/ b = n + 1
            BY <2>1, <2>5, <3>1, <3>2
        <3> QED
            BY <3>3
    <2>7. 1..Len(bids') = 1..Len(bids) \cup {n + 1}
        BY <2>3
    <2>8. Log!Accept(n + 1)
        BY <2>1, <2>4, <2>6, <2>7 DEF Log!Accept, Queued
    <2> QED
        BY <2>1, <2>8 DEF Log!Next
<1>3. ASSUME NEW p \in Pods, WorkerInserts(p)
      PROVE  Log!Next
    <2>1. /\ logs' \in {logs, logs \cup worker[p].batch}
          /\ UNCHANGED <<bids, stream>>
        BY <1>3 DEF WorkerInserts
    <2>2. worker[p].batch \subseteq 1..n
        BY <1>0 DEF WorkTypes, Batch
    <2>3. worker[p].batch \ logs \subseteq Queued
        BY <2>2, LostOrQueued
    <2>4. Queued' = Queued
        BY <2>1 DEF Queued
    <2> QED
        BY <2>1, <2>3, <2>4, IsWork
<1>4. ASSUME NEW p \in Pods, WorkerAcks(p)
      PROVE  Log!Next
    <2>1. worker[p].batch \subseteq logs /\ worker[p].from \in Redises
        BY <1>4, <1>0 DEF WorkerAcks, WorkersKnow
    <2>2. bids' = bids /\ logs' = logs
        BY <1>4 DEF WorkerAcks
    <2>3. ASSUME NEW q \in Redises
          PROVE  stream'[q] \subseteq stream[q] /\ stream[q] \ stream'[q] \subseteq logs
        BY <1>4, <1>0, <2>1 DEF WorkerAcks, DataTypes
    <2>4. Queued' \subseteq Queued /\ Queued \ Queued' \subseteq logs
        BY <2>3 DEF Queued
    <2> QED
        BY <2>2, <2>4, IsWork
<1>5. ASSUME NEW p \in Pods,
             \/ Refreshes(p) \/ FillHotFields(p) \/ DemandStarts(p) \/ PrewarmStarts(p)
             \/ PrewarmMarks(p) \/ (\E k \in Kinds : RebuildStep(p, k))
             \/ WorkerReads(p) \/ SettleDue(p) \/ EndExpired(p) \/ Persists(p) \/ PodRestarts(p)
      PROVE  UNCHANGED <<bids, stream, logs>>
    BY <1>5 DEF Refreshes, FillHotFields, DemandStarts, PrewarmStarts, PrewarmMarks, RebuildStep,
                RebuildReads, RebuildWrites, RebuildFinishes, RebuildProtects, WorkerReads,
                SettleDue, EndExpired, Persists, PodRestarts, data
<1>6. CASE EndTimePasses \/ (\E d \in Dependencies : OutageStep(d)) \/ UNCHANGED vars
    BY <1>6, <1>1 DEF EndTimePasses, OutageStep, vars, data
<1> QED
    BY <1>1, <1>2, <1>3, <1>4, <1>5, <1>6 DEF Next, PodStep, PrewarmStep, WorkerStep, Kinds

\* The two streams and the pods' changing between them are for the bids what
\* one stream is: queued from their acceptance on until bid_logs has them.
THEOREM ImplementsDurableLogHolds == SafeSpec => ImplementsDurableLog
<1>1. Init => Log!Init
    <2> SUFFICES ASSUME Init PROVE Log!Init
        OBVIOUS
    <2>1. 1..Len(bids) = {} /\ logs = {} /\ \A r \in Redises : stream[r] = {}
        BY DEF Init
    <2> QED
        BY <2>1 DEF Log!Init
<1> QED
    BY <1>1, StepRefines, AlwaysIInv, PTL DEF SafeSpec, ImplementsDurableLog, Log!SafeSpec

\* Every accepted bid is still queued or kept, and nothing else is: what the
\* abstract log owes to its steps carries over.
THEOREM NothingIsLostHolds == SafeSpec => []Log!NothingIsLost
<1>1. Log!Init => Log!NothingIsLost
    BY DEF Log!Init, Log!NothingIsLost
<1>2. Log!NothingIsLost /\ [Log!Next]_Log!vars => Log!NothingIsLost'
    BY DEF Log!NothingIsLost, Log!Next, Log!Accept, Log!Work, Log!vars
<1> QED
    BY <1>1, <1>2, ImplementsDurableLogHolds, PTL DEF ImplementsDurableLog, Log!SafeSpec
=============================================================================
