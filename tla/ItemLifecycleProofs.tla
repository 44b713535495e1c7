------------------------ MODULE ItemLifecycleProofs -------------------------
(***************************************************************************)
(* Theorems about ItemLifecycle, for any number of handlers, bids and      *)
(* merchant requests; those about winners suppose that the item is started *)
(* once and speak of the time until a rebuild writes its hash.             *)
(*                                                                         *)
(* Until then the hash is made once, and never reopens: nobody is named as *)
(* the winner before it ends, and afterwards everybody who names a winner  *)
(* names the same one (Agreed).  Knows says what a handler that has taken  *)
(* the end on may rely on, with the hash already gone or still there.      *)
(***************************************************************************)
EXTENDS ItemLifecycle, TLAPS

StartedOnce == MaxAsked["start"] <= 1

-----------------------------------------------------------------------------
(* Types.                                                                  *)

Row  == [status: {"draft", "published", "ongoing", "ended", "cancelled", "deleted"},
         winner: 0..MaxBids]
Hash == [status: {"absent", "bare", "ongoing", "ended"}, leader: 0..MaxBids, end: 1..2,
         ready: BOOLEAN]
Job  == [kind: Kinds \cup {"none"},
         at: {"none", "delete", "init", "schedule", "save", "room", "undo", "clean",
              "state", "claim", "find", "order", "refund", "read", "rewrite", "reschedule"},
         winner: 0..MaxBids]

\* An order is made for somebody.
OrdersName == \A s \in Slots : job[s].at = "order" => job[s].winner # 0

TypeInv ==
    /\ row \in Row /\ hash \in Hash
    /\ expiring \in BOOLEAN /\ scheduled \in BOOLEAN /\ rebuilt \in BOOLEAN
    /\ clock \in 0..2 /\ bids \in 0..MaxBids
    /\ order \in (1..MaxBids) \cup {NoOrder}
    /\ refunded \subseteq 1..MaxBids
    /\ job \in [Slots -> Job] /\ OrdersName
    /\ asked \in [RequestKinds -> Nat]

LEMMA TypesFollow == TypeInv => TypeOK
    BY DEF TypeInv, TypeOK, Row, Hash, Job

LEMMA IdleType == Idle \in Job /\ Idle.at # "order"
    BY BoundsAssumption DEF Idle, Job

LEMMA InitialTypes == Init => TypeInv
<1> SUFFICES ASSUME Init PROVE TypeInv
    OBVIOUS
<1>1. 0 \in 0..MaxBids
    BY BoundsAssumption
<1>2. row \in Row /\ hash \in Hash
    BY <1>1 DEF Init, Row, Hash, Gone
<1>3. job \in [Slots -> Job] /\ OrdersName
    BY IdleType DEF Init, OrdersName
<1>4. asked \in [RequestKinds -> Nat]
    BY DEF Init
<1>5. order = NoOrder /\ refunded = {} /\ clock = 0 /\ bids = 0
    BY DEF Init
<1>6. expiring \in BOOLEAN /\ scheduled \in BOOLEAN /\ rebuilt \in BOOLEAN
    BY DEF Init
<1> QED
    BY <1>1, <1>2, <1>3, <1>4, <1>5, <1>6 DEF TypeInv

Places == {"delete", "init", "schedule", "save", "room", "undo", "clean", "state", "claim",
           "find", "refund", "read", "rewrite", "reschedule"}

\* A job that begins, goes on or ends is a job again.
LEMMA JobTypes ==
    ASSUME TypeInv, NEW s \in Slots
    PROVE  /\ Ends(s) => job' \in [Slots -> Job] /\ OrdersName'
           /\ \A at \in Places : Goes(s, at) => job' \in [Slots -> Job] /\ OrdersName'
           /\ job[s].winner # 0 /\ Goes(s, "order") => job' \in [Slots -> Job] /\ OrdersName'
           /\ \A kind \in Kinds, at \in Places, w \in 0..MaxBids :
                 Begins(s, kind, at, w) => job' \in [Slots -> Job] /\ OrdersName'
           /\ \A w \in (0..MaxBids) \ {0} :
                 Begins(s, "compensate", "order", w) => job' \in [Slots -> Job] /\ OrdersName'
           /\ \A at \in Places, w \in 0..MaxBids :
                 job' = [job EXCEPT ![s].at = at, ![s].winner = w] =>
                     job' \in [Slots -> Job] /\ OrdersName'
<1>0. job \in [Slots -> Job] /\ job[s] \in Job /\ OrdersName
    BY DEF TypeInv
<1>1. ASSUME NEW j \in Job, j.at = "order" => j.winner # 0, job' = [job EXCEPT ![s] = j]
      PROVE  job' \in [Slots -> Job] /\ OrdersName'
    BY <1>0, <1>1 DEF OrdersName
<1>2. Ends(s) => job' \in [Slots -> Job] /\ OrdersName'
    BY <1>1, IdleType DEF Ends
<1>3. ASSUME NEW at \in Places \cup {"order"}, at = "order" => job[s].winner # 0, Goes(s, at)
      PROVE  job' \in [Slots -> Job] /\ OrdersName'
    <2>1. [job[s] EXCEPT !.at = at] \in Job
        BY <1>0 DEF Job, Places
    <2>2. [job[s] EXCEPT !.at = at].at = at /\ [job[s] EXCEPT !.at = at].winner = job[s].winner
        BY <1>0 DEF Job
    <2> QED
        BY <1>1, <1>3, <2>1, <2>2 DEF Goes
<1>4. ASSUME NEW kind \in Kinds, NEW at \in Places \cup {"order"}, NEW w \in 0..MaxBids,
             at = "order" => w # 0, Begins(s, kind, at, w)
      PROVE  job' \in [Slots -> Job] /\ OrdersName'
    <2>1. [kind |-> kind, at |-> at, winner |-> w] \in Job
        BY DEF Job, Places
    <2> QED
        BY <1>1, <1>4, <2>1 DEF Begins
<1>5. ASSUME NEW at \in Places, NEW w \in 0..MaxBids,
             job' = [job EXCEPT ![s].at = at, ![s].winner = w]
      PROVE  job' \in [Slots -> Job] /\ OrdersName'
    <2>1. [job[s] EXCEPT !.at = at, !.winner = w] \in Job
        BY <1>0 DEF Job, Places
    <2>2. [job[s] EXCEPT !.at = at, !.winner = w].at # "order"
        BY <1>0 DEF Job, Places
    <2> QED
        BY <1>1, <1>5, <2>1, <2>2
<1>6. "compensate" \in Kinds /\ "order" \notin Places
    BY DEF Kinds, RequestKinds, Places
<1> QED
    BY <1>2, <1>3, <1>4, <1>5, <1>6

LEMMA AskedType ==
    ASSUME TypeInv, NEW kind \in RequestKinds, Asks(kind)
    PROVE  asked' \in [RequestKinds -> Nat]
<1>1. asked \in [RequestKinds -> Nat] /\ asked[kind] + 1 \in Nat
    BY DEF TypeInv
<1> QED
    BY <1>1 DEF Asks

LEMMA TypesPreserved == TypeInv /\ [Next]_vars => TypeInv'
<1> SUFFICES ASSUME TypeInv, [Next]_vars PROVE TypeInv'
    OBVIOUS
<1>0. /\ row \in Row /\ hash \in Hash
      /\ expiring \in BOOLEAN /\ scheduled \in BOOLEAN /\ rebuilt \in BOOLEAN
      /\ clock \in 0..2 /\ bids \in 0..MaxBids
      /\ order \in (1..MaxBids) \cup {NoOrder}
      /\ refunded \subseteq 1..MaxBids
      /\ job \in [Slots -> Job] /\ OrdersName
      /\ asked \in [RequestKinds -> Nat]
      /\ MaxBids \in Nat
    BY BoundsAssumption DEF TypeInv
<1>0a. Gone \in Hash /\ \A w \in 0..MaxBids : OpenFor(w) \in Hash
    BY <1>0 DEF Gone, OpenFor, Hash
<1>0b. ASSUME NEW s \in Slots PROVE job[s].winner \in 0..MaxBids
    BY <1>0 DEF Job
<1> USE <1>0
<1>1. CASE PlaceBid
    <2>1. bids + 1 \in 0..MaxBids /\ bids' = bids + 1
        BY <1>1 DEF PlaceBid
    <2>2. [hash EXCEPT !.leader = bids + 1] \in Hash
          /\ [hash EXCEPT !.leader = bids + 1, !.end = 2] \in Hash
        <3> HIDE <1>0
        <3>1. hash \in Hash /\ bids + 1 \in 0..MaxBids
            BY <1>0, <2>1
        <3>2. ASSUME NEW n \in 0..MaxBids
              PROVE  [hash EXCEPT !.leader = n] \in Hash /\ [hash EXCEPT !.leader = n, !.end = 2] \in Hash
            <4>1. [hash EXCEPT !.leader = n] \in Hash
                BY <3>1 DEF Hash
            <4>2. ASSUME NEW h \in Hash PROVE [h EXCEPT !.end = 2] \in Hash
                <5>1. 2 \in 1..2
                    OBVIOUS
                <5> QED
                    BY <5>1, Zenon DEF Hash
            <4>3. [hash EXCEPT !.leader = n, !.end = 2] = [[hash EXCEPT !.leader = n] EXCEPT !.end = 2]
                OBVIOUS
            <4> QED
                BY <4>1, <4>2, <4>3
        <3> QED
            BY <3>1, <3>2
    <2>3. hash' \in Hash /\ scheduled' \in BOOLEAN
        BY <1>1, <2>2 DEF PlaceBid
    <2> QED
        BY <1>1, <2>1, <2>3 DEF PlaceBid, TypeInv, OrdersName, mysql
<1>2. CASE HashExpires
    BY <1>2, <1>0a DEF HashExpires, TypeInv, OrdersName, mysql, world
<1>3. CASE Tick
    BY <1>3 DEF Tick, TypeInv, OrdersName, redis, mysql
<1>4. ASSUME NEW s \in Slots, NEW kind \in MerchantKinds, MerchantAsks(s, kind)
      PROVE  TypeInv'
    <2>1. FirstCommand(kind) \in Places /\ kind \in Kinds
        BY DEF FirstCommand, Places, Kinds, RequestKinds
    <2>2. row.winner \in 0..MaxBids
        BY DEF Row
    <2>3. job' \in [Slots -> Job] /\ OrdersName'
        BY <1>4, <2>1, <2>2, JobTypes DEF MerchantAsks
    <2>4. asked' \in [RequestKinds -> Nat]
        BY <1>4, AskedType DEF MerchantAsks, RequestKinds
    <2> QED
        BY <1>4, <2>3, <2>4 DEF MerchantAsks, TypeInv, redis, mysql
<1>5. ASSUME NEW s \in Slots, PlaceCapBid(s)
      PROVE  TypeInv'
    <2>1. bids + 1 \in 0..MaxBids /\ bids' = bids + 1
        BY <1>5 DEF PlaceCapBid
    <2>2. [hash EXCEPT !.leader = bids + 1, !.status = "ended"] \in Hash
        BY <2>1 DEF Hash
    <2>3. job' \in [Slots -> Job] /\ OrdersName'
        BY <1>5, <2>1, JobTypes DEF PlaceCapBid, Kinds, FinishKinds, Places
    <2> QED
        BY <1>5, <2>1, <2>2, <2>3 DEF PlaceCapBid, TypeInv, mysql
<1>6. ASSUME NEW s \in Slots, SettleDue(s)
      PROVE  TypeInv'
    <2>1. hash.leader \in 0..MaxBids /\ [hash EXCEPT !.status = "ended"] \in Hash
        BY DEF Hash
    <2>2. job' \in [Slots -> Job] /\ OrdersName'
        BY <1>6, <2>1, JobTypes DEF SettleDue, Kinds, FinishKinds, Places
    <2> QED
        BY <1>6, <2>1, <2>2 DEF SettleDue, TypeInv, mysql, world
<1>7. ASSUME NEW s \in Slots, FallbackLists(s)
      PROVE  TypeInv'
    <2>0. "fallback" \in Kinds /\ "state" \in Places /\ 0 \in 0..MaxBids
        BY DEF Kinds, FinishKinds, Places
    <2>1. job' \in [Slots -> Job] /\ OrdersName'
        BY <1>7, <2>0, JobTypes DEF FallbackLists
    <2> QED
        BY <1>7, <2>1 DEF FallbackLists, TypeInv, redis, mysql, world
<1>8. ASSUME NEW s \in Slots, ScanCompensation(s)
      PROVE  TypeInv'
    <2>1. row.winner \in (0..MaxBids) \ {0}
        BY <1>8 DEF ScanCompensation, LacksOrder, Row
    <2>2. job' \in [Slots -> Job] /\ OrdersName'
        BY <1>8, <2>1, JobTypes DEF ScanCompensation
    <2> QED
        BY <1>8, <2>2 DEF ScanCompensation, TypeInv, redis, mysql, world
<1>9. ASSUME NEW s \in Slots, Crash(s)
      PROVE  TypeInv'
    BY <1>9, JobTypes DEF Crash, TypeInv, redis, mysql, world
<1>10. ASSUME NEW s \in Slots, StartStep(s)
       PROVE  TypeInv'
    <2>1. job' \in [Slots -> Job] /\ OrdersName'
        BY <1>10, JobTypes DEF StartStep, InitHash, ScheduleEnd, ScheduleFails, SetRoom,
                               SetRoomFails, UndoRedis, Places
    <2>2. hash' \in Hash
        <3>1. OpenFor(0) \in Hash
            BY <1>0a
        <3> QED
            BY <1>10, <3>1, <1>0a DEF StartStep, InitHash, ScheduleEnd, ScheduleFails, SetRoom,
                                      SetRoomFails, UndoRedis, MayBecome, redis
    <2>3. expiring' \in BOOLEAN /\ scheduled' \in BOOLEAN
        BY <1>10 DEF StartStep, InitHash, ScheduleEnd, ScheduleFails, SetRoom, SetRoomFails,
                     UndoRedis, MayBecome, redis, mysql
    <2>4. UNCHANGED <<row, order, refunded, clock, bids, asked, rebuilt>>
        BY <1>10 DEF StartStep, InitHash, ScheduleEnd, ScheduleFails, SetRoom, SetRoomFails,
                     UndoRedis, mysql, world
    <2> QED
        BY <2>1, <2>2, <2>3, <2>4 DEF TypeInv
<1>11. ASSUME NEW s \in Slots, RowStep(s)
       PROVE  TypeInv'
    <2>1. job' \in [Slots -> Job] /\ OrdersName'
        BY <1>11, JobTypes DEF RowStep, DeleteRow, SaveRow, SaveFails, ClearRoom, ClearRoomFails,
                               Places
    <2>2. row' \in Row
        <3>1. CASE DeleteRow(s)
            BY <3>1 DEF DeleteRow, Row
        <3>2. CASE SaveRow(s)
            <4>1. StatusSaved(job[s].kind) \in {"draft", "published", "ongoing", "ended",
                                                "cancelled", "deleted"}
                BY DEF StatusSaved
            <4> QED
                BY <3>2, <4>1, <1>0b DEF SaveRow, Row
        <3>3. CASE SaveFails(s) \/ ClearRoom(s) \/ ClearRoomFails(s)
            BY <3>3 DEF SaveFails, ClearRoom, ClearRoomFails, mysql
        <3> QED
            BY <1>11, <3>1, <3>2, <3>3 DEF RowStep
    <2>3. UNCHANGED <<hash, expiring, scheduled, order, refunded, clock, bids, asked, rebuilt>>
        BY <1>11 DEF RowStep, DeleteRow, SaveRow, SaveFails, ClearRoom, ClearRoomFails, mysql,
                     redis, world
    <2> QED
        BY <2>1, <2>2, <2>3 DEF TypeInv
<1>12. ASSUME NEW s \in Slots, FinishStep(s)
       PROVE  TypeInv'
    <2>1. CASE FallbackReads(s)
        <3>1. hash.leader \in 0..MaxBids
            BY DEF Hash
        <3>2. job' \in [Slots -> Job] /\ OrdersName'
            BY <2>1, <3>1, JobTypes DEF FallbackReads, FallbackDecides, Places
        <3> QED
            BY <2>1, <3>2 DEF FallbackReads, TypeInv, redis, mysql, world
    <2>2. CASE FallbackClaims(s)
        <3>1. hash.leader \in 0..MaxBids /\ [hash EXCEPT !.status = "ended"] \in Hash
            BY DEF Hash
        <3>2. job' \in [Slots -> Job] /\ OrdersName'
            BY <2>2, <3>1, JobTypes DEF FallbackClaims, Places
        <3> QED
            BY <2>2, <3>1, <3>2 DEF FallbackClaims, TypeInv, mysql, world
    <2>3. CASE FindRow(s)
        <3>1. job' \in [Slots -> Job] /\ OrdersName'
            BY <2>3, JobTypes DEF FindRow, Places
        <3> QED
            BY <2>3, <3>1 DEF FindRow, TypeInv, redis, mysql, world
    <2>4. CASE CleanRedis(s)
        <3>1. job' \in [Slots -> Job] /\ OrdersName'
            BY <2>4, JobTypes DEF CleanRedis, AfterClean, Places
        <3> QED
            BY <2>4, <3>1 DEF CleanRedis, MayBecome, TypeInv, mysql, world
    <2>5. CASE CreateOrder(s) \/ CreateOrderFails(s)
        <3>1. job[s].at = "order"
            BY <2>5 DEF CreateOrder, CreateOrderFails, At
        <3>2. job[s].winner \in 1..MaxBids
            BY <3>1, <1>0b DEF OrdersName
        <3>3. job' \in [Slots -> Job] /\ OrdersName'
            BY <2>5, JobTypes DEF CreateOrder, CreateOrderFails, AfterOrder, Places
        <3> QED
            BY <2>5, <3>2, <3>3 DEF CreateOrder, CreateOrderFails, TypeInv, redis, mysql, world
    <2>6. CASE RefundNonWinners(s)
        <3>1. Losers(job[s].winner) \subseteq 1..MaxBids
            BY DEF Losers
        <3> QED
            BY <2>6, <3>1, JobTypes DEF RefundNonWinners, TypeInv, redis, world
    <2> QED
        BY <1>12, <2>1, <2>2, <2>3, <2>4, <2>5, <2>6 DEF FinishStep
<1>13. ASSUME NEW s \in Slots, ViewBegins(s)
       PROVE  TypeInv'
    <2>1. "view" \in Kinds /\ "read" \in Places /\ 0 \in 0..MaxBids
        BY DEF Kinds, RequestKinds, Places
    <2>2. job' \in [Slots -> Job] /\ OrdersName'
        BY <1>13, <2>1, JobTypes DEF ViewBegins
    <2>3. asked' \in [RequestKinds -> Nat]
        BY <1>13, AskedType DEF ViewBegins, RequestKinds
    <2> QED
        BY <1>13, <2>2, <2>3 DEF ViewBegins, TypeInv, redis, mysql
<1>14. ASSUME NEW s \in Slots, ViewStep(s)
       PROVE  TypeInv'
    <2>1. ASSUME NEW ready \in BOOLEAN PROVE WithAuthority(ready) \in Hash
        BY DEF WithAuthority, Hash
    <2>2. hash' \in Hash
        BY <1>14, <2>1, <1>0a, <1>0b DEF ViewStep, ReadLog, RewriteHash, DeclareReady, Protect,
                                         MayBecome, redis
    <2>3. job' \in [Slots -> Job] /\ OrdersName'
        <3>1. CASE ReadLog(s)
            <4>1. PICK b \in 0..bids : job' = [job EXCEPT ![s].at = "rewrite", ![s].winner = b]
                BY <3>1 DEF ReadLog
            <4>2. b \in 0..MaxBids /\ "rewrite" \in Places
                BY DEF Places
            <4> QED
                BY <4>1, <4>2, JobTypes
        <3>2. CASE RewriteHash(s) \/ DeclareReady(s) \/ Protect(s)
            BY <3>2, JobTypes DEF RewriteHash, DeclareReady, Protect, Places
        <3> QED
            BY <1>14, <3>1, <3>2 DEF ViewStep
    <2>4. /\ UNCHANGED <<row, order, refunded, clock, bids, asked, expiring>>
          /\ scheduled' \in BOOLEAN /\ rebuilt' \in BOOLEAN
        BY <1>14 DEF ViewStep, ReadLog, RewriteHash, DeclareReady, Protect, redis, mysql, world
    <2> QED
        BY <2>2, <2>3, <2>4 DEF TypeInv
<1>15. CASE UNCHANGED vars
    BY <1>15 DEF vars, TypeInv, OrdersName
<1> QED
    BY <1>1, <1>2, <1>3, <1>4, <1>5, <1>6, <1>7, <1>8, <1>9, <1>10, <1>11, <1>12, <1>13, <1>14,
       <1>15 DEF Next, JobStep

-----------------------------------------------------------------------------
(* The invariant.                                                          *)

\* No hash was made yet.
Unstarted == asked["start"] = 0 \/ \E s \in Slots : At(s, {"start"}, "init")

\* The handlers there are only for an item that was started, and the places
\* where a handler has the result of the auction.
Late == FinishKinds \cup {"capOffline", "compensate", "view"}
Told == {"find", "save", "room", "clean", "order", "refund"}

OneStart ==
    /\ asked["start"] <= 1
    /\ \A s \in Slots : job[s].kind = "start" => asked["start"] = 1
    /\ \A s, t \in Slots : job[s].kind = "start" /\ job[t].kind = "start" => s = t

NothingYet ==
    /\ hash.status = "absent"
    /\ row.status \notin {"ongoing", "ended"}
    /\ \A s \in Slots : job[s].kind \notin Late
    /\ refunded = {}
    /\ ~rebuilt

\* What a handler relies on: it has the result, if the hash still has one.
Knows(j, h) ==
    /\ j.at = "save" => j.kind \in FinishKinds \cup {"update", "publish", "start", "cancel"}
    /\ j.kind \in FinishKinds /\ j.at \in Told =>
          h.status # "ongoing" /\ (h.status = "ended" => j.winner = h.leader)

\* Whoever names a winner names w; a rebuild has its own idea of the leader.
Names(w) ==
    /\ row.winner \in {0, w}
    /\ order \in {NoOrder, w}
    /\ \A s \in Slots : job[s].kind = "view" \/ job[s].winner \in {0, w}
    /\ hash.status = "ended" => w = hash.leader
    /\ hash.status = "ongoing" \/ Unstarted => w = 0

Deposits ==
    /\ hash.status = "ongoing" => refunded = {}
    /\ hash.status = "ended" => hash.leader \notin refunded

\* What there is agreement on until a rebuild writes the hash.
Agreed ==
    /\ \A s \in Slots : Knows(job[s], hash)
    /\ \E w \in 0..MaxBids : Names(w)
    /\ RowAgreesWithSnapshot
    /\ Deposits

IInv ==
    /\ OneStart
    /\ Unstarted => NothingYet
    /\ rebuilt \/ Agreed

LEMMA Initially == Init => IInv
<1> SUFFICES ASSUME Init PROVE IInv
    OBVIOUS
<1>1. \A s \in Slots : job[s] = Idle
    BY DEF Init
<1>2. OneStart /\ NothingYet /\ RowAgreesWithSnapshot /\ Deposits
    BY <1>1 DEF Init, OneStart, NothingYet, RowAgreesWithSnapshot, Deposits, Idle, Gone, Late,
                FinishKinds, RequestKinds, MerchantKinds
<1>3. \A s \in Slots : Knows(job[s], hash)
    BY <1>1 DEF Knows, Idle, FinishKinds
<1>4. 0 \in 0..MaxBids /\ Names(0)
    BY <1>1, BoundsAssumption DEF Init, Names, Idle, Gone
<1> QED
    BY <1>2, <1>3, <1>4 DEF IInv, Agreed

-----------------------------------------------------------------------------
(* Steps of one handler.                                                   *)

\* What every step of the handler in s does, but asking for a start and
\* making the hash: no start begins, and it names nobody new unless it ends
\* the auction, and changes the hash only to take it away or when it was open.
Starts(s) ==
    /\ \A t \in Slots \ {s} : job'[t] = job[t]
    /\ job'[s].kind = "start" => job[s].kind = "start" /\ job'[s].at # "init"
    /\ asked'["start"] = asked["start"]

Moves(s) ==
    /\ Starts(s)
    /\ rebuilt' = rebuilt
    /\ \/ ~Unstarted
       \/ /\ hash'.status = "absent" /\ row'.status \notin {"ongoing", "ended"}
          /\ job'[s].kind \notin Late /\ refunded' = {}
    /\ Knows(job'[s], hash')
    /\ \/ hash'.status = hash.status /\ hash'.leader = hash.leader
       \/ hash'.status \in {"absent", "bare"}
       \/ hash.status = "ongoing" /\ hash'.status = "ended"
    /\ row' = row \/ RowAgreesWithSnapshot'
    /\ \/ refunded' = refunded
       \/ /\ hash' = hash /\ hash.status # "ongoing"
          /\ hash.status = "ended" => hash.leader \notin refunded'
    /\ row'.winner = row.winner \/ (row'.winner = job[s].winner /\ job[s].kind # "view")
    /\ \/ job'[s].winner \in {0, row.winner} \/ job'[s].kind = "view"
       \/ job'[s].winner = job[s].winner /\ job[s].kind # "view"
       \/ hash'.status = "ended" /\ job'[s].winner = hash'.leader
    /\ order' = order \/ (order' = job[s].winner /\ job[s].kind # "view")

LEMMA MovesKeep ==
    ASSUME IInv, ~rebuilt, TypeInv, TypeInv', NEW s \in Slots, Moves(s)
    PROVE  IInv'
<1>1. OneStart'
    BY DEF Moves, Starts, IInv, OneStart
<1>2. Unstarted' => Unstarted
    BY DEF Moves, Starts, Unstarted, At
<1>3. (Unstarted => NothingYet)'
    BY <1>2 DEF Moves, Starts, IInv, NothingYet
<1>4. ASSUME NEW t \in Slots PROVE Knows(job'[t], hash')
    <2>1. CASE t = s
        BY <2>1 DEF Moves
    <2>2. CASE t # s
        <3>1. Knows(job[t], hash) /\ job'[t] = job[t]
            BY <2>2 DEF Moves, Starts, IInv, Agreed
        <3> QED
            BY <3>1 DEF Moves, Knows
    <2> QED
        BY <2>1, <2>2
<1>5. RowAgreesWithSnapshot'
    BY DEF Moves, IInv, Agreed, RowAgreesWithSnapshot
<1>6. Deposits'
    BY DEF Moves, IInv, Agreed, Deposits
<1>7. PICK w \in 0..MaxBids : Names(w)
    BY DEF IInv, Agreed
<1>8. order \in (1..MaxBids) \cup {NoOrder} /\ order' \in (1..MaxBids) \cup {NoOrder}
      /\ hash'.leader \in 0..MaxBids /\ MaxBids \in Nat
    BY BoundsAssumption DEF TypeInv, Hash
<1>9. CASE hash.status = "ongoing" /\ hash'.status = "ended"
    <2>1. w = 0 /\ ~Unstarted
        BY <1>7, <1>9 DEF Names, IInv, Agreed, NothingYet
    <2>2. /\ order = NoOrder /\ row.winner = 0
          /\ \A t \in Slots : job[t].kind = "view" \/ job[t].winner = 0
        BY <1>7, <1>8, <2>1 DEF Names
    <2>3. order' = NoOrder
        BY <1>8, <2>2 DEF Moves
    <2>4. \A t \in Slots : job'[t].kind = "view" \/ job'[t].winner \in {0, hash'.leader}
        BY <2>2 DEF Moves, Starts
    <2>5. row'.winner = 0
        BY <2>2 DEF Moves
    <2>6. ~Unstarted'
        BY <1>2, <2>1
    <2>7. (\E v \in 0..MaxBids : Names(v))'
        BY <1>8, <1>9, <2>3, <2>4, <2>5, <2>6 DEF Names, NoOrder
    <2> QED
        BY <1>1, <1>3, <1>4, <1>5, <1>6, <2>7 DEF IInv, Agreed
<1>10. CASE ~(hash.status = "ongoing" /\ hash'.status = "ended")
    <2>1. row'.winner \in {0, w} /\ order' \in {NoOrder, w}
        BY <1>7, <1>8 DEF Names, Moves
    <2>2. hash'.status = "ended" => w = hash'.leader
        BY <1>7, <1>10 DEF Names, Moves
    <2>3. \A t \in Slots : job'[t].kind = "view" \/ job'[t].winner \in {0, w}
        BY <1>7, <2>2 DEF Names, Moves, Starts
    <2>4. hash'.status = "ongoing" \/ Unstarted' => w = 0
        BY <1>2, <1>7 DEF Names, Moves
    <2>5. (\E v \in 0..MaxBids : Names(v))'
        BY <2>1, <2>2, <2>3, <2>4 DEF Names, NoOrder
    <2> QED
        BY <1>1, <1>3, <1>4, <1>5, <1>6, <2>5 DEF IInv, Agreed
<1> QED
    BY <1>9, <1>10

LEMMA NextJob ==
    ASSUME TypeInv, NEW s \in Slots
    PROVE  /\ job \in [Slots -> Job] /\ job[s] \in Job
           /\ \A t \in Slots : \A j : job' = [job EXCEPT ![s] = j] =>
                 job'[s] = j /\ (t # s => job'[t] = job[t])
           /\ Ends(s) => job'[s] = Idle /\ \A t \in Slots \ {s} : job'[t] = job[t]
           /\ \A at : Goes(s, at) =>
                 /\ job'[s].at = at /\ job'[s].kind = job[s].kind /\ job'[s].winner = job[s].winner
                 /\ \A t \in Slots \ {s} : job'[t] = job[t]
           /\ \A at, w : job' = [job EXCEPT ![s].at = at, ![s].winner = w] =>
                 /\ job'[s].at = at /\ job'[s].kind = job[s].kind /\ job'[s].winner = w
                 /\ \A t \in Slots \ {s} : job'[t] = job[t]
           /\ \A kind, at, w : Begins(s, kind, at, w) =>
                 /\ job'[s].at = at /\ job'[s].kind = kind /\ job'[s].winner = w
                 /\ \A t \in Slots \ {s} : job'[t] = job[t]
<1>1. job \in [Slots -> Job] /\ job[s] \in Job
    BY DEF TypeInv
<1>2. ASSUME NEW t \in Slots, NEW j, job' = [job EXCEPT ![s] = j]
      PROVE  job'[s] = j /\ (t # s => job'[t] = job[t])
    BY <1>1, <1>2
<1>3. Ends(s) => job'[s] = Idle /\ \A t \in Slots \ {s} : job'[t] = job[t]
    BY <1>2 DEF Ends
<1>4. ASSUME NEW at, Goes(s, at)
      PROVE  /\ job'[s].at = at /\ job'[s].kind = job[s].kind /\ job'[s].winner = job[s].winner
             /\ \A t \in Slots \ {s} : job'[t] = job[t]
    <2>1. job'[s] = [job[s] EXCEPT !.at = at] /\ \A t \in Slots \ {s} : job'[t] = job[t]
        BY <1>1, <1>4 DEF Goes
    <2> QED
        BY <1>1, <2>1 DEF Job
<1>5. ASSUME NEW at, NEW w, job' = [job EXCEPT ![s].at = at, ![s].winner = w]
      PROVE  /\ job'[s].at = at /\ job'[s].kind = job[s].kind /\ job'[s].winner = w
             /\ \A t \in Slots \ {s} : job'[t] = job[t]
    <2>1. job'[s] = [job[s] EXCEPT !.at = at, !.winner = w]
          /\ \A t \in Slots \ {s} : job'[t] = job[t]
        BY <1>1, <1>5
    <2> QED
        BY <1>1, <2>1 DEF Job
<1>6. ASSUME NEW kind, NEW at, NEW w, Begins(s, kind, at, w)
      PROVE  /\ job'[s].at = at /\ job'[s].kind = kind /\ job'[s].winner = w
             /\ \A t \in Slots \ {s} : job'[t] = job[t]
    BY <1>1, <1>6 DEF Begins
<1> QED
    BY <1>1, <1>2, <1>3, <1>4, <1>5, <1>6

\* A handler that goes on or ends, with the rest of its promises kept.
Onward(s) ==
    /\ \A t \in Slots \ {s} : job'[t] = job[t]
    /\ \/ job'[s] = Idle
       \/ /\ job'[s].kind = job[s].kind /\ job'[s].winner = job[s].winner
          /\ job[s].kind = "start" => job'[s].at # "init"
          /\ job'[s].at = "save" => job[s].kind \in FinishKinds \cup {"start"}
          /\ job[s].kind \in FinishKinds => job[s].at \in Told
          /\ job[s].kind # "none"

\* The hash is as it was, gone, or has another authority.
Standing ==
    \/ hash' = hash
    \/ hash'.status = hash.status /\ hash'.leader = hash.leader /\ ~Unstarted
    \/ hash'.status = "bare" /\ ~Unstarted
    \/ hash' = Gone

LEMMA AuthorityStands ==
    ASSUME TypeInv, ~Unstarted, NEW ready \in BOOLEAN, hash' = WithAuthority(ready)
    PROVE  Standing
<1>1. hash \in Hash
    BY DEF TypeInv
<1>2. CASE hash.status = "absent"
    BY <1>1, <1>2 DEF WithAuthority, Hash, Standing
<1>3. CASE hash.status # "absent"
    BY <1>1, <1>3 DEF WithAuthority, Hash, Standing
<1> QED
    BY <1>2, <1>3

LEMMA OnwardMoves ==
    ASSUME TypeInv, IInv, ~rebuilt, NEW s \in Slots, Onward(s), Standing, row' = row,
           order' = order, refunded' = refunded, asked' = asked, rebuilt' = rebuilt
    PROVE  Moves(s)
<1>0. \/ hash'.status = hash.status /\ hash'.leader = hash.leader
      \/ hash'.status \in {"absent", "bare"}
    BY DEF Standing, Gone
<1>1. Knows(job'[s], hash')
    <2>1. CASE job'[s] = Idle
        BY <2>1 DEF Idle, Knows, FinishKinds
    <2>2. CASE job'[s] # Idle
        <3>1. Knows(job[s], hash)
            BY DEF IInv, Agreed
        <3> QED
            BY <1>0, <2>2, <3>1 DEF Onward, Knows
    <2> QED
        BY <2>1, <2>2
<1>2. Idle.kind = "none" /\ Idle.winner = 0 /\ "none" \notin Late
    BY DEF Idle, Late, FinishKinds
<1> QED
    BY <1>0, <1>1, <1>2 DEF Moves, Starts, Onward, IInv, NothingYet, Standing, Gone

LEMMA OnwardSteps ==
    ASSUME TypeInv, IInv, ~rebuilt, NEW s \in Slots,
           \/ Crash(s) \/ ScheduleEnd(s) \/ ScheduleFails(s) \/ SetRoom(s) \/ SetRoomFails(s)
           \/ UndoRedis(s) \/ SaveFails(s) \/ ClearRoom(s) \/ ClearRoomFails(s)
           \/ FindRow(s) \/ CleanRedis(s) \/ CreateOrderFails(s)
           \/ DeclareReady(s) \/ Protect(s)
    PROVE  Moves(s)
<1> USE NextJob
<1>1. CASE Crash(s)
    BY <1>1, OnwardMoves DEF Crash, Onward, Standing, redis, mysql, world
<1>2. CASE ScheduleEnd(s) \/ ScheduleFails(s)
    BY <1>2, OnwardMoves DEF ScheduleEnd, ScheduleFails, MayBecome, At, Onward, Standing, mysql, world,
                             FinishKinds
<1>3. CASE SetRoom(s) \/ SetRoomFails(s)
    BY <1>3, OnwardMoves DEF SetRoom, SetRoomFails, At, Onward, Standing, redis, mysql, world, FinishKinds
<1>4. CASE UndoRedis(s)
    BY <1>4, OnwardMoves DEF UndoRedis, MayBecome, Onward, Standing, mysql, world
<1>5. CASE SaveFails(s)
    BY <1>5, OnwardMoves DEF SaveFails, Onward, Standing, redis, mysql, world, FinishKinds
<1>6. CASE ClearRoom(s) \/ ClearRoomFails(s)
    BY <1>6, OnwardMoves DEF ClearRoom, ClearRoomFails, At, Onward, Standing, redis, mysql, world,
                             FinishKinds, Told
<1>7. CASE FindRow(s)
    BY <1>7, OnwardMoves DEF FindRow, At, Onward, Standing, redis, mysql, world, FinishKinds, Told
<1>8. CASE CleanRedis(s)
    BY <1>8, OnwardMoves DEF CleanRedis, AfterClean, At, Onward, Standing, mysql, world, FinishKinds, Told
<1>9. CASE CreateOrderFails(s)
    BY <1>9, OnwardMoves DEF CreateOrderFails, AfterOrder, At, Onward, Standing, redis, mysql, world,
                             FinishKinds, Told
<1>10. CASE DeclareReady(s) \/ Protect(s)
    <2>1. job[s].kind = "view" /\ ~Unstarted
        BY <1>10 DEF DeclareReady, Protect, At, IInv, NothingYet, Late
    <2>2. Standing
        BY <1>10, <2>1, AuthorityStands DEF DeclareReady, Protect, MayBecome, Standing
    <2> QED
        BY <1>10, <2>1, <2>2, OnwardMoves DEF DeclareReady, Protect, Onward, mysql, world,
                                              FinishKinds
<1> QED
    BY <1>1, <1>2, <1>3, <1>4, <1>5, <1>6, <1>7, <1>8, <1>9, <1>10

\* The handlers begin.
LEMMA BeginningMoves ==
    ASSUME TypeInv, IInv, ~rebuilt, NEW s \in Slots,
           \/ ViewBegins(s) \/ ReadLog(s)
           \/ PlaceCapBid(s) \/ SettleDue(s) \/ FallbackLists(s) \/ ScanCompensation(s)
           \/ \E kind \in MerchantKinds \ {"start"} : MerchantAsks(s, kind)
    PROVE  Moves(s)
<1> USE NextJob
<1>0. hash.status = "ongoing" \/ row.status \in {"ongoing", "ended"} => ~Unstarted
    BY DEF IInv, NothingYet
<1>00. hash \in Hash
    BY DEF TypeInv
<1>1. CASE PlaceCapBid(s)
    <2>1. /\ hash'.status = "ended" /\ hash'.leader = bids + 1 /\ hash.status = "ongoing"
          /\ row' = row /\ order' = order /\ refunded' = refunded /\ asked' = asked
          /\ rebuilt' = rebuilt
        BY <1>00, <1>1 DEF PlaceCapBid, Open, Hash, mysql
    <2>2. /\ \A t \in Slots \ {s} : job'[t] = job[t]
          /\ job'[s].winner = bids + 1
          /\ \/ job'[s].kind = "cap" /\ job'[s].at = "find"
             \/ job'[s].kind = "capOffline" /\ job'[s].at = "clean"
        BY <1>1 DEF PlaceCapBid
    <2> QED
        BY <1>0, <2>1, <2>2 DEF Moves, Starts, Knows
<1>2. CASE SettleDue(s)
    <2>1. /\ hash'.status = "ended" /\ hash'.leader = hash.leader /\ hash.status = "ongoing"
          /\ row' = row /\ order' = order /\ refunded' = refunded /\ asked' = asked
          /\ rebuilt' = rebuilt
        BY <1>00, <1>2 DEF SettleDue, Due, Hash, mysql, world
    <2>2. /\ \A t \in Slots \ {s} : job'[t] = job[t]
          /\ job'[s].winner = hash.leader /\ job'[s].kind = "settle" /\ job'[s].at = "find"
        BY <1>2 DEF SettleDue
    <2> QED
        BY <1>0, <2>1, <2>2 DEF Moves, Starts, Knows
<1>3. CASE FallbackLists(s)
    <2>1. /\ \A t \in Slots \ {s} : job'[t] = job[t]
          /\ job'[s].winner = 0 /\ job'[s].kind = "fallback" /\ job'[s].at = "state"
        BY <1>3 DEF FallbackLists
    <2> QED
        BY <1>0, <1>3, <2>1 DEF FallbackLists, Moves, Starts, Knows, Told, redis, mysql, world
<1>4. CASE ScanCompensation(s)
    <2>1. /\ \A t \in Slots \ {s} : job'[t] = job[t]
          /\ job'[s].winner = row.winner /\ job'[s].kind = "compensate" /\ job'[s].at = "order"
        BY <1>4 DEF ScanCompensation
    <2> QED
        BY <1>0, <1>4, <2>1 DEF ScanCompensation, LacksOrder, Moves, Starts, Knows, FinishKinds, redis,
                                mysql, world
<1>5. ASSUME NEW kind \in MerchantKinds \ {"start"}, MerchantAsks(s, kind)
      PROVE  Moves(s)
    <2>1. /\ \A t \in Slots \ {s} : job'[t] = job[t]
          /\ job'[s].winner = row.winner /\ job'[s].kind = kind
          /\ job'[s].at = FirstCommand(kind)
        BY <1>5 DEF MerchantAsks
    <2>2. asked'["start"] = asked["start"]
        BY <1>5 DEF MerchantAsks, Asks, TypeInv, RequestKinds, MerchantKinds
    <2>3. kind \notin Late /\ kind # "start" /\ Knows(job'[s], hash')
        BY <2>1 DEF Knows, FirstCommand, Late, FinishKinds, MerchantKinds
    <2> QED
        BY <1>5, <2>1, <2>2, <2>3 DEF MerchantAsks, Moves, Starts, IInv, NothingYet, redis, mysql
<1>6. CASE ViewBegins(s)
    <2>1. /\ job'[s].winner = 0 /\ job'[s].kind = "view" /\ job'[s].at = "read"
          /\ \A t \in Slots \ {s} : job'[t] = job[t]
        BY <1>6 DEF ViewBegins
    <2>2. asked'["start"] = asked["start"]
        BY <1>6 DEF ViewBegins, Asks, TypeInv, RequestKinds, MerchantKinds
    <2>3. row.status = "ongoing" /\ UNCHANGED <<hash, row, order, refunded, rebuilt>>
        BY <1>6 DEF ViewBegins, redis, mysql
    <2>4. Knows(job'[s], hash')
        BY <2>1 DEF Knows, FinishKinds
    <2> QED
        BY <1>0, <2>1, <2>2, <2>3, <2>4 DEF Moves, Starts
<1>7. CASE ReadLog(s)
    <2>1. PICK b \in 0..bids : job' = [job EXCEPT ![s].at = "rewrite", ![s].winner = b]
        BY <1>7 DEF ReadLog
    <2>2. job[s].kind = "view" /\ row.status = "ongoing"
          /\ UNCHANGED <<hash, row, order, refunded, asked, rebuilt>>
        BY <1>7 DEF ReadLog, At, redis, mysql, world
    <2>3. /\ job'[s].kind = "view" /\ job'[s].at = "rewrite"
          /\ \A t \in Slots \ {s} : job'[t] = job[t]
        BY <2>1, <2>2
    <2>4. Knows(job'[s], hash')
        BY <2>3 DEF Knows, FinishKinds
    <2> QED
        BY <1>0, <2>2, <2>3, <2>4 DEF Moves, Starts
<1> QED
    BY <1>1, <1>2, <1>3, <1>4, <1>5, <1>6, <1>7

\* The handlers that save the row, order, refund and take the end on.
LEMMA FinishingMoves ==
    ASSUME TypeInv, IInv, ~rebuilt, NEW s \in Slots,
           \/ DeleteRow(s) \/ SaveRow(s) \/ CreateOrder(s) \/ RefundNonWinners(s)
           \/ FallbackReads(s) \/ FallbackClaims(s)
    PROVE  Moves(s)
<1> USE NextJob
<1>0. Knows(job[s], hash) /\ (job[s].kind \in Late => ~Unstarted)
    BY DEF IInv, Agreed, NothingYet
<1>00. hash \in Hash /\ row \in Row
    BY DEF TypeInv
<1>000. Idle.kind = "none" /\ Idle.winner = 0 /\ Idle.at = "none" /\ "none" \notin Late
        /\ "none" \notin FinishKinds
    BY DEF Idle, Late, FinishKinds
<1>0000. FinishKinds \subseteq Late /\ "start" \notin Late
    BY DEF Late, FinishKinds
<1>1. CASE DeleteRow(s)
    <2>1. row'.status = "deleted" /\ row'.winner = row.winner
        BY <1>00, <1>1 DEF DeleteRow, Row
    <2>2. RowAgreesWithSnapshot'
        BY <2>1 DEF RowAgreesWithSnapshot
    <2> QED
        BY <1>000, <1>1, <2>1, <2>2 DEF DeleteRow, At, Moves, Starts, Knows, IInv, Agreed, NothingYet, redis,
                                        world
<1>2. CASE SaveRow(s)
    <2>1. row'.status = StatusSaved(job[s].kind) /\ row'.winner = job[s].winner
          /\ hash' = hash /\ order' = order /\ refunded' = refunded /\ asked' = asked /\ rebuilt' = rebuilt
          /\ job[s].at = "save"
        BY <1>2 DEF SaveRow, redis, world
    <2>2. /\ \A t \in Slots \ {s} : job'[t] = job[t]
          /\ \/ job[s].kind \in {"update", "publish"} /\ job'[s] = Idle
             \/ /\ job'[s].at = "room" /\ job'[s].kind = job[s].kind
                /\ job'[s].winner = job[s].winner
        BY <1>2 DEF SaveRow
    <2>3. job[s].kind \in FinishKinds \cup {"update", "publish", "start", "cancel"}
        BY <1>0, <2>1 DEF Knows
    <2>4. RowAgreesWithSnapshot'
        BY <1>0, <2>1, <2>3 DEF RowAgreesWithSnapshot, Knows, StatusSaved, Told
    <2>5. job[s].kind = "start" => ~Unstarted
        BY <2>1 DEF IInv, Agreed, OneStart, Unstarted, At
    <2>6. row'.status \in {"ongoing", "ended"} => ~Unstarted
        BY <1>0, <1>0000, <2>1, <2>3, <2>5 DEF StatusSaved
    <2>7. Knows(job'[s], hash')
        BY <1>0, <1>000, <2>1, <2>2 DEF Knows, Told
    <2>8. job[s].kind # "view"
        BY <2>3 DEF FinishKinds
    <2> QED
        BY <1>0, <1>000, <2>1, <2>2, <2>4, <2>6, <2>7, <2>8 DEF Moves, Starts, IInv, NothingYet
<1>3. CASE CreateOrder(s)
    <2>1. /\ hash' = hash /\ row' = row /\ refunded' = refunded /\ asked' = asked /\ rebuilt' = rebuilt
          /\ order' \in {order, job[s].winner} /\ job[s].at = "order"
          /\ job[s].kind \in FinishKinds \cup {"compensate"}
        BY <1>3 DEF CreateOrder, At, redis, world
    <2>2. /\ \A t \in Slots \ {s} : job'[t] = job[t]
          /\ \/ job'[s] = Idle
             \/ /\ job'[s].at = "refund" /\ job'[s].kind = job[s].kind
                /\ job'[s].winner = job[s].winner
        BY <1>3 DEF CreateOrder, AfterOrder
    <2>3. Knows(job'[s], hash')
        BY <1>0, <1>000, <2>1, <2>2 DEF Knows, Told
    <2>4. ~Unstarted /\ job[s].kind \notin {"start", "view"}
        BY <1>0, <2>1 DEF Late, FinishKinds
    <2> QED
        BY <1>000, <2>1, <2>2, <2>3, <2>4 DEF Moves, Starts
<1>4. CASE RefundNonWinners(s)
    <2>1. /\ hash' = hash /\ row' = row /\ order' = order /\ asked' = asked /\ rebuilt' = rebuilt
          /\ refunded' \subseteq refunded \cup Losers(job[s].winner)
          /\ job[s].at = "refund" /\ job[s].kind \in FinishKinds
        BY <1>4 DEF RefundNonWinners, At, redis, world
    <2>2. job'[s] = Idle /\ \A t \in Slots \ {s} : job'[t] = job[t]
        BY <1>4 DEF RefundNonWinners
    <2>3. hash.status # "ongoing" /\ (hash.status = "ended" => job[s].winner = hash.leader)
        BY <1>0, <2>1 DEF Knows, Told
    <2>4. hash.status = "ended" => hash.leader \notin refunded'
        BY <2>1, <2>3 DEF Losers, IInv, Agreed, Deposits
    <2> QED
        BY <1>0, <1>000, <1>0000, <2>1, <2>2, <2>3, <2>4 DEF Moves, Starts, Knows
<1>5. CASE FallbackReads(s)
    <2>1. /\ hash' = hash /\ row' = row /\ order' = order /\ refunded' = refunded
          /\ asked' = asked /\ rebuilt' = rebuilt /\ job[s].at = "state" /\ job[s].kind = "fallback"
        BY <1>5 DEF FallbackReads, At, redis, mysql, world
    <2>2. /\ \A t \in Slots \ {s} : job'[t] = job[t]
          /\ \/ job'[s] = Idle
             \/ job'[s].kind = "fallback" /\ job'[s].winner = job[s].winner
                /\ \/ hash.status \in {"absent", "bare"} /\ job'[s].at = "find"
                   \/ job'[s].at = "claim"
             \/ job'[s].kind = "fallback" /\ job'[s].at = "find"
                /\ hash.status = "ended" /\ job'[s].winner = hash.leader
        <3> DEFINE Others == \A t \in Slots \ {s} : job'[t] = job[t]
        <3>1. FallbackDecides(s)
            BY <1>5 DEF FallbackReads
        <3>2. CASE hash.status \in {"absent", "bare"} /\ Goes(s, "find")
            <4>1. Others /\ job'[s].at = "find" /\ job'[s].kind = "fallback"
                  /\ job'[s].winner = job[s].winner
                BY <2>1, <3>2
            <4> QED
                BY <3>2, <4>1
        <3>3. CASE Ends(s)
            BY <3>3
        <3>4. CASE Goes(s, "claim")
            <4>1. Others /\ job'[s].at = "claim" /\ job'[s].kind = "fallback"
                  /\ job'[s].winner = job[s].winner
                BY <2>1, <3>4
            <4> QED
                BY <4>1
        <3>5. CASE /\ hash.status = "ended"
                   /\ job' = [job EXCEPT ![s].at = "find", ![s].winner = hash.leader]
            <4>1. Others /\ job'[s].at = "find" /\ job'[s].kind = "fallback"
                  /\ job'[s].winner = hash.leader
                BY <2>1, <3>5
            <4> QED
                BY <3>5, <4>1
        <3> QED
            BY <3>1, <3>2, <3>3, <3>4, <3>5 DEF FallbackDecides
    <2>3. Knows(job'[s], hash')
        BY <1>000, <2>1, <2>2 DEF Knows, Told
    <2>4. ~Unstarted
        BY <1>0, <2>1 DEF Late, FinishKinds
    <2> QED
        BY <1>000, <2>1, <2>2, <2>3, <2>4 DEF Moves, Starts
<1>6. CASE FallbackClaims(s)
    <2>1. /\ row' = row /\ order' = order /\ refunded' = refunded
          /\ asked' = asked /\ rebuilt' = rebuilt /\ job[s].at = "claim" /\ job[s].kind = "fallback"
        BY <1>6 DEF FallbackClaims, At, mysql, world
    <2>2. ~Unstarted
        BY <1>0, <2>1 DEF Late, FinishKinds
    <2>3. CASE Due
        <3>1. hash.status = "ongoing" /\ hash' = [hash EXCEPT !.status = "ended"]
              /\ job' = [job EXCEPT ![s].at = "find", ![s].winner = hash.leader]
            BY <1>6, <2>3 DEF FallbackClaims, Due
        <3>2. hash'.status = "ended" /\ hash'.leader = hash.leader
            BY <1>00, <3>1 DEF Hash
        <3>3. /\ job'[s].kind = "fallback" /\ job'[s].at = "find"
              /\ job'[s].winner = hash.leader /\ \A t \in Slots \ {s} : job'[t] = job[t]
            BY <2>1, <3>1
        <3> QED
            BY <2>1, <2>2, <3>1, <3>2, <3>3 DEF Moves, Starts, Knows
    <2>4. CASE ~Due
        <3>1. hash' = hash /\ job'[s] = Idle /\ \A t \in Slots \ {s} : job'[t] = job[t]
            BY <1>6, <2>4 DEF FallbackClaims
        <3> QED
            BY <1>000, <2>1, <2>2, <3>1 DEF Moves, Starts, Knows
    <2> QED
        BY <2>3, <2>4
<1> QED
    BY <1>1, <1>2, <1>3, <1>4, <1>5, <1>6

\* The steps that are no handler's, and those of a start.
LEMMA OthersKeep ==
    ASSUME TypeInv, TypeInv', IInv,
           PlaceBid \/ HashExpires \/ Tick \/ UNCHANGED vars
    PROVE  IInv'
<1>1. hash \in Hash
    BY DEF TypeInv
<1>2. /\ UNCHANGED <<row, order, refunded, job, rebuilt, asked>>
      /\ \/ hash' = hash
         \/ hash' = Gone
         \/ hash.status = "ongoing" /\ hash'.status = "ongoing"
    BY <1>1 DEF PlaceBid, Open, HashExpires, Tick, vars, Hash, redis, mysql, world
<1>3. Unstarted' = Unstarted
    BY <1>2 DEF Unstarted, At
<1>4. OneStart' /\ (Unstarted => NothingYet)'
    BY <1>2, <1>3 DEF IInv, OneStart, NothingYet, Gone
<1>5. CASE rebuilt
    BY <1>2, <1>4, <1>5 DEF IInv
<1>6. CASE ~rebuilt
    <2>1. ASSUME NEW s \in Slots PROVE Knows(job'[s], hash')
        <3>1. Knows(job[s], hash) /\ job'[s] = job[s]
            BY <1>2, <1>6 DEF IInv, Agreed
        <3> QED
            BY <1>2, <3>1 DEF Knows, Gone
    <2>2. RowAgreesWithSnapshot' /\ Deposits'
        BY <1>2, <1>6 DEF IInv, Agreed, RowAgreesWithSnapshot, Deposits, Gone
    <2>3. PICK w \in 0..MaxBids : Names(w)
        BY <1>6 DEF IInv, Agreed
    <2>4. Names(w)'
        BY <1>2, <1>3, <2>3 DEF Names, Gone
    <2>5. (\E v \in 0..MaxBids : Names(v))'
        BY <2>4
    <2> QED
        BY <1>4, <2>1, <2>2, <2>5 DEF IInv, Agreed
<1> QED
    BY <1>5, <1>6

LEMMA AskedOnce ==
    ASSUME StartedOnce, TypeInv, Asks("start")
    PROVE  asked["start"] = 0 /\ asked'["start"] = 1
<1>1. "start" \in RequestKinds
    BY DEF RequestKinds, MerchantKinds
<1>2. asked["start"] \in Nat /\ MaxAsked["start"] \in Nat /\ asked["start"] < MaxAsked["start"]
    BY <1>1, BoundsAssumption DEF Asks, TypeInv
<1>3. asked'["start"] = asked["start"] + 1
    BY <1>1 DEF Asks, TypeInv
<1> QED
    BY <1>2, <1>3 DEF StartedOnce

LEMMA StartKeeps ==
    ASSUME StartedOnce, TypeInv, TypeInv', IInv, NEW s \in Slots,
           MerchantAsks(s, "start") \/ InitHash(s)
    PROVE  IInv'
<1> USE NextJob
<1>1. UNCHANGED <<row, order, refunded>>
    BY DEF MerchantAsks, InitHash, mysql
<1>2. Unstarted /\ NothingYet /\ Agreed
    <2>1. MerchantAsks(s, "start") => asked["start"] = 0
        BY AskedOnce DEF MerchantAsks
    <2>2. Unstarted
        BY <2>1 DEF InitHash, Unstarted
    <2> QED
        BY <2>2 DEF IInv, NothingYet
<1>3. PICK w \in 0..MaxBids : Names(w) /\ w = 0
    BY <1>2 DEF Agreed, Names
<1>4. CASE MerchantAsks(s, "start")
    <2>1. /\ hash' = hash /\ asked["start"] = 0 /\ asked'["start"] = 1
        BY <1>4, AskedOnce DEF MerchantAsks, redis
    <2>2. /\ \A t \in Slots \ {s} : job'[t] = job[t]
          /\ job'[s].kind = "start" /\ job'[s].at = "init" /\ job'[s].winner = row.winner
        BY <1>4 DEF MerchantAsks, FirstCommand
    <2>3. OneStart'
        BY <2>1, <2>2 DEF IInv, OneStart
    <2>4. NothingYet'
        BY <1>1, <1>2, <1>4, <2>1, <2>2 DEF MerchantAsks, NothingYet, Late, FinishKinds
    <2>5. \A t \in Slots : Knows(job'[t], hash')
        BY <1>2, <2>1, <2>2 DEF Agreed, Knows, FinishKinds
    <2>6. RowAgreesWithSnapshot' /\ Deposits'
        BY <1>1, <1>2, <1>4, <2>1 DEF MerchantAsks, Agreed, RowAgreesWithSnapshot, Deposits
    <2>7. Names(w)'
        BY <1>1, <1>2, <1>3, <2>1, <2>2 DEF Names, NothingYet
    <2>8. (\E v \in 0..MaxBids : Names(v))'
        BY <2>7
    <2> QED
        BY <2>3, <2>4, <2>5, <2>6, <2>8 DEF IInv, Agreed
<1>5. CASE InitHash(s)
    <2>1. /\ hash'.status = "ongoing" /\ hash'.leader = 0 /\ asked' = asked
          /\ job[s].kind = "start" /\ job[s].at = "init"
        BY <1>5 DEF InitHash, OpenFor, At, world
    <2>2. /\ \A t \in Slots \ {s} : job'[t] = job[t]
          /\ job'[s].kind = "start" /\ job'[s].at = "schedule" /\ job'[s].winner = job[s].winner
        BY <1>5, <2>1 DEF InitHash
    <2>3. OneStart' /\ ~Unstarted'
        BY <2>1, <2>2 DEF IInv, OneStart, Unstarted, At
    <2>4. \A t \in Slots : Knows(job'[t], hash')
        BY <1>2, <2>1, <2>2 DEF Agreed, Knows, FinishKinds, NothingYet, Late
    <2>5. RowAgreesWithSnapshot' /\ Deposits'
        BY <1>1, <1>2, <2>1 DEF RowAgreesWithSnapshot, Deposits, NothingYet
    <2>6. Names(w)'
        BY <1>1, <1>2, <1>3, <2>1, <2>2 DEF Names
    <2>7. (\E v \in 0..MaxBids : Names(v))'
        BY <2>6
    <2> QED
        BY <2>3, <2>4, <2>5, <2>7 DEF IInv, Agreed
<1> QED
    BY <1>4, <1>5

\* A step of a handler never gives a rebuild a bid that was not accepted.
Views(s) ==
    job'[s].kind = "view" =>
        \/ job'[s].winner <= bids
        \/ job[s].kind = "view" /\ job'[s].winner = job[s].winner

LEMMA HandlerSteps ==
    ASSUME TypeInv, NEW s \in Slots,
           \/ \E kind \in MerchantKinds \ {"start"} : MerchantAsks(s, kind)
           \/ ViewBegins(s) \/ PlaceCapBid(s) \/ SettleDue(s) \/ FallbackLists(s)
           \/ ScanCompensation(s) \/ JobStep(s) \/ Crash(s)
    PROVE  Starts(s) /\ Views(s)
<1> USE NextJob
<1>0. Idle.kind = "none"
    BY DEF Idle
<1>1. ASSUME NEW kind \in MerchantKinds \ {"start"}, MerchantAsks(s, kind)
      PROVE  Starts(s) /\ Views(s)
    <2>1. job'[s].kind = kind /\ \A t \in Slots \ {s} : job'[t] = job[t]
        BY <1>1 DEF MerchantAsks
    <2>2. asked'["start"] = asked["start"]
        BY <1>1 DEF MerchantAsks, Asks, TypeInv, RequestKinds, MerchantKinds
    <2> QED
        BY <2>1, <2>2 DEF Starts, Views, MerchantKinds
<1>2. CASE ViewBegins(s)
    <2>1. job'[s].kind = "view" /\ job'[s].winner = 0 /\ \A t \in Slots \ {s} : job'[t] = job[t]
        BY <1>2 DEF ViewBegins
    <2>2. asked'["start"] = asked["start"] /\ 0 <= bids
        BY <1>2, BoundsAssumption DEF ViewBegins, Asks, TypeInv, RequestKinds, MerchantKinds
    <2> QED
        BY <2>1, <2>2 DEF Starts, Views
<1>3. CASE PlaceCapBid(s) \/ SettleDue(s) \/ FallbackLists(s) \/ ScanCompensation(s)
    BY <1>3 DEF PlaceCapBid, SettleDue, FallbackLists, ScanCompensation, Starts, Views, world
<1>4. CASE Crash(s)
    BY <1>0, <1>4 DEF Crash, Starts, Views, world
<1>5. CASE StartStep(s)
    <2>1. job'[s] = Idle \/ (job'[s].kind = job[s].kind /\ job'[s].at \in {"schedule", "save", "undo"})
        BY <1>5 DEF StartStep, InitHash, ScheduleEnd, ScheduleFails, SetRoom, SetRoomFails, UndoRedis
    <2>2. \A t \in Slots \ {s} : job'[t] = job[t]
        BY <1>5 DEF StartStep, InitHash, ScheduleEnd, ScheduleFails, SetRoom, SetRoomFails, UndoRedis
    <2>3. asked' = asked /\ job[s].kind \in {"start", "cancel"}
        BY <1>5 DEF StartStep, InitHash, ScheduleEnd, ScheduleFails, SetRoom, SetRoomFails,
                    UndoRedis, At, world
    <2> QED
        BY <1>0, <2>1, <2>2, <2>3 DEF Starts, Views
<1>6. CASE ReadLog(s)
    <2>1. PICK b \in 0..bids : job' = [job EXCEPT ![s].at = "rewrite", ![s].winner = b]
        BY <1>6 DEF ReadLog
    <2>2. job[s].kind = "view" /\ asked' = asked
        BY <1>6 DEF ReadLog, At, world
    <2>4. /\ job'[s].kind = "view" /\ job'[s].winner = b
           /\ \A t \in Slots \ {s} : job'[t] = job[t]
        BY <2>1, <2>2
    <2>3. b <= bids
        BY BoundsAssumption DEF TypeInv
    <2> QED
        BY <2>2, <2>3, <2>4 DEF Starts, Views
<1>7. CASE RewriteHash(s) \/ DeclareReady(s) \/ Protect(s)
    BY <1>0, <1>7 DEF RewriteHash, DeclareReady, Protect, At, Starts, Views, world
<1>8. CASE RowStep(s)
    BY <1>0, <1>8 DEF RowStep, DeleteRow, SaveRow, SaveFails, ClearRoom, ClearRoomFails, At,
                      Starts, Views, world
<1>9. CASE FallbackReads(s)
    <2>1. job[s].kind = "fallback" /\ asked' = asked /\ FallbackDecides(s)
        BY <1>9 DEF FallbackReads, At, world
    <2>2. job'[s].kind \in {"fallback", "none"} /\ \A t \in Slots \ {s} : job'[t] = job[t]
        BY <1>0, <2>1 DEF FallbackDecides
    <2> QED
        BY <2>1, <2>2 DEF Starts, Views
<1>10. CASE FallbackClaims(s)
    <2>1. job[s].kind = "fallback" /\ asked' = asked
        BY <1>10 DEF FallbackClaims, At, world
    <2>2. job'[s].kind \in {"fallback", "none"} /\ \A t \in Slots \ {s} : job'[t] = job[t]
        BY <1>0, <1>10, <2>1 DEF FallbackClaims
    <2> QED
        BY <2>1, <2>2 DEF Starts, Views
<1>11. CASE FindRow(s) \/ CleanRedis(s) \/ CreateOrder(s) \/ CreateOrderFails(s)
            \/ RefundNonWinners(s)
    <2>1. job'[s] = Idle \/ (job'[s].kind = job[s].kind /\ job'[s].at \in {"save", "order", "refund"})
        BY <1>11 DEF FindRow, CleanRedis, AfterClean, CreateOrder, CreateOrderFails, AfterOrder,
                     RefundNonWinners
    <2>2. \A t \in Slots \ {s} : job'[t] = job[t]
        BY <1>11 DEF FindRow, CleanRedis, AfterClean, CreateOrder, CreateOrderFails, AfterOrder,
                     RefundNonWinners
    <2>3. asked' = asked /\ job[s].kind \in FinishKinds \cup {"capOffline", "compensate"}
        BY <1>11 DEF FindRow, CleanRedis, CreateOrder, CreateOrderFails, RefundNonWinners, At,
                     world
    <2> QED
        BY <1>0, <2>1, <2>2, <2>3 DEF Starts, Views, FinishKinds
<1> QED
    BY <1>1, <1>2, <1>3, <1>4, <1>5, <1>6, <1>7, <1>8, <1>9, <1>10, <1>11
       DEF JobStep, ViewStep, FinishStep

\* With the hash rewritten, no more is kept than that the item was started.
LEMMA RebuiltKeeps ==
    ASSUME TypeInv, IInv, ~Unstarted, rebuilt', NEW s \in Slots, Starts(s)
    PROVE  IInv'
<1>1. OneStart'
    BY DEF Starts, IInv, OneStart
<1>2. ~Unstarted'
    BY DEF Starts, Unstarted, At
<1> QED
    BY <1>1, <1>2 DEF IInv

LEMMA Preserved == StartedOnce /\ TypeInv /\ TypeInv' /\ IInv /\ [Next]_vars => IInv'
<1> SUFFICES ASSUME StartedOnce, TypeInv, TypeInv', IInv, [Next]_vars PROVE IInv'
    OBVIOUS
<1>1. CASE PlaceBid \/ HashExpires \/ Tick \/ UNCHANGED vars
    BY <1>1, OthersKeep
<1>2. ASSUME NEW s \in Slots, MerchantAsks(s, "start") \/ InitHash(s)
      PROVE  IInv'
    BY <1>2, StartKeeps
<1>3. ASSUME NEW s \in Slots, RewriteHash(s)
      PROVE  IInv'
    <2>1. rebuilt' /\ ~Unstarted
        BY <1>3 DEF RewriteHash, At, IInv, NothingYet, Late
    <2> QED
        BY <1>3, <2>1, HandlerSteps, RebuiltKeeps DEF JobStep, ViewStep
<1>4. ASSUME NEW s \in Slots, ~InitHash(s), ~RewriteHash(s),
             \/ \E kind \in MerchantKinds \ {"start"} : MerchantAsks(s, kind)
             \/ ViewBegins(s) \/ PlaceCapBid(s) \/ SettleDue(s) \/ FallbackLists(s)
             \/ ScanCompensation(s) \/ JobStep(s) \/ Crash(s)
      PROVE  IInv'
    <2>1. CASE rebuilt
        <3>1. ~Unstarted
            BY <2>1 DEF IInv, NothingYet
        <3>2. rebuilt'
            BY <1>4, <2>1
               DEF MerchantAsks, ViewBegins, PlaceCapBid, SettleDue, FallbackLists,
                   ScanCompensation, Crash, JobStep, StartStep, ScheduleEnd, ScheduleFails,
                   SetRoom, SetRoomFails, UndoRedis, ViewStep, ReadLog, DeclareReady, Protect,
                   RowStep, DeleteRow, SaveRow, SaveFails, ClearRoom, ClearRoomFails, FinishStep,
                   FallbackReads, FallbackClaims, FindRow, CleanRedis, CreateOrder,
                   CreateOrderFails, RefundNonWinners, world
        <3> QED
            BY <1>4, <3>1, <3>2, HandlerSteps, RebuiltKeeps
    <2>2. CASE ~rebuilt
        <3>1. Moves(s)
            BY <1>4, <2>2, BeginningMoves, OnwardSteps, FinishingMoves
               DEF JobStep, StartStep, ViewStep, RowStep, FinishStep
        <3> QED
            BY <2>2, <3>1, MovesKeep
    <2> QED
        BY <2>1, <2>2
<1> QED
    BY <1>1, <1>2, <1>3, <1>4 DEF Next

-----------------------------------------------------------------------------
(* The hash, once made, goes one way.                                      *)

\* A leader is one of the bids accepted so far, and so is the one a rebuild
\* has found in the log.
Counted ==
    /\ hash.leader <= bids
    /\ \A s \in Slots : job[s].kind = "view" => job[s].winner <= bids

\* Another authority and nothing else.
Reauthorised ==
    \/ \E r \in BOOLEAN : hash' = [hash EXCEPT !.ready = r]
    \/ hash.status = "absent" /\ hash'.status = "bare" /\ hash'.leader = hash.leader

LEMMA AuthorityChanges ==
    ASSUME TypeInv, NEW s \in Slots, DeclareReady(s) \/ Protect(s)
    PROVE  (hash' = hash \/ Reauthorised) /\ bids' = bids
<1>1. ASSUME NEW ready \in BOOLEAN, hash' = WithAuthority(ready)
      PROVE  Reauthorised
    <2>1. hash \in Hash
        BY DEF TypeInv
    <2>2. CASE hash.status = "absent"
        BY <1>1, <2>1, <2>2 DEF WithAuthority, Hash, Reauthorised
    <2>3. CASE hash.status # "absent"
        <3>1. hash' = [hash EXCEPT !.ready = ready]
            BY <1>1, <2>1, <2>3 DEF WithAuthority, Hash
        <3> QED
            BY <3>1 DEF Reauthorised
    <2> QED
        BY <2>2, <2>3
<1>2. hash' = hash \/ hash' = WithAuthority(TRUE) \/ hash' = WithAuthority(FALSE)
    BY DEF DeclareReady, Protect, MayBecome
<1>3. bids' = bids
    BY DEF DeclareReady, Protect, world
<1> QED
    BY <1>1, <1>2, <1>3

LEMMA HashSteps ==
    ASSUME TypeInv, IInv, [Next]_vars
    PROVE  \/ hash' = hash /\ bids' = bids
           \/ hash' = Gone /\ bids' = bids
           \/ Reauthorised /\ bids' = bids
           \/ hash.status = "absent" /\ hash'.leader = 0 /\ bids' = bids
           \/ Rewrites
           \/ /\ hash.status = "ongoing"
              /\ \/ hash'.leader = hash.leader /\ bids' = bids
                 \/ hash'.leader = bids + 1 /\ bids' = bids + 1
<1>0. hash \in Hash
    BY DEF TypeInv
<1>1. CASE PlaceBid
    BY <1>0, <1>1 DEF PlaceBid, Open, Hash
<1>2. CASE HashExpires \/ Tick \/ UNCHANGED vars
    BY <1>2 DEF HashExpires, Tick, vars, world, redis
<1>3. ASSUME NEW s \in Slots, NEW kind \in MerchantKinds, MerchantAsks(s, kind)
      PROVE  hash' = hash /\ bids' = bids
    BY <1>3 DEF MerchantAsks, redis
<1>4. ASSUME NEW s \in Slots, PlaceCapBid(s)
      PROVE  hash.status = "ongoing" /\ hash'.leader = bids + 1 /\ bids' = bids + 1
    BY <1>0, <1>4 DEF PlaceCapBid, Open, Hash
<1>5. ASSUME NEW s \in Slots, SettleDue(s)
      PROVE  hash.status = "ongoing" /\ hash'.leader = hash.leader /\ bids' = bids
    BY <1>0, <1>5 DEF SettleDue, Due, Hash, world
<1>6. ASSUME NEW s \in Slots,
             FallbackLists(s) \/ ScanCompensation(s) \/ Crash(s) \/ ViewBegins(s) \/ ReadLog(s)
      PROVE  hash' = hash /\ bids' = bids
    BY <1>6 DEF FallbackLists, ScanCompensation, Crash, ViewBegins, ReadLog, redis, world
<1>7. ASSUME NEW s \in Slots, InitHash(s)
      PROVE  hash.status = "absent" /\ hash'.leader = 0 /\ bids' = bids
    BY <1>7 DEF InitHash, OpenFor, IInv, Unstarted, NothingYet, world
<1>8. ASSUME NEW s \in Slots, StartStep(s), ~InitHash(s)
      PROVE  hash' \in {hash, Gone} /\ bids' = bids
    BY <1>8 DEF StartStep, ScheduleEnd, ScheduleFails, SetRoom, SetRoomFails, UndoRedis,
                MayBecome, redis, world
<1>9. ASSUME NEW s \in Slots, RowStep(s)
      PROVE  hash' = hash /\ bids' = bids
    BY <1>9 DEF RowStep, DeleteRow, SaveRow, SaveFails, ClearRoom, ClearRoomFails, redis, world
<1>10. ASSUME NEW s \in Slots, FallbackClaims(s)
       PROVE  \/ hash' = hash /\ bids' = bids
              \/ hash.status = "ongoing" /\ hash'.leader = hash.leader /\ bids' = bids
    BY <1>0, <1>10 DEF FallbackClaims, Due, Hash, world
<1>11. ASSUME NEW s \in Slots, FinishStep(s), ~FallbackClaims(s)
       PROVE  hash' = hash /\ bids' = bids
    BY <1>11 DEF FinishStep, FallbackReads, FindRow, CleanRedis, CreateOrder, CreateOrderFails,
                 RefundNonWinners, redis, world
<1>12. ASSUME NEW s \in Slots, ViewStep(s)
       PROVE  \/ Rewrites
              \/ (hash' = hash \/ Reauthorised) /\ bids' = bids
    BY <1>6, <1>12, AuthorityChanges DEF ViewStep, Rewrites
<1> QED
    BY <1>1, <1>2, <1>3, <1>4, <1>5, <1>6, <1>7, <1>8, <1>9, <1>10, <1>11, <1>12
       DEF Next, JobStep

LEMMA CountedPreserved == TypeInv /\ IInv /\ Counted /\ [Next]_vars => Counted'
<1> SUFFICES ASSUME TypeInv, IInv, Counted, [Next]_vars PROVE Counted'
    OBVIOUS
<1>1. bids \in Nat /\ hash.leader \in Nat
    BY BoundsAssumption DEF TypeInv, Hash
<1>2. CASE Rewrites
    <2>1. PICK s \in Slots : RewriteHash(s)
        BY <1>2 DEF Rewrites
    <2>2. hash'.leader <= bids /\ bids' = bids
        BY <2>1 DEF RewriteHash, OpenFor, At, Counted
    <2>3. Starts(s) /\ Views(s)
        BY <2>1, HandlerSteps DEF JobStep, ViewStep
    <2> QED
        BY <2>2, <2>3 DEF Starts, Views, Counted
<1>3. CASE ~Rewrites
    <2>1. hash'.leader <= bids' /\ bids' \in {bids, bids + 1}
        <3>1. CASE Reauthorised /\ bids' = bids
            <4>1. hash'.leader = hash.leader
                BY <3>1 DEF Reauthorised, TypeInv, Hash
            <4> QED
                BY <1>1, <3>1, <4>1 DEF Counted
        <3> QED
            BY <1>1, <1>3, <3>1, HashSteps DEF Counted, Gone
    <2>2. ASSUME NEW s \in Slots, job'[s].kind = "view", job[s] \in Job
          PROVE  job'[s].winner <= bids \/ (job[s].kind = "view" /\ job'[s].winner = job[s].winner)
        <3>1. CASE PlaceBid \/ HashExpires \/ Tick \/ UNCHANGED vars
            BY <2>2, <3>1 DEF PlaceBid, HashExpires, Tick, vars
        <3>2. ASSUME NEW t \in Slots, MerchantAsks(t, "start")
              PROVE  job'[s] = job[s] \/ job'[s].kind = "start"
            BY <3>2, NextJob DEF MerchantAsks
        <3>3. ASSUME NEW t \in Slots, Starts(t) /\ Views(t)
              PROVE  \/ job'[s].winner <= bids
                     \/ job[s].kind = "view" /\ job'[s].winner = job[s].winner
            BY <2>2, <3>3 DEF Starts, Views
        <3> QED
            BY <2>2, <3>1, <3>2, <3>3, HandlerSteps DEF Next
    <2>3. ASSUME NEW s \in Slots, job'[s].kind = "view"
          PROVE  job'[s].winner <= bids
        BY <2>2, <2>3 DEF Counted, TypeInv
    <2>4. ASSUME NEW s \in Slots, job'[s].kind = "view"
          PROVE  job'[s].winner <= bids'
        <3>1. TypeInv'
            BY TypesPreserved
        <3>2. job'[s].winner \in 0..MaxBids
            BY <3>1 DEF TypeInv, Job
        <3> QED
            BY <1>1, <2>1, <2>3, <2>4, <3>2, BoundsAssumption
    <2> QED
        BY <2>1, <2>4 DEF Counted
<1> QED
    BY <1>2, <1>3

-----------------------------------------------------------------------------
(* Theorems.                                                               *)

LEMMA TypesInvariant == SafeSpec => []TypeInv
<1> QED
    BY InitialTypes, TypesPreserved, PTL DEF SafeSpec

\* However often the item is started: rows, hashes and jobs have the values
\* the code gives them.
THEOREM TypeCorrect == SafeSpec => []TypeOK
<1> QED
    BY TypesInvariant, TypesFollow, PTL

LEMMA Invariance == StartedOnce /\ SafeSpec => []IInv
<1> SUFFICES ASSUME StartedOnce PROVE SafeSpec => []IInv
    OBVIOUS
<1>1. Init => IInv
    BY Initially
<1>2. TypeInv /\ TypeInv' /\ IInv /\ [Next]_vars => IInv'
    BY Preserved
<1> QED
    BY <1>1, <1>2, TypesInvariant, PTL DEF SafeSpec

\* An item started once, and not rebuilt, is not over in MySQL while Redis
\* takes bids for it, and its row names the winner of the final snapshot.
THEOREM RowAgreesWithSnapshotHolds == StartedOnce /\ SafeSpec => []RowAgreesWithSnapshot
<1>1. IInv => RowAgreesWithSnapshot
    BY DEF IInv, Agreed, RowAgreesWithSnapshot
<1> QED
    BY <1>1, Invariance, PTL

\* For an item started once, and not rebuilt, the order and the row never
\* name two winners, whichever handlers wrote them.
THEOREM OneWinnerHolds == StartedOnce /\ SafeSpec => []OneWinner
<1>1. IInv => OneWinner
    BY DEF IInv, Agreed, Names, OneWinner
<1> QED
    BY <1>1, Invariance, PTL

\* For an item started once, and not rebuilt, nobody refunds the bidder the
\* order is for, as long as Redis has the item's state.
THEOREM BuyerKeepsDepositHolds == StartedOnce /\ SafeSpec => []BuyerKeepsDeposit
<1>1. TypeInv /\ IInv => BuyerKeepsDeposit
    <2> SUFFICES ASSUME TypeInv, IInv, order # NoOrder, ~rebuilt,
                        hash.status \notin {"absent", "bare"}
                 PROVE  order \notin refunded
        BY DEF BuyerKeepsDeposit
    <2>1. PICK w \in 0..MaxBids : Names(w)
        BY DEF IInv, Agreed
    <2>2. order = w /\ order # 0
        BY <2>1, BoundsAssumption DEF Names, TypeInv, NoOrder
    <2>3. hash.status = "ended"
        BY <2>1, <2>2 DEF Names, TypeInv, Hash
    <2> QED
        BY <2>1, <2>2, <2>3 DEF Names, IInv, Agreed, Deposits
<1> QED
    BY <1>1, TypesInvariant, Invariance, PTL

\* For an item started once, and not rebuilt, there is no order while bids
\* are taken, and the order is for the leader of the final snapshot while it
\* exists.
THEOREM OrderIsForTheLeaderHolds == StartedOnce /\ SafeSpec => []OrderIsForTheLeader
<1>1. TypeInv /\ IInv => OrderIsForTheLeader
    <2> SUFFICES ASSUME TypeInv, IInv, order # NoOrder, ~rebuilt,
                        hash.status \notin {"absent", "bare"}
                 PROVE  hash.status = "ended" /\ order = hash.leader
        BY DEF OrderIsForTheLeader
    <2>1. PICK w \in 0..MaxBids : Names(w)
        BY DEF IInv, Agreed
    <2>2. order = w /\ order # 0
        BY <2>1, BoundsAssumption DEF Names, TypeInv, NoOrder
    <2> QED
        BY <2>1, <2>2 DEF Names, TypeInv, Hash
<1> QED
    BY <1>1, Invariance, TypesInvariant, PTL

\* For an item started once nothing but a rebuild reopens an auction Redis
\* has ended, or changes its result: no bid, no cron and no request does.
THEOREM EndedIsFinalHolds == StartedOnce /\ SafeSpec => EndedIsFinal
<1> SUFFICES ASSUME StartedOnce PROVE SafeSpec => EndedIsFinal
    OBVIOUS
<1>1. TypeInv /\ IInv /\ [Next]_vars =>
          [hash.status = "ended" =>
              hash' = Gone \/ Rewrites \/ \E r \in BOOLEAN : hash' = [hash EXCEPT !.ready = r]]_vars
    <2> SUFFICES ASSUME TypeInv, IInv, [Next]_vars, hash.status = "ended"
                 PROVE  hash' = Gone \/ Rewrites \/ \E r \in BOOLEAN : hash' = [hash EXCEPT !.ready = r]
        OBVIOUS
    <2>1. hash.ready \in BOOLEAN /\ hash = [hash EXCEPT !.ready = hash.ready]
        BY DEF TypeInv, Hash
    <2> QED
        BY <2>1, HashSteps DEF Reauthorised
<1> QED
    BY <1>1, Invariance, TypesInvariant, PTL DEF SafeSpec, EndedIsFinal

\* For an item started once nothing but a rebuild goes back behind a bid that
\* was accepted, whatever reads of the log and of the hash are under way.
THEOREM OnlyRebuildsForgetHolds == StartedOnce /\ SafeSpec => OnlyRebuildsForget
<1> SUFFICES ASSUME StartedOnce PROVE SafeSpec => OnlyRebuildsForget
    OBVIOUS
<1>1. Init => Counted
    BY DEF Init, Counted, Gone, Idle
<1>2. TypeInv /\ IInv /\ Counted /\ [Next]_vars => Counted'
    BY CountedPreserved
<1>3. TypeInv /\ IInv /\ Counted /\ [Next]_vars =>
          [hash.status = "ongoing" /\ hash'.status = "ongoing" =>
              hash'.leader >= hash.leader \/ Rewrites]_vars
    <2> SUFFICES ASSUME TypeInv, IInv, Counted, [Next]_vars, ~Rewrites,
                        hash.status = "ongoing", hash'.status = "ongoing"
                 PROVE  hash'.leader >= hash.leader
        OBVIOUS
    <2>1. bids \in Nat /\ hash.leader \in Nat
        BY BoundsAssumption DEF TypeInv, Hash
    <2>2. Reauthorised => hash'.leader = hash.leader
        BY DEF Reauthorised, TypeInv, Hash
    <2> QED
        BY <2>1, <2>2, HashSteps DEF Counted, Gone
<1> QED
    BY <1>1, <1>2, <1>3, Invariance, TypesInvariant, PTL DEF SafeSpec, OnlyRebuildsForget
=============================================================================
