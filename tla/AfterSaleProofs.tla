-------------------------- MODULE AfterSaleProofs ---------------------------
(***************************************************************************)
(* Theorems about AfterSale, for any bidders, any number of handlers at    *)
(* work and any deposits.                                                  *)
(*                                                                         *)
(* What the properties say about rows is kept true by what every handler   *)
(* knows while it is at work: Rows says it of the rows, Knows of one job.  *)
(***************************************************************************)
EXTENDS AfterSale, TLAPS

-----------------------------------------------------------------------------
(* The inductive invariant.                                                *)

\* Rows, markers and the leader between two handlers.
Rows ==
    /\ phase = "draft" => leader = NoOne
    /\ phase # "settled" => order.status = "none"
    /\ phase # "settled" => \A u \in Bidders :
           \/ deposit[u].status \in {"none", "paid"}
           \/ blind /\ deposit[u].status = "refunded"
    /\ order.status # "none" => order.user = leader
    /\ winner # NoOne => phase = "settled" /\ winner = leader
    /\ \A u \in Bidders : marker[u] > 0 => deposit[u].status # "none"

\* The leader's deposit until the order is decided.
LeaderRow ==
    leader # NoOne /\ order.status \in {"none", "pending"} =>
        \/ deposit[leader].status = "paid"
        \/ required = 0 /\ deposit[leader].status = "none"
        \/ blind /\ deposit[leader].status = "refunded"

\* Whom a job is about, and what it may rely on until its next command.
KnowsIn(j, ph, req, dep, lead, ord, bl) ==
    /\ j.kind \in {"bid", "deposit"} => j.user \in Bidders
    /\ j.kind = "bid" => ph # "draft" /\ (req = 0 \/ dep[j.user].status # "none")
    /\ j.kind = "deposit" /\ j.at = "mark" => dep[j.user].status # "none"
    /\ j.kind \in {"settle", "compensate"} =>
          \/ ph = "settled" /\ j.user = lead /\ lead \notin j.todo
          \/ bl /\ j.user = NoOne
    /\ j.at \in {"findOrder", "createOrder"} => j.user # NoOne
    /\ j.kind \in {"pay", "cancel", "expire"} => ord.status # "none" /\ j.user = ord.user
    /\ j.kind \in {"pay", "cancel", "expire"} /\ j.at = "deposit" =>
          ord.status = Outcome(j.kind)

\* In this state, and in the next one.
Knows(j)    == KnowsIn(j, phase, required, deposit, leader, order, blind)
WillKnow(j) == KnowsIn(j, phase', required', deposit', leader', order', blind')

Jobs == \A s \in Slots : Knows(job[s])

IInv ==
    /\ TypeOK
    /\ Rows
    /\ Jobs
    /\ DepositFollowsOrder
    /\ LeaderRow
    /\ ReceiptMeansPaid

\* What no step takes back: that the auction opened, its end and its leader,
\* that a settlement missed the hash, that a deposit was paid, whose the
\* order is and how it was decided.
Forward ==
    /\ phase # "draft" => phase' # "draft" /\ required' = required
    /\ blind => blind'
    /\ phase = "settled" => phase' = "settled" /\ leader' = leader
    /\ \A u \in Bidders : deposit[u].status # "none" => deposit'[u].status # "none"
    /\ order.status # "none" => order'.status # "none" /\ order'.user = order.user
    /\ order.status \notin {"none", "pending"} => order' = order

-----------------------------------------------------------------------------
(* Types.                                                                  *)

Deposit == [status: {"none", "paid", "refunded", "forfeited"}, amount: 0..MaxAmount]
Job == [kind: {"none", "deposit", "bid", "settle", "compensate", "pay", "cancel", "expire"},
        at: {"none", "amount", "find", "create", "save", "mark", "place", "findOrder",
             "createOrder", "list", "refund", "update", "refetch", "deposit"},
        user: Bidders \cup {NoOne}, amount: 0..MaxAmount, todo: SUBSET Bidders]

LEMMA IdleType == Idle \in Job
    BY MaxAmountAssumption DEF Idle, Job

\* TypeOK in parts: what a step has to show of each variable.
LEMMA TypeParts ==
    TypeOK <=>
    /\ phase \in {"draft", "onSale", "settled"}
    /\ required \in 0..MaxAmount
    /\ deposit \in [Bidders -> Deposit]
    /\ marker \in [Bidders -> 0..MaxAmount]
    /\ leader \in Bidders \cup {NoOne} /\ winner \in Bidders \cup {NoOne}
    /\ order \in [status: {"none", "pending", "paid", "cancelled", "expired"},
                  user: Bidders \cup {NoOne}]
    /\ order.status = "none" <=> order.user = NoOne
    /\ late \in BOOLEAN /\ receipt \in BOOLEAN /\ blind \in BOOLEAN
    /\ job \in [Slots -> Job]
    BY DEF TypeOK, Deposit, Job

LEMMA InitialTypes == Init => TypeOK
<1> SUFFICES ASSUME Init PROVE TypeOK
    OBVIOUS
<1>1. required \in 0..MaxAmount /\ 0 \in 0..MaxAmount
    BY MaxAmountAssumption DEF Init
<1>2. [status |-> "none", amount |-> 0] \in Deposit
    BY <1>1 DEF Deposit
<1>3. deposit \in [Bidders -> Deposit] /\ marker \in [Bidders -> 0..MaxAmount]
    BY <1>1, <1>2 DEF Init
<1>4. job \in [Slots -> Job]
    BY IdleType DEF Init
<1> QED
    BY <1>1, <1>3, <1>4, TypeParts DEF Init

\* A job that begins, proceeds or ends is again a job.
LEMMA JobTypes ==
    ASSUME job \in [Slots -> Job], NEW s \in Slots
    PROVE  /\ Ends(s) => job' \in [Slots -> Job]
           /\ \A at \in {"find", "create", "save", "mark", "createOrder", "list", "refund",
                         "refetch", "deposit"} :
                 Goes(s, at) => job' \in [Slots -> Job]
           /\ \A kind \in {"deposit", "bid", "settle", "compensate", "pay", "cancel", "expire"},
                 at \in {"amount", "place", "findOrder", "list", "update"},
                 u \in Bidders \cup {NoOne} :
                 Begins(s, kind, at, u) => job' \in [Slots -> Job]
<1>1. Ends(s) => job' \in [Slots -> Job]
    BY IdleType DEF Ends
<1>2. ASSUME NEW at \in {"find", "create", "save", "mark", "createOrder", "list",
                         "refund", "refetch", "deposit"},
             Goes(s, at)
      PROVE  job' \in [Slots -> Job]
    BY <1>2 DEF Goes, Job
<1>3. ASSUME NEW kind \in {"deposit", "bid", "settle", "compensate", "pay", "cancel", "expire"},
             NEW at \in {"amount", "place", "findOrder", "list", "update"},
             NEW u \in Bidders \cup {NoOne}, Begins(s, kind, at, u)
      PROVE  job' \in [Slots -> Job]
    <2>1. [Idle EXCEPT !.kind = kind, !.at = at, !.user = u] \in Job
        BY IdleType DEF Job
    <2> QED
        BY <1>3, <2>1 DEF Begins
<1> QED
    BY <1>1, <1>2, <1>3

\* Settling a deposit leaves a deposit.
LEMMA SettledType ==
    ASSUME deposit \in [Bidders -> Deposit], NEW u, NEW to \in {"refunded", "forfeited"}
    PROVE  Settled(u, to) \in [Bidders -> Deposit]
    BY DEF Settled, Deposit

LEMMA TypesPreserved == IInv /\ [Next]_vars => TypeOK'
<1> SUFFICES ASSUME IInv, [Next]_vars PROVE TypeOK'
    OBVIOUS
<1>0. /\ TypeOK /\ Jobs
      /\ phase \in {"draft", "onSale", "settled"}
      /\ required \in 0..MaxAmount
      /\ deposit \in [Bidders -> Deposit]
      /\ marker \in [Bidders -> 0..MaxAmount]
      /\ leader \in Bidders \cup {NoOne} /\ winner \in Bidders \cup {NoOne}
      /\ order \in [status: {"none", "pending", "paid", "cancelled", "expired"},
                    user: Bidders \cup {NoOne}]
      /\ order.status = "none" <=> order.user = NoOne
      /\ late \in BOOLEAN /\ receipt \in BOOLEAN /\ blind \in BOOLEAN
      /\ job \in [Slots -> Job]
    BY TypeParts DEF IInv
<1>0a. ASSUME phase' \in {"draft", "onSale", "settled"},
              required' \in 0..MaxAmount,
              deposit' \in [Bidders -> Deposit],
              marker' \in [Bidders -> 0..MaxAmount],
              leader' \in Bidders \cup {NoOne}, winner' \in Bidders \cup {NoOne},
              order' \in [status: {"none", "pending", "paid", "cancelled", "expired"},
                          user: Bidders \cup {NoOne}],
              order'.status = "none" <=> order'.user = NoOne,
              late' \in BOOLEAN /\ receipt' \in BOOLEAN /\ blind' \in BOOLEAN,
              job' \in [Slots -> Job]
       PROVE  TypeOK'
    BY <1>0a DEF TypeOK, Deposit, Job
<1>0b. ASSUME NEW s \in Slots
       PROVE  /\ job[s] \in Job
              /\ job[s].amount \in 0..MaxAmount
              /\ job[s].user \in Bidders \cup {NoOne}
              /\ job[s].kind \in {"bid", "deposit"} => job[s].user \in Bidders
              /\ job[s].at \in {"findOrder", "createOrder"} => job[s].user # NoOne
    <2>1. job[s] \in Job
        BY <1>0
    <2> QED
        BY <1>0, <2>1 DEF Job, Jobs, Knows, KnowsIn
<1> USE <1>0
<1>1. CASE UpdateItem
    BY <1>1, <1>0a DEF UpdateItem, orders
<1>2. CASE OpenSale
    BY <1>2, <1>0a DEF OpenSale, orders
<1>3. CASE PaymentTimeEnds
    BY <1>3, <1>0a DEF PaymentTimeEnds, auction
<1>4. ASSUME NEW s \in Slots, NEW u \in Bidders, PayDeposit(s, u)
      PROVE  TypeOK'
    BY <1>4, <1>0a, JobTypes DEF PayDeposit, orders, auction
<1>5. ASSUME NEW s \in Slots, NEW u \in Bidders, GetMyDeposit(s, u)
      PROVE  TypeOK'
    <2>1. [Idle EXCEPT !.kind = "deposit", !.at = "mark", !.user = u,
                       !.amount = deposit[u].amount] \in Job
        BY IdleType DEF Job, Deposit
    <2> QED
        BY <1>5, <2>1, <1>0a DEF GetMyDeposit, orders, auction
<1>6. ASSUME NEW s \in Slots, NEW u \in Bidders, HasPaidDeposit(s, u)
      PROVE  TypeOK'
    <2>1. marker' \in [Bidders -> 0..MaxAmount]
        BY <1>6 DEF HasPaidDeposit, Deposit
    <2> QED
        BY <1>6, <2>1, <1>0a, JobTypes DEF HasPaidDeposit, orders, auction
<1>7. ASSUME NEW s \in Slots, NEW u \in Bidders, RefundNonWinner(s, u)
      PROVE  TypeOK'
    <2>1. deposit' \in [Bidders -> Deposit]
        BY <1>7, SettledType DEF RefundNonWinner
    <2>2. [job EXCEPT ![s].todo = @ \ {u}] \in [Slots -> Job]
        BY <1>0b DEF Job
    <2> QED
        BY <1>7, <2>1, <2>2, <1>0a, JobTypes DEF RefundNonWinner, orders, auction
<1>8. ASSUME NEW s \in Slots, PlaceBid(s)
      PROVE  TypeOK'
    BY <1>8, <1>0a, <1>0b, JobTypes DEF PlaceBid, orders
<1>9. ASSUME NEW s \in Slots, FindAmount(s)
      PROVE  TypeOK'
    <2>1. [job[s] EXCEPT !.at = "find", !.amount = required] \in Job
        BY <1>0b DEF Job
    <2>2. job' \in [Slots -> Job]
        BY <1>9, <2>1, JobTypes DEF FindAmount
    <2> QED
        BY <1>9, <2>2, <1>0a DEF FindAmount, orders, auction
<1>10. ASSUME NEW s \in Slots, FindDeposit(s)
       PROVE  TypeOK'
    <2>1. job[s].user \in Bidders
        BY <1>10, <1>0b DEF FindDeposit, At
    <2>2. deposit[job[s].user].amount \in 0..MaxAmount
        BY <2>1 DEF Deposit
    <2>3. [job EXCEPT ![s].at = "mark", ![s].amount = deposit[job[s].user].amount]
              \in [Slots -> Job]
        <3>1. [job[s] EXCEPT !.at = "mark", !.amount = deposit[job[s].user].amount] \in Job
            BY <1>0b, <2>2 DEF Job
        <3> QED
            BY <3>1
    <2>4. job' \in [Slots -> Job]
        BY <1>10, <2>3, JobTypes DEF FindDeposit
    <2> QED
        BY <1>10, <2>4, <1>0a DEF FindDeposit, orders, auction
<1>11. ASSUME NEW s \in Slots, CreateDeposit(s)
       PROVE  TypeOK'
    <2>1. job[s].user \in Bidders /\ job[s].amount \in 0..MaxAmount
        BY <1>11, <1>0b DEF CreateDeposit, At
    <2>2. [status |-> "paid", amount |-> job[s].amount] \in Deposit
        BY <2>1 DEF Deposit
    <2>3. deposit' \in [Bidders -> Deposit]
        BY <1>11, <2>1, <2>2 DEF CreateDeposit
    <2>4. job' \in [Slots -> Job]
        BY <1>11, JobTypes DEF CreateDeposit
    <2> QED
        BY <1>11, <2>3, <2>4, <1>0a DEF CreateDeposit, orders, auction
<1>12. ASSUME NEW s \in Slots, SaveDeposit(s)
       PROVE  TypeOK'
    <2>1. job[s].user \in Bidders /\ job[s].amount \in 0..MaxAmount
        BY <1>12, <1>0b DEF SaveDeposit, At
    <2>2. [status |-> "paid", amount |-> job[s].amount] \in Deposit
        BY <2>1 DEF Deposit
    <2>3. deposit' \in [Bidders -> Deposit]
        BY <1>12, <2>1, <2>2 DEF SaveDeposit
    <2> QED
        BY <1>12, <2>3, <1>0a, JobTypes DEF SaveDeposit, orders, auction
<1>13. ASSUME NEW s \in Slots, MarkPaid(s)
       PROVE  TypeOK'
    <2>1. marker' \in [Bidders -> 0..MaxAmount]
        BY <1>13, <1>0b DEF MarkPaid
    <2> QED
        BY <1>13, <2>1, <1>0a, JobTypes DEF MarkPaid, orders, auction
<1>14. ASSUME NEW s \in Slots, Settle(s)
       PROVE  TypeOK'
    <2>1. FirstCommand \in {"list", "findOrder"}
        BY DEF FirstCommand
    <2> QED
        BY <1>14, <2>1, <1>0a, JobTypes DEF Settle, orders
<1>15. ASSUME NEW s \in Slots, Compensate(s)
       PROVE  TypeOK'
    BY <1>15, <1>0a, JobTypes DEF Compensate, orders, auction
<1>16. ASSUME NEW s \in Slots, FindOrder(s)
       PROVE  TypeOK'
    BY <1>16, <1>0a, JobTypes DEF FindOrder, AfterOrder, orders, auction
<1>17. ASSUME NEW s \in Slots, CreateOrder(s)
       PROVE  TypeOK'
    <2>1. job[s].user \in Bidders
        BY <1>17, <1>0b DEF CreateOrder, At
    <2>2. /\ order' \in [status: {"none", "pending", "paid", "cancelled", "expired"},
                         user: Bidders \cup {NoOne}]
          /\ order'.status = "none" <=> order'.user = NoOne
        BY <1>17, <2>1, SetsAssumption DEF CreateOrder, OrderAfterInsert
    <2>3. job' \in [Slots -> Job]
        BY <1>17, JobTypes DEF CreateOrder, AfterOrder
    <2> QED
        BY <1>17, <2>2, <2>3, <1>0a DEF CreateOrder, auction
<1>18. ASSUME NEW s \in Slots, ListPaidDeposits(s)
       PROVE  TypeOK'
    <2>1. NonWinners(job[s].user) \in SUBSET Bidders
        BY DEF NonWinners
    <2>2. [job EXCEPT ![s].at = "refund", ![s].todo = NonWinners(job[s].user)]
              \in [Slots -> Job]
        <3>1. [job[s] EXCEPT !.at = "refund", !.todo = NonWinners(job[s].user)] \in Job
            BY <1>0b, <2>1 DEF Job
        <3> QED
            BY <3>1
    <2> QED
        BY <1>18, <2>2, <1>0a, JobTypes DEF ListPaidDeposits, orders, auction
<1>19. ASSUME NEW s \in Slots, Pay(s) \/ Cancel(s) \/ ScanExpired(s)
       PROVE  TypeOK'
    <2>1. order.user \in Bidders \cup {NoOne}
        OBVIOUS
    <2> QED
        BY <1>19, <2>1, <1>0a, JobTypes DEF Pay, Cancel, ScanExpired, orders, auction
<1>20. ASSUME NEW s \in Slots, UpdateOrder(s)
       PROVE  TypeOK'
    <2>1. Outcome(job[s].kind) \in {"paid", "cancelled", "expired"}
        BY DEF Outcome
    <2>2. /\ order' \in [status: {"none", "pending", "paid", "cancelled", "expired"},
                         user: Bidders \cup {NoOne}]
          /\ order'.status = "none" <=> order'.user = NoOne
        BY <1>20, <2>1 DEF UpdateOrder, Undecided
    <2>3. job' \in [Slots -> Job]
        BY <1>20, JobTypes DEF UpdateOrder
    <2> QED
        BY <1>20, <2>2, <2>3, <1>0a DEF UpdateOrder, auction
<1>21. ASSUME NEW s \in Slots, Refetch(s)
       PROVE  TypeOK'
    BY <1>21, <1>0a, JobTypes DEF Refetch, auction
<1>22. ASSUME NEW s \in Slots, SettleWinner(s)
       PROVE  TypeOK'
    <2>1. DepositAfter(job[s].kind) \in {"refunded", "forfeited"}
        BY DEF DepositAfter
    <2>2. deposit' \in [Bidders -> Deposit]
        BY <1>22, <2>1, SettledType DEF SettleWinner
    <2> QED
        BY <1>22, <2>2, <1>0a, JobTypes DEF SettleWinner, auction
<1>23. ASSUME NEW s \in Slots, Crash(s)
       PROVE  TypeOK'
    BY <1>23, <1>0a, JobTypes DEF Crash, orders, auction
<1>24. ASSUME NEW s \in Slots, SettleBlind(s)
       PROVE  TypeOK'
    BY <1>24, <1>0a, JobTypes DEF SettleBlind, orders
<1>25. CASE UNCHANGED vars
    BY <1>25, <1>0a DEF vars
<1> QED
    BY <1>1, <1>2, <1>3, <1>4, <1>5, <1>6, <1>7, <1>8, <1>9, <1>10, <1>11, <1>12, <1>13, <1>14,
       <1>15, <1>16, <1>17, <1>18, <1>19, <1>20, <1>21, <1>22, <1>23, <1>24, <1>25 DEF Next

-----------------------------------------------------------------------------
(* The rows.                                                               *)

kept == <<phase, required, deposit, marker, leader, winner, order, receipt, blind>>

\* The steps that change what the properties are about.
Writes(s) ==
    \/ \E u \in Bidders : HasPaidDeposit(s, u) \/ RefundNonWinner(s, u)
    \/ PlaceBid(s)
    \/ CreateDeposit(s) \/ SaveDeposit(s) \/ MarkPaid(s)
    \/ Settle(s) \/ SettleBlind(s) \/ CreateOrder(s)
    \/ UpdateOrder(s) \/ Refetch(s) \/ SettleWinner(s)

LEMMA StepKinds ==
    ASSUME [Next]_vars
    PROVE  UpdateItem \/ OpenSale \/ (\E s \in Slots : Writes(s)) \/ UNCHANGED kept
<1>1. CASE PaymentTimeEnds \/ UNCHANGED vars
    BY <1>1 DEF PaymentTimeEnds, vars, kept, orders, auction
<1>2. ASSUME NEW s \in Slots, NEW u \in Bidders,
             PayDeposit(s, u) \/ GetMyDeposit(s, u)
      PROVE  UNCHANGED kept
    BY <1>2 DEF PayDeposit, GetMyDeposit, kept, orders, auction
<1>3. ASSUME NEW s \in Slots,
             \/ FindAmount(s) \/ FindDeposit(s) \/ Compensate(s) \/ FindOrder(s)
             \/ ListPaidDeposits(s) \/ Pay(s) \/ Cancel(s) \/ ScanExpired(s) \/ Crash(s)
      PROVE  UNCHANGED kept
    BY <1>3 DEF FindAmount, FindDeposit, Compensate, FindOrder, ListPaidDeposits, Pay, Cancel,
                ScanExpired, Crash, kept, orders, auction
<1> QED
    BY <1>1, <1>2, <1>3 DEF Next, Writes

\* What the inductive invariant says of a handler at its command.
LEMMA AtCommand ==
    ASSUME IInv, NEW s \in Slots
    PROVE  /\ job[s].kind \in {"bid", "deposit"} => job[s].user \in Bidders
           /\ job[s].kind = "bid" =>
                 phase # "draft" /\ (required = 0 \/ deposit[job[s].user].status # "none")
           /\ At(s, {"deposit"}, "mark") => deposit[job[s].user].status # "none"
           /\ job[s].kind \in {"settle", "compensate"} =>
                 \/ phase = "settled" /\ job[s].user = leader /\ leader \notin job[s].todo
                 \/ blind /\ job[s].user = NoOne
           /\ job[s].at \in {"findOrder", "createOrder"} => job[s].user # NoOne
           /\ job[s].kind \in {"pay", "cancel", "expire"} =>
                 order.status # "none" /\ job[s].user = order.user
           /\ At(s, {"pay", "cancel", "expire"}, "deposit") =>
                 order.status = Outcome(job[s].kind)
    BY DEF IInv, Jobs, Knows, KnowsIn, At

\* Settling changes one deposit, and only if it is paid.
LEMMA SettledFacts ==
    ASSUME deposit \in [Bidders -> Deposit], NEW u, NEW to \in {"refunded", "forfeited"},
           NEW v \in Bidders
    PROVE  /\ v # u => Settled(u, to)[v] = deposit[v]
           /\ Settled(u, to)[v].status \in {deposit[v].status, to}
           /\ deposit[v].status # "paid" => Settled(u, to)[v] = deposit[v]
    BY DEF Settled, Deposit

LEMMA StepsForward == IInv /\ [Next]_vars => Forward
<1> SUFFICES ASSUME IInv, [Next]_vars PROVE Forward
    OBVIOUS
<1>0. TypeOK /\ Rows /\ Jobs /\ deposit \in [Bidders -> Deposit] /\ leader \in Bidders \cup {NoOne} /\ winner \in Bidders \cup {NoOne}
    BY TypeParts DEF IInv
<1>1. CASE OpenSale \/ UpdateItem
    BY <1>1 DEF OpenSale, UpdateItem, Forward, orders
<1>2. ASSUME NEW s \in Slots, Writes(s)
      PROVE  Forward
    <2>1. ASSUME NEW u \in Bidders, HasPaidDeposit(s, u)
          PROVE  Forward
        BY <2>1 DEF HasPaidDeposit, Forward, orders, auction
    <2>2. ASSUME NEW u \in Bidders, RefundNonWinner(s, u)
          PROVE  Forward
        BY <2>2, <1>0, SettledFacts DEF RefundNonWinner, Forward, orders, auction
    <2>3. CASE PlaceBid(s)
        BY <2>3 DEF PlaceBid, Forward, orders
    <2>4. CASE CreateDeposit(s) \/ SaveDeposit(s)
        BY <2>4, <1>0 DEF CreateDeposit, SaveDeposit, Forward, orders, auction
    <2>5. CASE MarkPaid(s) \/ Refetch(s)
        BY <2>5 DEF MarkPaid, Refetch, Forward, orders, auction
    <2>6. CASE Settle(s) \/ SettleBlind(s)
        BY <2>6 DEF Settle, SettleBlind, Forward, orders
    <2>7. CASE CreateOrder(s)
        BY <2>7 DEF CreateOrder, OrderAfterInsert, Forward, auction
    <2>8. CASE UpdateOrder(s)
        <3>1. order' = order \/ (order.status = "pending"
                                 /\ order' = [order EXCEPT !.status = Outcome(job[s].kind)])
            BY <2>8 DEF UpdateOrder, Undecided
        <3>2. Outcome(job[s].kind) # "none"
            BY <3>1 DEF Outcome
        <3>3. order.status # "none" => order'.status # "none" /\ order'.user = order.user
            BY <3>1, <3>2, <1>0 DEF TypeOK
        <3> QED
            BY <2>8, <3>1, <3>3 DEF UpdateOrder, Forward, auction
    <2>9. CASE SettleWinner(s)
        <3>1. DepositAfter(job[s].kind) \in {"refunded", "forfeited"}
            BY DEF DepositAfter
        <3>2. \A u \in Bidders : deposit[u].status # "none" => deposit'[u].status # "none"
            BY <2>9, <3>1, <1>0, SettledFacts DEF SettleWinner
        <3> QED
            BY <2>9, <3>2 DEF SettleWinner, Forward, auction
    <2> QED
        BY <1>2, <2>1, <2>2, <2>3, <2>4, <2>5, <2>6, <2>7, <2>8, <2>9 DEF Writes
<1>3. CASE UNCHANGED kept
    BY <1>3 DEF kept, Forward
<1> QED
    BY <1>1, <1>2, <1>3, StepKinds

LEMMA RowsPreserved == IInv /\ [Next]_vars => Rows'
<1> SUFFICES ASSUME IInv, [Next]_vars PROVE Rows'
    OBVIOUS
<1>0. /\ TypeOK /\ Rows /\ Jobs /\ deposit \in [Bidders -> Deposit]
      /\ marker \in [Bidders -> 0..MaxAmount] /\ phase \in {"draft", "onSale", "settled"}
      /\ leader \in Bidders \cup {NoOne} /\ job \in [Slots -> Job]
    BY TypeParts DEF IInv
<1>0a. \A u \in Bidders : deposit[u].status # "none" => deposit'[u].status # "none"
    BY StepsForward DEF Forward
<1>1. CASE OpenSale \/ UpdateItem
    BY <1>1, <1>0 DEF OpenSale, UpdateItem, Rows, orders
<1>2. ASSUME NEW s \in Slots, Writes(s)
      PROVE  Rows'
    <2>1. ASSUME NEW u \in Bidders, HasPaidDeposit(s, u)
          PROVE  Rows'
        <3>1. marker' = marker \/ (Row(u) /\ marker' = [marker EXCEPT ![u] = deposit[u].amount])
            BY <2>1 DEF HasPaidDeposit
        <3>2. \A v \in Bidders : marker'[v] > 0 => deposit[v].status # "none"
            BY <3>1, <1>0 DEF Row, Rows
        <3> QED
            BY <2>1, <3>2, <1>0 DEF HasPaidDeposit, Rows, orders, auction
    <2>2. ASSUME NEW u \in Bidders, RefundNonWinner(s, u)
          PROVE  Rows'
        <3>1. phase = "settled" \/ blind
            BY <2>2, AtCommand DEF RefundNonWinner, At
        <3>2. \A v \in Bidders : deposit'[v].status \in {deposit[v].status, "refunded"}
            BY <2>2, <1>0, SettledFacts DEF RefundNonWinner
        <3> QED
            BY <2>2, <3>1, <3>2, <1>0, <1>0a DEF RefundNonWinner, Rows, orders, auction
    <2>3. CASE PlaceBid(s)
        <3>1. leader' = leader \/ (phase = "onSale" /\ order.status = "none" /\ winner = NoOne)
            BY <2>3, <1>0 DEF PlaceBid, Rows
        <3>2. phase' = phase /\ order' = order /\ deposit' = deposit /\ marker' = marker
              /\ winner' = winner /\ blind' = blind
            BY <2>3 DEF PlaceBid, orders
        <3> QED
            BY <3>1, <3>2, <1>0 DEF Rows
    <2>4. CASE CreateDeposit(s) \/ SaveDeposit(s)
        <3>1. job[s].user \in Bidders
            BY <2>4, AtCommand DEF CreateDeposit, SaveDeposit, At
        <3>2. \/ deposit' = deposit
              \/ deposit' = [deposit EXCEPT ![job[s].user] =
                                [status |-> "paid", amount |-> job[s].amount]]
            BY <2>4 DEF CreateDeposit, SaveDeposit
        <3>3. \A u \in Bidders : deposit'[u].status \in {deposit[u].status, "paid"}
            BY <3>1, <3>2, <1>0
        <3> QED
            BY <2>4, <3>3, <1>0, <1>0a DEF CreateDeposit, SaveDeposit, Rows, orders, auction
    <2>5. CASE MarkPaid(s)
        <3>1. deposit[job[s].user].status # "none"
            BY <2>5, AtCommand DEF MarkPaid, At
        <3>2. marker' = [marker EXCEPT ![job[s].user] = job[s].amount]
            BY <2>5 DEF MarkPaid
        <3>3. \A v \in Bidders : marker'[v] > 0 => deposit[v].status # "none"
            BY <3>1, <3>2, <1>0 DEF Rows
        <3> QED
            BY <2>5, <3>3, <1>0 DEF MarkPaid, Rows, orders, auction
    <2>6. CASE Settle(s) \/ SettleBlind(s)
        BY <2>6, <1>0 DEF Settle, SettleBlind, Rows, orders
    <2>7. CASE CreateOrder(s)
        <3>1. phase = "settled" /\ job[s].user = leader
            BY <2>7, AtCommand DEF CreateOrder, At
        <3> QED
            BY <2>7, <3>1, <1>0 DEF CreateOrder, OrderAfterInsert, Rows, auction
    <2>8. CASE UpdateOrder(s)
        <3>1. order'.user = order.user /\ (order'.status # "none" => order.status # "none")
            BY <2>8, <1>0 DEF UpdateOrder, Undecided, TypeOK
        <3> QED
            BY <2>8, <3>1, <1>0 DEF UpdateOrder, Rows, auction
    <2>9. CASE Refetch(s)
        BY <2>9, <1>0 DEF Refetch, Rows, auction
    <2>10. CASE SettleWinner(s)
        <3>1. order.status # "none"
            BY <2>10, AtCommand DEF SettleWinner, At
        <3>2. phase = "settled"
            BY <3>1, <1>0 DEF Rows
        <3> QED
            BY <2>10, <3>2, <1>0, <1>0a DEF SettleWinner, Rows, auction
    <2> QED
        BY <1>2, <2>1, <2>2, <2>3, <2>4, <2>5, <2>6, <2>7, <2>8, <2>9, <2>10 DEF Writes
<1>3. CASE UNCHANGED kept
    BY <1>3, <1>0 DEF kept, Rows
<1> QED
    BY <1>1, <1>2, <1>3, StepKinds

-----------------------------------------------------------------------------
(* The handlers at work.                                                   *)

\* What a handler knows of its job is not spoilt by a step of another one,
\* and a job that is over knows nothing.
LEMMA OthersKnow ==
    ASSUME IInv, Forward, NEW j, Knows(j)
    PROVE  WillKnow(j)
<1>1. Rows
    BY DEF IInv
<1>2. Outcome(j.kind) \notin {"none", "pending"}
    BY DEF Outcome
<1> QED
    BY <1>1, <1>2 DEF Knows, WillKnow, KnowsIn, Forward

LEMMA IdleKnows == WillKnow(Idle)
    BY DEF WillKnow, KnowsIn, Idle

\* So a step has to account only for the job it changes.
LEMMA OneJobChanges ==
    ASSUME IInv, Forward, NEW s \in Slots,
           NEW j, job' = [job EXCEPT ![s] = j], WillKnow(j)
    PROVE  Jobs'
<1>1. job \in [Slots -> Job] /\ Jobs
    BY TypeParts DEF IInv
<1>2. ASSUME NEW t \in Slots
      PROVE  WillKnow(job'[t])
    <2>1. CASE t = s
        BY <2>1, <1>1
    <2>2. CASE t # s
        <3>1. job'[t] = job[t] /\ Knows(job[t])
            BY <2>2, <1>1 DEF Jobs
        <3> QED
            BY <3>1, OthersKnow
    <2> QED
        BY <2>1, <2>2
<1> QED
    BY <1>2 DEF Jobs, Knows, WillKnow

LEMMA JobsPreserved == IInv /\ [Next]_vars => Jobs'
<1> SUFFICES ASSUME IInv, [Next]_vars PROVE Jobs'
    OBVIOUS
<1>0. /\ TypeOK /\ Rows /\ Jobs /\ deposit \in [Bidders -> Deposit]
      /\ marker \in [Bidders -> 0..MaxAmount] /\ required \in 0..MaxAmount
      /\ job \in [Slots -> Job] /\ leader \in Bidders \cup {NoOne} /\ winner \in Bidders \cup {NoOne}
    BY TypeParts DEF IInv
<1>0a. Forward
    BY StepsForward
<1>0b. ASSUME job' = job PROVE Jobs'
    BY <1>0a, <1>0b, <1>0, OthersKnow DEF Jobs, Knows, WillKnow
<1>0c. ASSUME NEW s \in Slots, Ends(s) PROVE Jobs'
    BY <1>0a, <1>0c, IdleKnows, OneJobChanges DEF Ends
<1>0d. ASSUME NEW s \in Slots, NEW at, Goes(s, at), at \notin {"findOrder", "createOrder"},
              job[s].kind = "deposit" => at # "mark",
              job[s].kind \notin {"pay", "cancel", "expire"} \/ at # "deposit"
       PROVE  Jobs'
    <2>1. job' = [job EXCEPT ![s] = [job[s] EXCEPT !.at = at]]
        BY <1>0d DEF Goes
    <2>2. WillKnow(job[s])
        BY <1>0, <1>0a, OthersKnow DEF Jobs
    <2>3. job[s] \in Job
        BY <1>0
    <2>4. WillKnow([job[s] EXCEPT !.at = at])
        BY <2>2, <2>3, <1>0d DEF WillKnow, KnowsIn, Job
    <2> QED
        BY <2>1, <2>4, <1>0a, OneJobChanges
<1>1. CASE UpdateItem \/ OpenSale \/ PaymentTimeEnds \/ UNCHANGED vars
    BY <1>1, <1>0b DEF UpdateItem, OpenSale, PaymentTimeEnds, vars
<1>2. ASSUME NEW s \in Slots, NEW u \in Bidders, PayDeposit(s, u)
      PROVE  Jobs'
    <2>1. WillKnow([Idle EXCEPT !.kind = "deposit", !.at = "amount", !.user = u])
        BY DEF WillKnow, KnowsIn, Idle
    <2> QED
        BY <1>2, <2>1, <1>0a, OneJobChanges DEF PayDeposit, Begins
<1>3. ASSUME NEW s \in Slots, NEW u \in Bidders, GetMyDeposit(s, u)
      PROVE  Jobs'
    <2> DEFINE j == [Idle EXCEPT !.kind = "deposit", !.at = "mark", !.user = u,
                                 !.amount = deposit[u].amount]
    <2>1. deposit'[u].status # "none" /\ job' = [job EXCEPT ![s] = j]
        BY <1>3 DEF GetMyDeposit
    <2>2. j.kind = "deposit" /\ j.at = "mark" /\ j.user = u
        BY DEF Idle
    <2>3. WillKnow(j)
        BY <2>1, <2>2 DEF WillKnow, KnowsIn, Idle
    <2> QED
        BY <2>1, <2>3, <1>0a, OneJobChanges
<1>4. ASSUME NEW s \in Slots, NEW u \in Bidders, HasPaidDeposit(s, u)
      PROVE  Jobs'
    <2>1. phase' # "draft" /\ (required' = 0 \/ deposit'[u].status # "none")
        BY <1>4, <1>0 DEF HasPaidDeposit, MayBid, Row, Rows, auction
    <2>2. WillKnow([Idle EXCEPT !.kind = "bid", !.at = "place", !.user = u])
        BY <2>1 DEF WillKnow, KnowsIn, Idle
    <2> QED
        BY <1>4, <2>2, <1>0a, OneJobChanges DEF HasPaidDeposit, Begins
<1>5. ASSUME NEW s \in Slots, NEW u \in Bidders, RefundNonWinner(s, u)
      PROVE  Jobs'
    <2>1. CASE Ends(s)
        BY <2>1, <1>0c
    <2>2. CASE job' = [job EXCEPT ![s].todo = @ \ {u}]
        <3>1. WillKnow(job[s])
            BY <1>0, <1>0a, OthersKnow DEF Jobs
        <3>2. job[s] \in Job
            BY <1>0
        <3>3. WillKnow([job[s] EXCEPT !.todo = @ \ {u}])
            BY <3>1, <3>2 DEF WillKnow, KnowsIn, Job
        <3> QED
            BY <2>2, <3>3, <1>0a, OneJobChanges
    <2> QED
        BY <1>5, <2>1, <2>2 DEF RefundNonWinner
<1>6. ASSUME NEW s \in Slots, PlaceBid(s) \/ MarkPaid(s) \/ Refetch(s) \/ SettleWinner(s) \/ Crash(s)
      PROVE  Jobs'
    BY <1>6, <1>0c DEF PlaceBid, MarkPaid, Refetch, SettleWinner, Crash
<1>7. ASSUME NEW s \in Slots, FindAmount(s)
      PROVE  Jobs'
    <2>1. WillKnow(job[s]) /\ job[s] \in Job
        BY <1>0, <1>0a, OthersKnow DEF Jobs
    <2>2. CASE Ends(s)
        BY <2>2, <1>0c
    <2>3. CASE ~Ends(s)
        <3>1. job' = [job EXCEPT ![s] = [job[s] EXCEPT !.at = "find", !.amount = required]]
            BY <1>7, <2>3, <1>0 DEF FindAmount
        <3>2. WillKnow([job[s] EXCEPT !.at = "find", !.amount = required])
            BY <1>7, <2>1 DEF FindAmount, At, WillKnow, KnowsIn, Job
        <3> QED
            BY <3>1, <3>2, <1>0a, OneJobChanges
    <2> QED
        BY <2>2, <2>3
<1>8. ASSUME NEW s \in Slots, FindDeposit(s)
      PROVE  Jobs'
    <2> DEFINE found == deposit[job[s].user]
    <2>1. CASE Ends(s)
        BY <2>1, <1>0c
    <2>2. CASE Goes(s, "create") \/ Goes(s, "save")
        BY <2>2, <1>0d
    <2>3. CASE found.status = "paid" /\ job' = [job EXCEPT ![s].at = "mark",
                                                          ![s].amount = found.amount]
        <3>1. WillKnow(job[s]) /\ job[s] \in Job /\ job[s].kind = "deposit"
            BY <1>8, <1>0, <1>0a, OthersKnow DEF Jobs, FindDeposit, At
        <3>2. deposit'[job[s].user].status # "none"
            BY <1>8, <2>3 DEF FindDeposit
        <3>3. WillKnow([job[s] EXCEPT !.at = "mark", !.amount = found.amount])
            BY <3>1, <3>2 DEF WillKnow, KnowsIn, Job
        <3> QED
            BY <2>3, <3>3, <1>0a, OneJobChanges
    <2> QED
        BY <1>8, <2>1, <2>2, <2>3 DEF FindDeposit
<1>9. ASSUME NEW s \in Slots, CreateDeposit(s) \/ SaveDeposit(s)
      PROVE  Jobs'
    <2>1. CASE Ends(s)
        BY <2>1, <1>0c
    <2>2. CASE Goes(s, "mark") /\ deposit' = [deposit EXCEPT ![job[s].user] =
                                   [status |-> "paid", amount |-> job[s].amount]]
        <3>1. WillKnow(job[s]) /\ job[s] \in Job
            BY <1>0, <1>0a, OthersKnow DEF Jobs
        <3>2. job[s].kind = "deposit" /\ job[s].user \in Bidders
            BY <1>9, AtCommand DEF CreateDeposit, SaveDeposit, At
        <3>3. deposit'[job[s].user].status # "none"
            BY <2>2, <3>2, <1>0
        <3>4. WillKnow([job[s] EXCEPT !.at = "mark"])
            BY <3>1, <3>2, <3>3 DEF WillKnow, KnowsIn, Job
        <3> QED
            BY <2>2, <3>4, <1>0a, OneJobChanges DEF Goes
    <2> QED
        BY <1>9, <2>1, <2>2 DEF CreateDeposit, SaveDeposit
<1>10. ASSUME NEW s \in Slots, Settle(s)
       PROVE  Jobs'
    <2>1. phase' = "settled" /\ leader' = leader
        BY <1>10 DEF Settle
    <2>2. WillKnow([Idle EXCEPT !.kind = "settle", !.at = FirstCommand, !.user = leader])
        BY <2>1 DEF WillKnow, KnowsIn, Idle, FirstCommand
    <2> QED
        BY <1>10, <2>2, <1>0a, OneJobChanges DEF Settle, Begins
<1>11. ASSUME NEW s \in Slots, Compensate(s)
       PROVE  Jobs'
    <2>1. phase' = "settled" /\ leader' = leader /\ leader # NoOne /\ winner = leader
        BY <1>11, <1>0 DEF Compensate, Rows, auction
    <2>2. WillKnow([Idle EXCEPT !.kind = "compensate", !.at = "findOrder", !.user = winner])
        BY <2>1 DEF WillKnow, KnowsIn, Idle
    <2> QED
        BY <1>11, <2>2, <1>0a, OneJobChanges DEF Compensate, Begins
<1>12. ASSUME NEW s \in Slots, FindOrder(s)
       PROVE  Jobs'
    <2>1. CASE Ends(s) \/ Goes(s, "list")
        BY <2>1, <1>0c, <1>0d
    <2>2. CASE Goes(s, "createOrder")
        <3>1. WillKnow(job[s]) /\ job[s] \in Job
            BY <1>0, <1>0a, OthersKnow DEF Jobs
        <3>2. job[s].at = "findOrder" /\ job[s].kind \in {"settle", "compensate"}
            BY <1>12 DEF FindOrder, At
        <3>3. WillKnow([job[s] EXCEPT !.at = "createOrder"])
            BY <3>1, <3>2 DEF WillKnow, KnowsIn, Job
        <3> QED
            BY <2>2, <3>3, <1>0a, OneJobChanges DEF Goes
    <2> QED
        BY <1>12, <2>1, <2>2 DEF FindOrder, AfterOrder
<1>13. ASSUME NEW s \in Slots, CreateOrder(s)
       PROVE  Jobs'
    BY <1>13, <1>0c, <1>0d DEF CreateOrder, AfterOrder
<1>14. ASSUME NEW s \in Slots, ListPaidDeposits(s)
       PROVE  Jobs'
    <2>1. CASE Ends(s)
        BY <2>1, <1>0c
    <2>2. CASE job' = [job EXCEPT ![s].at = "refund", ![s].todo = NonWinners(job[s].user)]
        <3>1. WillKnow(job[s]) /\ job[s] \in Job /\ job[s].kind = "settle"
            BY <1>14, <1>0, <1>0a, OthersKnow DEF Jobs, ListPaidDeposits, At
        <3>2. job[s].user \notin NonWinners(job[s].user)
            BY DEF NonWinners
        <3>3. WillKnow([job[s] EXCEPT !.at = "refund", !.todo = NonWinners(job[s].user)])
            BY <3>1, <3>2 DEF WillKnow, KnowsIn, Job
        <3> QED
            BY <2>2, <3>3, <1>0a, OneJobChanges
    <2> QED
        BY <1>14, <2>1, <2>2 DEF ListPaidDeposits
<1>15. ASSUME NEW s \in Slots, NEW kind \in {"pay", "cancel", "expire"},
              order.status # "none", order' = order, Begins(s, kind, "update", order.user)
       PROVE  Jobs'
    <2>1. WillKnow([Idle EXCEPT !.kind = kind, !.at = "update", !.user = order.user])
        BY <1>15 DEF WillKnow, KnowsIn, Idle
    <2> QED
        BY <1>15, <2>1, <1>0a, OneJobChanges DEF Begins
<1>16. ASSUME NEW s \in Slots, Pay(s) \/ Cancel(s) \/ ScanExpired(s)
       PROVE  Jobs'
    BY <1>16, <1>15 DEF Pay, Cancel, ScanExpired, orders
<1>17. ASSUME NEW s \in Slots, UpdateOrder(s)
       PROVE  Jobs'
    <2>1. CASE Ends(s)
        BY <2>1, <1>0c
    <2>2. CASE Goes(s, "refetch")
        BY <2>2, <1>0d
    <2>3. CASE Goes(s, "deposit") /\ order' = [order EXCEPT !.status = Outcome(job[s].kind)]
        <3>1. WillKnow(job[s]) /\ job[s] \in Job
            BY <1>0, <1>0a, OthersKnow DEF Jobs
        <3>2. order'.status = Outcome(job[s].kind) /\ job[s].kind \in {"pay", "cancel", "expire"}
            BY <2>3, <1>17, <1>0 DEF UpdateOrder, At, TypeOK
        <3>3. WillKnow([job[s] EXCEPT !.at = "deposit"])
            BY <3>1, <3>2 DEF WillKnow, KnowsIn, Job, Outcome
        <3> QED
            BY <2>3, <3>3, <1>0a, OneJobChanges DEF Goes
    <2> QED
        BY <1>17, <2>1, <2>2, <2>3 DEF UpdateOrder
<1>18. ASSUME NEW s \in Slots, SettleBlind(s)
       PROVE  Jobs'
    <2>1. WillKnow([Idle EXCEPT !.kind = "settle", !.at = "list", !.user = NoOne])
        BY <1>18 DEF SettleBlind, WillKnow, KnowsIn, Idle
    <2> QED
        BY <1>18, <2>1, <1>0a, OneJobChanges DEF SettleBlind, Begins
<1> QED
    BY <1>1, <1>2, <1>3, <1>4, <1>5, <1>6, <1>7, <1>8, <1>9, <1>10, <1>11, <1>12, <1>13, <1>14,
       <1>16, <1>17, <1>18 DEF Next

-----------------------------------------------------------------------------
(* The money.                                                              *)

\* The leader of an undecided auction has paid: who is made the leader had
\* a deposit when the bid was checked, if one was asked for, and until the
\* auction is settled no deposit is given back; afterwards the refunds leave
\* the leader out, unless the settlement has missed the hash.
LEMMA LeaderPreserved == IInv /\ [Next]_vars => LeaderRow'
<1> SUFFICES ASSUME IInv, [Next]_vars,
                    leader' # NoOne, order'.status \in {"none", "pending"}
             PROVE  \/ deposit'[leader'].status = "paid"
                    \/ required' = 0 /\ deposit'[leader'].status = "none"
                    \/ blind' /\ deposit'[leader'].status = "refunded"
    BY DEF LeaderRow
<1> DEFINE Goal == \/ deposit'[leader'].status = "paid"
                   \/ required' = 0 /\ deposit'[leader'].status = "none"
                   \/ blind' /\ deposit'[leader'].status = "refunded"
<1>0. /\ TypeOK /\ Rows /\ LeaderRow /\ deposit \in [Bidders -> Deposit]
      /\ leader \in Bidders \cup {NoOne} /\ leader' \in Bidders \cup {NoOne}
      /\ phase \in {"draft", "onSale", "settled"} /\ Forward
    BY TypeParts, TypesPreserved, StepsForward DEF IInv, TypeOK
<1>0a. order.status \in {"none", "pending"}
    BY <1>0 DEF Forward
<1>0b. ASSUME leader' = leader, deposit' = deposit PROVE Goal
    <2>1. phase # "draft"
        BY <1>0, <1>0b DEF Rows
    <2>2. required' = required /\ (blind => blind')
        BY <2>1, <1>0 DEF Forward
    <2> QED
        BY <2>2, <1>0, <1>0a, <1>0b DEF LeaderRow
<1>1. CASE OpenSale \/ UpdateItem \/ UNCHANGED kept
    BY <1>1, <1>0b DEF OpenSale, UpdateItem, kept
<1>2. ASSUME NEW s \in Slots, Writes(s)
      PROVE  Goal
    <2>1. CASE \/ \E u \in Bidders : HasPaidDeposit(s, u)
               \/ MarkPaid(s) \/ Settle(s) \/ SettleBlind(s) \/ CreateOrder(s)
               \/ UpdateOrder(s) \/ Refetch(s)
        BY <2>1, <1>0b DEF HasPaidDeposit, MarkPaid, Settle, SettleBlind, CreateOrder,
                           UpdateOrder, Refetch, auction
    <2>2. ASSUME NEW u \in Bidders, RefundNonWinner(s, u)
          PROVE  Goal
        <3>1. leader' = leader /\ required' = required /\ blind' = blind
            BY <2>2 DEF RefundNonWinner, auction
        <3>2. leader # u \/ blind
            BY <2>2, AtCommand DEF RefundNonWinner, At
        <3>3. /\ leader # u => deposit'[leader] = deposit[leader]
              /\ deposit'[leader].status \in {deposit[leader].status, "refunded"}
            BY <2>2, <3>1, <1>0, SettledFacts DEF RefundNonWinner
        <3> QED
            BY <3>1, <3>2, <3>3, <1>0, <1>0a DEF LeaderRow
    <2>3. CASE PlaceBid(s)
        <3>1. deposit' = deposit /\ required' = required /\ blind' = blind
            BY <2>3 DEF PlaceBid
        <3>2. CASE phase = "onSale"
            <4>1. job[s].user \in Bidders
                  /\ (required = 0 \/ deposit[job[s].user].status # "none")
                BY <2>3, AtCommand DEF PlaceBid, At
            <4>2. \/ deposit[job[s].user].status \in {"none", "paid"}
                  \/ blind /\ deposit[job[s].user].status = "refunded"
                BY <3>2, <4>1, <1>0 DEF Rows
            <4> QED
                BY <2>3, <3>1, <3>2, <4>1, <4>2 DEF PlaceBid
        <3>3. CASE phase # "onSale"
            BY <2>3, <3>1, <3>3, <1>0b DEF PlaceBid
        <3> QED
            BY <3>2, <3>3
    <2>4. CASE CreateDeposit(s) \/ SaveDeposit(s)
        <3>1. leader' = leader /\ required' = required /\ blind' = blind
            BY <2>4 DEF CreateDeposit, SaveDeposit, auction
        <3>2. \/ deposit' = deposit
              \/ deposit' = [deposit EXCEPT ![job[s].user] =
                                [status |-> "paid", amount |-> job[s].amount]]
            BY <2>4 DEF CreateDeposit, SaveDeposit
        <3>3. deposit'[leader] = deposit[leader] \/ deposit'[leader].status = "paid"
            BY <3>1, <3>2, <1>0
        <3> QED
            BY <3>1, <3>3, <1>0, <1>0a DEF LeaderRow
    <2>5. CASE SettleWinner(s)
        <3>1. order.status = Outcome(job[s].kind)
            BY <2>5, AtCommand DEF SettleWinner, At
        <3> QED
            BY <3>1, <1>0a DEF Outcome
    <2> QED
        BY <1>2, <2>1, <2>2, <2>3, <2>4, <2>5 DEF Writes
<1> QED
    BY <1>1, <1>2, StepKinds

\* The winner's deposit follows the order: it is paid when the order is
\* made, and only who has decided the order settles it.
LEMMA DepositPreserved == IInv /\ [Next]_vars => DepositFollowsOrder'
<1> SUFFICES ASSUME IInv, [Next]_vars PROVE DepositFollowsOrder'
    OBVIOUS
<1>0. /\ TypeOK /\ Rows /\ LeaderRow /\ DepositFollowsOrder /\ deposit \in [Bidders -> Deposit]
      /\ leader \in Bidders \cup {NoOne} /\ LeaderRow' /\ Rows' /\ TypeOK'
    BY TypeParts, TypesPreserved, LeaderPreserved, RowsPreserved DEF IInv
<1>0a. order.status # "none" => order.user \in Bidders
    BY <1>0 DEF TypeOK
<1>0b. order.status # "none" => required' = required /\ (blind => blind')
    BY <1>0, StepsForward DEF Forward, Rows
<1>0c. ASSUME order' = order, deposit' = deposit
       PROVE  DepositFollowsOrder'
    BY <1>0b, <1>0c, <1>0 DEF DepositFollowsOrder
<1>1. CASE OpenSale \/ UpdateItem
    BY <1>1, <1>0c DEF OpenSale, UpdateItem, orders
<1>2. ASSUME NEW s \in Slots, Writes(s)
      PROVE  DepositFollowsOrder'
    <2>1. CASE \/ \E u \in Bidders : HasPaidDeposit(s, u)
               \/ PlaceBid(s) \/ MarkPaid(s) \/ Settle(s) \/ SettleBlind(s) \/ Refetch(s)
        BY <2>1, <1>0c DEF HasPaidDeposit, PlaceBid, MarkPaid, Settle, SettleBlind, Refetch, orders
    <2>2. ASSUME NEW u \in Bidders, RefundNonWinner(s, u)
          PROVE  DepositFollowsOrder'
        <3>1. (leader # u \/ blind) /\ order' = order /\ blind' = blind
            BY <2>2, AtCommand DEF RefundNonWinner, At, orders, auction
        <3>2. order.status # "none" =>
                  \/ deposit'[order.user] = deposit[order.user]
                  \/ blind /\ deposit'[order.user].status = "refunded"
            <4>1. deposit' = Settled(u, "refunded")
                BY <2>2 DEF RefundNonWinner
            <4>2. ASSUME order.status # "none", order.user # u
                  PROVE  deposit'[order.user] = deposit[order.user]
                BY <4>1, <4>2, <1>0, <1>0a, SettledFacts
            <4>3. ASSUME order.status # "none", order.user = u, deposit[u].status # "paid"
                  PROVE  deposit'[order.user] = deposit[order.user]
                BY <4>1, <4>3, <1>0, <1>0a, SettledFacts
            <4>4. ASSUME order.status # "none", order.user = u, deposit[u].status = "paid"
                  PROVE  blind /\ deposit'[order.user].status = "refunded"
                <5>1. blind
                    BY <4>4, <3>1, <1>0 DEF Rows
                <5>2. deposit'[u].status = "refunded"
                    BY <4>1, <4>4, <1>0 DEF Settled, Deposit
                <5> QED
                    BY <4>4, <5>1, <5>2
            <4> QED
                BY <4>2, <4>3, <4>4
        <3> QED
            BY <3>1, <3>2, <1>0, <1>0b DEF DepositFollowsOrder
    <2>3. CASE CreateDeposit(s) \/ SaveDeposit(s)
        <3>1. order' = order
            BY <2>3 DEF CreateDeposit, SaveDeposit, orders
        <3>2. \/ deposit' = deposit
              \/ deposit' = [deposit EXCEPT ![job[s].user] =
                                [status |-> "paid", amount |-> job[s].amount]]
            BY <2>3 DEF CreateDeposit, SaveDeposit
        <3>3. order.status # "none" => \/ deposit'[order.user] = deposit[order.user]
                                       \/ deposit'[order.user].status = "paid"
            BY <3>2, <1>0, <1>0a
        <3> QED
            BY <3>1, <3>3, <1>0, <1>0b DEF DepositFollowsOrder
    <2>4. CASE CreateOrder(s)
        <3>1. CASE order' = order
            BY <2>4, <3>1, <1>0c DEF CreateOrder
        <3>2. CASE order' # order
            <4>1. order' = [status |-> "pending", user |-> job[s].user]
                BY <2>4, <3>2 DEF CreateOrder, OrderAfterInsert
            <4>2. job[s].user # NoOne
                BY <2>4, AtCommand DEF CreateOrder, At
            <4>3. order'.user = leader'
                BY <4>1, <1>0 DEF Rows
            <4>4. \/ deposit'[order'.user].status = "paid"
                  \/ required' = 0 /\ deposit'[order'.user].status = "none"
                  \/ blind' /\ deposit'[order'.user].status = "refunded"
                BY <4>1, <4>2, <4>3, <1>0 DEF LeaderRow
            <4> QED
                BY <4>1, <4>4 DEF DepositFollowsOrder
        <3> QED
            BY <3>1, <3>2
    <2>5. CASE UpdateOrder(s)
        <3>1. deposit' = deposit
            BY <2>5 DEF UpdateOrder, auction
        <3>2. CASE order' = order
            BY <3>1, <3>2, <1>0c
        <3>3. CASE order' # order
            <4>1. order.status = "pending" /\ order' = [order EXCEPT !.status = Outcome(job[s].kind)]
                BY <2>5, <3>3 DEF UpdateOrder, Undecided
            <4>2. order'.user = order.user /\ order'.status \in {"paid", "cancelled", "expired"}
                BY <4>1, <1>0 DEF Outcome, TypeOK
            <4>3. \/ deposit'[order'.user].status = "paid"
                  \/ required' = 0 /\ deposit'[order'.user].status = "none"
                  \/ blind' /\ deposit'[order'.user].status = "refunded"
                BY <3>1, <4>1, <4>2, <1>0, <1>0b DEF DepositFollowsOrder
            <4> QED
                BY <4>2, <4>3 DEF DepositFollowsOrder
        <3> QED
            BY <3>2, <3>3
    <2>6. CASE SettleWinner(s)
        <3>1. /\ order.status = Outcome(job[s].kind) /\ job[s].user = order.user
              /\ order' = order /\ job[s].kind \in {"pay", "cancel", "expire"}
              /\ order.status # "none"
            BY <2>6, AtCommand DEF SettleWinner, At
        <3>2. \/ deposit'[order.user].status = deposit[order.user].status
              \/ deposit'[order.user].status = DepositAfter(job[s].kind)
            <4>1. DepositAfter(job[s].kind) \in {"refunded", "forfeited"}
                BY DEF DepositAfter
            <4> QED
                BY <2>6, <3>1, <4>1, <1>0, <1>0a, SettledFacts DEF SettleWinner
        <3> QED
            BY <3>1, <3>2, <1>0, <1>0b DEF DepositFollowsOrder, Outcome, DepositAfter
    <2> QED
        BY <1>2, <2>1, <2>2, <2>3, <2>4, <2>5, <2>6 DEF Writes
<1>3. CASE UNCHANGED kept
    BY <1>3, <1>0c DEF kept
<1> QED
    BY <1>1, <1>2, <1>3, StepKinds

\* A settled deposit was settled for a reason, and the reason is final.
LEMMA CausesPreserved == IInv /\ DepositTakenForCause /\ [Next]_vars => DepositTakenForCause'
<1> SUFFICES ASSUME IInv, DepositTakenForCause, [Next]_vars, NEW u \in Bidders
             PROVE  /\ deposit'[u].status = "forfeited" =>
                          u = order'.user /\ order'.status \in {"cancelled", "expired"}
                    /\ deposit'[u].status = "refunded" /\ ~blind' =>
                          phase' = "settled" /\ (u = leader' => order'.status = "paid")
    BY DEF DepositTakenForCause
<1>0. /\ TypeOK /\ Rows /\ Forward /\ deposit \in [Bidders -> Deposit]
      /\ deposit[u].status = "forfeited" =>
            u = order.user /\ order.status \in {"cancelled", "expired"}
      /\ deposit[u].status = "refunded" /\ ~blind =>
            phase = "settled" /\ (u = leader => order.status = "paid")
    BY TypeParts, StepsForward DEF IInv, DepositTakenForCause
<1>1. ASSUME deposit'[u].status \in {deposit[u].status, "none", "paid"}
      PROVE  /\ deposit'[u].status = "forfeited" =>
                   u = order'.user /\ order'.status \in {"cancelled", "expired"}
             /\ deposit'[u].status = "refunded" /\ ~blind' =>
                   phase' = "settled" /\ (u = leader' => order'.status = "paid")
    BY <1>0, <1>1 DEF Forward
<1>2. CASE OpenSale \/ UpdateItem \/ UNCHANGED kept
    <2>1. deposit' = deposit
        BY <1>2 DEF OpenSale, UpdateItem, kept
    <2> QED
        BY <2>1, <1>1
<1>3. ASSUME NEW s \in Slots, Writes(s)
      PROVE  /\ deposit'[u].status = "forfeited" =>
                   u = order'.user /\ order'.status \in {"cancelled", "expired"}
             /\ deposit'[u].status = "refunded" /\ ~blind' =>
                   phase' = "settled" /\ (u = leader' => order'.status = "paid")
    <2>1. CASE \/ \E v \in Bidders : HasPaidDeposit(s, v)
               \/ PlaceBid(s) \/ MarkPaid(s) \/ Settle(s) \/ SettleBlind(s) \/ CreateOrder(s)
               \/ UpdateOrder(s) \/ Refetch(s)
        <3>1. deposit' = deposit
            BY <2>1 DEF HasPaidDeposit, PlaceBid, MarkPaid, Settle, SettleBlind, CreateOrder, UpdateOrder,
                        Refetch, auction
        <3> QED
            BY <3>1, <1>1
    <2>2. CASE CreateDeposit(s) \/ SaveDeposit(s)
        <3>1. \/ deposit' = deposit
              \/ deposit' = [deposit EXCEPT ![job[s].user] =
                                [status |-> "paid", amount |-> job[s].amount]]
            BY <2>2 DEF CreateDeposit, SaveDeposit
        <3>2. deposit'[u].status \in {deposit[u].status, "paid"}
            BY <3>1, <1>0
        <3> QED
            BY <3>2, <1>1
    <2>3. ASSUME NEW v \in Bidders, RefundNonWinner(s, v)
          PROVE  /\ deposit'[u].status = "forfeited" =>
                       u = order'.user /\ order'.status \in {"cancelled", "expired"}
                 /\ deposit'[u].status = "refunded" /\ ~blind' =>
                       phase' = "settled" /\ (u = leader' => order'.status = "paid")
        <3>1. /\ (leader # v /\ phase = "settled") \/ blind
              /\ phase' = phase /\ leader' = leader /\ blind' = blind
            BY <2>3, AtCommand DEF RefundNonWinner, At, auction
        <3>2. deposit' = Settled(v, "refunded")
            BY <2>3 DEF RefundNonWinner
        <3>3. CASE u = v
            <4>1. deposit'[u].status \in {deposit[u].status, "refunded"}
                BY <3>2, <1>0, SettledFacts
            <4> QED
                BY <4>1, <3>1, <3>3, <1>1
        <3>4. CASE u # v
            BY <3>2, <3>4, <1>0, <1>1, SettledFacts
        <3> QED
            BY <3>3, <3>4
    <2>4. CASE SettleWinner(s)
        <3>1. /\ order.status = Outcome(job[s].kind) /\ job[s].user = order.user
              /\ order' = order /\ job[s].kind \in {"pay", "cancel", "expire"}
              /\ order.status # "none" /\ order.user = leader
            BY <2>4, <1>0, AtCommand DEF SettleWinner, At, Rows
        <3>2. phase = "settled" /\ phase' = phase /\ leader' = leader
            BY <2>4, <3>1, <1>0 DEF SettleWinner, auction, Rows
        <3>3. DepositAfter(job[s].kind) \in {"refunded", "forfeited"}
            BY DEF DepositAfter
        <3>4. CASE u = order.user /\ deposit'[u].status = DepositAfter(job[s].kind)
            BY <3>1, <3>2, <3>4 DEF Outcome, DepositAfter
        <3>5. CASE u # order.user
            BY <2>4, <3>1, <3>3, <3>5, <1>0, <1>1, SettledFacts DEF SettleWinner
        <3>6. CASE u = order.user /\ deposit'[u].status # DepositAfter(job[s].kind)
            <4>1. deposit'[u].status = deposit[u].status
                BY <2>4, <3>1, <3>3, <3>6, <1>0, SettledFacts DEF SettleWinner
            <4> QED
                BY <4>1, <1>1
        <3> QED
            BY <3>4, <3>5, <3>6
    <2> QED
        BY <1>3, <2>1, <2>2, <2>3, <2>4 DEF Writes
<1> QED
    BY <1>2, <1>3, StepKinds

\* Success is answered after the caller's own update, or after it has seen
\* the order paid by another.
LEMMA ReceiptPreserved == IInv /\ [Next]_vars => ReceiptMeansPaid'
<1> SUFFICES ASSUME IInv, [Next]_vars, receipt' PROVE order'.status = "paid"
    BY DEF ReceiptMeansPaid
<1>0. ReceiptMeansPaid /\ Forward /\ TypeOK
    BY StepsForward DEF IInv
<1>1. CASE receipt
    BY <1>1, <1>0 DEF ReceiptMeansPaid, Forward
<1>2. CASE ~receipt
    <2>1. PICK s \in Slots : Refetch(s) \/ SettleWinner(s)
        <3>1. ~ UNCHANGED receipt
            BY <1>2, <1>0 DEF TypeOK
        <3>2. PICK s \in Slots : Writes(s)
            BY <3>1, StepKinds DEF OpenSale, UpdateItem, orders, kept
        <3> QED
            BY <3>1, <3>2 DEF Writes, HasPaidDeposit, RefundNonWinner, PlaceBid, CreateDeposit,
                              SaveDeposit, MarkPaid, Settle, SettleBlind, CreateOrder,
                              UpdateOrder, orders
    <2>2. CASE Refetch(s)
        BY <2>2, <1>2, <1>0 DEF Refetch, PaidByAnother
    <2>3. CASE SettleWinner(s)
        <3>1. order.status = Outcome(job[s].kind) /\ order' = order
            BY <2>3, AtCommand DEF SettleWinner, At
        <3>2. job[s].kind = "pay"
            BY <2>3, <1>2 DEF SettleWinner
        <3> QED
            BY <3>1, <3>2 DEF Outcome
    <2> QED
        BY <2>1, <2>2, <2>3
<1> QED
    BY <1>1, <1>2, <1>0 DEF TypeOK

-----------------------------------------------------------------------------
(* The theorems.                                                           *)

LEMMA InitialState == Init => IInv
<1> SUFFICES ASSUME Init PROVE IInv
    OBVIOUS
<1>1. TypeOK
    BY InitialTypes
<1>2. Rows
    BY DEF Init, Rows
<1>3. Jobs
    BY DEF Init, Jobs, Knows, KnowsIn, Idle
<1>4. DepositFollowsOrder /\ LeaderRow /\ ReceiptMeansPaid
    BY DEF Init, DepositFollowsOrder, LeaderRow, ReceiptMeansPaid
<1> QED
    BY <1>1, <1>2, <1>3, <1>4 DEF IInv

LEMMA Inductive == IInv /\ [Next]_vars => IInv'
    BY TypesPreserved, RowsPreserved, JobsPreserved, LeaderPreserved, DepositPreserved,
       ReceiptPreserved DEF IInv

LEMMA AlwaysIInv == SafeSpec => []IInv
    BY InitialState, Inductive, PTL DEF SafeSpec

\* Rows, markers and jobs have the values the code gives them.
THEOREM TypeCorrect == SafeSpec => []TypeOK
<1>1. IInv => TypeOK
    BY DEF IInv
<1> QED
    BY <1>1, AlwaysIInv, PTL

\* Whichever of payment, cancellation, expiry scan and refunds overlap, the
\* winner's deposit never contradicts the order; there may be none where none
\* was asked for, and only a settlement without the hash may give it back.
THEOREM DepositFollowsOrderHolds == SafeSpec => []DepositFollowsOrder
<1>1. IInv => DepositFollowsOrder
    BY DEF IInv
<1> QED
    BY <1>1, AlwaysIInv, PTL

\* Where a deposit is asked for, and no settlement has missed the hash, the
\* leader's deposit is there and paid until the order is decided.
THEOREM LeaderHasPaidHolds == SafeSpec => []LeaderHasPaid
<1>1. IInv => LeaderHasPaid
    BY DEF IInv, LeaderRow, LeaderHasPaid
<1> QED
    BY <1>1, AlwaysIInv, PTL

\* A deposit is forfeited only for a lapsed order of that bidder; unless a
\* settlement has missed the hash, it is given back only after the end, to
\* the buyer only when the order is paid.
THEOREM DepositTakenForCauseHolds == SafeSpec => []DepositTakenForCause
<1>1. Init => DepositTakenForCause
    BY DEF Init, DepositTakenForCause
<1>2. IInv /\ DepositTakenForCause /\ [Next]_vars => DepositTakenForCause'
    BY CausesPreserved
<1> QED
    BY <1>1, <1>2, AlwaysIInv, PTL DEF SafeSpec

\* A buyer who was told that the payment succeeded has a paid order.
THEOREM ReceiptMeansPaidHolds == SafeSpec => []ReceiptMeansPaid
<1>1. IInv => ReceiptMeansPaid
    BY DEF IInv
<1> QED
    BY <1>1, AlwaysIInv, PTL

\* A decided order never changes again, whoever races to decide it.
THEOREM DecidedOrderStaysHolds == SafeSpec => DecidedOrderStays
<1>1. IInv /\ [Next]_vars =>
          [order.status \in {"paid", "cancelled", "expired"} => order' = order]_vars
    BY StepsForward DEF Forward
<1> QED
    BY <1>1, AlwaysIInv, PTL DEF SafeSpec, DecidedOrderStays
=============================================================================
