----------------------------- MODULE AfterSale ------------------------------
(***************************************************************************)
(* The money around one item: the deposits bidders pay before they bid,    *)
(* the order of the winner, and what becomes of the deposits when the      *)
(* auction and then the order are decided.  Rows are changed by compare-   *)
(* and-set on their status, except that paying a deposit again saves the   *)
(* whole row it read.                                                      *)
(*                                                                         *)
(* A handler at work is a job in a slot; job[s].at names its next command. *)
(* The item is only its phase here: ItemLifecycle has what moves it.       *)
(* Handlers that persist the end name the last leader (OneWinner there) or *)
(* nobody: the fallback, when the item's hash is missing.  An item started *)
(* twice, or whose hash is rebuilt with another leader, is not here.       *)
(* An operator named Mut_... is a wrong variant of the definition after it *)
(* and is used nowhere in this module.                                     *)
(***************************************************************************)
EXTENDS Naturals, FiniteSets

CONSTANTS
    Bidders,
    NoOne,      \* stands for no bidder
    Slots,      \* bound: handlers at work at the same time
    MaxAmount   \* bound: the largest deposit a merchant asks for, 0 being none

ASSUME SetsAssumption == IsFiniteSet(Slots) /\ NoOne \notin Bidders
ASSUME MaxAmountAssumption == MaxAmount \in Nat \ {0}

VARIABLES
    phase,      \* "draft", "onSale" or "settled"
    required,   \* auction_rules.deposit_amount
    deposit,    \* per bidder: status and amount; "none" without a row
    marker,     \* per bidder: the paid amount Redis remembers, 0 for none
    leader,     \* the bidder of the last accepted bid
    winner,     \* auction_items.winner_id
    order,      \* the item's order: status and bidder
    late,       \* the order's payment time is over
    job,        \* per slot, the handler at work
    receipt,    \* some payment was answered with success
    blind       \* a settlement found no hash: not state of the program

vars == <<phase, required, deposit, marker, leader, winner, order, late, job, receipt,
          blind>>

auction == <<phase, required, leader, winner, blind>>
orders  == <<order, late, receipt>>

Idle == [kind |-> "none", at |-> "none", user |-> NoOne, amount |-> 0, todo |-> {}]

Init ==
    /\ phase = "draft"
    /\ required \in 0..MaxAmount
    /\ deposit = [u \in Bidders |-> [status |-> "none", amount |-> 0]]
    /\ marker = [u \in Bidders |-> 0]
    /\ leader = NoOne
    /\ winner = NoOne
    /\ order = [status |-> "none", user |-> NoOne]
    /\ late = FALSE
    /\ job = [s \in Slots |-> Idle]
    /\ receipt = FALSE
    /\ blind = FALSE

Begins(s, kind, at, user) ==
    /\ job[s] = Idle
    /\ job' = [job EXCEPT ![s] = [Idle EXCEPT !.kind = kind, !.at = at, !.user = user]]

At(s, kinds, at) == job[s].kind \in kinds /\ job[s].at = at
Goes(s, to)      == job' = [job EXCEPT ![s].at = to]
Ends(s)          == job' = [job EXCEPT ![s] = Idle]

\* TransitionDepositStatus.
Settled(u, to) ==
    IF deposit[u].status = "paid" THEN [deposit EXCEPT ![u].status = to] ELSE deposit

-----------------------------------------------------------------------------
(* The auction, as far as it matters here.                                 *)

\* UpdateItem: the merchant edits the draft, bidders may have paid already.
UpdateItem ==
    /\ phase = "draft"
    /\ required' \in 0..MaxAmount
    /\ UNCHANGED <<phase, leader, winner, blind, deposit, marker, orders, job>>

OpenSale ==
    /\ phase = "draft"
    /\ phase' = "onSale"
    /\ UNCHANGED <<required, leader, winner, blind, deposit, marker, orders, job>>

Row(u) == deposit[u].status = "paid" /\ deposit[u].amount >= required

\* Mutant: while MySQL is unavailable a missing marker refuses nobody.
Mut_FailsOpen(u) == Row(u) \/ marker[u] \in {0} \cup required..MaxAmount

\* HasPaidDeposit: by the row, or by the marker while MySQL is unavailable.
\* Nobody is asked for a deposit of 0.
MayBid(u) == required = 0 \/ Row(u) \/ marker[u] >= required

\* The check a bid makes first; a row that is enough is remembered in Redis,
\* unless that fails.
HasPaidDeposit(s, u) ==
    /\ phase = "onSale"
    /\ MayBid(u)
    /\ Begins(s, "bid", "place", u)
    /\ \/ UNCHANGED marker
       \/ /\ required > 0 /\ Row(u)
          /\ marker' = [marker EXCEPT ![u] = deposit[u].amount]
    /\ UNCHANGED <<auction, deposit, orders>>

\* The bid itself: Redis refuses it once the auction is over.
PlaceBid(s) ==
    /\ At(s, {"bid"}, "place")
    /\ leader' = IF phase = "onSale" THEN job[s].user ELSE leader
    /\ Ends(s)
    /\ UNCHANGED <<phase, required, winner, blind, deposit, marker, orders>>

-----------------------------------------------------------------------------
(* PayDeposit, which does not look at the item's status.                   *)

PayDeposit(s, u) ==
    /\ Begins(s, "deposit", "amount", u)
    /\ UNCHANGED <<auction, deposit, marker, orders>>

\* GetMyDeposit remembers a paid row in Redis.
GetMyDeposit(s, u) ==
    /\ deposit[u].status = "paid"
    /\ job[s] = Idle
    /\ job' = [job EXCEPT ![s] = [Idle EXCEPT !.kind = "deposit", !.at = "mark", !.user = u,
                                             !.amount = deposit[u].amount]]
    /\ UNCHANGED <<auction, deposit, marker, orders>>

\* A deposit of 0 cannot be paid.
FindAmount(s) ==
    /\ At(s, {"deposit"}, "amount")
    /\ IF required = 0 THEN Ends(s)
       ELSE job' = [job EXCEPT ![s].at = "find", ![s].amount = required]
    /\ UNCHANGED <<auction, deposit, marker, orders>>

FindDeposit(s) ==
    LET found == deposit[job[s].user]
    IN  /\ At(s, {"deposit"}, "find")
        /\ \/ found.status = "none" /\ Goes(s, "create")
           \/ found.status \in {"refunded", "forfeited"} /\ Ends(s)
           \/ found.status = "paid" /\ found.amount < job[s].amount /\ Goes(s, "save")
           \/ /\ found.status = "paid" /\ found.amount >= job[s].amount
              /\ job' = [job EXCEPT ![s].at = "mark", ![s].amount = found.amount]
        /\ UNCHANGED <<auction, deposit, marker, orders>>

\* Two creations at once: the unique index refuses the second.
CreateDeposit(s) ==
    LET u == job[s].user
    IN  /\ At(s, {"deposit"}, "create")
        /\ IF deposit[u].status = "none"
           THEN /\ deposit' = [deposit EXCEPT ![u] = [status |-> "paid", amount |-> job[s].amount]]
                /\ Goes(s, "mark")
           ELSE Ends(s) /\ UNCHANGED deposit
        /\ UNCHANGED <<auction, marker, orders>>

SaveDeposit(s) ==
    /\ At(s, {"deposit"}, "save")
    /\ deposit' = [deposit EXCEPT ![job[s].user] = [status |-> "paid", amount |-> job[s].amount]]
    /\ Goes(s, "mark")
    /\ UNCHANGED <<auction, marker, orders>>

MarkPaid(s) ==
    /\ At(s, {"deposit"}, "mark")
    /\ marker' = [marker EXCEPT ![job[s].user] = job[s].amount]
    /\ Ends(s)
    /\ UNCHANGED <<auction, deposit, orders>>

-----------------------------------------------------------------------------
(* The end of the auction, persisted by one handler or several.            *)

\* Mutant: an order also for an item nobody bid on.
Mut_AlwaysOrder == "findOrder"

FirstCommand == IF leader = NoOne THEN "list" ELSE "findOrder"

\* The row is saved with the result Redis gives.
Settle(s) ==
    /\ phase \in {"onSale", "settled"}
    /\ phase' = "settled"
    /\ winner' = leader
    /\ Begins(s, "settle", FirstCommand, leader)
    /\ UNCHANGED <<required, leader, blind, deposit, marker, orders>>

\* EndExpiredAuctions found no hash, because a start that failed or a
\* cancellation had deleted it: there is no winner, whoever has bid.  A
\* rebuild that is under way lets the bids go on.
SettleBlind(s) ==
    /\ phase \in {"onSale", "settled"}
    /\ phase' \in {phase, "settled"}
    /\ winner' = NoOne
    /\ blind' = TRUE
    /\ Begins(s, "settle", "list", NoOne)
    /\ UNCHANGED <<required, leader, deposit, marker, orders>>

\* ListEndedItemsWithoutOrder.
Compensate(s) ==
    /\ winner # NoOne /\ order.status = "none"
    /\ Begins(s, "compensate", "findOrder", winner)
    /\ UNCHANGED <<auction, deposit, marker, orders>>

AfterOrder(s) == IF job[s].kind = "settle" THEN Goes(s, "list") ELSE Ends(s)

FindOrder(s) ==
    /\ At(s, {"settle", "compensate"}, "findOrder")
    /\ IF order.status = "none" THEN Goes(s, "createOrder") ELSE AfterOrder(s)
    /\ UNCHANGED <<auction, deposit, marker, orders>>

OrderAfterInsert(s) ==
    IF order.status = "none" THEN [status |-> "pending", user |-> job[s].user] ELSE order

CreateOrder(s) ==
    /\ At(s, {"settle", "compensate"}, "createOrder")
    /\ order' \in {order, OrderAfterInsert(s)}
    /\ AfterOrder(s)
    /\ UNCHANGED <<auction, deposit, marker, late, receipt>>

\* Mutant: the winner's deposit is released with the others.
Mut_AllPaid(buyer) == {u \in Bidders : deposit[u].status = "paid"}

NonWinners(buyer) == {u \in Bidders \ {buyer} : deposit[u].status = "paid"}

ListPaidDeposits(s) ==
    /\ At(s, {"settle"}, "list")
    /\ IF NonWinners(job[s].user) = {}
       THEN Ends(s)
       ELSE job' = [job EXCEPT ![s].at = "refund", ![s].todo = NonWinners(job[s].user)]
    /\ UNCHANGED <<auction, deposit, marker, orders>>

RefundNonWinner(s, u) ==
    /\ At(s, {"settle"}, "refund")
    /\ u \in job[s].todo
    /\ deposit' = Settled(u, "refunded")
    /\ IF job[s].todo = {u} THEN Ends(s)
                            ELSE job' = [job EXCEPT ![s].todo = @ \ {u}]
    /\ UNCHANGED <<auction, marker, orders>>

-----------------------------------------------------------------------------
(* The order's way: pay, cancel and the expiry scan.                       *)

\* Pay finds the order and checks its expiry before it changes the status.
Pay(s) ==
    /\ order.status # "none" /\ ~late
    /\ Begins(s, "pay", "update", order.user)
    /\ UNCHANGED <<auction, deposit, marker, orders>>

Cancel(s) ==
    /\ order.status # "none"
    /\ Begins(s, "cancel", "update", order.user)
    /\ UNCHANGED <<auction, deposit, marker, orders>>

ScanExpired(s) ==
    /\ order.status = "pending" /\ late
    /\ Begins(s, "expire", "update", order.user)
    /\ UNCHANGED <<auction, deposit, marker, orders>>

Outcome(kind) ==
    CASE kind = "pay" -> "paid" [] kind = "cancel" -> "cancelled" [] OTHER -> "expired"

\* Mutant: the status is set, whatever it was.
Mut_AnyOrder == order.status # "none"

Undecided == order.status = "pending"

UpdateOrder(s) ==
    /\ At(s, {"pay", "cancel", "expire"}, "update")
    /\ IF Undecided
       THEN order' = [order EXCEPT !.status = Outcome(job[s].kind)] /\ Goes(s, "deposit")
       ELSE /\ IF job[s].kind = "pay" THEN Goes(s, "refetch") ELSE Ends(s)
            /\ UNCHANGED order
    /\ UNCHANGED <<auction, deposit, marker, late, receipt>>

\* Mutant: whoever lost the race was paid by the other.
Mut_Decided == order.status # "pending"

PaidByAnother == order.status = "paid"

Refetch(s) ==
    /\ At(s, {"pay"}, "refetch")
    /\ receipt' = (receipt \/ PaidByAnother)
    /\ Ends(s)
    /\ UNCHANGED <<auction, deposit, marker, order, late>>

DepositAfter(kind) == IF kind = "pay" THEN "refunded" ELSE "forfeited"

\* RefundWinner or ForfeitWinner; an error is logged and nothing retries.
SettleWinner(s) ==
    /\ At(s, {"pay", "cancel", "expire"}, "deposit")
    /\ deposit' \in {deposit, Settled(job[s].user, DepositAfter(job[s].kind))}
    /\ receipt' = (receipt \/ job[s].kind = "pay")
    /\ Ends(s)
    /\ UNCHANGED <<auction, marker, order, late>>

PaymentTimeEnds ==
    /\ order.status # "none" /\ ~late
    /\ late' = TRUE
    /\ UNCHANGED <<auction, deposit, marker, order, job, receipt>>

\* A command fails or the process dies: what was done stays done.
Crash(s) ==
    /\ job[s] # Idle
    /\ Ends(s)
    /\ UNCHANGED <<auction, deposit, marker, orders>>

Next ==
    \/ UpdateItem
    \/ OpenSale
    \/ PaymentTimeEnds
    \/ \E s \in Slots :
          \/ \E u \in Bidders :
                \/ PayDeposit(s, u)
                \/ GetMyDeposit(s, u)
                \/ HasPaidDeposit(s, u)
                \/ RefundNonWinner(s, u)
          \/ PlaceBid(s)
          \/ FindAmount(s)
          \/ FindDeposit(s)
          \/ CreateDeposit(s)
          \/ SaveDeposit(s)
          \/ MarkPaid(s)
          \/ Settle(s)
          \/ SettleBlind(s)
          \/ Compensate(s)
          \/ FindOrder(s)
          \/ CreateOrder(s)
          \/ ListPaidDeposits(s)
          \/ Pay(s)
          \/ Cancel(s)
          \/ ScanExpired(s)
          \/ UpdateOrder(s)
          \/ Refetch(s)
          \/ SettleWinner(s)
          \/ Crash(s)

SafeSpec == Init /\ [][Next]_vars

-----------------------------------------------------------------------------
(* Properties.                                                             *)

\* Rows, markers and jobs have the values the code gives them, and an order
\* is somebody's.
TypeOK ==
    /\ phase \in {"draft", "onSale", "settled"}
    /\ required \in 0..MaxAmount
    /\ deposit \in [Bidders -> [status: {"none", "paid", "refunded", "forfeited"},
                                amount: 0..MaxAmount]]
    /\ marker \in [Bidders -> 0..MaxAmount]
    /\ {leader, winner} \subseteq Bidders \cup {NoOne}
    /\ order \in [status: {"none", "pending", "paid", "cancelled", "expired"},
                  user: Bidders \cup {NoOne}]
    /\ order.status = "none" <=> order.user = NoOne
    /\ {late, receipt, blind} \subseteq BOOLEAN
    /\ job \in [Slots -> [kind: {"none", "deposit", "bid", "settle", "compensate",
                                 "pay", "cancel", "expire"},
                          at: {"none", "amount", "find", "create", "save", "mark", "place", "findOrder",
                               "createOrder", "list", "refund", "update", "refetch", "deposit"},
                          user: Bidders \cup {NoOne}, amount: 0..MaxAmount,
                          todo: SUBSET Bidders]]

\* p0-auction-demo-closure-design.md:102: the winner's deposit stays paid
\* until the order is decided.  Afterwards it never contradicts the order:
\* not forfeited for a buyer who paid, not given back to one who defaulted,
\* whichever of payment, cancellation, expiry scan and the settlements'
\* refunds overlap.  Where no deposit was asked for there may be none, and a
\* settlement without the hash gives the buyer's back with the others'.
DepositFollowsOrder ==
    order.status # "none" =>
        \/ deposit[order.user].status \in
              CASE order.status = "pending" -> {"paid"}
                [] order.status = "paid"    -> {"paid", "refunded"}
                [] OTHER                    -> {"paid", "forfeited"}
        \/ required = 0 /\ deposit[order.user].status = "none"
        \/ blind /\ deposit[order.user].status = "refunded"

\* Where a deposit is asked for, and no settlement has missed the hash: from
\* the first bid on to the order that decides it the leader's deposit is
\* there and paid, though the check may have been made against a marker that
\* is never removed from Redis, and bids and settlements overlap.
LeaderHasPaid ==
    leader # NoOne /\ order.status \in {"none", "pending"} /\ required > 0 /\ ~blind =>
        deposit[leader].status = "paid"

\* order-payment-design.md:115: paid, cancelled and expired are final, and
\* so is who the order is for.
DecidedOrderStays ==
    [][order.status \in {"paid", "cancelled", "expired"} => order' = order]_vars

\* A buyer who was told that the payment succeeded has a paid order, also
\* when two payments or a payment and a cancellation raced.
ReceiptMeansPaid == receipt => order.status = "paid"

\* A deposit is taken from nobody but the buyer who let the order lapse,
\* whichever settlements, refunds and deciders of the order overlap.  Unless a
\* settlement has missed the hash, it is given back to nobody before the
\* auction is over nor to the buyer before the order is paid.
DepositTakenForCause ==
    \A u \in Bidders :
        /\ deposit[u].status = "forfeited" =>
              u = order.user /\ order.status \in {"cancelled", "expired"}
        /\ deposit[u].status = "refunded" /\ ~blind =>
              phase = "settled" /\ (u = leader => order.status = "paid")
=============================================================================
