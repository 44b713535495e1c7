--------------------------- MODULE EnglishAuction ---------------------------
(***************************************************************************)
(* What one auction promises its bidders, with no Redis, no clock and no   *)
(* concurrency in it: an ascending-price sale that opens once, takes a     *)
(* sequence of strictly rising bids while it is open, and closes once.     *)
(* Closing either sells to the author of the last bid or, when the         *)
(* merchant withdraws the item, sells to nobody.  Modules that model the   *)
(* backend's auction state implement this one.                             *)
(***************************************************************************)
EXTENDS Naturals, Sequences

CONSTANTS
    Users,       \* who may bid
    NoUser,      \* the absent leader or winner
    Prices,      \* what may be bid
    StartPrice   \* the price the first bid must beat

VARIABLES
    phase,       \* "before", "open" or "closed"
    bids,        \* the accepted bids, oldest first
    sale         \* << >> until the sale is made, then one record

vars == <<phase, bids, sale>>

Bid == [user: Users, price: Prices]

Leader == IF bids = <<>> THEN NoUser ELSE bids[Len(bids)].user
Price  == IF bids = <<>> THEN StartPrice ELSE bids[Len(bids)].price

Init ==
    /\ phase = "before"
    /\ bids = <<>>
    /\ sale = <<>>

Open ==
    /\ phase = "before"
    /\ phase' = "open"
    /\ UNCHANGED <<bids, sale>>

\* A bid that beats the price is accepted; it may be the one that ends the
\* auction, and then it wins in the same step.
AcceptBid(b) ==
    /\ phase = "open"
    /\ b.price > Price
    /\ bids' = Append(bids, b)
    /\ \/ UNCHANGED <<phase, sale>>
       \/ /\ phase' = "closed"
          /\ sale' = <<[winner |-> b.user, price |-> b.price]>>

Sell ==
    /\ phase = "open"
    /\ phase' = "closed"
    /\ sale' = <<[winner |-> Leader, price |-> Price]>>
    /\ UNCHANGED bids

Withdraw ==
    /\ phase = "open"
    /\ phase' = "closed"
    /\ UNCHANGED <<bids, sale>>

Next ==
    \/ Open
    \/ \E b \in Bid : AcceptBid(b)
    \/ Sell
    \/ Withdraw

\* The safety part: every step is one of the above.
SafeSpec == Init /\ [][Next]_vars

\* With the promise that an open auction does not stay open for ever.
Spec == SafeSpec /\ WF_vars(Sell \/ Withdraw)

=============================================================================
