-------------------------- MODULE MCItemLifecycle ---------------------------
(***************************************************************************)
(* Instances of ItemLifecycle for TLC: what the merchant and the start     *)
(* cron ask for.  Slots are interchangeable where no liveness is checked.  *)
(***************************************************************************)
EXTENDS ItemLifecycle, TLC

\* Published and started once: everything else is bidding and settling.
PlainSale ==
    [publish |-> 1, start |-> 1, cancel |-> 0, update |-> 0, delete |-> 0, view |-> 1]

\* Each request once, at any time.
BusyMerchant ==
    [publish |-> 1, start |-> 1, cancel |-> 1, update |-> 1, delete |-> 1, view |-> 1]

\* The same, and two viewers of the item.
ViewedSale == [PlainSale EXCEPT !.view = 2]

\* The merchant and the cron start the same item.
TwoStarts ==
    [publish |-> 1, start |-> 2, cancel |-> 0, update |-> 0, delete |-> 0, view |-> 0]

Symmetry == Permutations(Slots)
=============================================================================
