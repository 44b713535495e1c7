---------------------------- MODULE MCAfterSale -----------------------------
(***************************************************************************)
(* Instances of AfterSale for TLC: bidders and slots are interchangeable.  *)
(***************************************************************************)
EXTENDS AfterSale, TLC

Symmetry == Permutations(Bidders) \cup Permutations(Slots)
=============================================================================
