---------------------------- MODULE MCHotAuction ----------------------------
(***************************************************************************)
(* Model values for checking HotAuction with TLC.  Bidders and keys are    *)
(* interchangeable, and so are settlement passes; no property run under    *)
(* Symmetry is a liveness property.                                        *)
(***************************************************************************)
EXTENDS HotAuction, TLC

Symmetry == Permutations(Users) \cup Permutations(Keys) \cup Permutations(Settlers)
=============================================================================
