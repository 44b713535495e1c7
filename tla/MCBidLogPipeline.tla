-------------------------- MODULE MCBidLogPipeline --------------------------
(***************************************************************************)
(* The instance of BidLogPipeline for TLC: the second of the bids is       *)
(* written in a form the worker cannot parse.                              *)
(***************************************************************************)
EXTENDS BidLogPipeline

SecondIsMalformed == {2}
=============================================================================
