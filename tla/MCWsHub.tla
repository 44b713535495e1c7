------------------------------- MODULE MCWsHub -------------------------------
(***************************************************************************)
(* Instances of WsHub for TLC.                                             *)
(***************************************************************************)
EXTENDS WsHub, TLC

CONSTANTS u1

\* One user's connections to the same stream: each replaces the last.
SameUser == [c \in Conns |-> u1]
Everything == [c \in Conns |-> "all"]
=============================================================================
