------------------------------ MODULE MCFailover -----------------------------
(***************************************************************************)
(* The instances of Failover for TLC: what may fail how often.             *)
(***************************************************************************)
EXTENDS Failover

\* One outage of the cloud Redis and nothing else.
CloudOutage == [f \in Faults |-> IF f = "cloud" THEN 1 ELSE 0]

\* The cloud Redis and MySQL fail once each, and a pod restarts once.
Misfortunes == [f \in Faults |-> IF f = "local" THEN 0 ELSE 1]
=============================================================================
