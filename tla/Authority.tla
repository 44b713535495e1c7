------------------------------ MODULE Authority ------------------------------
(***************************************************************************)
(* Which Redis a pod writes to.  Every pod probes the cloud Redis, the     *)
(* Redis on its own cluster and MySQL once a second, decides by itself and *)
(* keeps the decision in memory: there is no shared control plane.         *)
(*                                                                         *)
(* Covered: dependencies that become unreachable and come back, for all    *)
(* pods at once, and pods that restart and forget their decision.  Not     *)
(* covered: a dependency that only some pods reach (excluded by the design *)
(* documents) and a Redis that loses its data.                             *)
(*                                                                         *)
(* The three seconds a failover waits for are a choice of Refresh once an  *)
(* earlier probe has found the cloud Redis down.  The ten seconds for      *)
(* which bids are taken without MySQL are not kept: a bid is never obliged *)
(* to succeed.                                                             *)
(***************************************************************************)
EXTENDS Integers

CONSTANTS
    Pods,      \* the backend processes
    MaxFaults  \* bound: outages of each dependency, and restarts of pods

VARIABLES
    up,      \* per dependency: whether it can be reached
    faults,  \* how many outages and restarts there have been
    node     \* per pod: its Snapshot and the private fields of its Runtime

Redises      == {"cloud", "local"}
Dependencies == Redises \cup {"mysql"}

Faults       == Dependencies \cup {"restart"}

ASSUME FaultsAssumption == MaxFaults \in [Faults -> Nat]

Modes == {"normal_cloud", "local_redis_switching", "local_redis_active",
          "mysql_buffering", "auction_protected"}

\* NewRuntime: nothing probed, nothing decided.
Unprobed ==
    [mode |-> "auction_protected", active |-> "none", cloudHealthy |-> FALSE,
     cloudDownSince |-> FALSE, localAuthorityActivated |-> FALSE,
     cloudFailbackReady |-> FALSE]

AuthorityInit ==
    /\ up = [d \in Dependencies |-> TRUE]
    /\ faults = [f \in Faults |-> 0]
    /\ node = [p \in Pods |-> Unprobed]

-----------------------------------------------------------------------------
(* The decision.                                                           *)

\* A healthy cloud Redis serves, unless local Redis has been activated and
\* nothing has yet prepared the way back.
CloudServes(n) ==
    up["cloud"] /\ (n.localAuthorityActivated => n.cloudFailbackReady)

\* `late`: the cloud Redis has been down for FailoverAfter.
FailsOver(n, late) ==
    /\ up["local"] /\ ~up["cloud"] /\ ~n.localAuthorityActivated
    /\ n.cloudDownSince /\ late

\* Mutant: while local Redis is sticky nothing keeps its mode from being that
\* of the switch.
Mut_NeverSettled(n, late) ==
    CASE CloudServes(n) -> "normal_cloud"
      [] ~CloudServes(n) /\ n.localAuthorityActivated /\ up["local"] ->
             "local_redis_switching"
      [] FailsOver(n, late) -> "local_redis_switching"
      [] OTHER -> "auction_protected"

\* The mode as far as the two Redises decide it.
RedisMode(n, late) ==
    CASE CloudServes(n) -> "normal_cloud"
      [] ~CloudServes(n) /\ n.localAuthorityActivated /\ up["local"] ->
             "local_redis_active"
      [] FailsOver(n, late) -> "local_redis_switching"
      [] OTHER -> "auction_protected"

ActiveIn(mode) ==
    CASE mode = "normal_cloud" -> "cloud"
      [] mode = "auction_protected" -> "none"
      [] OTHER -> "local"

\* Mutant: without MySQL the mode is mysql_buffering, even if no Redis is
\* left to buffer in.
Mut_BuffersNowhere(n, late) ==
    [n EXCEPT !.mode = IF up["mysql"] THEN RedisMode(n, late) ELSE "mysql_buffering",
              !.active = ActiveIn(RedisMode(n, late))]

\* What the probes' results make of a pod's runtime.
Decided(n, late) ==
    LET mode == RedisMode(n, late)
    IN  [mode |-> IF up["mysql"] \/ mode = "auction_protected"
                     THEN mode ELSE "mysql_buffering",
         active |-> ActiveIn(mode),
         cloudHealthy |-> up["cloud"],
         cloudDownSince |-> ~up["cloud"],
         localAuthorityActivated |->
             mode # "normal_cloud"
             /\ (n.localAuthorityActivated \/ mode = "local_redis_switching"),
         cloudFailbackReady |->
             n.cloudFailbackReady
             /\ ~(n.localAuthorityActivated /\ mode = "normal_cloud")]

\* Refresh, by the probe loop or at the end of a prewarm.
Refresh(p) ==
    /\ \E late \in BOOLEAN : node' = [node EXCEPT ![p] = Decided(@, late)]
    /\ UNCHANGED <<up, faults>>

-----------------------------------------------------------------------------
(* What may befall the dependencies and the pods.                          *)

Occurs(f) ==
    /\ faults[f] < MaxFaults[f]
    /\ faults' = [faults EXCEPT ![f] = @ + 1]

Fails(d) ==
    /\ up[d] /\ Occurs(d)
    /\ up' = [up EXCEPT ![d] = FALSE]
    /\ UNCHANGED node

Recovers(d) ==
    /\ ~up[d]
    /\ up' = [up EXCEPT ![d] = TRUE]
    /\ UNCHANGED <<faults, node>>

Restarts(p) ==
    /\ Occurs("restart")
    /\ node' = [node EXCEPT ![p] = Unprobed]
    /\ UNCHANGED up

-----------------------------------------------------------------------------
(* What the rest of the system asks the runtime.                           *)

\* ActiveRedis: the client a command is sent to, if the pod may write.
Writable(p) == node[p].active # "none" /\ node[p].mode # "auction_protected"

\* A command of this pod to the active Redis is carried out.
Reaches(p) == Writable(p) /\ up[node[p].active]

shouldPauseSettlement(p) == node[p].mode \in {"auction_protected", "mysql_buffering"}
=============================================================================
