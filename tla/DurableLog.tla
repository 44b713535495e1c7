----------------------------- MODULE DurableLog -----------------------------
(***************************************************************************)
(* What the way of accepted bids to MySQL promises, with no streams,       *)
(* workers, batches or second Redis in it.  A bid that is accepted is      *)
(* queued in the same step; only what is queued comes to be kept; what was *)
(* kept once stays kept; and nothing leaves the queue that is not kept by  *)
(* then.                                                                   *)
(***************************************************************************)

CONSTANT Bids   \* whatever names an accepted bid

VARIABLES
    accepted,   \* the bids the bidders were told are accepted
    queued,     \* those some worker will still be given
    kept        \* those that are where they belong for good

vars == <<accepted, queued, kept>>

Init == accepted = {} /\ queued = {} /\ kept = {}

Accept(b) ==
    /\ b \notin accepted
    /\ accepted' = accepted \cup {b}
    /\ queued' = queued \cup {b}
    /\ UNCHANGED kept

\* A bid may be queued long after it was kept, and may be kept and leave the
\* queue in one step.
Work(new, done) ==
    /\ done \subseteq kept \cup new
    /\ kept' = kept \cup new
    /\ queued' = queued \ done
    /\ UNCHANGED accepted

Next ==
    \/ \E b \in Bids : Accept(b)
    \/ \E new, done \in SUBSET queued : Work(new, done)

\* The safety part: every step is one of the above.
SafeSpec == Init /\ [][Next]_vars

\* With the promise that what is queued is kept in the end.
Spec ==
    /\ SafeSpec
    /\ \A b \in Bids : WF_vars(\E new, done \in SUBSET queued :
                                   b \in new \ kept /\ Work(new, done))

\* Nothing that was accepted is anywhere else, and nothing else is anywhere.
NothingIsLost == accepted = queued \cup kept
=============================================================================
