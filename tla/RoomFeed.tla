------------------------------ MODULE RoomFeed ------------------------------
(***************************************************************************)
(* What the room of an auction is told, with no pods, tasks, timers or     *)
(* coalescing in it: of each accepted bid once, unless that is lost, and   *)
(* of the end when there has been one.  Bids are accepted until the end    *)
(* and never after; they may be told in any order, and after the end.      *)
(***************************************************************************)

CONSTANT Bids   \* whatever names an accepted bid

VARIABLES
    accepted,   \* the accepted bids
    open,       \* whether there may be more
    told,       \* the bids that events stand for that were sent
    lost,       \* the bids no event will ever stand for
    endTold     \* whether the end was sent

vars == <<accepted, open, told, lost, endTold>>

Init == accepted = {} /\ open = TRUE /\ told = {} /\ lost = {} /\ endTold = FALSE

\* The bids the room has still to be told of.
Owed == accepted \ (told \cup lost)

\* The bid that reaches the price cap is the last one.
Accept(b) ==
    /\ open /\ b \notin accepted
    /\ accepted' = accepted \cup {b}
    /\ open' \in BOOLEAN
    /\ UNCHANGED <<told, lost, endTold>>

Close ==
    /\ open
    /\ open' = FALSE
    /\ UNCHANGED <<accepted, told, lost, endTold>>

\* One event stands for several bids.
Tell(some) ==
    /\ some \subseteq Owed
    /\ told' = told \cup some
    /\ UNCHANGED <<accepted, open, lost, endTold>>

\* A pod dies with what it had to tell, or cannot get it through.
Lose(some) ==
    /\ some \subseteq Owed
    /\ lost' = lost \cup some
    /\ UNCHANGED <<accepted, open, told, endTold>>

TellEnd ==
    /\ ~open
    /\ endTold' = TRUE
    /\ UNCHANGED <<accepted, open, told, lost>>

Next ==
    \/ \E b \in Bids : Accept(b)
    \/ Close
    \/ \E some \in SUBSET Owed : Tell(some) \/ Lose(some)
    \/ TellEnd

\* Safety only: what is owed is told in the end, but for faults.
SafeSpec == Init /\ [][Next]_vars
=============================================================================
