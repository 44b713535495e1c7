\* Two pods and two bidders; one fault, at any moment.  No symmetry: liveness.
SPECIFICATION Spec
CONSTANTS
    Pods = {p1, p2}
    Tasks = {t1, t2}
    Users = {u1, u2}
    NoUser = NoUser
    MaxBids = 2
    MaxFaults = 1
INVARIANTS
    TypeOK
    EachBidAnnouncedOnce
PROPERTIES
    EveryBidIsAnnounced
    EndIsAnnounced
\* Once the auction is over and announced nothing is left to do.
CHECK_DEADLOCK FALSE
