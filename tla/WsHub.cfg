\* Two connections of one user to one stream, each of which replaces the
\* last.  No symmetry: liveness.
SPECIFICATION Spec
CONSTANTS
    u1 = u1
    Users = {u1}
    Conns = {1, 2}
    UserOf <- SameUser
    StreamOf <- Everything
    HighCap = 2
    SendCap = 1
    MaxEvents = 2
INVARIANTS
    TypeOK
    OneConnectionPerStream
    UrgentFirst
PROPERTIES
    EndReachesViewers
    QueuedBidIsWritten
    TimeSyncIsWritten
\* Once every event is written or every connection closed nothing is left.
CHECK_DEADLOCK FALSE
