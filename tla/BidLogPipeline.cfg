\* Three bids, one malformed, batches of two, two pods that may always fail.
\* No symmetry: one of the properties is a liveness property.
SPECIFICATION Spec
CONSTANTS
    Workers = {w1, w2}
    Malformed <- SecondIsMalformed
    BatchSize = 2
    MaxEntries = 3
INVARIANTS
    TypeOK
    DrainedIsComplete
PROPERTIES
    ImplementsDurableLog
    EveryBidIsKept
