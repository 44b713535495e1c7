\* One start that fails at its last command, then two reads that find no
\* hash: the documents want no ready state with accepted bids overwritten.
SPECIFICATION SafeSpec
CONSTANTS
    Slots = {s1, s2}
    MaxBids = 2
    FreeStart = FALSE
    MaxAsked <- ViewedSale
PROPERTIES
    ReadyStateIsKept
CHECK_DEADLOCK FALSE
