\* One sale from publication to its order, with every failure and crash.
SPECIFICATION Spec
CONSTANTS
    Slots = {s1, s2}
    MaxBids = 1
    FreeStart = FALSE
    MaxAsked <- PlainSale
PROPERTIES
    OngoingIsSettled
    WinnerGetsOrder
\* A settled item stays so.
CHECK_DEADLOCK FALSE
