\* Every request, cron and failure, two handlers at a time.
SPECIFICATION SafeSpec
CONSTANTS
    Slots = {s1, s2}
    MaxBids = 2
    FreeStart = TRUE
    MaxAsked <- BusyMerchant
SYMMETRY Symmetry
INVARIANTS
    TypeOK
    RowAgreesWithSnapshot
    OneWinner
    BuyerKeepsDeposit
PROPERTIES
    EndedIsFinal
\* An item that is settled or deleted stays so.
CHECK_DEADLOCK FALSE
