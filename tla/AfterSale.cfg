\* Two bidders, a deposit that is raised once, two handlers at a time.
SPECIFICATION SafeSpec
CONSTANTS
    Bidders = {b1, b2}
    NoOne = NoOne
    Slots = {s1, s2}
    MaxAmount = 2
SYMMETRY Symmetry
INVARIANTS
    TypeOK
    DepositFollowsOrder
    LeaderHasPaid
    ReceiptMeansPaid
PROPERTIES
    DecidedOrderStays
