\* Interleavings: two bid handlers and two settlement passes in flight, one
\* bid below the cap and one above it.  Two milliseconds to the second, an
\* end in mid-second, one extension within the time budget.
CONSTANTS
    Users = {u1, u2}
    NoUser = NoUser
    Keys = {k1}
    Prices = {3, 7}
    StartPrice = 1
    BidIncr = 2
    PriceCap = 6
    RuleEnd = 3
    ExtTrigSec = 1
    ExtSec = 1
    MaxExtCount = 2
    MaxExtTotal = 1
    SecMS = 2
    Settlers = {s1, s2}
    MaxInflight = 2
    MaxClock = 5
SYMMETRY Symmetry
SPECIFICATION SafeSpec
INVARIANTS
    TypeOK
    LogDeterminesState
    IdempotencyNamesItsBid
    OneOwnerOfTheEnd
    EndIsJustified
    NeverScheduledLate
PROPERTIES
    FinalResultFrozen
    LateByLessThanASecond
    AntiSnipe
\* The clock is bounded and an auction that is over stays over.
CHECK_DEADLOCK FALSE
