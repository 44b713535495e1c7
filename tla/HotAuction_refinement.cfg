\* Longer histories: three bids fit, but one handler and one pass are in
\* flight at a time.  No symmetry, because the abstract auction also asks
\* that an open auction closes.
CONSTANTS
    Users = {u1, u2}
    NoUser = NoUser
    Keys = {k1}
    Prices = {3, 5, 7}
    StartPrice = 1
    BidIncr = 2
    PriceCap = 6
    RuleEnd = 3
    ExtTrigSec = 1
    ExtSec = 1
    MaxExtCount = 1
    MaxExtTotal = 2
    SecMS = 2
    Settlers = {s1}
    MaxInflight = 1
    MaxClock = 5
SPECIFICATION Spec
INVARIANTS
    RankingIsBestBid
PROPERTIES
    ImplementsEnglishAuction
CHECK_DEADLOCK FALSE
