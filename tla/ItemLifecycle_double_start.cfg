\* Two starts of one item: the documents want the second one refused.
SPECIFICATION SafeSpec
CONSTANTS
    Slots = {s1, s2}
    MaxBids = 2
    FreeStart = FALSE
    MaxAsked <- TwoStarts
PROPERTIES
    AcceptedBidsSurvive
CHECK_DEADLOCK FALSE
