\* An auction won on the local Redis: the documents want its result to stay.
SPECIFICATION SafeSpec
CONSTANTS
    Pods = {p1}
    MaxFaults <- CloudOutage
    StartPrice = 1
    MaxBids = 1
    MaxPrice = 2
    MaxBusy = 1
    Expires = TRUE
PROPERTIES
    LocalWinnerStays
CHECK_DEADLOCK FALSE
