\* One pod, whose auction may end; the cloud Redis and MySQL fail once and
\* the pod restarts once, at any time.
SPECIFICATION Spec
CONSTANTS
    Pods = {p1}
    MaxFaults <- Misfortunes
    StartPrice = 1
    MaxBids = 1
    MaxPrice = 2
    MaxBusy = 1
    Expires = TRUE
INVARIANTS
    TypeOK
    KeptSomewhere
PROPERTIES
    BackToCloud
\* A settled item stays so.
CHECK_DEADLOCK FALSE
