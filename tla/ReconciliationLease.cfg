\* The Monitor's lease is revoked between two pages.
SPECIFICATION Spec
CONSTANTS
    w1 = w1
    w2 = w2
    Writers = {w1, w2}
    Schedulers = {w1}
    a1 = a1
    a2 = a2
    Attempts = {a1, a2}
    rEmpty = rEmpty
    rUnknown = rUnknown
    rScored = rScored
    rPenalty = rPenalty
    Responses = {rEmpty, rUnknown, rScored, rPenalty}
    Page <- MCPage
    None = None
    MaxPolls = 3
    MaxForeign = 1
    Observed <- MCObserved
    MaxCrashes = 1
PROPERTY
    MonitorWritesUnderLease
CHECK_DEADLOCK FALSE
