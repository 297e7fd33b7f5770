\* Scheduler and admin binary on the same stream, nothing else.
SPECIFICATION Spec
CONSTANTS
    w1 = w1
    w2 = w2
    Writers = {w1, w2}
    Schedulers = {w1}
    a1 = a1
    a2 = a2
    Attempts = {a1, a2}
    rEmpty = rEmpty
    rUnknown = rUnknown
    rScored = rScored
    rPenalty = rPenalty
    Responses = {rUnknown, rScored, rPenalty}
    Page <- MCPage
    None = None
    MaxPolls = 3
    MaxForeign = 0
    Observed = {}
    MaxCrashes = 0
INVARIANT
    SnapshotCoversItems
CHECK_DEADLOCK FALSE
