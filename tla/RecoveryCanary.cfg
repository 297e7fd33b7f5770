\* Two runners and a process that is restarted with other ids, or the same.
SPECIFICATION Spec
CONSTANTS
    None = None
    r1 = r1
    r2 = r2
    i1 = i1
    i2 = i2
    q1 = q1
    q2 = q2
    t1 = t1
    Recoveries = {r1, r2}
    Runtimes = {i1, i2}
    Attempts = {0, 1, 2}
    Skews <- MCSkews
    Runners = {q1, q2}
    Threads = {t1}
    Start = 100
    Steps <- MCSteps
    MaxTicks = 1
    MaxRuns = 2
    MaxBoots = 2
SYMMETRY Symmetry
INVARIANTS
    TypeOK
    ResumedUnderOwnCanary
    CanaryMatchesLog
    CanaryLifetime
CHECK_DEADLOCK FALSE
