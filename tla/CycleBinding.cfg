SPECIFICATION Spec
CONSTANTS
    Campaign = Campaign
    l1 = l1
    l2 = l2
    k1 = k1
    c1 = c1
    c2 = c2
    c3 = c3
    p1 = p1
    p2 = p2
    Chiefs = {l1}
    Children = {k1}
    Cycles = {c1, c2}
    Roles = {"solver", "monitor"}
    Decisions <- WorkOrStop
    Procs = {p1, p2}
    LeaseEnd <- MCLeaseEnd
    Deadlines = {1}
    None = None
    MaxClock = 1
    MaxForeign = 1
INVARIANTS
    TypeOK
    NoOrphanBrief
    BindingIsGenuine
    RevokedIsDenied
    ActiveCycleIsReplay
    SupersessionLegal
SYMMETRY Symmetry
CHECK_DEADLOCK FALSE
