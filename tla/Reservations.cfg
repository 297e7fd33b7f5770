\* Two submissions whose clocks run behind, the pool's administration around
\* them, and reservations of the ledger's own callers.
SPECIFICATION Spec
CONSTANTS
    i1 = i1
    i2 = i2
    p1 = p1
    p2 = p2
    r1 = r1
    r2 = r2
    r3 = r3
    None = None
    Identities = {i1, i2}
    Challenge <- OneChallenge
    Owner <- OwnOwner
    Yaml <- YamlBoth
    LegacyIdentity = i1
    Quotas <- SomeQuotas
    Submitters = {p1, p2}
    Executors = {p1, p2}
    Ids = {r1, r2, r3}
    Costs = {1}
    Budget = 2
    MinInterval = 2
    CallerBudgets = {3}
    CallerIntervals = {2}
    MaxDisturbances = 3
SYMMETRY Symmetry
INVARIANTS
    TypeOK
    BudgetHolds
    CadenceHolds
    ConcurrencyHolds
    BarredIsDenied
    PoolMatchesLog
