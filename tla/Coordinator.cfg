SPECIFICATION Spec
CONSTANTS
    None = None
    chief = chief
    solver1 = solver1
    solver2 = solver2
    judge = judge
    Boot <- MCBoot
    Name <- MCName
    Pasts <- MCPasts
    Orders <- MCOrders
    RoleEntry = {"campaign"}
    KeyVariants = {1, 2}
    MaxCommands = 3
    MaxCalls = 2
    MaxRetries = 1
    MaxSaves = 1
    MaxCrashes = 1
INVARIANTS
    TypeOK
    SnapshotRestores
    RetryIsAnswered
    ScoreFollowsDispatch
    SelfActionsAreOwn
PROPERTIES
    ImplementsPromise
CHECK_DEADLOCK FALSE
