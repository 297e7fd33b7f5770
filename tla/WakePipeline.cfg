\* Safety: a supervisor and a consumer race over two wakes, one of which may
\* carry the version after its fact; a crash and an operator's ack.
SPECIFICATION FairSpec
CONSTANTS
    s1 = s1
    s2 = s2
    c1 = c1
    None = None
    Wakes = {1, 2}
    Supervisors = {s1}
    Consumers = {c1}
    Offsets = {0, 1}
    MaxFacts = 3
    MaxClock = 1
    MaxCrashes = 1
    MaxAdminAcks = 1
INVARIANTS TypeOK RequestMatchesLog WakeBindsAppliedFact ConsumedIsAcked
PROPERTIES NoBrokenWakeSkipped UndisturbedWakeConsumed ImplementsDelivery
