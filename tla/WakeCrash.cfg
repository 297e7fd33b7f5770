\* A supervisor dies between record and ack and starts again.
SPECIFICATION FairSpec
CONSTANTS
    s1 = s1
    s2 = s2
    c1 = c1
    None = None
    Wakes = {1}
    Supervisors = {s1}
    Consumers = {}
    Offsets = {0}
    MaxFacts = 1
    MaxClock = 1
    MaxCrashes = 1
    MaxAdminAcks = 0
PROPERTY WakeFileConsumed
