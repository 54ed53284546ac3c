SPECIFICATION FairSpec
CONSTANTS
    r1 = r1
    s1 = s1
    s2 = s2
    p1 = p1
    p2 = p2
    i1 = i1
    i2 = i2
    None = None
    Receiver = {r1}
    Host <- MCHost
    Process <- MCProcess
    Identity = {i1, i2}
    MaxToken = 2
    MaxConfig = 2
    MaxCrash = 2
    Provisioned <- MCProvisioned
CONSTRAINT Fewer
INVARIANTS
    EnrolledIsDurable
PROPERTIES
    EnrolledForGood
    EnrolledIsAcknowledged
CHECK_DEADLOCK FALSE
