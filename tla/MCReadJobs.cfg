SPECIFICATION FairSpec
CONSTANTS
    h1 = h1
    h2 = h2
    p1 = p1
    None = None
    Job = {h1, h2, b1}
    HealthJob = {h1, h2}
    b1 = b1
    Worker = {p1}
    Lease = 2
    Deadline = 3
    Wait = 1
    Attempts = 1
    MaxNow = 3
INVARIANTS
    TypeOK
    RecordedUnderLastLease
    HealthIsNewest
PROPERTIES
    OutcomeIsFinal
    ReaderReturns
    JobsEnd
CHECK_DEADLOCK FALSE
