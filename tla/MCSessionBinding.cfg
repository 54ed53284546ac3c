SPECIFICATION FairSpec
CONSTANTS
    i1 = i1
    c1 = c1
    c2 = c2
    c3 = c3
    None = None
    Incident = {i1}
    Call = {c1, c2, c3}
    MaxToken = 2
    MaxCrash = 1
INVARIANTS
    TypeOK
    OneSession
    VersionIsApplied
PROPERTIES
    AnsweredIsBound
    CreationSettles
CHECK_DEADLOCK FALSE
