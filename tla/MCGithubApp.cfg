SPECIFICATION FairSpec
CONSTANTS
    a1 = a1
    i1 = i1
    mine = mine
    other = other
    r1 = r1
    r2 = r2
    v1 = v1
    v2 = v2
    None = None
    Attempt = {a1}
    Request = {r1, r2}
    InstallAttempt = {i1}
    Visit = {v1, v2}
    Installation = {mine, other}
    AppOf <- MCAppOf
    MaxKey = 2
    MaxFault = 1
    MaxCrash = 1
INVARIANTS
    TypeOK
    RegisteredKeyIsDurable
    OneConversion
    InstallationProven
PROPERTIES
    CompletedForGood
    KeptKeyRegisters
    ClaimsSettle
CHECK_DEADLOCK FALSE
