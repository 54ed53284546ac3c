SPECIFICATION Spec
CONSTANTS
    None = None
    Call = {c1, c2}
    Token = {t1, t2, t3}
    MaxTurns = 3
    MaxCrashes = 1
SYMMETRY Symmetry
INVARIANTS
    RunningIsAttributed
PROPERTIES
    CompletedForGood
CHECK_DEADLOCK FALSE
