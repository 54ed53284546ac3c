SPECIFICATION Spec
CONSTANTS
    None = None
    Call = {c1, c2}
    Token = {t1, t2}
    MaxTurns = 2
    MaxCrashes = 0
SYMMETRY Symmetry
INVARIANTS
    RetryAfterTerminal
CHECK_DEADLOCK FALSE
