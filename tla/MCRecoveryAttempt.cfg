SPECIFICATION Spec
CONSTANTS
    None = None
    Call = {c1, c2, c3}
    Token = {t1, t2}
SYMMETRY Symmetry
INVARIANTS
    AtMostOneSession
    AtMostOneTurn
PROPERTIES
    Settled
CHECK_DEADLOCK FALSE
