SPECIFICATION EvidenceSpec
CONSTANTS
    c1 = c1
    c2 = c2
    Call = {c1, c2}
    Delivery = {"failed", "other", "bad"}
    Business = {"one", "other", "bad"}
    Artifact = {"A", "B"}
    Failed = "failed"
    Once = "one"
    Bad = "bad"
    MaxSkill = 8
    MaxSchema = 1
    MaxTurn = 3
SYMMETRY CallSymmetry
INVARIANTS
    EvidenceTypeOK
    EvidenceAttributed
    Provenance
    CorrectedOnce
CHECK_DEADLOCK FALSE
