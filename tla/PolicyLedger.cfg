CONSTANTS
    Episodes = {e1, e2}
    Rows = {r1, r2}
    Windows = {w1, w2}
    ArmCount = 2
    PriorAlpha = 1
    PriorBeta = 1
    MinPromotionN = 2
    DeltaNum = 1
    DeltaDen = 20
    MaxEvents = 5
    None = None
SPECIFICATION LedgerSpec
SYMMETRY Symmetric
INVARIANTS LabelsFollowEvidence PreferenceEarned
CHECK_DEADLOCK FALSE
