CONSTANTS
    Sessions = {s1, s2}
    Episodes = {e1, e2}
    Questions = {q}
    Disputes = {d}
    Goals = {g}
    NoGoal = "no goal"
    MaxGoals = 1
    MaxSaves = 1
    None = None
SPECIFICATION Spec
SYMMETRY Symmetric
INVARIANTS LedgerAgrees
PROPERTIES PromiseKept BackgroundKeepsView
CHECK_DEADLOCK FALSE
