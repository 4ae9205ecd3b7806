CONSTANTS
    Keys = {"k1", "k2"}
    Windows = {"w1", "w2"}
    MaxNew = 1
    MaxBatch = 1
    MaxPasses = 3
    MaxEdits = 2
    MaxStops = 1
SPECIFICATION Spec
INVARIANTS AnswersKept
PROPERTIES NeverAskedAgain
CHECK_DEADLOCK FALSE
