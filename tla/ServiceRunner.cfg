CONSTANTS
    Runs = {"r1", "r2"}
    LastGeneration <- MCLastGeneration
    MaxReplays = 1
    Replay = Replay
    Leftover = Leftover
    Hidden = Hidden
    None = None
SPECIFICATION FairSpec
INVARIANTS NoOrphan StopIsNoEvidence
PROPERTIES ServesOrEnds
CHECK_DEADLOCK FALSE
