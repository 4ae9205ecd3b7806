CONSTANTS
    Calls = {"p1", "t", "a"}
    KindOf <- MCKindOf
    MaxSignOuts = 1
    None = None
SPECIFICATION FairSpec
INVARIANTS CounterExact NoOrphan RefusalIsFresh
PROPERTIES ResultFinal CallsEnd
CHECK_DEADLOCK FALSE
