CONSTANTS
    Requests = {1, 2, 3}
    Kind <- MCKind
    Tries = 2
    Windows = {"w"}
    Sweeps = {"s1", "s2"}
    WindowOf <- MCWindowOf
    CrashBound = 1
    ThrowBound = 1
SPECIFICATION FairSpec
INVARIANTS RunsWithinTries
PROPERTIES KeepsPromise EventuallySettled
