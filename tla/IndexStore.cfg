CONSTANTS
    FileCount = 2
    MaxVersion = 2
    Models = {"m1", "m2"}
    FirstModel = "m1"
    Dim <- MCDim
    MaxChanges = 2
    MaxStops = 1
    MaxReads = 1
    Nothing = Nothing
SPECIFICATION FairSpec
INVARIANTS JournalExact RowsAligned OneGeneration FreshMeansSame
PROPERTIES DurableRowsSurvive IndexCatchesUp
