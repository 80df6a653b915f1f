SPECIFICATION Spec
CONSTANTS
    Starts <- MCStarts
    ConfIndexes <- MCConf
    MaxIndex = 3
    MaxParallel = 2
    MaxEntries = 2
    MaxCatchups = 2
    Margin = 0
INVARIANTS ProbesAlone ReportedIsStored
PROPERTIES WaitsEndRightly CatchesUp
CHECK_DEADLOCK FALSE
