SPECIFICATION Spec
CONSTANTS
    MaxIndex = 3
    MaxTerm = 3
    IsConfiguration <- ConfigurationEntries
    Scenarios <- LogScenarios
INVARIANTS
    StableIsStored
    ConfigurationsFollowTheLog
    NoHoleAfterSnapshot
    UnflushedStaysInMemory
    DiskCatchesUp
    NeverAborts
PROPERTIES
    AnswerCoversAcked
CHECK_DEADLOCK FALSE
