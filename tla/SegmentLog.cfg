SPECIFICATION Spec
CONSTANTS
    Term <- Terms
    MaxIndex = 5
    MaxBatch = 2
    MaxSegment = 2
    Modes <- MCModes
INVARIANTS
    StartsAgain
    MemoryMatchesFiles
PROPERTIES
    FilesAreALog
    AckedSurvives
