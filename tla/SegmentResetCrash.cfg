SPECIFICATION Spec
CONSTANTS
    Term <- Terms
    MaxIndex = 5
    MaxBatch = 2
    MaxSegment = 2
    Modes <- ResetCrash
INVARIANTS
    StartsAgain
