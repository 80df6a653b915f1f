SPECIFICATION FairSpec
CONSTANTS
    a = a
    b = b
    c = c
    Thread <- MCThread
    Slot <- MCSlot
    Width = 20
    MaxRange = 3
    Scenarios <- MCScenarios
INVARIANTS
    LockedByOne
    NoABA
    ErrorsHaveAnOwner
PROPERTIES
    JoinedIsDestroyed
    EveryoneWakes
CHECK_DEADLOCK FALSE
