SPECIFICATION Spec
CONSTANTS
    Scenarios <- MCScenarios
    MaxTries = 4
INVARIANTS ChecksHold CompletedOnce ResultIsOwn
PROPERTIES DoneIsLast EveryCallEnds
CHECK_DEADLOCK FALSE
