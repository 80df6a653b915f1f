SPECIFICATION Spec
CONSTANTS
    a = a  b = b  c = c  t1 = t1  t2 = t2  t3 = t3  u = u
    Stop = Stop  NULL = NULL  UNCONNECTED = UNCONNECTED
    Task <- MCTask
    High <- MCHigh
    InPlace <- MCInPlace
    Thread <- MCThread
    Scenarios <- MCScenarios
INVARIANTS ChecksHold OneExecutor
PROPERTIES RunsInOrder AllExecuted
CHECK_DEADLOCK FALSE
