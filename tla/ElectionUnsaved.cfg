SPECIFICATION LedSpec
CONSTANTS
    a = a  b = b  c = c  Nil = Nil
    Server <- MCServer
    Conf <- MCServer
    OldConf <- MCNone
    LeaseEnabled = FALSE
    StepDownWhenVoteTimedout = FALSE
    MetaFailures <- MCUnsaved
    Timeouts <- MCFollowers
    Transfers <- MCNone
    Triggers <- MCNone
    Crashing <- MCNone
    Failing <- MCNone
    MaxTerm = 3
    MaxCrash = 0
INVARIANTS
    OneLeaderPerTerm
CHECK_DEADLOCK FALSE
