SPECIFICATION StartSpec
CONSTANTS
    a = a  b = b  c = c  Nil = Nil
    Server <- MCServer
    Conf <- MCServer
    OldConf <- MCNone
    LeaseEnabled = FALSE
    StepDownWhenVoteTimedout = TRUE
    MetaFailures <- MCTwoFailures
    Timeouts <- MCTimeouts
    Transfers <- MCNone
    Triggers <- MCNone
    Crashing <- MCDying
    Failing <- MCNone
    MaxTerm = 2
    MaxCrash = 1
INVARIANTS
    OneLeaderPerTerm
PROPERTIES
    SavedVoteStays
CHECK_DEADLOCK FALSE
