SPECIFICATION LedSpec
CONSTANTS
    a = a  b = b  c = c  Nil = Nil
    Server <- MCServer
    Conf <- MCServer
    OldConf <- MCNone
    LeaseEnabled = TRUE
    StepDownWhenVoteTimedout = FALSE
    MetaFailures <- MCNone
    Timeouts <- MCTrigger
    Transfers <- MCTransfer
    Triggers <- MCTrigger
    Crashing <- MCServer
    Failing <- MCAlone
    MaxTerm = 3
    MaxCrash = 1
INVARIANTS
    LeaseExcludesOthers
    CandidateBecomesLeader
    FollowsElectedLeader
    ElectionInvariant
CHECK_DEADLOCK FALSE
