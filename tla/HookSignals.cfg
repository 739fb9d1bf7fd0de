SPECIFICATION Spec
CONSTANTS
    HumanReview = TRUE
    BlockRetryLimit = 1
    TimeoutSet = TRUE
    AttachMayBeDone = TRUE
    Kinds <- EndKinds
    MaxRuns = 2
    MaxTurns = 2
    MaxChannel = 1
    MaxSpool = 1
    MaxAsked = 1
    MaxCrashes = 1
VIEW View
INVARIANT TypeOK
INVARIANT RefusedIsNotAskedAgain
PROPERTY VerdictIsAwaited
PROPERTY SilenceIsThisRuns
