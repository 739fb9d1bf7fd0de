SPECIFICATION Spec
CONSTANTS
    HumanReview = FALSE
    BlockRetryLimit = 1
    TimeoutSet = TRUE
    AttachMayBeDone = TRUE
    Kinds <- TurnKinds
    MaxRuns = 1
    MaxTurns = 1
    MaxChannel = 1
    MaxSpool = 2
    MaxAsked = 0
    MaxCrashes = 0
PROPERTY AnyFailureIsSpooled
