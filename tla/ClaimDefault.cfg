SPECIFICATION Spec
CONSTANTS
    Instances = {"ann", "bob"}
    Pushers = {"ann", "bob"}
    IdsFollowTime = FALSE
    LongDelay = FALSE
    LateEntries = {}
    MaxEntries = 1
    MaxRetries = 0
    MaxFaults = 0
INVARIANT ConvergesWheneverRead
CHECK_DEADLOCK FALSE
