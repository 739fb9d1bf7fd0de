SPECIFICATION Spec
CONSTANTS
    Instances = {"ann", "bob"}
    Pushers = {"ann", "bob"}
    IdsFollowTime = TRUE
    LongDelay = FALSE
    LateEntries = {1}
    MaxEntries = 1
    MaxRetries = 0
    MaxFaults = 0
INVARIANT NeverAWrongAnswer
CHECK_DEADLOCK FALSE
