SPECIFICATION FairSpec
CONSTANTS
    Instances = {"ann", "bob", "cem"}
    Pushers = {"ann", "bob"}
    IdsFollowTime = FALSE
    LongDelay = FALSE
    LateEntries = {1}
    MaxEntries = 2
    MaxRetries = 1
    MaxFaults = 2
INVARIANT TypeOK
INVARIANT ExclusiveUnlessEarly
INVARIANT RoutingIsKept
INVARIANT LoserHoldsNothing
PROPERTY EntryIsServed
CHECK_DEADLOCK FALSE
