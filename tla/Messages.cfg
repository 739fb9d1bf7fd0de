SPECIFICATION FairSpec
CONSTANTS
    Conversations = {c1}
    Keys = {k1, k2}
    Workflows = {w1, w2}
    NoWorkflow = NoWorkflow
    NoConversation = NoConversation
    NoKey = NoKey
    MaxRuns = 3
    MaxVersion = 7
    MaxAsked = 2
    MaxCrashes = 1
INVARIANTS TypeOK StampedWasTold NotToldAgain RunsUnderItsWorkflow
PROPERTIES AcceptedIsNotStranded LedgerIsALog DoneMeansAnswered
