\* one task, one restart, under fairness
CONSTANTS
    Tasks = {t1}
    Repos = {r}
    Agents = {a}
    GlobalLimit = 1
    RepoLimit <- MCRepoLimit
    AgentLimit <- MCAgentLimit
    PairOf <- MCPairOf
    NoCap = NoCap
    NoSlot = NoSlot
    NoTask = NoTask
    RetryLimit = 0
    Streamed = {"Running", "WaitingInput", "Done"}
    ReusedIds = {}
    MaxRuns = 1
    MaxNotes = 1
    MaxAsked = 0
    MaxCrashes = 1
SPECIFICATION FairSpec
VIEW VersionlessView
PROPERTY FinishedAgentsAreFinalized
