\* every subscription fails
CONSTANTS
    Tasks = {t1}
    Repos = {r}
    Agents = {a}
    GlobalLimit = 1
    RepoLimit <- MCRepoLimit
    AgentLimit <- MCAgentLimit
    PairOf <- MCPairOf
    NoCap = NoCap
    NoSlot = NoSlot
    NoTask = NoTask
    RetryLimit = 1
    Streamed = {"Running", "WaitingInput", "Done"}
    ReusedIds = {}
    MaxRuns = 3
    MaxNotes = 1
    MaxAsked = 0
    MaxCrashes = 0
SPECIFICATION Spec
VIEW VersionlessView
INVARIANT RetriesAreBounded
