\* one task, one restart, and a plugin whose pane ids are positions
CONSTANTS
    Tasks = {t1}
    Repos = {r}
    Agents = {a}
    GlobalLimit = 1
    RepoLimit <- MCRepoLimit
    AgentLimit <- MCAgentLimit
    PairOf <- MCPairOf
    NoCap = NoCap
    NoSlot = NoSlot
    NoTask = NoTask
    RetryLimit = 0
    Streamed = {"Running", "WaitingInput", "Done"}
    ReusedIds = {"Running"}
    MaxRuns = 1
    MaxNotes = 1
    MaxAsked = 0
    MaxCrashes = 1
SPECIFICATION Spec
VIEW VersionlessView
PROPERTY VanishedPanesAreNotAttached
