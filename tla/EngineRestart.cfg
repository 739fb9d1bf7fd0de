\* two tasks, one slot, one cancel, retry or follow-up, one restart at any point
CONSTANTS
    Tasks = {t1, t2}
    Repos = {r}
    Agents = {a}
    GlobalLimit = 1
    RepoLimit <- MCRepoLimit
    AgentLimit <- MCAgentLimit
    PairOf <- MCPairOf
    NoCap = NoCap
    NoSlot = NoSlot
    NoTask = NoTask
    RetryLimit = 0
    Streamed = {"Running", "WaitingInput", "Done"}
    ReusedIds = {}
    MaxRuns = 2
    MaxNotes = 1
    MaxAsked = 1
    MaxCrashes = 1
SPECIFICATION Spec
VIEW VersionlessView
SYMMETRY TaskSymmetry
INVARIANTS TypeOK NoLeakedSlot FollowedWorkHoldsSlot
PROPERTIES SlotsKeepTheirCaps
