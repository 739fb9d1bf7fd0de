\* the loop under fairness: one task, two cancels, retries or follow-ups, an automatic
\* retry, one restart, and pane ids that come to name other panes
CONSTANTS
    Tasks = {t1}
    Repos = {r}
    Agents = {a}
    GlobalLimit = 1
    RepoLimit <- MCRepoLimit
    AgentLimit <- MCAgentLimit
    PairOf <- MCPairOf
    NoCap = NoCap
    NoSlot = NoSlot
    NoTask = NoTask
    RetryLimit = 1
    Streamed = {"Running", "WaitingInput", "Done"}
    ReusedIds = {"Done"}
    MaxRuns = 2
    MaxNotes = 1
    MaxAsked = 2
    MaxCrashes = 1
SPECIFICATION FairSpec
VIEW VersionlessView
INVARIANT ActiveTaskOwnsItsPane
PROPERTIES CancelSticks PassesEnd SettledSlotsComeFree FinishedAgentsAreHeard
