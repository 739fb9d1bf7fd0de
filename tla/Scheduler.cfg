SPECIFICATION Spec
CONSTANTS
    t1 = t1
    t2 = t2
    t3 = t3
    r1 = r1
    r2 = r2
    a1 = a1
    a2 = a2
    NoCap = NoCap
    NoSlot = NoSlot
    Tasks <- MCTasks
    Repos = {r1, r2}
    Agents = {a1, a2}
    GlobalLimit = 2
    RepoLimit <- MCRepoLimit
    AgentLimit <- MCAgentLimit
    Requests <- MCRequests
    Priorities = {1, 2}
    MaxReady = 3
INVARIANTS
    TypeOK
    LedgerAgrees
    CapsHold
    NoPriorityInversion
