SPECIFICATION FairSpec
CONSTANTS
    Agents = {"claude", "codex"}
    Sources = {"github"}
    Queue <- TwoTasks
    AgentOf <- OwnAgent
    SourceOf <- OneSource
    Slots = 1
    RetryLimit = 1
    RestartDisabled = {"codex"}
    MaxAttempts = 1
    Window = 2
    LaunchTime = 1
    MaxDeaths <- AgentDies
INVARIANT TypeOK
INVARIANT DeadIsAttended
INVARIANT RoutesFollowInstances
INVARIANT SlotsAreOfFollowed
PROPERTY NoSlotIdlesForTheDead
PROPERTY StopKeepsWork
PROPERTY WaitingEnds
