\* the default limits, a tick being a minute: five attempts in five ticks, and a
\* launch that fails takes two
SPECIFICATION FairSpec
CONSTANTS
    Agents = {"claude"}
    Sources = {"github"}
    Queue <- OneTask
    AgentOf <- ItsAgent
    SourceOf <- ItsSource
    Slots = 1
    RetryLimit = 1
    RestartDisabled = {}
    MaxAttempts = 5
    Window = 5
    LaunchTime = 2
    MaxDeaths <- AgentDiesOnce
PROPERTY RestartsEnd
