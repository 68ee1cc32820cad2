SPECIFICATION Spec
CONSTANTS
    autohome = autohome
    dongchedi = dongchedi
    first = first
    second = second
    a1 = a1
    a2 = a2
    d1 = d1
    a3 = a3
    Tasks <- MCTasks
    Runs <- MCRuns
    Platforms <- MCPlatforms
    RunOf <- MCRunOf
    PlatformOf <- MCPlatformOf
    Sequence <- MCSequence
    Kinds <- SafetyKinds
    WithHome <- OneHome
    Saving <- OneSaves
    HOMEPAGE_MAX_RETRY_ROUNDS = 1
    MaxTrouble = 3
INVARIANTS
    TypeOK
    ServedInOrder
    NothingRunsUnauthenticated
    ProbeGoesFirst
    LimitedGoesAlone
    RunEndsWithTasks
    RoundBarrier
PROPERTIES
    FinalIsFinal
