SPECIFICATION Spec
CONSTANTS
    a1 = a1
    a2 = a2
    d1 = d1
    Tasks <- MCTasks
    Platforms <- MCPlatforms
    PlatformOf <- MCPlatformOf
    Others = {"loop"}
    MaxTrouble = 3
CHECK_DEADLOCK FALSE
INVARIANTS
    RunIsEnded
