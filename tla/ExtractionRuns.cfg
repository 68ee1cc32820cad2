SPECIFICATION RunsSpec
CONSTANTS
    a1 = a1
    a2 = a2
    d1 = d1
    Tasks <- MCTasks
    Platforms <- MCPlatforms
    PlatformOf <- MCPlatformOf
    Others = {"loop"}
    MaxTrouble = 3
    Candidates = {1, 2}
    MaxRounds = 1
    MaxSetbacks = 3
    MaxRuns = 3
    MaxIncidents = 1
CHECK_DEADLOCK FALSE
INVARIANTS
    TypesOK
    NoLaneWhileWaiting
    EndedRunHasEnded
    CandidatesAccounted
    FilesGoWithRows
PROPERTIES
    FinalIsFinal
    AskedOnce
    ChainsGoWhenOld
