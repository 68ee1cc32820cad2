SPECIFICATION RestartSpec
CONSTANTS
    Form = "form"
    Posts = {"first"}
    None = "none"
    Queries = {"form", "first"}
    Concerns <- MCConcerns
    Ordinary = {"form"}
    MaxVersion <- MCLater
    MaxIncidents = 0
    MaxRestarts = 1
    Sections = {1, 2}
    Contested = {1}
    MaxEdits = 2
    MaxOverlap = 0
    Platforms = {"p", "q"}
    Default = "p"
    MaxSent = 2
    MaxOutages = 2
    MaxTasks = 2
    MaxRequests = 2
    MaxStreams = 2
PROPERTIES
    RefreshedAfterRestart
CHECK_DEADLOCK FALSE
