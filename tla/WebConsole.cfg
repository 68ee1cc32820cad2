SPECIFICATION ConsoleSpec
CONSTANTS
    Form = "form"
    Posts = {"first", "second"}
    None = "none"
    Queries = {"form", "first", "second"}
    Concerns <- MCConcerns
    Ordinary = {"form"}
    MaxVersion <- MCVersions
    MaxIncidents = 1
    MaxRestarts = 0
    Sections = {1, 2}
    Contested = {1}
    MaxEdits = 2
    MaxOverlap = 0
    Platforms = {"p", "q"}
    Default = "p"
    MaxSent = 2
    MaxOutages = 2
    MaxTasks = 2
    MaxRequests = 2
    MaxStreams = 2
INVARIANTS
    TypesOK
    SentAsMeant
    BrowsersAccounted
PROPERTIES
    DraftsAreTheUsers
    OverwritesExplained
    RefreshedInTheEnd
CHECK_DEADLOCK FALSE
