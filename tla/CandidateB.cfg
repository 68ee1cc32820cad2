SPECIFICATION CommandSpec
CONSTANTS
    URLs = 3
    Gates = 2
    MaxRecoveries = 2
    Answers = {"success", "partial", "empty", "captcha"}
    Pages = {1, 2}
    MaxAttempts = 2
    Concurrency = 2
    Samples = 1
    MaxCalls = 3
    MaxMishaps = 2
    Sites = {"a", "b", "bad"}
    Malformed = {"bad"}
    MaxLines = 3
    Width = 2
INVARIANTS
    TypesOK
    UrlsExplained
    ReportsTellAll
PROPERTIES
    SessionSurvives
    EachCommandEnds
CHECK_DEADLOCK FALSE
