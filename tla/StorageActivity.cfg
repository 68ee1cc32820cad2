SPECIFICATION FairSpec
CONSTANTS
    backend = backend
    cli = cli
    worker = worker
    sentiment = sentiment
    retention = retention
    download = download
    remove = remove
    command = command
    importer = importer
    import = import
    NoProc = NoProc
    MaxTries = 2
    Procs <- MCProcs
    Unlocked <- MCUnlocked
    Background <- MCBackground
    Requests <- MCRequests
    Deletes <- MCDeletes
    Cleaners <- MCCleaners
    MainThreads <- MCMainThreads
    Commands <- MCCommands
    Home <- MCHome
INVARIANTS
    TypeOK
    CountersMatch
    Exclusion
    OverlapOnlyAfterRelease
PROPERTIES
    EveryRequestAnswered
    ImplementsGate
