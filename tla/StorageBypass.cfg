SPECIFICATION Spec
CONSTANTS
    backend = backend
    cli = cli
    worker = worker
    sentiment = sentiment
    retention = retention
    download = download
    remove = remove
    command = command
    importer = importer
    import = import
    NoProc = NoProc
    MaxTries = 2
    Procs <- LockedProcs
    Unlocked <- Nobody
    Background <- MCBackground
    Requests <- MCRequests
    Deletes <- MCDeletes
    Cleaners <- MCCleaners
    MainThreads <- MCMainThreads
    Commands <- Nobody
    Home <- MCHome
INVARIANTS
    NoBypassOfLeases
