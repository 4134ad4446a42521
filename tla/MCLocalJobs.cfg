SPECIFICATION OneFairSpec
CONSTANTS
    Departed = Departed
    Nobody = Nobody
    NoProvider = NoProvider
    NoKey = NoKey
    w1 = w1
    w2 = w2
    hash = hash
    index = index
    coverage = coverage
    asset = asset
    scan = scan
    tracker = tracker
    Workers = {w1, w2}
    Keys <- LocalKeys
    Home <- LocalHome
    Talks <- LocalTalks
    Parking <- CoverageOnly
    MaxAttempts <- LocalBudget
    Requests <- LocalRequests
    Providers <- Nothing
    Recurring <- ScanOnly
    BootKeys <- ScanOnly
    MaxHandlers = 1
INVARIANTS
    TypeOK
    AttemptBudget
PROPERTIES
    ContractHolds
    RunningIsResolved
    QueuedWorkRuns
    DisownedStops
