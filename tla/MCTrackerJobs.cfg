SPECIFICATION TrackerSpec
CONSTANTS
    Departed = Departed
    Nobody = Nobody
    NoProvider = NoProvider
    NoKey = NoKey
    w1 = w1
    w2 = w2
    hash = hash
    index = index
    coverage = coverage
    asset = asset
    scan = scan
    tracker = tracker
    Workers = {w1, w2}
    Keys <- TrackerKeys
    Home <- TrackerHome
    Talks <- TrackerTalks
    Parking <- Nothing
    MaxAttempts <- TrackerBudget
    Requests <- TrackerRequests
    Providers <- OneTracker
    Recurring <- Nothing
    BootKeys <- IndexOnly
    MaxHandlers = 1
SYMMETRY TwoWorkers
INVARIANTS
    ProviderExclusive
