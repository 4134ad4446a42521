SPECIFICATION Spec
CONSTANTS
    Departed = Departed
    Nobody = Nobody
    NoProvider = NoProvider
    NoKey = NoKey
    w1 = w1
    w2 = w2
    hash = hash
    index = index
    coverage = coverage
    asset = asset
    scan = scan
    tracker = tracker
    Workers = {w1, w2}
    Keys <- AssetOnly
    Home <- AssetHome
    Talks <- AssetTalks
    Parking <- Nothing
    MaxAttempts <- AssetBudget
    Requests <- AssetQueued
    Providers <- Nothing
    Recurring <- Nothing
    BootKeys <- Nothing
    MaxHandlers = 0
PROPERTIES
    NoStaleCommit
