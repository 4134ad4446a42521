SPECIFICATION MCSpec
CONSTANTS
    Torrents = {t1}
    ClientChanges = 2
    MaxFaulty = 1
    MaxLookups = 2
    MaxFaults = 1
    MaxAttempts = 2
    Sources = {s1, s2}
    Target = target
    MaxChanges = 1
    MaxClicks = 2
INVARIANTS
    RemovedIsGone
PROPERTIES
    InventoryCatchesUp
    ImportsCatchUp
    LibraryKeeps
    CleanupIsGuarded
    ImportSettles
CHECK_DEADLOCK FALSE
