SPECIFICATION MCSpec
CONSTANTS
    g1 = g1
    g2 = g2
    w1 = w1
    Groups = {g1, g2}
    Score <- Alike
    Editions = {2}
    Writers = {w1}
    MaxIds = 3
    MaxArtists = 2
    MaxEvents = 2
    MaxAlone = 4
    Everything = Everything
    Batch = 1
    MaxBefore = 1
SYMMETRY Trackers
INVARIANTS
    UnmarkedIsCurrent
    IdsAreStable
    MergedIsEmpty
CHECK_DEADLOCK FALSE
