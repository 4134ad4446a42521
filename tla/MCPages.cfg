SPECIFICATION MCSpec
CONSTANTS
    NoTracks = NoTracks
    NoGroup = NoGroup
    Indexer = Indexer
    Artists = {a1}
    s1 = s1
    b1 = b1
    Singles = {s1}
    Albums = {b1}
    Tracklists = {t1, t2}
    Listings <- WithAlbum
    Pages = {p1}
    Strays = {x1}
    Kinds = {k1, k2}
    Publishers = {u1, u2}
    Tabs = {w1}
    BatchLimit = 2
    PipeLimit = 1
    NoKind = NoKind
    MaxEvents = 3
SYMMETRY Interchangeable
INVARIANTS
    ReadyIsCurrent
    WaitersMissSomething
    PendingIsWorkedOn
    NothingIsSkipped
    QuietIsFresh
