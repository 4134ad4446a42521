SPECIFICATION Spec
CONSTANTS
    NoTracks = NoTracks
    NoGroup = NoGroup
    Indexer = Indexer
    Artists = {a1}
    s1 = s1
    b1 = b1
    Singles = {s1}
    Albums = {b1}
    Tracklists = {t1, t2}
    Listings <- WithAlbum
    Pages = {p1}
    Strays = {x1}
SYMMETRY Symmetric
INVARIANTS
    ChangesInvalidate
