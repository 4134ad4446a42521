SPECIFICATION MCSpec
CONSTANTS
    Size = 2
    Replacements <- Second
    Torrents = {p1, p2}
    Accepts = {c1, c2}
    Rejects = {reject}
    Replans = {replan}
    Attaches = {attach}
    ReleaseImports <- MCReleaseImports
    Nil = Nil
    None = None
    MaxFaults = 1
    Settings <- MCSettings
    Profiles <- MCProfiles
    Rooms <- MCRooms
    Recommendations <- MCRecommendations
    Imports <- MCImports
    Jobs = {"none", "queued", "active", "complete", "failed"}
    Progresses = {"none", "partial", "done"}
    MaxItems = 3
    Downloads = {d1}
    Keys = {p1, p2}
    NoKey = NoKey
    Workers = {c1, c2}
    Nobody = Nobody
    NoDownload = NoDownload
    MaxAttempts = 2
SYMMETRY Interchangeable
INVARIANTS
    AcceptedIsRequested
    SpaceFits
    NothingTwice
    PlansAreAllowed
    NotSelectedTwice
    UnfinishedIsWorkedOn
    AddedOnce
    StagedIsNotFetched
CHECK_DEADLOCK FALSE
