SPECIFICATION FairSpec
CONSTANTS
    page = page
    sync = sync
    Clients = {page, sync}
    Uses <- PageUses
    LimitOf <- OneEach
    SafeMax = 1
    MaxDepth = 2
PROPERTIES
    ProbeIsAllowed
