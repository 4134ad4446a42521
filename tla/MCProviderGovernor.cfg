SPECIFICATION FairSpec
CONSTANTS
    page = page
    sync = sync
    Clients = {page, sync}
    Uses <- AllUses
    LimitOf <- AllLimits
    SafeMax = 1
    MaxDepth = 1
INVARIANTS
    PermitsAreCounted
PROPERTIES
    RequestsAreAnswered
    ProbeIsAlone
    BlockHolds
