SPECIFICATION Spec
CONSTANTS
    Callers = {p, q}
    Keys = {k}
    NoKey = NoKey
    Expiry <- MCExpiry
    TicksPerSecond = 2
    Ttl = 3
    PendingLimit = 2
    ActiveLimit = 1
    ReplayLimit = 1
    MaxId = 2
    MaxTime = 3
SYMMETRY CallerSymmetry
INVARIANTS
    RegistrySound
    PendingFenced
    TicketActivatesOnce
    OfferClaimedOnce
PROPERTIES
    FenceOutlastsTicket
