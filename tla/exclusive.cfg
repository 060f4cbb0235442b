\* One query slot: engine errors, early exits, timeouts, readers of every kind.
SPECIFICATION ExclusiveSpec
CONSTANTS
    r1 = r1
    r2 = r2
    p1 = p1
    p2 = p2
    p3 = p3
    None = None
    Req <- MCReq
    Pool <- MCOnePool
    PoolSize = 1
    MaxVersion = 1
    Slots = 1
    Kinds <- AllKinds
    Timeouts = TRUE
    Reloaders <- NoReload
    AggCache = TRUE
    MaxFaults = 2
    MaxUnwinds = 1
    MaxHangups = 0
INVARIANTS
    PermitsConserved
    NoWrongNumber
    CacheHoldsGoodRows
    FaultIsOwn
PROPERTIES
    EveryRequestAnswered
    PermitsReturn
CHECK_DEADLOCK FALSE
