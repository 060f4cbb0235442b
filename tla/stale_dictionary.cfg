\* The same race in the dictionary cache.
SPECIFICATION Spec
CONSTANTS
    r1 = r1
    r2 = r2
    p1 = p1
    p2 = p2
    p3 = p3
    None = None
    Req <- MCReq
    Pool <- MCPool
    PoolSize = 1
    MaxVersion = 2
    Slots = 1
    Kinds <- MembersOnly
    Timeouts = FALSE
    Reloaders <- Sighup
    AggCache = FALSE
    MaxFaults = 0
    MaxUnwinds = 0
    MaxHangups = 1
SYMMETRY Symmetry
INVARIANTS
    NoStaleDictionaries
CHECK_DEADLOCK FALSE
