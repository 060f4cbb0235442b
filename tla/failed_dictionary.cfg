\* A timeout interrupts the query that builds a dictionary.
SPECIFICATION Spec
CONSTANTS
    r1 = r1
    r2 = r2
    p1 = p1
    p2 = p2
    p3 = p3
    None = None
    Req <- MCReq
    Pool <- MCPool
    PoolSize = 1
    MaxVersion = 1
    Slots = 1
    Kinds <- MembersOnly
    Timeouts = TRUE
    Reloaders <- NoReload
    AggCache = FALSE
    MaxFaults = 0
    MaxUnwinds = 0
    MaxHangups = 0
SYMMETRY Symmetry
INVARIANTS
    NoFailedDictionary
CHECK_DEADLOCK FALSE
