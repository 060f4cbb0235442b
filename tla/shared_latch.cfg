\* Two requests share a connection and its failure latch.
SPECIFICATION Spec
CONSTANTS
    r1 = r1
    r2 = r2
    p1 = p1
    p2 = p2
    p3 = p3
    None = None
    Req <- MCReq
    Pool <- MCPool
    PoolSize = 1
    MaxVersion = 1
    Slots = 2
    Kinds <- ExecuteOnly
    Timeouts = FALSE
    Reloaders <- NoReload
    AggCache = FALSE
    MaxFaults = 1
    MaxUnwinds = 0
    MaxHangups = 0
SYMMETRY Symmetry
INVARIANTS
    NoWrongNumber
CHECK_DEADLOCK FALSE
