\* A file that is replaced while SIGHUPs or the stamp watcher reload it.
SPECIFICATION ReloadSpec
CONSTANTS
    r1 = r1
    r2 = r2
    p1 = p1
    p2 = p2
    p3 = p3
    None = None
    Req <- MCOne
    Pool <- MCPool
    PoolSize = 2
    MaxVersion = 3
    Slots = 1
    Kinds <- ExecuteOrMembers
    Timeouts = FALSE
    Reloaders <- Both
    AggCache = TRUE
    MaxFaults = 1
    MaxUnwinds = 0
    MaxHangups = 2
INVARIANTS
    RollupIsAttached
    StatusTellsEpoch
PROPERTIES
    NewerPoolOnly
    WatcherConverges
CHECK_DEADLOCK FALSE
