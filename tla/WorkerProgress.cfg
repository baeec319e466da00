SPECIFICATION MCSpec
CONSTANTS
    \* WriterLock; the faults are those of the part "cut"
    Workers = {w1, w2}
    Tasks = {t1, t2}
    None = none
    Ghost = ghost
    MaxFaults = 0
    MaxStops = 1
    MaxDrops = 1
    LockFaults = 2
    \* OddsRefresh
    Fixtures = {1, 2}
    MaxGoals = 1
    Books = 2
    MaxPolls = 1
    MaxFailures = 1
INVARIANTS WritersNeedACut PricedAtItsScore
PROPERTIES
    BehavesAsOneWriter RequestIsServed BackfillGoesOn CatalogIsComplete
    DictionariesAreRefreshed
CHECK_DEADLOCK FALSE
