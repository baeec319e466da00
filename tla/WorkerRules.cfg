SPECIFICATION MCSpec
CONSTANTS
    \* GlobalCatalog
    Teams = {t1, t2, t3}
    Players = {}
    Coaches = {}
    Countries = {x, y}
    Known = {}
    MaxRoom = 2
    MaxFaults = 0
    MaxRestarts = 1
    \* QuotaDay, QuotaPlan
    DayEnd = 10
    Target = 1
    IdlePoll = 4
    Fast = 2
    Span = 1
    DayBuffer = 1
    Oneshots = 3
    FewOneshots = 1
    FinalCalls = 1
    ContextCap = 4
    CreditTicks = 3
    Scale = 10080
    Kickoffs = {0, 1, 2}
    MaxMatches = 1
    DayCalls = 20
    MinuteCap = 3
    Batch = 2
    MaxUnplanned = 1
    \* QuotaReset
    DayLength = 4
    ResetDays = 2
    Probe = 2
    Refresh = 3
    IdleCap = 1
    Limit = 4
    ResetBuffer = 1
    ResetCalls = 2
    Lags = {"none", "header", "both"}
    \* Backfill
    PastDays = {1, 2}
    RetryLimit = 1
    MaxFailures = 1
    MaxRefusals = 1
    MaxStops = 1
    \* MatchDetail
    LineupPlayers = {"p1", "p2"}
    Nobody = "nobody"
    MaxEvents = 1
    \* MatchExtras
    MappedMatches = {"m1", "m2"}
    InjuredPlayers = {"p1"}
    MaxLinks = 2
    \* EtlQueue
    QueuedMatches = {"m1"}
    QueuedLeagues = {"l1"}
    BatchLeagues = {"l1", "l2"}
    QueueRetries = 0
    EmptyLimit = 2
    \* Dictionaries
    DictionaryRetries = 2
    MaxMisses = 2
    MaxOutages = 1
INVARIANTS
    PlanIsKept DayLastsToMidnight SharedStadiumIsAsked RowsHaveTheirParents ClaimsAreOwned
PROPERTIES RefusedOncePerProbe PassedDaysHaveDetails
CHECK_DEADLOCK FALSE
