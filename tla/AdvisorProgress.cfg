SPECIFICATION MCSpec
CONSTANTS
    \* LlmBudget
    Limit = 1
    SandboxCap = 1
    Estimates = {1}
    Costs = {1}
    Overrun = 0
    Advisors = {a1, a2}
    Summarised = {s1}
    Days = {1, 2}
    \* Outbox
    Notices = {1, 2}
    Traces = {t1}
    MaxAttempts = 2
    Batch = 1
    MaxCrashes = 1
INVARIANTS OneCallPerSummary SendingsAreCounted
PROPERTIES LockIsFreed OutboxesDrain PlayedBetsSettle BelowThresholdIsRetried
CHECK_DEADLOCK FALSE
