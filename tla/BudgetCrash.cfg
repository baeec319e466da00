SPECIFICATION Spec
CONSTANTS
    Limit = 3
    SandboxCap = 2
    Estimates = {1}
    Costs = {1, 2}
    Overrun = 1
    Advisors = {a1}
    Summarised = {}
    Days = {1}
INVARIANTS PaidIsInTheSum
