SPECIFICATION Spec
CONSTANTS
    Limit = 2
    SandboxCap = 1
    Estimates = {1}
    Costs = {1}
    Overrun = 0
    Advisors = {a1}
    Summarised = {s1}
    Days = {1}
INVARIANTS SandboxLeavesTheRest
