SPECIFICATION Spec
CONSTANTS
    Matches = {m1}
    Leagues = {l1}
    Kinds = {"rounds"}
    RetryLimit = 1
    EmptyLimit = 1
INVARIANTS ClosedWindowReturnsTheTask
