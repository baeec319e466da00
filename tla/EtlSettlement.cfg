SPECIFICATION Spec
CONSTANTS
    Matches = {m1}
    Leagues = {}
    Kinds = {"detail"}
    RetryLimit = 1
    EmptyLimit = 1
INVARIANTS RefreshedMeansFinal
