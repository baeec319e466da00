SPECIFICATION FairSpec
CONSTANTS
    Matches = {m1}
    Leagues = {l1}
    Kinds = {"detail", "global"}
    RetryLimit = 1
    EmptyLimit = 1
PROPERTIES GivenUpStays FinishedMatchesRest
