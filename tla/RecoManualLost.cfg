SPECIFICATION FairSpec
CONSTANTS
    Coupons = {c1}
    Fixtures = {f1}
    Strategies = {1}
    MaxGoals = 1
    LaunchLimit = 1
    ManualOutcomes = {"lost"}
    ReopensMatches = FALSE
PROPERTIES LostLegLosesTheCoupon
