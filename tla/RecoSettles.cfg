SPECIFICATION MCSpec
CONSTANTS
    Coupons = {c1, c2}
    Fixtures = {f1}
    Strategies = {1}
    MaxGoals = 1
    LaunchLimit = 1
    ManualOutcomes = {"won"}
    ReopensMatches = TRUE
PROPERTIES SettlementConverges OffersEnd
