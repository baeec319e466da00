SPECIFICATION Spec
CONSTANTS
    Coupons = {c1, c2}
    Fixtures = {f1}
    Strategies = {1}
    MaxGoals = 0
    LaunchLimit = 1
    ManualOutcomes = {"won"}
    ReopensMatches = TRUE
SYMMETRY Symmetry
INVARIANTS IndexIsALastResort LegsFitTheirCoupon
PROPERTIES CouponsMoveForward
