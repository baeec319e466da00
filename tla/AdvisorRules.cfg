SPECIFICATION MCSpec
CONSTANTS
    \* LlmBudget
    Limit = 2
    SandboxCap = 1
    Estimates = {1}
    Costs = {2}
    Overrun = 1
    Advisors = {a1, a2}
    Summarised = {s1}
    Days = {1, 2}
    \* LegRules
    GoalsAPeriod = 1
    \* BoardRules
    Books = {1, 2}
    Prices = {1, 2}
    MaxFavoriteOdd = 2
    PeriodLimit = 1
    SideGoals = 1
    MaxReds = 1
    \* SandboxBook
    BookMatches = {1, 2}
    BookGoals = 1
    BookCoupons = 2
    BookMoves = 4
    Bankroll = 1
    StakeStep = 1
    \* PromotionBook
    Sample = 2
    Recent = 2
    MaxDrop = 2
    Rate = 4
    Loss = 0
    MaxBook = 4
    MaxBase = 2
    \* PromptNote
    NoteMatches = {1, 2}
    Others = {2}
    RegulationLimit = 2
    ExtraLimit = 2
    PageExtraLimit = 2
    Minutes = {1, 2, 3}
    NoteGoals = {0, 3}
    \* RecommendationGate
    HoursADay = 3
    Start = 2
    End = 1
    CouponLimit = 2
    LossLimit = 1
    PerReply = 2
    MaxCoupons = 4
    MaxDays = 2
    \* OperatorBets
    Bets = {1, 2}
    Requests = {"r1", "r2"}
    Manual = {"r2"}
    Outcomes = {"void"}
    BetGoals = 1
    \* CandidateWindow
    Keys <- WindowKeys
    Strong <- StrongKeys
    Wait = 1
    MaxMoves = 2
    MaxSkips = 1
    MaxBelow = 1
    MaxRestarts = 1
INVARIANTS
    CyclesKeepTheBudget ReadersAgree SelectionIsSound BookIsSound DayStaysNearItsLimit
    BetsAreFair AskedAtMostTwice
PROPERTIES NoteAgreesWithPrompt PromotedBookHolds AutoNeverContradicts
CHECK_DEADLOCK FALSE
