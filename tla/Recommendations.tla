--------------------------- MODULE Recommendations ---------------------------
(***************************************************************************)
(* The life of recommendation coupons and of the strategies they come      *)
(* from: the advisor loop settles, expires, withdraws and proposes; the    *)
(* operator, in the status process, accepts, rejects, corrects, places and *)
(* settles by hand; the worker rewrites the match underneath both.         *)
(*                                                                         *)
(* Operator requests are one transaction that locks its row first, so each *)
(* is one action, except the confirmation of a placed bet: it reads the    *)
(* matches without a lock and commits later, so it is two actions,         *)
(* PlaceRead and PlaceCommit, that keep the coupon's row locked between    *)
(* them.  The advisor's loop transaction reads legs and matches without a  *)
(* lock and writes later too: SettleRead and LoopCommit, and what it read  *)
(* may be stale when it writes.  A model call lies between BeginCycle and  *)
(* CommitCycle.                                                            *)
(*                                                                         *)
(* Money, odds, texts and audit rows are left out.                         *)
(***************************************************************************)
EXTENDS Settlement, FiniteSets

CONSTANTS
    Coupons,          \* rows advisor_coupons may come to hold, mode recommendation
    Fixtures,         \* matches
    Strategies,       \* ids of strategies of kind llm
    MaxGoals,         \* bound on the goals of one match
    LaunchLimit,      \* most llm strategies active at once when one is launched
    ManualOutcomes,   \* outcomes the operator uses to settle a leg by hand
    ReopensMatches    \* may the feed put an ended match back in play

ASSUME StrategiesAssumption == Strategies \subseteq Nat
ASSUME BoundsAssumption     == MaxGoals \in Nat /\ LaunchLimit \in Nat
ASSUME ManualAssumption     == ManualOutcomes \subseteq {"won", "lost", "void"}
ASSUME ReopensAssumption    == ReopensMatches \in BOOLEAN

VARIABLES
    strategy,    \* status of each strategy row
    coupon,      \* status of each coupon, "none" before it is inserted
    owner,       \* the strategy whose cycle proposed the coupon
    leg,         \* status of the coupon's leg on a match, "none" if it has none
    line,        \* the score when the leg was proposed: its n and its goals
    overdue,     \* coupons older than the time to live
    request,     \* what an open place_coupon transaction is about to commit
    board,       \* the match as the worker last stored it
    kickAge,     \* age of the kick-off: 0 under 24 h, 1 at 24 h, 2 over
    detailed,    \* matches whose detail task is complete or coverage_empty
    pc,          \* where the advisor's loop is
    rows,        \* the joined rows settle_finished has read, by leg
    lapsed,      \* coupons overdue at the loop's own time
    asker,       \* the strategy whose cycle is waiting for the model
    slate        \* the matches it offered the model, with their score

dbVars      == <<strategy, coupon, owner, leg, line>>
feedVars    == <<board, kickAge, detailed>>
advisorVars == <<pc, rows, lapsed, asker, slate>>
vars        == <<dbVars, overdue, request, feedVars, advisorVars>>

StrategyStatus == {"proposed", "sandbox", "promoted", "paused", "retired"}
Live    == {"proposed", "accepted", "modified"}
Confirm == {"accepted", "modified"}
Closed   == {"rejected", "expired", "not_placed"}
Settling == {"placed", "won", "lost", "void"}        \* _COUPON of settle.py
CouponStatus == {"none"} \cup Live \cup Closed \cup Settling
Settleable   == {"open", "won", "lost", "void", "manual"} \* _OPEN_LEG

Pairs == Coupons \X Fixtures
Goals == 0 .. MaxGoals
Boards == [phase : {"play"}, goals : Goals]
          \cup [phase : {"finished"}, goals : Goals \cup {NoTotal}]
          \cup [phase : {"off", "irregular"}, goals : {0}]

Verdicts == {"none", "place", "expire"}
NoStrategy == -1
Row == [leg : Settleable, board : Boards, kickAge : 0 .. 2]

TypeOK ==
    /\ strategy \in [Strategies -> StrategyStatus]
    /\ coupon \in [Coupons -> CouponStatus]
    /\ owner \in [Coupons -> Strategies \cup {NoStrategy}]
    /\ leg \in [Coupons -> [Fixtures -> LegStatus \cup {"none"}]]
    /\ line \in [Coupons -> [Fixtures -> Goals]]
    /\ overdue \in SUBSET Coupons
    /\ request \in [Coupons -> Verdicts]
    /\ board \in [Fixtures -> Boards]
    /\ kickAge \in [Fixtures -> 0 .. 2]
    /\ detailed \in SUBSET Fixtures
    /\ pc \in {"idle", "settling", "ready", "asking", "tail"}
    /\ DOMAIN rows \subseteq Pairs /\ rows \in [DOMAIN rows -> Row]
    /\ lapsed \in SUBSET Coupons
    /\ asker \in Strategies \cup {NoStrategy}
    /\ DOMAIN slate \subseteq Fixtures /\ slate \in [DOMAIN slate -> Goals]

Init ==
    /\ strategy \in [Strategies -> StrategyStatus]
    /\ \A s, t \in Strategies :
         strategy[s] = "promoted" /\ strategy[t] = "promoted" => s = t
    /\ coupon = [c \in Coupons |-> "none"]
    /\ owner = [c \in Coupons |-> NoStrategy]
    /\ leg = [c \in Coupons |-> [f \in Fixtures |-> "none"]]
    /\ line = [c \in Coupons |-> [f \in Fixtures |-> 0]]
    /\ overdue = {}
    /\ request = [c \in Coupons |-> "none"]
    /\ board = [f \in Fixtures |-> [phase |-> "play", goals |-> 0]]
    /\ kickAge = [f \in Fixtures |-> 0]
    /\ detailed = {}
    /\ pc = "idle" /\ rows = <<>> /\ lapsed = {}
    /\ asker = NoStrategy /\ slate = <<>>

-----------------------------------------------------------------------------
(* Rows and indexes.                                                       *)

\* uq_advisor_legs_open_recommendation: one open or manual leg per match.
OneOpenLeg(legs) ==
    \A f \in Fixtures : \A c, d \in Coupons :
        legs[c][f] \in HoldsFixture /\ legs[d][f] \in HoldsFixture => c = d

\* Legs still on the coupon.
LegsOf(c) == {f \in Fixtures : leg[c][f] \notin {"none", "removed"}}

\* _release_legs: only an open leg gives its match back.
Released(legs) ==
    [f \in Fixtures |-> IF legs[f] = "open" THEN "removed" ELSE legs[f]]

\* Mutant: a coupon no longer on offer is taken to have given its matches back.
FixturesOnOffer ==
    {f \in Fixtures : \E c \in Coupons :
        leg[c][f] \in HoldsFixture /\ coupon[c] \in Live}

\* open_recommendation_fixtures
OpenRecommendationFixtures ==
    {f \in Fixtures : \E c \in Coupons :
        leg[c][f] \in HoldsFixture /\ coupon[c] \in Live \cup {"placed"}}

\* _score_changed over a coupon's remaining legs, against the given boards.
ScoreChanged(c, boards) ==
    \E f \in LegsOf(c) : boards[f] # [phase |-> "play", goals |-> line[c][f]]

-----------------------------------------------------------------------------
(* The worker: what the feed does to a match.                              *)

\* A poll or a detail refresh stores a new board.
FeedWrites(f) ==
    /\ \E b \in Boards :
        /\ b # board[f]
        /\ ReopensMatches \/ board[f].phase \in {"play", "off"}
                          \/ b.phase = board[f].phase
        /\ board' = [board EXCEPT ![f] = b]
    /\ UNCHANGED <<dbVars, overdue, request, kickAge, detailed, advisorVars>>

\* The one detail task of a match is completed, or claimed again: by the live
\* lane every few minutes while the match is in play and once when it ends,
\* by the history drain, and by the control refresh a day later.  Completion
\* does not say that the match had ended when it was fetched.
DetailTask(f) ==
    /\ \/ f \notin detailed /\ detailed' = detailed \cup {f}
       \/ f \in detailed /\ detailed' = detailed \ {f}
    /\ UNCHANGED <<dbVars, overdue, request, board, kickAge, advisorVars>>

KickOffAges(f) ==
    /\ kickAge[f] < 2
    /\ kickAge' = [kickAge EXCEPT ![f] = @ + 1]
    /\ UNCHANGED <<dbVars, overdue, request, board, detailed, advisorVars>>

TtlElapses(c) ==
    /\ coupon[c] \in Live
    /\ c \notin overdue
    /\ overdue' = overdue \cup {c}
    /\ UNCHANGED <<dbVars, request, feedVars, advisorVars>>

-----------------------------------------------------------------------------
(* The operator.                                                           *)

\* _lock: SELECT ... FOR UPDATE waits for the confirmation that holds the row.
Unlocked(c) == request[c] = "none"

\* _expire_locked
Expire(c) ==
    /\ leg' = [leg EXCEPT ![c] = Released(@)]
    /\ coupon' = [coupon EXCEPT ![c] = "expired"]

\* _live finds a coupon past its time to live: the request fails, but the
\* expiry is committed.
ExpireOnTouch(c) ==
    /\ Unlocked(c)
    /\ coupon[c] \in Live
    /\ c \in overdue
    /\ Expire(c)
    /\ UNCHANGED <<strategy, owner, line, overdue, request, feedVars, advisorVars>>

AcceptCoupon(c) ==
    /\ Unlocked(c)
    /\ c \notin overdue
    /\ coupon[c] = "proposed"
    /\ coupon' = [coupon EXCEPT ![c] = "accepted"]
    /\ UNCHANGED <<strategy, owner, leg, line, overdue, request, feedVars, advisorVars>>

RejectCoupon(c) ==
    /\ Unlocked(c)
    /\ c \notin overdue
    /\ coupon[c] \in Live
    /\ leg' = [leg EXCEPT ![c] = Released(@)]
    /\ coupon' = [coupon EXCEPT ![c] = "rejected"]
    /\ UNCHANGED <<strategy, owner, line, overdue, request, feedVars, advisorVars>>

\* Mutant: the coupon is closed and its legs stay open.
MarkNotPlacedKeepsLegs(c) ==
    /\ Unlocked(c)
    /\ coupon[c] \in Confirm
    /\ coupon' = [coupon EXCEPT ![c] = "not_placed"]
    /\ UNCHANGED <<strategy, owner, leg, line, overdue, request, feedVars, advisorVars>>

\* No clock check: a late "I did not place it" is still recorded.
MarkNotPlaced(c) ==
    /\ Unlocked(c)
    /\ coupon[c] \in Confirm
    /\ leg' = [leg EXCEPT ![c] = Released(@)]
    /\ coupon' = [coupon EXCEPT ![c] = "not_placed"]
    /\ UNCHANGED <<strategy, owner, line, overdue, request, feedVars, advisorVars>>

\* The operator reprices the legs it keeps; at least one must stay.
ModifyCoupon(c, remove) ==
    /\ Unlocked(c)
    /\ c \notin overdue
    /\ coupon[c] \in Live
    /\ LegsOf(c) \ remove # {}
    /\ leg' = [leg EXCEPT ![c] =
                 [f \in Fixtures |-> IF f \in LegsOf(c) \cap remove
                                     THEN "removed" ELSE leg[c][f]]]
    /\ coupon' = [coupon EXCEPT ![c] = "modified"]
    /\ UNCHANGED <<strategy, owner, line, overdue, request, feedVars, advisorVars>>

\* place_coupon up to its commit: it locks the coupon, checks the clock
\* (ExpireOnTouch) and reads the matches, which the worker goes on writing.
PlaceRead(c) ==
    /\ Unlocked(c)
    /\ c \notin overdue
    /\ coupon[c] \in Confirm
    /\ request' = [request EXCEPT ![c] =
                     IF ScoreChanged(c, board) THEN "expire" ELSE "place"]
    /\ UNCHANGED <<dbVars, overdue, feedVars, advisorVars>>

\* The request commits what it concluded from the scores it had read.
PlaceCommit(c) ==
    /\ \/ /\ request[c] = "expire"
          /\ Expire(c)
       \/ /\ request[c] = "place"
          /\ coupon' = [coupon EXCEPT ![c] = "placed"]
          /\ UNCHANGED leg
    /\ request' = [request EXCEPT ![c] = "none"]
    /\ UNCHANGED <<strategy, owner, line, overdue, feedVars, advisorVars>>

\* The status process or its connection is lost: the transaction rolls back.
PlaceRollsBack(c) ==
    /\ request[c] # "none"
    /\ request' = [request EXCEPT ![c] = "none"]
    /\ UNCHANGED <<dbVars, overdue, feedVars, advisorVars>>

\* The leg alone is written; the coupon is left to the loop.
ManualSettle(c, f, outcome) ==
    /\ leg[c][f] = "manual"
    /\ leg' = [leg EXCEPT ![c][f] = outcome]
    /\ UNCHANGED <<strategy, coupon, owner, line, overdue, request, feedVars,
                   advisorVars>>

\* promotion_block is left open.  Both rows are written by one flush in id
\* order, and uq_advisor_strategies_one_promoted is checked row by row: the
\* request fails when the strategy it replaces has the higher id.
PromoteStrategy(s) ==
    /\ strategy[s] # "retired"
    /\ \A t \in Strategies : strategy[t] = "promoted" => t <= s
    /\ strategy' = [t \in Strategies |->
                      IF t = s THEN "promoted"
                      ELSE IF strategy[t] = "promoted" THEN "sandbox"
                      ELSE strategy[t]]
    /\ UNCHANGED <<coupon, owner, leg, line, overdue, request, feedVars, advisorVars>>

SetStrategyStatus(s, status) ==
    /\ strategy[s] # "retired"
    /\ status = "sandbox" => strategy[s] = "paused"
    /\ strategy' = [strategy EXCEPT ![s] = status]
    /\ UNCHANGED <<coupon, owner, leg, line, overdue, request, feedVars, advisorVars>>

LaunchProposed(s) ==
    /\ strategy[s] = "proposed"
    /\ Cardinality({t \in Strategies : strategy[t] \in {"sandbox", "promoted"}})
         < LaunchLimit
    /\ strategy' = [strategy EXCEPT ![s] = "sandbox"]
    /\ UNCHANGED <<coupon, owner, leg, line, overdue, request, feedVars, advisorVars>>

-----------------------------------------------------------------------------
(* The advisor loop.                                                       *)

\* Mutant: the SELECT does not look at the coupon's status.
SettleReadAnyCoupon ==
    /\ pc = "idle"
    /\ pc' = "settling"
    /\ rows' = [p \in {q \in Pairs : leg[q[1]][q[2]] \in Settleable} |->
                  [leg |-> leg[p[1]][p[2]], board |-> board[p[2]],
                   kickAge |-> kickAge[p[2]]]]
    /\ lapsed' = {c \in overdue : coupon[c] \in Live}
    /\ UNCHANGED <<dbVars, overdue, request, feedVars, asker, slate>>

\* settle_finished's SELECT: the legs of settling coupons and their matches.
SettleRead ==
    /\ pc = "idle"
    /\ pc' = "settling"
    /\ rows' = [p \in {q \in Pairs : /\ leg[q[1]][q[2]] \in Settleable
                                    /\ coupon[q[1]] \in Settling} |->
                  [leg |-> leg[p[1]][p[2]], board |-> board[p[2]],
                   kickAge |-> kickAge[p[2]]]]
    /\ lapsed' = {c \in overdue : coupon[c] \in Live}
    /\ UNCHANGED <<dbVars, overdue, request, feedVars, asker, slate>>

\* _final_score and settle_leg for a row that was read.  The detail tasks
\* are read by a later statement than the match.
NewStatus(c, f) ==
    SettleLeg(line[c][f], rows[<<c, f>>].board, f \in detailed,
              rows[<<c, f>>].kickAge >= 1)

\* Mutant: a leg whose match is undecided is written back as pending.
RewritesPending(c, f) ==
    /\ <<c, f>> \in DOMAIN rows
    /\ NewStatus(c, f) # rows[<<c, f>>].leg
    /\ rows[<<c, f>>].leg # "open" => rows[<<c, f>>].kickAge <= 1

\* Mutant: a settled leg is never looked at again.
RewritesOpenOnly(c, f) ==
    /\ <<c, f>> \in DOMAIN rows
    /\ NewStatus(c, f) # "pending"
    /\ rows[<<c, f>>].leg = "open"

\* The rows settle_finished rewrites: a settled leg only inside the window.
Rewrites(c, f) ==
    /\ <<c, f>> \in DOMAIN rows
    /\ NewStatus(c, f) # "pending"
    /\ NewStatus(c, f) # rows[<<c, f>>].leg
    /\ rows[<<c, f>>].leg # "open" => rows[<<c, f>>].kickAge <= 1

SettledLegs ==
    [c \in Coupons |-> [f \in Fixtures |->
        IF Rewrites(c, f) THEN NewStatus(c, f) ELSE leg[c][f]]]

\* The session's own picture of a coupon's legs: the rows it has read are not
\* read again.
SeenOutcomes(c) ==
    {AsSettlement(IF Rewrites(c, f) THEN NewStatus(c, f)
                  ELSE IF <<c, f>> \in DOMAIN rows THEN rows[<<c, f>>].leg
                  ELSE leg[c][f]) :
        f \in {g \in Fixtures : leg[c][g] # "none"}}

\* Mutant: only a coupon that has no result yet is given one.
RefreshedOnce(c) ==
    LET result == SettleCoupon(SeenOutcomes(c))
    IN  IF /\ \E f \in Fixtures : Rewrites(c, f)
           /\ result \in FinalResults
           /\ coupon[c] = "placed"
        THEN result ELSE coupon[c]

\* _refresh_coupon, for a coupon one of whose legs was rewritten.
RefreshedCoupon(c) ==
    LET result == SettleCoupon(SeenOutcomes(c))
    IN  IF (\E f \in Fixtures : Rewrites(c, f)) /\ result \in FinalResults
        THEN result ELSE coupon[c]

\* The board of a match as the session sees it when it expires coupons: a
\* match settle_finished loaded is not read again.
SessionBoard(f) ==
    IF \E p \in DOMAIN rows : p[2] = f
    THEN rows[CHOOSE p \in DOMAIN rows : p[2] = f].board
    ELSE board[f]

\* Mutant: a coupon that has been placed expires too.
StalePlaced(c) ==
    /\ coupon[c] \in Live \cup {"placed"}
    /\ c \in lapsed \/ ScoreChanged(c, [f \in Fixtures |-> SessionBoard(f)])

\* Mutant: only the score expires an offer.
StaleByScore(c) ==
    /\ coupon[c] \in Live
    /\ ScoreChanged(c, [f \in Fixtures |-> SessionBoard(f)])

\* expire_due
Stale(c) ==
    /\ coupon[c] \in Live
    /\ c \in lapsed \/ ScoreChanged(c, [f \in Fixtures |-> SessionBoard(f)])

\* The promoted strategy, when its recent yield is under the floor.
WithdrawChoices ==
    {{}} \cup {{s} : s \in {t \in Strategies : strategy[t] = "promoted"}}

\* withdraw_promoted expires what the strategy still has on offer.
Withdrawn(c, W) == coupon[c] \in Live /\ owner[c] \in W

\* Mutant: the offers are selected without FOR UPDATE.
OffersNotAwaited == TRUE

\* expire_due selects the offers FOR UPDATE: it waits for every confirmation
\* that holds one of them.
OffersUnlocked == \A c \in Coupons : coupon[c] \in Live => Unlocked(c)

\* settle_finished, expire_due and withdraw_promoted, committed together.
LoopCommit ==
    /\ pc = "settling"
    /\ OffersUnlocked
    /\ OneOpenLeg(SettledLegs)
    /\ \E W \in WithdrawChoices :
        /\ strategy' = [s \in Strategies |->
                          IF s \in W THEN "sandbox" ELSE strategy[s]]
        /\ coupon' = [c \in Coupons |->
                        IF Stale(c) \/ Withdrawn(c, W) THEN "expired"
                        ELSE RefreshedCoupon(c)]
        /\ leg' = [c \in Coupons |->
                     IF Stale(c) \/ Withdrawn(c, W)
                     THEN Released(SettledLegs[c]) ELSE SettledLegs[c]]
    /\ pc' = "ready" /\ rows' = <<>> /\ lapsed' = {}
    /\ UNCHANGED <<owner, line, overdue, request, feedVars, asker, slate>>

\* Nothing of the loop's memory or open transaction survives.
AdvisorRestarts ==
    /\ pc' = "idle" /\ rows' = <<>> /\ lapsed' = {}
    /\ asker' = NoStrategy /\ slate' = <<>>
    /\ UNCHANGED <<dbVars, overdue, request, feedVars>>

\* The loop's transaction breaks the index and is rolled back; the process
\* ends with the error and is started again.
LoopFails ==
    /\ pc = "settling"
    /\ ~OneOpenLeg(SettledLegs)
    /\ AdvisorRestarts

\* release_funded_strategies at the head of a tick: any paused strategy whose
\* sandbox book covers the stake.
ReleaseFunded(s) ==
    /\ pc = "ready"
    /\ strategy[s] = "paused"
    /\ strategy' = [strategy EXCEPT ![s] = "sandbox"]
    /\ UNCHANGED <<coupon, owner, leg, line, overdue, request, feedVars, advisorVars>>

\* place_sandbox_coupons, in a cycle of mode sandbox, locks the strategy and
\* pauses it when its book cannot cover the stake.
PauseBroke(s) ==
    /\ pc \in {"ready", "tail"}
    /\ strategy[s] \in {"sandbox", "promoted"}
    /\ strategy' = [strategy EXCEPT ![s] = "paused"]
    /\ UNCHANGED <<coupon, owner, leg, line, overdue, request, feedVars, advisorVars>>

\* The tick reads the promoted strategy and the candidates it may offer, and
\* calls the model.  Only one strategy of a tick is promoted, so only one of
\* its cycles recommends.  The gates of inactive_reason may close a tick.
BeginCycle(s) ==
    /\ pc = "ready"
    /\ strategy[s] = "promoted"
    /\ \E S \in SUBSET {f \in Fixtures \ OpenRecommendationFixtures :
                           board[f].phase = "play"} :
        /\ S # {}
        /\ slate' = [f \in S |-> board[f].goals]
    /\ asker' = s
    /\ pc' = "asking"
    /\ UNCHANGED <<dbVars, overdue, request, feedVars, rows, lapsed>>

\* The coupons of a valid reply use each match once.  Those whose match is
\* taken are skipped by the index; the rest are inserted.
Slips(reply) ==
    /\ \A c \in Coupons : reply[c] # {} => coupon[c] = "none"
    /\ \A c, d \in Coupons : c # d => reply[c] \cap reply[d] = {}

\* Mutant: the index covers open legs only.
InsertedOverManual(reply, c) ==
    /\ reply[c] # {}
    /\ \A f \in reply[c] : \A d \in Coupons : leg[d][f] # "open"

Inserted(reply, c) ==
    /\ reply[c] # {}
    /\ \A f \in reply[c] : \A d \in Coupons : leg[d][f] \notin HoldsFixture

\* _commit_cycle and place_proposed.  The strategy is not read again.
CommitCycle ==
    /\ pc = "asking"
    /\ \E reply \in [Coupons -> SUBSET DOMAIN slate] :
        /\ Slips(reply)
        /\ coupon' = [c \in Coupons |->
                        IF Inserted(reply, c) THEN "proposed" ELSE coupon[c]]
        /\ owner' = [c \in Coupons |->
                       IF Inserted(reply, c) THEN asker ELSE owner[c]]
        /\ leg' = [c \in Coupons |-> [f \in Fixtures |->
                     IF Inserted(reply, c) /\ f \in reply[c]
                     THEN "open" ELSE leg[c][f]]]
        /\ line' = [c \in Coupons |-> [f \in Fixtures |->
                      IF Inserted(reply, c) /\ f \in reply[c]
                      THEN slate[f] ELSE line[c][f]]]
    /\ pc' = "tail" /\ asker' = NoStrategy /\ slate' = <<>>
    /\ UNCHANGED <<strategy, overdue, request, feedVars, rows, lapsed>>

\* The rest of the loop (telegram, summaries, the sleep).
EndLoop ==
    /\ pc \in {"ready", "tail"}
    /\ pc' = "idle"
    /\ UNCHANGED <<dbVars, overdue, request, feedVars, rows, lapsed, asker, slate>>

\* The process dies; what was not committed is gone.
AdvisorCrash ==
    /\ pc # "idle"
    /\ AdvisorRestarts

-----------------------------------------------------------------------------
Feed == \E f \in Fixtures : FeedWrites(f) \/ DetailTask(f) \/ KickOffAges(f)

Operator ==
    \/ \E c \in Coupons :
        \/ ExpireOnTouch(c) \/ AcceptCoupon(c) \/ RejectCoupon(c)
        \/ MarkNotPlaced(c)
        \/ PlaceRead(c) \/ PlaceCommit(c) \/ PlaceRollsBack(c)
        \/ \E remove \in SUBSET Fixtures : ModifyCoupon(c, remove)
        \/ \E f \in Fixtures, o \in ManualOutcomes : ManualSettle(c, f, o)
    \/ \E s \in Strategies :
        \/ PromoteStrategy(s) \/ LaunchProposed(s)
        \/ \E st \in {"sandbox", "paused", "retired"} : SetStrategyStatus(s, st)

Advisor ==
    \/ SettleRead \/ LoopCommit \/ LoopFails \/ CommitCycle
    \/ EndLoop \/ AdvisorCrash
    \/ \E s \in Strategies : ReleaseFunded(s) \/ PauseBroke(s) \/ BeginCycle(s)

Next ==
    \/ Feed
    \/ \E c \in Coupons : TtlElapses(c)
    \/ Operator
    \/ Advisor

Spec == Init /\ [][Next]_vars

\* The loop runs on a timer and its container is restarted; it is assumed not
\* to be killed in every single pass.  An open request ends.  Neither the
\* operator nor the feed is fair: a request or a score may never come.
Fairness ==
    /\ WF_vars(SettleRead)
    /\ SF_vars(LoopCommit)
    /\ WF_vars(LoopFails)
    /\ WF_vars(CommitCycle)
    /\ WF_vars(EndLoop)
    /\ \A c \in Coupons : WF_vars(TtlElapses(c)) /\ WF_vars(PlaceCommit(c))

FairSpec == Spec /\ Fairness

-----------------------------------------------------------------------------
(* Safety.                                                                 *)

\* A coupon that was rejected, expired or reported as not placed has given
\* every match back (_release_legs releases only open legs, so this rests on
\* no such coupon ever having a settled or manual leg): otherwise the unique
\* index would keep its matches out of every later recommendation.
ClosedCouponsFreeTheirMatches ==
    \A c \in Coupons : coupon[c] \in Closed => LegsOf(c) = {}

\* A coupon on offer holds each of its matches with an open leg and has at
\* least one: settle_finished, working from rows it read earlier, never
\* settles a leg of a coupon the operator has not placed.
OffersAreUnsettled ==
    \A c \in Coupons : coupon[c] \in Live =>
        /\ LegsOf(c) # {}
        /\ \A f \in LegsOf(c) : leg[c][f] = "open"

\* No leg or coupon is written with a status its column does not allow, and the
\* legs of a coupon fit where the coupon stands: undecided while it is an offer,
\* none of them open once it is closed.
LegsFitTheirCoupon == TypeOK /\ ClosedCouponsFreeTheirMatches /\ OffersAreUnsettled

\* While the model works on a slate, no coupon on offer or placed holds a match of
\* it: open_recommendation_fixtures was read before the call, and nothing that is
\* committed meanwhile gives such a coupon a match.  A slip that was paid for is
\* skipped (place_proposed) only for a match that a settled coupon still holds.
SlateIsFree ==
    pc = "asking" => \A f \in DOMAIN slate, c \in Coupons :
        leg[c][f] \in HoldsFixture => coupon[c] \in FinalResults

\* The loop's transaction breaks uq_advisor_legs_open_recommendation only by a
\* correction: a leg it had read as settled goes back to manual.  Rows read before
\* the operator settled a leg by hand, confirmed a coupon or gave its matches back
\* never bring a collision of their own.
OnlyCorrectionsCollide ==
    pc = "settling" /\ ~OneOpenLeg(SettledLegs) =>
        \E c \in Coupons, f \in Fixtures :
            /\ Rewrites(c, f)
            /\ rows[<<c, f>>].leg \in {"won", "lost", "void"}
            /\ NewStatus(c, f) = "manual"

\* The index on open legs is a last resort: of what the loop writes from rows it
\* read earlier, before a model call or before the operator's requests, it refuses
\* only what a settled coupon, or the correction of one, stands in the way of.
IndexIsALastResort == SlateIsFree /\ OnlyCorrectionsCollide

\* A coupon that has left the offer never returns to it, and a placed coupon
\* never becomes unplaced, although a confirmation decides from scores it read
\* earlier, the loop expires from rows it read earlier and the operator reports.
CouponsMoveForward ==
    [][\A c \in Coupons :
         /\ coupon[c] \in Closed => coupon'[c] = coupon[c]
         /\ coupon[c] \in Settling => coupon'[c] \in Settling
         /\ coupon[c] \in Live => coupon'[c] \notin {"none", "won", "lost", "void"}
      ]_vars

-----------------------------------------------------------------------------
(* Liveness.                                                               *)

\* A recommendation does not stay on offer for ever, even when the loop's
\* transaction keeps failing on the index because a settled leg of another
\* coupon goes back to manual: time passes, the correction window ends and
\* expire_due runs.
OffersEnd ==
    (\A f \in Fixtures : <>(kickAge[f] = 2))
    => \A c \in Coupons : coupon[c] \in Live ~> coupon[c] \notin Live

FinalScoreStands(f, g) ==
    /\ board[f] = [phase |-> "finished", goals |-> g]
    /\ f \in detailed
    /\ kickAge[f] = 0

\* Once a match's final score stands inside the correction window, every leg
\* on it ends up with the outcome of that score, whatever was read, settled
\* or typed into that leg before (settle_finished rewrites a settled leg).
CorrectionsConverge ==
    \A c \in Coupons, f \in Fixtures, g \in Goals :
        <>[](FinalScoreStands(f, g) /\ coupon[c] \in Settling /\ f \in LegsOf(c))
        => <>[](leg[c][f] = IF g > line[c][f] THEN "won" ELSE "lost")

\* "One lost leg loses the coupon even while another leg is still open"
\* (settle_coupon), said of a lost leg that stays lost.
LostLegLosesTheCoupon ==
    \A c \in Coupons, f \in Fixtures :
        (coupon[c] \in Settling /\ leg[c][f] = "lost")
        ~> (coupon[c] = "lost" \/ leg[c][f] # "lost")
===============================================================================
