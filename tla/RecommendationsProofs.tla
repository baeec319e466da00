------------------------ MODULE RecommendationsProofs ------------------------
(***************************************************************************)
(* Invariants of Recommendations, for any set of coupons, matches and      *)
(* strategies.                                                             *)
(***************************************************************************)
EXTENDS Recommendations, TLAPS

(***************************************************************************)
(* Facts about the pure definitions.                                       *)
(***************************************************************************)

\* settle_leg answers with a leg status or "pending".
LEMMA SettleLegType ==
    ASSUME NEW n \in Nat, NEW b \in Boards,
           NEW r \in BOOLEAN, NEW a \in BOOLEAN
    PROVE  SettleLeg(n, b, r, a) \in {"void", "manual", "pending", "won", "lost"}
<1>1. b.phase \in Phases
  BY DEF Boards, Phases
<1>2. CASE b.phase = "irregular"
  BY <1>2 DEF SettleLeg
<1>3. CASE b.phase \in {"play", "off"}
  BY <1>3 DEF SettleLeg
<1>4. CASE b.phase = "finished"
  BY <1>4 DEF SettleLeg
<1> QED
  BY <1>1, <1>2, <1>3, <1>4 DEF Phases

\* A row that settle_finished rewrites gets a settled status.
LEMMA RewrittenStatus ==
    ASSUME TypeOK, NEW c \in Coupons, NEW f \in Fixtures, Rewrites(c, f)
    PROVE  NewStatus(c, f) \in {"void", "manual", "won", "lost"}
<1>1. <<c, f>> \in DOMAIN rows
  BY DEF Rewrites
<1>2. rows[<<c, f>>] \in Row
  BY <1>1 DEF TypeOK
<1>3. rows[<<c, f>>].board \in Boards /\ rows[<<c, f>>].kickAge \in 0 .. 2
  BY <1>2 DEF Row
<1>4. line[c][f] \in Nat
  BY BoundsAssumption DEF TypeOK, Goals
<1>5. (f \in detailed) \in BOOLEAN /\ (rows[<<c, f>>].kickAge >= 1) \in BOOLEAN
  OBVIOUS
<1>6. NewStatus(c, f) \in {"void", "manual", "pending", "won", "lost"}
  BY <1>3, <1>4, <1>5, SettleLegType, Zenon DEF NewStatus
<1> QED
  BY <1>6 DEF Rewrites

LEMMA SettledLegsType ==
    ASSUME TypeOK
    PROVE  SettledLegs \in [Coupons -> [Fixtures -> LegStatus \cup {"none"}]]
<1>1. ASSUME NEW c \in Coupons, NEW f \in Fixtures
      PROVE  (IF Rewrites(c, f) THEN NewStatus(c, f) ELSE leg[c][f])
                \in LegStatus \cup {"none"}
  <2>1. CASE Rewrites(c, f)
    BY <2>1, RewrittenStatus DEF LegStatus
  <2>2. CASE ~Rewrites(c, f)
    BY <2>2 DEF TypeOK
  <2> QED
    BY <2>1, <2>2
<1> QED
  BY <1>1 DEF SettledLegs

LEMMA ReleasedType ==
    ASSUME NEW legs \in [Fixtures -> LegStatus \cup {"none"}]
    PROVE  Released(legs) \in [Fixtures -> LegStatus \cup {"none"}]
  BY DEF Released, LegStatus

\* A coupon keeps its status or takes a final result.
LEMMA RefreshedCouponCases ==
    ASSUME NEW c \in Coupons
    PROVE  \/ RefreshedCoupon(c) = coupon[c]
           \/ /\ RefreshedCoupon(c) \in FinalResults
              /\ \E f \in Fixtures : <<c, f>> \in DOMAIN rows
  BY DEF RefreshedCoupon, Rewrites

(***************************************************************************)
(* Types.                                                                  *)
(***************************************************************************)

LEMMA InitType == Init => TypeOK
  BY BoundsAssumption DEF Init, TypeOK, Boards, Goals, LegStatus, CouponStatus,
     Pairs, Row, NoStrategy, Verdicts

\* LoopCommit writes statuses of the right kind.
LEMMA LoopCommitType ==
    ASSUME TypeOK, LoopCommit
    PROVE  TypeOK'
<1>1. PICK W \in WithdrawChoices :
        /\ strategy' = [s \in Strategies |->
                          IF s \in W THEN "sandbox" ELSE strategy[s]]
        /\ coupon' = [c \in Coupons |->
                        IF Stale(c) \/ Withdrawn(c, W) THEN "expired"
                        ELSE RefreshedCoupon(c)]
        /\ leg' = [c \in Coupons |->
                     IF Stale(c) \/ Withdrawn(c, W)
                     THEN Released(SettledLegs[c]) ELSE SettledLegs[c]]
  BY DEF LoopCommit
<1>2. strategy' \in [Strategies -> StrategyStatus]
  BY <1>1 DEF TypeOK, StrategyStatus
<1>3. coupon' \in [Coupons -> CouponStatus]
  <2>1. \A c \in Coupons : RefreshedCoupon(c) \in CouponStatus
    BY RefreshedCouponCases DEF TypeOK, CouponStatus, Settling, FinalResults
  <2>2. "expired" \in CouponStatus
    BY DEF CouponStatus, Closed
  <2> QED
    BY <1>1, <2>1, <2>2
<1>4. leg' \in [Coupons -> [Fixtures -> LegStatus \cup {"none"}]]
  <2>1. ASSUME NEW c \in Coupons
        PROVE  /\ SettledLegs[c] \in [Fixtures -> LegStatus \cup {"none"}]
               /\ Released(SettledLegs[c]) \in [Fixtures -> LegStatus \cup {"none"}]
    BY SettledLegsType, ReleasedType
  <2> QED
    BY <1>1, <2>1
<1>5. /\ pc' = "ready" /\ rows' = <<>> /\ lapsed' = {}
      /\ UNCHANGED <<owner, line, overdue, request, board, kickAge, detailed, asker,
                     slate>>
  BY DEF LoopCommit, feedVars
<1> QED
  BY <1>2, <1>3, <1>4, <1>5 DEF TypeOK

\* CommitCycle writes statuses and scores of the right kind.
LEMMA CommitCycleType ==
    ASSUME TypeOK, CommitCycle
    PROVE  TypeOK'
<1>1. PICK reply \in [Coupons -> SUBSET DOMAIN slate] :
        /\ coupon' = [c \in Coupons |->
                        IF Inserted(reply, c) THEN "proposed" ELSE coupon[c]]
        /\ owner' = [c \in Coupons |->
                       IF Inserted(reply, c) THEN asker ELSE owner[c]]
        /\ leg' = [c \in Coupons |-> [f \in Fixtures |->
                     IF Inserted(reply, c) /\ f \in reply[c]
                     THEN "open" ELSE leg[c][f]]]
        /\ line' = [c \in Coupons |-> [f \in Fixtures |->
                      IF Inserted(reply, c) /\ f \in reply[c]
                      THEN slate[f] ELSE line[c][f]]]
  BY DEF CommitCycle
<1>2. coupon' \in [Coupons -> CouponStatus]
  BY <1>1 DEF TypeOK, CouponStatus, Live
<1>3. owner' \in [Coupons -> Strategies \cup {NoStrategy}]
  BY <1>1 DEF TypeOK
<1>4. leg' \in [Coupons -> [Fixtures -> LegStatus \cup {"none"}]]
  BY <1>1 DEF TypeOK, LegStatus
<1>5. line' \in [Coupons -> [Fixtures -> Goals]]
  <2>1. ASSUME NEW c \in Coupons, NEW f \in Fixtures, f \in reply[c]
        PROVE  slate[f] \in Goals
    <3>1. f \in DOMAIN slate
      BY <2>1
    <3> QED
      BY <3>1 DEF TypeOK
  <2> QED
    BY <1>1, <2>1 DEF TypeOK
<1>6. /\ pc' = "tail" /\ asker' = NoStrategy /\ slate' = <<>>
      /\ UNCHANGED <<strategy, overdue, request, board, kickAge, detailed, rows,
                     lapsed>>
  BY DEF CommitCycle, feedVars
<1> QED
  BY <1>2, <1>3, <1>4, <1>5, <1>6 DEF TypeOK

LEMMA FeedType ==
    ASSUME TypeOK, Feed
    PROVE  TypeOK'
<1>1. PICK f \in Fixtures : FeedWrites(f) \/ DetailTask(f) \/ KickOffAges(f)
  BY DEF Feed
<1>2. CASE FeedWrites(f)
  BY <1>2 DEF FeedWrites, TypeOK, dbVars, advisorVars
<1>3. CASE DetailTask(f)
  BY <1>3 DEF DetailTask, TypeOK, dbVars, advisorVars
<1>4. CASE KickOffAges(f)
  BY <1>4 DEF KickOffAges, TypeOK, dbVars, advisorVars
<1> QED
  BY <1>1, <1>2, <1>3, <1>4

LEMMA OperatorType ==
    ASSUME TypeOK, Operator
    PROVE  TypeOK'
<1>1. \A c \in Coupons : Released(leg[c]) \in [Fixtures -> LegStatus \cup {"none"}]
  BY ReleasedType DEF TypeOK
<1>2. ASSUME NEW c \in Coupons, ExpireOnTouch(c) PROVE TypeOK'
  BY <1>1, <1>2 DEF ExpireOnTouch, Expire, TypeOK, feedVars, advisorVars,
     CouponStatus, Closed
<1>3. ASSUME NEW c \in Coupons, AcceptCoupon(c) PROVE TypeOK'
  BY <1>3 DEF AcceptCoupon, TypeOK, feedVars, advisorVars, CouponStatus, Live
<1>4. ASSUME NEW c \in Coupons, RejectCoupon(c) PROVE TypeOK'
  BY <1>1, <1>4 DEF RejectCoupon, TypeOK, feedVars, advisorVars, CouponStatus, Closed
<1>5. ASSUME NEW c \in Coupons, MarkNotPlaced(c) PROVE TypeOK'
  BY <1>1, <1>5 DEF MarkNotPlaced, TypeOK, feedVars, advisorVars, CouponStatus, Closed
<1>6. ASSUME NEW c \in Coupons, PlaceRead(c) \/ PlaceRollsBack(c) PROVE TypeOK'
  BY <1>6 DEF PlaceRead, PlaceRollsBack, TypeOK, Verdicts, dbVars, feedVars,
     advisorVars
<1>10. ASSUME NEW c \in Coupons, PlaceCommit(c) PROVE TypeOK'
  <2>1. request' \in [Coupons -> Verdicts]
    BY <1>10 DEF PlaceCommit, TypeOK, Verdicts
  <2>2. coupon' \in [Coupons -> CouponStatus]
    BY <1>10 DEF PlaceCommit, Expire, TypeOK, CouponStatus, Closed, Settling
  <2>3. leg' \in [Coupons -> [Fixtures -> LegStatus \cup {"none"}]]
    BY <1>1, <1>10 DEF PlaceCommit, Expire, TypeOK
  <2>4. UNCHANGED <<strategy, owner, line, overdue, feedVars, advisorVars>>
    BY <1>10 DEF PlaceCommit
  <2> QED
    BY <2>1, <2>2, <2>3, <2>4 DEF TypeOK, feedVars, advisorVars
<1>7. ASSUME NEW c \in Coupons, NEW remove \in SUBSET Fixtures,
             ModifyCoupon(c, remove)
      PROVE  TypeOK'
  BY <1>7 DEF ModifyCoupon, TypeOK, feedVars, advisorVars, CouponStatus, Live,
     LegStatus
<1>8. ASSUME NEW c \in Coupons, NEW f \in Fixtures, NEW o \in ManualOutcomes,
             ManualSettle(c, f, o)
      PROVE  TypeOK'
  BY <1>8, ManualAssumption DEF ManualSettle, TypeOK, feedVars, advisorVars, LegStatus
<1>9. ASSUME NEW s \in Strategies,
             \/ PromoteStrategy(s) \/ LaunchProposed(s)
             \/ \E st \in {"sandbox", "paused", "retired"} : SetStrategyStatus(s, st)
      PROVE  TypeOK'
  BY <1>9 DEF PromoteStrategy, LaunchProposed, SetStrategyStatus, TypeOK, feedVars,
     advisorVars, StrategyStatus
<1> QED
  BY <1>2, <1>3, <1>4, <1>5, <1>6, <1>7, <1>8, <1>9, <1>10 DEF Operator

LEMMA AdvisorType ==
    ASSUME TypeOK, Advisor
    PROVE  TypeOK'
<1>1. CASE SettleRead
  <2> DEFINE P == {q \in Pairs : /\ leg[q[1]][q[2]] \in Settleable
                                 /\ coupon[q[1]] \in Settling}
             R(p) == [leg |-> leg[p[1]][p[2]], board |-> board[p[2]],
                      kickAge |-> kickAge[p[2]]]
  <2>1. rows' = [p \in P |-> R(p)]
    BY <1>1 DEF SettleRead
  <2>2. ASSUME NEW p \in P PROVE R(p) \in Row
    <3>1. p[2] \in Fixtures /\ leg[p[1]][p[2]] \in Settleable
      BY <2>2 DEF Pairs
    <3> QED
      BY <3>1 DEF Row, TypeOK
  <2> HIDE DEF R
  <2>3. DOMAIN rows' \subseteq Pairs /\ rows' \in [DOMAIN rows' -> Row]
    BY <2>1, <2>2
  <2>4. /\ pc' = "settling" /\ lapsed' \in SUBSET Coupons
        /\ UNCHANGED <<strategy, coupon, owner, leg, line, overdue, request, board,
                       kickAge, detailed, asker, slate>>
    BY <1>1 DEF SettleRead, TypeOK, dbVars, feedVars
  <2> QED
    BY <2>3, <2>4 DEF TypeOK
<1>2. CASE LoopCommit
  BY <1>2, LoopCommitType
<1>3. CASE LoopFails \/ AdvisorCrash
  <2>1. AdvisorRestarts
    BY <1>3 DEF LoopFails, AdvisorCrash
  <2> QED
    BY <2>1 DEF AdvisorRestarts, TypeOK, dbVars, feedVars
<1>4. CASE CommitCycle
  BY <1>4, CommitCycleType
<1>5. CASE EndLoop
  BY <1>5 DEF EndLoop, TypeOK, dbVars, feedVars
<1>6. ASSUME NEW s \in Strategies, ReleaseFunded(s) \/ PauseBroke(s)
      PROVE  TypeOK'
  BY <1>6 DEF ReleaseFunded, PauseBroke, TypeOK, feedVars, advisorVars, StrategyStatus
<1>7. ASSUME NEW s \in Strategies, BeginCycle(s)
      PROVE  TypeOK'
  BY <1>7 DEF BeginCycle, TypeOK, dbVars, feedVars, Boards
<1> QED
  BY <1>1, <1>2, <1>3, <1>4, <1>5, <1>6, <1>7 DEF Advisor

LEMMA NextType == TypeOK /\ [Next]_vars => TypeOK'
<1> SUFFICES ASSUME TypeOK, [Next]_vars PROVE TypeOK'
  OBVIOUS
<1>1. CASE \E c \in Coupons : TtlElapses(c)
  BY <1>1 DEF TtlElapses, TypeOK, dbVars, feedVars, advisorVars
<1>2. CASE UNCHANGED vars
  BY <1>2 DEF vars, TypeOK, dbVars, feedVars, advisorVars
<1> QED
  BY <1>1, <1>2, FeedType, OperatorType, AdvisorType DEF Next

\* Every reachable state is well typed, for any constants that satisfy the
\* assumptions of Recommendations: in particular no leg or coupon is ever
\* written with a status its column does not allow.
THEOREM TypeCorrect == Spec => []TypeOK
  BY InitType, NextType, PTL DEF Spec

(***************************************************************************)
(* The statuses of a coupon and of its legs go together.  The invariant    *)
(* needs its last two parts: the loop and a confirmation write from rows   *)
(* they read earlier, so what protects an offer is that a coupon the loop  *)
(* has read stays one that settles, and that the row a confirmation keeps  *)
(* locked stays one that can be confirmed.                                 *)
(***************************************************************************)
LegsFollow(c) ==
    /\ coupon[c] = "none" => \A f \in Fixtures : leg[c][f] = "none"
    /\ coupon[c] \in Closed => \A f \in Fixtures : leg[c][f] \in {"none", "removed"}
    /\ coupon[c] \in Live =>
        /\ \A f \in Fixtures : leg[c][f] \in {"none", "removed", "open"}
        /\ \E f \in Fixtures : leg[c][f] = "open"

RowsAreSettling ==
    \A c \in Coupons, f \in Fixtures :
        <<c, f>> \in DOMAIN rows => coupon[c] \in Settling

RequestsHold == \A c \in Coupons : request[c] # "none" => coupon[c] \in Confirm

IndInv ==
    /\ TypeOK
    /\ \A c \in Coupons : LegsFollow(c)
    /\ RowsAreSettling
    /\ RequestsHold

LEMMA InitInd == Init => IndInv
<1> SUFFICES ASSUME Init PROVE IndInv
  OBVIOUS
<1>1. TypeOK
  BY InitType
<1>2. \A c \in Coupons : LegsFollow(c)
  BY DEF Init, LegsFollow, Closed, Live
<1>3. RowsAreSettling
  BY DEF Init, RowsAreSettling
<1>4. RequestsHold
  BY DEF Init, RequestsHold
<1> QED
  BY <1>1, <1>2, <1>3, <1>4 DEF IndInv

\* A step that leaves the coupons, the legs, the rows read and the requests
\* keeps IndInv.
LEMMA FrameInd ==
    ASSUME IndInv, TypeOK', UNCHANGED <<coupon, leg, rows, request>>
    PROVE  IndInv'
  BY DEF IndInv, LegsFollow, RowsAreSettling, RequestsHold

\* Closing an offer releases all its legs.
LEMMA CloseInd ==
    ASSUME IndInv, TypeOK', NEW c \in Coupons, NEW st \in Closed,
           coupon[c] \in Live,
           leg' = [leg EXCEPT ![c] = Released(@)],
           coupon' = [coupon EXCEPT ![c] = st],
           rows' = rows,
           request'[c] = "none",
           \A d \in Coupons : d # c => request'[d] = request[d]
    PROVE  IndInv'
<1>1. LegsFollow(c)'
  <2>1. \A f \in Fixtures : leg'[c][f] \in {"none", "removed"}
    BY DEF IndInv, LegsFollow, TypeOK, Released
  <2>2. coupon'[c] = st /\ st # "none" /\ st \notin Live
    BY DEF IndInv, TypeOK, Closed, Live
  <2> QED
    BY <2>1, <2>2 DEF LegsFollow
<1>2. ASSUME NEW d \in Coupons, d # c PROVE LegsFollow(d)'
  BY <1>2 DEF IndInv, LegsFollow, TypeOK
<1>3. RowsAreSettling'
  BY DEF IndInv, RowsAreSettling, TypeOK, Live, Settling
<1>4. RequestsHold'
  BY DEF IndInv, RequestsHold, TypeOK
<1> QED
  BY <1>1, <1>2, <1>3, <1>4 DEF IndInv

LEMMA OperatorInd ==
    ASSUME IndInv, TypeOK', Operator
    PROVE  IndInv'
<1>1. ASSUME NEW c \in Coupons, ExpireOnTouch(c) PROVE IndInv'
  BY <1>1, CloseInd DEF ExpireOnTouch, Expire, Closed, advisorVars, Unlocked
<1>2. ASSUME NEW c \in Coupons, RejectCoupon(c) PROVE IndInv'
  BY <1>2, CloseInd DEF RejectCoupon, Closed, advisorVars, Unlocked
<1>3. ASSUME NEW c \in Coupons, MarkNotPlaced(c) PROVE IndInv'
  BY <1>3, CloseInd DEF MarkNotPlaced, Confirm, Live, Closed, advisorVars, Unlocked
<1>4. ASSUME NEW c \in Coupons, AcceptCoupon(c) PROVE IndInv'
  <2>1. /\ coupon[c] = "proposed" /\ leg' = leg /\ rows' = rows
        /\ coupon' = [coupon EXCEPT ![c] = "accepted"]
    BY <1>4 DEF AcceptCoupon, advisorVars
  <2>2. ASSUME NEW d \in Coupons PROVE LegsFollow(d)'
    BY <2>1, <2>2 DEF IndInv, LegsFollow, TypeOK, Live, Closed
  <2>3. RowsAreSettling'
    BY <2>1 DEF IndInv, RowsAreSettling, TypeOK, Settling
  <2>4. RequestsHold'
    BY <1>4 DEF AcceptCoupon, IndInv, RequestsHold, TypeOK, Confirm
  <2> QED
    BY <2>2, <2>3, <2>4 DEF IndInv
<1>5. ASSUME NEW c \in Coupons, PlaceRead(c) \/ PlaceRollsBack(c) PROVE IndInv'
  <2>1. UNCHANGED <<coupon, leg, rows>>
    BY <1>5 DEF PlaceRead, PlaceRollsBack, dbVars, advisorVars
  <2>2. RequestsHold'
    BY <1>5, <2>1 DEF PlaceRead, PlaceRollsBack, IndInv, RequestsHold, TypeOK
  <2> QED
    BY <2>1, <2>2 DEF IndInv, LegsFollow, RowsAreSettling
<1>9. ASSUME NEW c \in Coupons, PlaceCommit(c) PROVE IndInv'
  <2>1. coupon[c] \in Confirm /\ rows' = rows
    BY <1>9 DEF PlaceCommit, IndInv, RequestsHold, advisorVars
  <2>2. request' = [request EXCEPT ![c] = "none"]
    BY <1>9 DEF PlaceCommit
  <2>3. request'[c] = "none" /\ \A d \in Coupons : d # c => request'[d] = request[d]
    BY <2>2 DEF IndInv, TypeOK
  <2>4. CASE request[c] = "expire" /\ Expire(c)
    BY <2>1, <2>3, <2>4, CloseInd DEF Expire, Confirm, Live, Closed
  <2>5. CASE coupon' = [coupon EXCEPT ![c] = "placed"] /\ leg' = leg
    <3>1. ASSUME NEW d \in Coupons PROVE LegsFollow(d)'
      BY <2>1, <2>5, <3>1 DEF IndInv, LegsFollow, TypeOK, Live, Closed
    <3>2. RowsAreSettling'
      BY <2>1, <2>5 DEF IndInv, RowsAreSettling, TypeOK, Settling
    <3>3. RequestsHold'
      BY <2>3, <2>5 DEF IndInv, RequestsHold, TypeOK
    <3> QED
      BY <3>1, <3>2, <3>3 DEF IndInv
  <2> QED
    BY <1>9, <2>4, <2>5 DEF PlaceCommit
<1>6. ASSUME NEW c \in Coupons, NEW remove \in SUBSET Fixtures,
             ModifyCoupon(c, remove)
      PROVE  IndInv'
  <2>1. /\ coupon[c] \in Live /\ rows' = rows
        /\ LegsOf(c) \ remove # {}
        /\ coupon' = [coupon EXCEPT ![c] = "modified"]
        /\ leg' = [leg EXCEPT ![c] =
                     [f \in Fixtures |-> IF f \in LegsOf(c) \cap remove
                                         THEN "removed" ELSE leg[c][f]]]
    BY <1>6 DEF ModifyCoupon, advisorVars
  <2>2. LegsFollow(c)'
    <3>1. \A f \in LegsOf(c) : leg[c][f] = "open"
      BY <2>1 DEF IndInv, LegsFollow, LegsOf
    <3>2. PICK g \in Fixtures : g \in LegsOf(c) \ remove
      BY <2>1 DEF LegsOf
    <3>3. leg'[c][g] = "open"
      BY <2>1, <3>1, <3>2 DEF IndInv, TypeOK
    <3>4. \A f \in Fixtures : leg'[c][f] \in {"none", "removed", "open"}
      BY <2>1 DEF IndInv, TypeOK, LegsFollow
    <3>5. coupon'[c] = "modified"
      BY <2>1 DEF IndInv, TypeOK
    <3> QED
      BY <3>3, <3>4, <3>5 DEF LegsFollow, Closed
  <2>3. ASSUME NEW d \in Coupons, d # c PROVE LegsFollow(d)'
    BY <2>1, <2>3 DEF IndInv, LegsFollow, TypeOK
  <2>4. RowsAreSettling'
    BY <2>1 DEF IndInv, RowsAreSettling, TypeOK, Live, Settling
  <2>5. RequestsHold'
    BY <1>6 DEF ModifyCoupon, Unlocked, IndInv, RequestsHold, TypeOK
  <2> QED
    BY <2>2, <2>3, <2>4, <2>5 DEF IndInv
<1>7. ASSUME NEW c \in Coupons, NEW f \in Fixtures, NEW o \in ManualOutcomes,
             ManualSettle(c, f, o)
      PROVE  IndInv'
  <2>1. /\ leg[c][f] = "manual" /\ coupon' = coupon /\ rows' = rows
        /\ leg' = [leg EXCEPT ![c][f] = o] /\ request' = request
    BY <1>7 DEF ManualSettle, advisorVars
  <2>2. coupon[c] \notin Live \cup Closed \cup {"none"}
    BY <2>1 DEF IndInv, LegsFollow
  <2>3. ASSUME NEW d \in Coupons PROVE LegsFollow(d)'
    BY <2>1, <2>2, <2>3 DEF IndInv, LegsFollow, TypeOK
  <2>4. RowsAreSettling'
    BY <2>1 DEF IndInv, RowsAreSettling
  <2>5. RequestsHold'
    BY <2>1 DEF IndInv, RequestsHold
  <2> QED
    BY <2>3, <2>4, <2>5 DEF IndInv
<1>8. ASSUME NEW s \in Strategies,
             \/ PromoteStrategy(s) \/ LaunchProposed(s)
             \/ \E st \in {"sandbox", "paused", "retired"} : SetStrategyStatus(s, st)
      PROVE  IndInv'
  BY <1>8, FrameInd DEF PromoteStrategy, LaunchProposed, SetStrategyStatus, advisorVars
<1> QED
  BY <1>1, <1>2, <1>3, <1>4, <1>5, <1>6, <1>7, <1>8, <1>9 DEF Operator

LEMMA LoopCommitInd ==
    ASSUME IndInv, TypeOK', LoopCommit
    PROVE  IndInv'
<1>1. PICK W \in WithdrawChoices :
        /\ coupon' = [c \in Coupons |->
                        IF Stale(c) \/ Withdrawn(c, W) THEN "expired"
                        ELSE RefreshedCoupon(c)]
        /\ leg' = [c \in Coupons |->
                     IF Stale(c) \/ Withdrawn(c, W)
                     THEN Released(SettledLegs[c]) ELSE SettledLegs[c]]
  BY DEF LoopCommit
<1>2. ASSUME NEW c \in Coupons, coupon[c] \notin Settling
      PROVE  /\ SettledLegs[c] = leg[c]
             /\ RefreshedCoupon(c) = coupon[c]
  <2>1. \A f \in Fixtures : <<c, f>> \notin DOMAIN rows
    BY <1>2 DEF IndInv, RowsAreSettling
  <2>2. \A f \in Fixtures : ~Rewrites(c, f)
    BY <2>1 DEF Rewrites
  <2>3. SettledLegs[c] = [f \in Fixtures |-> leg[c][f]]
    BY <2>2 DEF SettledLegs
  <2> QED
    BY <2>1, <2>3, RefreshedCouponCases DEF IndInv, TypeOK
<1>3. ASSUME NEW c \in Coupons PROVE LegsFollow(c)'
  <2>1. CASE Stale(c) \/ Withdrawn(c, W)
    <3>1. coupon[c] \in Live
      BY <2>1 DEF Stale, Withdrawn
    <3>2. SettledLegs[c] = leg[c]
      BY <1>2, <3>1 DEF Live, Settling
    <3>3. coupon'[c] = "expired" /\ leg'[c] = Released(leg[c])
      BY <1>1, <2>1, <3>2
    <3>4. \A f \in Fixtures : leg'[c][f] \in {"none", "removed"}
      BY <3>1, <3>3 DEF IndInv, LegsFollow, TypeOK, Released
    <3> QED
      BY <3>3, <3>4 DEF LegsFollow, Live
  <2>2. CASE ~(Stale(c) \/ Withdrawn(c, W)) /\ coupon[c] \in Settling
    <3>1. coupon'[c] = RefreshedCoupon(c)
      BY <1>1, <2>2
    <3>2. coupon'[c] \in Settling
      BY <2>2, <3>1, RefreshedCouponCases DEF Settling, FinalResults
    <3> QED
      BY <3>2 DEF LegsFollow, Settling, Live, Closed
  <2>3. CASE ~(Stale(c) \/ Withdrawn(c, W)) /\ coupon[c] \notin Settling
    <3>1. coupon'[c] = coupon[c] /\ leg'[c] = leg[c]
      BY <1>1, <1>2, <2>3
    <3> QED
      BY <3>1 DEF IndInv, LegsFollow
  <2> QED
    BY <2>1, <2>2, <2>3
<1>4. RowsAreSettling'
  BY DEF LoopCommit, RowsAreSettling
<1>5. RequestsHold'
  <2> SUFFICES ASSUME NEW c \in Coupons, request'[c] # "none"
               PROVE  coupon'[c] \in Confirm
    BY DEF RequestsHold
  <2>1. request[c] # "none" /\ coupon[c] \in Confirm
    BY DEF LoopCommit, IndInv, RequestsHold
  <2>2. coupon[c] \notin Live
    BY <2>1 DEF LoopCommit, OffersUnlocked, Unlocked
  <2> QED
    BY <2>1, <2>2 DEF Confirm, Live
<1> QED
  BY <1>3, <1>4, <1>5 DEF IndInv

LEMMA CommitCycleInd ==
    ASSUME IndInv, TypeOK', CommitCycle
    PROVE  IndInv'
<1>1. PICK reply \in [Coupons -> SUBSET DOMAIN slate] :
        /\ Slips(reply)
        /\ coupon' = [c \in Coupons |->
                        IF Inserted(reply, c) THEN "proposed" ELSE coupon[c]]
        /\ leg' = [c \in Coupons |-> [f \in Fixtures |->
                     IF Inserted(reply, c) /\ f \in reply[c]
                     THEN "open" ELSE leg[c][f]]]
  BY DEF CommitCycle
<1>2. rows' = rows
  BY DEF CommitCycle
<1>3. ASSUME NEW c \in Coupons PROVE LegsFollow(c)'
  <2>1. CASE Inserted(reply, c)
    <3>1. coupon[c] = "none" /\ coupon'[c] = "proposed" /\ reply[c] # {}
      BY <1>1, <2>1 DEF Inserted, Slips
    <3>2. \A f \in Fixtures : leg[c][f] = "none"
      BY <3>1 DEF IndInv, LegsFollow
    <3>3. \A f \in Fixtures :
            leg'[c][f] = IF f \in reply[c] THEN "open" ELSE leg[c][f]
      BY <1>1, <2>1
    <3>4. \E f \in Fixtures : f \in reply[c]
      BY <3>1 DEF IndInv, TypeOK
    <3> QED
      BY <3>1, <3>2, <3>3, <3>4 DEF LegsFollow, Live, Closed
  <2>2. CASE ~Inserted(reply, c)
    <3>1. coupon'[c] = coupon[c] /\ \A f \in Fixtures : leg'[c][f] = leg[c][f]
      BY <1>1, <2>2
    <3> QED
      BY <3>1 DEF IndInv, LegsFollow
  <2> QED
    BY <2>1, <2>2
<1>4. RowsAreSettling'
  <2>1. ASSUME NEW c \in Coupons, coupon[c] \in Settling
        PROVE  coupon'[c] = coupon[c]
    BY <1>1, <2>1 DEF Inserted, Slips, Settling
  <2> QED
    BY <1>2, <2>1 DEF IndInv, RowsAreSettling
<1>5. RequestsHold'
  <2>1. ASSUME NEW c \in Coupons, coupon[c] \in Confirm
        PROVE  coupon'[c] = coupon[c]
    BY <1>1, <2>1 DEF Inserted, Slips, Confirm
  <2> QED
    BY <2>1 DEF CommitCycle, IndInv, RequestsHold
<1> QED
  BY <1>3, <1>4, <1>5 DEF IndInv

LEMMA AdvisorInd ==
    ASSUME IndInv, TypeOK', Advisor
    PROVE  IndInv'
<1>1. CASE SettleRead
  <2>1. /\ coupon' = coupon /\ leg' = leg /\ request' = request
        /\ DOMAIN rows' = {q \in Pairs : /\ leg[q[1]][q[2]] \in Settleable
                                         /\ coupon[q[1]] \in Settling}
    BY <1>1 DEF SettleRead, dbVars
  <2>2. RowsAreSettling'
    BY <2>1 DEF RowsAreSettling
  <2> QED
    BY <2>1, <2>2 DEF IndInv, LegsFollow, RequestsHold
<1>2. CASE LoopCommit
  BY <1>2, LoopCommitInd
<1>3. CASE LoopFails \/ AdvisorCrash
  <2>1. /\ coupon' = coupon /\ leg' = leg /\ rows' = <<>> /\ request' = request
    BY <1>3 DEF LoopFails, AdvisorCrash, AdvisorRestarts, dbVars
  <2>2. RowsAreSettling'
    BY <2>1 DEF RowsAreSettling
  <2> QED
    BY <2>1, <2>2 DEF IndInv, LegsFollow, RequestsHold
<1>4. CASE CommitCycle
  BY <1>4, CommitCycleInd
<1>5. CASE EndLoop
  BY <1>5, FrameInd DEF EndLoop, dbVars
<1>6. ASSUME NEW s \in Strategies, ReleaseFunded(s) \/ PauseBroke(s)
      PROVE  IndInv'
  BY <1>6, FrameInd DEF ReleaseFunded, PauseBroke, advisorVars
<1>7. ASSUME NEW s \in Strategies, BeginCycle(s)
      PROVE  IndInv'
  BY <1>7, FrameInd DEF BeginCycle, dbVars
<1> QED
  BY <1>1, <1>2, <1>3, <1>4, <1>5, <1>6, <1>7 DEF Advisor

LEMMA NextInd == IndInv /\ [Next]_vars => IndInv'
<1> SUFFICES ASSUME IndInv, [Next]_vars PROVE IndInv'
  OBVIOUS
<1>1. TypeOK'
  BY NextType DEF IndInv
<1>2. CASE Feed
  BY <1>1, <1>2, FrameInd DEF Feed, FeedWrites, DetailTask, KickOffAges, dbVars,
     advisorVars
<1>3. CASE \E c \in Coupons : TtlElapses(c)
  BY <1>1, <1>3, FrameInd DEF TtlElapses, dbVars, advisorVars
<1>4. CASE UNCHANGED vars
  BY <1>1, <1>4, FrameInd DEF vars, dbVars, advisorVars
<1> QED
  BY <1>1, <1>2, <1>3, <1>4, OperatorInd, AdvisorInd DEF Next

\* IndInv holds in every reachable state.
THEOREM Inductive == Spec => []IndInv
  BY InitInd, NextInd, PTL DEF Spec

\* A closed coupon never keeps a match: _release_legs, which frees only open
\* legs, is enough because a coupon can only be closed while it is on offer,
\* and a coupon on offer has no other legs.
THEOREM ClosedFree == Spec => []ClosedCouponsFreeTheirMatches
<1>1. IndInv => ClosedCouponsFreeTheirMatches
  BY DEF IndInv, LegsFollow, ClosedCouponsFreeTheirMatches, LegsOf
<1> QED
  BY <1>1, Inductive, PTL

\* A coupon on offer is never settled, however stale the rows are that the
\* loop settles from.
THEOREM OffersUnsettled == Spec => []OffersAreUnsettled
<1>1. IndInv => OffersAreUnsettled
  <2> SUFFICES ASSUME IndInv, NEW c \in Coupons, coupon[c] \in Live
               PROVE  /\ LegsOf(c) # {}
                      /\ \A f \in LegsOf(c) : leg[c][f] = "open"
    BY DEF OffersAreUnsettled
  <2> QED
    BY DEF IndInv, LegsFollow, LegsOf
<1> QED
  BY <1>1, Inductive, PTL

\* The legs of a coupon fit where the coupon stands, whoever moved it there, and
\* no status is one its column does not allow.
THEOREM LegsFit == Spec => []LegsFitTheirCoupon
  BY TypeCorrect, ClosedFree, OffersUnsettled, PTL DEF LegsFitTheirCoupon

(***************************************************************************)
(* Collisions on uq_advisor_legs_open_recommendation.  The index itself    *)
(* keeps what is stored free of them (MatchHeldOnce); what the loop is     *)
(* about to store comes from rows it read earlier, so the argument also    *)
(* needs how a leg may differ from the row that was read of it.            *)
(***************************************************************************)
MatchHeldOnce == OneOpenLeg(leg)

\* Releasing legs or settling one by hand takes no match.
LEMMA FewerOpenLegs ==
    ASSUME OneOpenLeg(leg), NEW legs,
           \A c \in Coupons, f \in Fixtures :
              legs[c][f] \in HoldsFixture => leg[c][f] \in HoldsFixture
    PROVE  OneOpenLeg(legs)
  BY DEF OneOpenLeg

LEMMA OneOpenLegOperator ==
    ASSUME TypeOK, MatchHeldOnce, Operator
    PROVE  MatchHeldOnce'
<1> DEFINE Fewer == \A c \in Coupons, f \in Fixtures :
              leg'[c][f] \in HoldsFixture => leg[c][f] \in HoldsFixture
<1>1. SUFFICES Fewer
  BY FewerOpenLegs DEF MatchHeldOnce, OneOpenLeg
<1>2. ASSUME NEW c \in Coupons, leg' = [leg EXCEPT ![c] = Released(@)]
      PROVE  Fewer
  BY <1>2 DEF TypeOK, Released, HoldsFixture
<1>3. ASSUME NEW c \in Coupons, NEW remove \in SUBSET Fixtures,
             ModifyCoupon(c, remove)
      PROVE  Fewer
  BY <1>3 DEF ModifyCoupon, TypeOK, HoldsFixture
<1>4. ASSUME NEW c \in Coupons, NEW f \in Fixtures, NEW o \in ManualOutcomes,
             ManualSettle(c, f, o)
      PROVE  Fewer
  BY <1>4, ManualAssumption DEF ManualSettle, TypeOK, HoldsFixture
<1>5. CASE leg' = leg
  BY <1>5
<1> QED
  BY <1>2, <1>3, <1>4, <1>5 DEF Operator, ExpireOnTouch, Expire, AcceptCoupon,
     RejectCoupon, MarkNotPlaced, PlaceRead, PlaceCommit, PlaceRollsBack,
     PromoteStrategy, LaunchProposed, SetStrategyStatus, dbVars

LEMMA OneOpenLegLoopCommit ==
    ASSUME TypeOK, LoopCommit
    PROVE  MatchHeldOnce'
<1>1. PICK W \in WithdrawChoices :
        leg' = [c \in Coupons |->
                  IF Stale(c) \/ Withdrawn(c, W)
                  THEN Released(SettledLegs[c]) ELSE SettledLegs[c]]
  BY DEF LoopCommit
<1>2. \A c \in Coupons, f \in Fixtures :
        leg'[c][f] \in HoldsFixture => SettledLegs[c][f] \in HoldsFixture
  BY <1>1 DEF Released, HoldsFixture
<1>3. OneOpenLeg(SettledLegs)
  BY DEF LoopCommit
<1> QED
  BY <1>2, <1>3 DEF MatchHeldOnce, OneOpenLeg

LEMMA OneOpenLegCommitCycle ==
    ASSUME TypeOK, MatchHeldOnce, CommitCycle
    PROVE  MatchHeldOnce'
<1>1. PICK reply \in [Coupons -> SUBSET DOMAIN slate] :
        /\ Slips(reply)
        /\ leg' = [c \in Coupons |-> [f \in Fixtures |->
                     IF Inserted(reply, c) /\ f \in reply[c]
                     THEN "open" ELSE leg[c][f]]]
  BY DEF CommitCycle
<1>2. SUFFICES ASSUME NEW f \in Fixtures, NEW c \in Coupons, NEW d \in Coupons,
                      leg'[c][f] \in HoldsFixture, leg'[d][f] \in HoldsFixture
               PROVE  c = d
  BY DEF MatchHeldOnce, OneOpenLeg
<1> DEFINE New(x) == Inserted(reply, x) /\ f \in reply[x]
<1>3. \A x \in Coupons : leg'[x][f] = IF New(x) THEN "open" ELSE leg[x][f]
  BY <1>1
<1>4. CASE New(c) /\ New(d)
  BY <1>1, <1>4 DEF Slips
<1>5. CASE New(c) /\ ~New(d)
  BY <1>2, <1>3, <1>5 DEF Inserted
<1>6. CASE ~New(c) /\ New(d)
  BY <1>2, <1>3, <1>6 DEF Inserted
<1>7. CASE ~New(c) /\ ~New(d)
  BY <1>2, <1>3, <1>7 DEF MatchHeldOnce, OneOpenLeg
<1> QED
  BY <1>4, <1>5, <1>6, <1>7

LEMMA OneOpenLegStep ==
    ASSUME TypeOK, MatchHeldOnce, [Next]_vars
    PROVE  MatchHeldOnce'
<1>1. CASE leg' = leg
  BY <1>1 DEF MatchHeldOnce, OneOpenLeg
<1>2. CASE Advisor
  BY <1>1, <1>2, OneOpenLegLoopCommit, OneOpenLegCommitCycle DEF Advisor, SettleRead,
     LoopFails, AdvisorCrash, AdvisorRestarts, EndLoop, ReleaseFunded, PauseBroke,
     BeginCycle, dbVars
<1> QED
  BY <1>1, <1>2, OneOpenLegOperator DEF Next, Feed, FeedWrites, DetailTask,
     KickOffAges, TtlElapses, vars, dbVars

\* A leg the loop has read changes only by the operator's hand.
ReadOrTyped ==
    \A c \in Coupons, f \in Fixtures : <<c, f>> \in DOMAIN rows =>
        \/ leg[c][f] = rows[<<c, f>>].leg
        \/ rows[<<c, f>>].leg = "manual" /\ leg[c][f] \in {"won", "lost", "void"}

LEMMA ReadOrTypedStep ==
    ASSUME IndInv, ReadOrTyped, [Next]_vars
    PROVE  ReadOrTyped'
<1>1. CASE UNCHANGED <<leg, rows>>
  BY <1>1 DEF ReadOrTyped
<1>2. CASE rows' = <<>>
  BY <1>2 DEF ReadOrTyped
<1>3. CASE SettleRead
  BY <1>3 DEF SettleRead, ReadOrTyped, dbVars, Pairs
<1>4. ASSUME NEW c \in Coupons, coupon[c] \notin Settling, rows' = rows,
             \A d \in Coupons, f \in Fixtures : d # c => leg'[d][f] = leg[d][f]
      PROVE  ReadOrTyped'
  BY <1>4 DEF ReadOrTyped, IndInv, RowsAreSettling
<1>5. CASE Operator
  <2>1. ASSUME NEW c \in Coupons, NEW f \in Fixtures, NEW o \in ManualOutcomes,
               ManualSettle(c, f, o)
        PROVE  ReadOrTyped'
    <3>1. /\ leg[c][f] = "manual" /\ rows' = rows
          /\ leg' = [leg EXCEPT ![c][f] = o]
      BY <2>1 DEF ManualSettle, advisorVars
    <3>2. o \in {"won", "lost", "void"}
      BY ManualAssumption
    <3> QED
      BY <3>1, <3>2 DEF ReadOrTyped, IndInv, TypeOK
  <2>2. ASSUME NEW c \in Coupons, coupon[c] \in Live, rows' = rows,
               NEW legs, leg' = [leg EXCEPT ![c] = legs]
        PROVE  ReadOrTyped'
    <3>1. \A d \in Coupons, f \in Fixtures : d # c => leg'[d][f] = leg[d][f]
      BY <2>2 DEF IndInv, TypeOK
    <3> QED
      BY <1>4, <2>2, <3>1 DEF Live, Settling
  <2>3. ASSUME NEW c \in Coupons,
               ExpireOnTouch(c) \/ RejectCoupon(c) \/ MarkNotPlaced(c)
        PROVE  ReadOrTyped'
    BY <2>2, <2>3 DEF ExpireOnTouch, Expire, RejectCoupon, MarkNotPlaced, Confirm, Live,
       advisorVars
  <2>4. ASSUME NEW c \in Coupons, PlaceCommit(c) PROVE ReadOrTyped'
    <3>1. coupon[c] \in Live /\ rows' = rows
      BY <2>4 DEF PlaceCommit, IndInv, RequestsHold, Confirm, Live, advisorVars
    <3> QED
      BY <1>1, <2>2, <2>4, <3>1 DEF PlaceCommit, Expire
  <2>5. ASSUME NEW c \in Coupons, NEW remove \in SUBSET Fixtures,
               ModifyCoupon(c, remove)
        PROVE  ReadOrTyped'
    BY <2>2, <2>5 DEF ModifyCoupon, advisorVars
  <2> QED
    BY <1>1, <1>5, <2>1, <2>3, <2>4, <2>5 DEF Operator, AcceptCoupon, PlaceRead,
       PlaceRollsBack, PromoteStrategy, LaunchProposed, SetStrategyStatus, dbVars,
       advisorVars
<1>6. CASE CommitCycle
  <2>1. PICK reply \in [Coupons -> SUBSET DOMAIN slate] :
          /\ Slips(reply)
          /\ leg' = [c \in Coupons |-> [f \in Fixtures |->
                       IF Inserted(reply, c) /\ f \in reply[c]
                       THEN "open" ELSE leg[c][f]]]
    BY <1>6 DEF CommitCycle
  <2>2. ASSUME NEW c \in Coupons, NEW f \in Fixtures, <<c, f>> \in DOMAIN rows
        PROVE  leg'[c][f] = leg[c][f]
    <3>1. coupon[c] # "none"
      BY <2>2 DEF IndInv, RowsAreSettling, Settling
    <3> QED
      BY <2>1, <3>1 DEF Slips, Inserted
  <2>3. rows' = rows
    BY <1>6 DEF CommitCycle
  <2> QED
    BY <2>2, <2>3 DEF ReadOrTyped
<1>7. CASE Advisor
  BY <1>1, <1>2, <1>3, <1>6, <1>7 DEF Advisor, LoopCommit, LoopFails, AdvisorCrash,
     AdvisorRestarts, EndLoop, ReleaseFunded, PauseBroke, BeginCycle, dbVars, advisorVars
<1> QED
  BY <1>1, <1>5, <1>7 DEF Next, Feed, FeedWrites, DetailTask, KickOffAges, TtlElapses,
     vars, dbVars, advisorVars

LEMMA CollisionIsACorrection ==
    ASSUME IndInv, MatchHeldOnce, ReadOrTyped
    PROVE  OnlyCorrectionsCollide
<1> SUFFICES ASSUME ~OneOpenLeg(SettledLegs)
             PROVE  \E c \in Coupons, f \in Fixtures :
                       /\ Rewrites(c, f)
                       /\ rows[<<c, f>>].leg \in {"won", "lost", "void"}
                       /\ NewStatus(c, f) = "manual"
  BY DEF OnlyCorrectionsCollide
<1>1. PICK f \in Fixtures, c \in Coupons, d \in Coupons :
        /\ SettledLegs[c][f] \in HoldsFixture /\ SettledLegs[d][f] \in HoldsFixture
        /\ c # d
  BY DEF OneOpenLeg
\* A leg that holds its match after the loop held it before, or was reopened.
<1>2. ASSUME NEW e \in {c, d}, leg[e][f] \notin HoldsFixture
      PROVE  /\ Rewrites(e, f)
             /\ rows[<<e, f>>].leg \in {"won", "lost", "void"}
             /\ NewStatus(e, f) = "manual"
  <2>1. Rewrites(e, f) /\ NewStatus(e, f) \in HoldsFixture
    BY <1>1, <1>2 DEF SettledLegs
  <2>2. NewStatus(e, f) = "manual"
    BY <2>1, RewrittenStatus DEF IndInv, HoldsFixture
  <2>3. <<e, f>> \in DOMAIN rows /\ rows[<<e, f>>].leg # "manual"
    BY <2>1, <2>2 DEF Rewrites
  <2>4. rows[<<e, f>>].leg \in Settleable /\ rows[<<e, f>>].leg = leg[e][f]
    BY <2>3 DEF IndInv, TypeOK, Row, ReadOrTyped
  <2> QED
    BY <1>2, <2>1, <2>2, <2>3, <2>4 DEF Settleable, HoldsFixture
<1>3. leg[c][f] \notin HoldsFixture \/ leg[d][f] \notin HoldsFixture
  BY <1>1 DEF MatchHeldOnce, OneOpenLeg
<1> QED
  BY <1>2, <1>3

\* While the model is asked the loop itself writes nothing, and no request gives a
\* coupon a match it did not hold: the operator only releases, settles or closes.
LEMMA SlateStep ==
    ASSUME IndInv, SlateIsFree, [Next]_vars
    PROVE  SlateIsFree'
<1> USE DEF FinalResults
<1>1. CASE UNCHANGED <<coupon, leg, pc, slate>>
  BY <1>1 DEF SlateIsFree
<1>2. CASE pc' # "asking"
  BY <1>2 DEF SlateIsFree
<1>3. ASSUME NEW s \in Strategies, BeginCycle(s) PROVE SlateIsFree'
  <2>1. PICK S \in SUBSET {f \in Fixtures \ OpenRecommendationFixtures :
                              board[f].phase = "play"} :
          slate' = [f \in S |-> board[f].goals]
    BY <1>3 DEF BeginCycle
  <2>2. coupon' = coupon /\ leg' = leg
    BY <1>3 DEF BeginCycle, dbVars
  <2>3. ASSUME NEW f \in S, NEW c \in Coupons, leg[c][f] \in HoldsFixture
        PROVE  coupon[c] \in FinalResults
    <3>1. coupon[c] \notin Live \cup {"placed"}
      BY <2>3 DEF OpenRecommendationFixtures
    <3>2. coupon[c] \notin Closed \cup {"none"}
      BY <2>3 DEF IndInv, LegsFollow, HoldsFixture
    <3> QED
      BY <3>1, <3>2 DEF IndInv, TypeOK, CouponStatus, Settling
  <2> QED
    BY <2>1, <2>2, <2>3 DEF SlateIsFree
\* A request writes one coupon, its legs or both.
<1>4. ASSUME NEW c \in Coupons, pc' = pc, slate' = slate,
             NEW st \in CouponStatus, NEW legs \in [Fixtures -> LegStatus \cup {"none"}],
             coupon[c] \in FinalResults => st \in FinalResults,
             \A f \in Fixtures : legs[f] \in HoldsFixture => leg[c][f] \in HoldsFixture,
             coupon' = [coupon EXCEPT ![c] = st],
             leg' = [leg EXCEPT ![c] = legs]
      PROVE  SlateIsFree'
  <2>1. ASSUME pc = "asking", NEW f \in DOMAIN slate, NEW d \in Coupons,
               leg'[d][f] \in HoldsFixture
        PROVE  coupon'[d] \in FinalResults
    <3>1. f \in Fixtures
      BY DEF IndInv, TypeOK
    <3>2. leg[d][f] \in HoldsFixture
      BY <1>4, <2>1, <3>1 DEF IndInv, TypeOK
    <3>3. coupon[d] \in FinalResults
      BY <2>1, <3>2 DEF SlateIsFree
    <3> QED
      BY <1>4, <3>3 DEF IndInv, TypeOK
  <2> QED
    BY <1>4, <2>1 DEF SlateIsFree
<1>5. ASSUME NEW c \in Coupons, pc' = pc, slate' = slate, coupon[c] \in Live,
             NEW st \in Closed,
             coupon' = [coupon EXCEPT ![c] = st],
             leg' = [leg EXCEPT ![c] = Released(@)]
      PROVE  SlateIsFree'
  <2>1. /\ Released(leg[c]) \in [Fixtures -> LegStatus \cup {"none"}]
        /\ \A f \in Fixtures :
             Released(leg[c])[f] \in HoldsFixture => leg[c][f] \in HoldsFixture
    BY DEF Released, IndInv, TypeOK, LegStatus, HoldsFixture
  <2>2. leg' = [leg EXCEPT ![c] = Released(leg[c])]
    BY <1>5
  <2>3. st \in CouponStatus /\ coupon[c] \notin FinalResults
    BY <1>5 DEF CouponStatus, Live
  <2> QED
    BY <1>4, <1>5, <2>1, <2>2, <2>3
<1>6. ASSUME NEW c \in Coupons, pc' = pc, slate' = slate, coupon[c] \in Live,
             NEW st \in Live \cup {"placed"},
             coupon' = [coupon EXCEPT ![c] = st], leg' = leg
      PROVE  SlateIsFree'
  <2>1. st \in CouponStatus /\ coupon[c] \notin FinalResults
    BY <1>6 DEF CouponStatus, Live, Settling
  <2>2. leg' = [leg EXCEPT ![c] = leg[c]] /\ leg[c] \in [Fixtures -> LegStatus \cup {"none"}]
    BY <1>6 DEF IndInv, TypeOK
  <2> QED
    BY <1>4, <1>6, <2>1, <2>2
<1>7. ASSUME NEW c \in Coupons,
             ExpireOnTouch(c) \/ RejectCoupon(c) \/ MarkNotPlaced(c)
      PROVE  SlateIsFree'
  BY <1>5, <1>7 DEF ExpireOnTouch, Expire, RejectCoupon, MarkNotPlaced, Confirm, Live,
     Closed, advisorVars
<1>8. ASSUME NEW c \in Coupons, AcceptCoupon(c) PROVE SlateIsFree'
  BY <1>6, <1>8 DEF AcceptCoupon, Live, advisorVars
<1>9. ASSUME NEW c \in Coupons, PlaceCommit(c) PROVE SlateIsFree'
  <2>1. coupon[c] \in Live
    BY <1>9 DEF PlaceCommit, IndInv, RequestsHold, Confirm, Live
  <2> QED
    BY <1>5, <1>6, <1>9, <2>1 DEF PlaceCommit, Expire, Closed, advisorVars
<1>10. ASSUME NEW c \in Coupons, NEW remove \in SUBSET Fixtures, ModifyCoupon(c, remove)
       PROVE  SlateIsFree'
  <2> DEFINE legs == [f \in Fixtures |-> IF f \in LegsOf(c) \cap remove
                                         THEN "removed" ELSE leg[c][f]]
  <2>1. /\ legs \in [Fixtures -> LegStatus \cup {"none"}]
        /\ \A f \in Fixtures : legs[f] \in HoldsFixture => leg[c][f] \in HoldsFixture
    BY DEF IndInv, TypeOK, LegStatus, HoldsFixture
  <2>2. /\ coupon[c] \notin FinalResults /\ "modified" \in CouponStatus
        /\ coupon' = [coupon EXCEPT ![c] = "modified"]
        /\ leg' = [leg EXCEPT ![c] = legs]
        /\ pc' = pc /\ slate' = slate
    BY <1>10 DEF ModifyCoupon, Live, CouponStatus, advisorVars
  <2> HIDE DEF legs
  <2> QED
    BY <1>4, <2>1, <2>2
<1>11. ASSUME NEW c \in Coupons, NEW f \in Fixtures, NEW o \in ManualOutcomes,
              ManualSettle(c, f, o)
       PROVE  SlateIsFree'
  <2> DEFINE legs == [leg[c] EXCEPT ![f] = o]
  <2>1. o \in {"won", "lost", "void"}
    BY ManualAssumption
  <2>2. /\ legs \in [Fixtures -> LegStatus \cup {"none"}]
        /\ \A g \in Fixtures : legs[g] \in HoldsFixture => leg[c][g] \in HoldsFixture
    BY <2>1 DEF IndInv, TypeOK, LegStatus, HoldsFixture
  <2>3. /\ leg' = [leg EXCEPT ![c] = legs] /\ coupon' = [coupon EXCEPT ![c] = coupon[c]]
        /\ coupon[c] \in CouponStatus /\ pc' = pc /\ slate' = slate
    BY <1>11 DEF ManualSettle, IndInv, TypeOK, advisorVars
  <2> HIDE DEF legs
  <2> QED
    BY <1>4, <2>2, <2>3
<1>12. CASE Operator
  BY <1>1, <1>7, <1>8, <1>9, <1>10, <1>11, <1>12 DEF Operator, PlaceRead, PlaceRollsBack,
     PromoteStrategy, LaunchProposed, SetStrategyStatus, dbVars, advisorVars
<1>13. CASE Advisor
  BY <1>1, <1>2, <1>3, <1>13 DEF Advisor, SettleRead, LoopCommit, LoopFails, CommitCycle,
     EndLoop, AdvisorCrash, AdvisorRestarts, ReleaseFunded, PauseBroke, advisorVars
<1> QED
  BY <1>1, <1>12, <1>13 DEF Next, Feed, FeedWrites, DetailTask, KickOffAges, TtlElapses,
     vars, dbVars, advisorVars

\* The index on open legs refuses only what a settled coupon stands in the way of: a
\* slip on a match that such a coupon still holds, or a correction that takes a
\* settled leg back to manual, whatever the operator and the feed did since the
\* loop read what it writes from.
THEOREM LastResort == Spec => []IndexIsALastResort
<1>1. Init => MatchHeldOnce /\ ReadOrTyped /\ SlateIsFree
  BY DEF Init, MatchHeldOnce, OneOpenLeg, HoldsFixture, ReadOrTyped, SlateIsFree
<1>2. IndInv /\ MatchHeldOnce /\ [Next]_vars => MatchHeldOnce'
  BY OneOpenLegStep DEF IndInv
<1>3. IndInv /\ MatchHeldOnce /\ ReadOrTyped /\ SlateIsFree => IndexIsALastResort
  BY CollisionIsACorrection DEF IndexIsALastResort
<1> QED
  BY <1>1, <1>2, <1>3, ReadOrTypedStep, SlateStep, Inductive, PTL DEF Spec

(***************************************************************************)
(* Action properties.                                                      *)
(***************************************************************************)

Forward(c) ==
    /\ coupon[c] \in Closed => coupon'[c] = coupon[c]
    /\ coupon[c] \in Settling => coupon'[c] \in Settling
    /\ coupon[c] \in Live => coupon'[c] \notin {"none", "won", "lost", "void"}

LEMMA ForwardStep ==
    ASSUME IndInv, Next, NEW c \in Coupons
    PROVE  Forward(c)
<1> USE DEF Forward, Closed, Settling, Live
<1>1. CASE coupon' = coupon
  BY <1>1
<1>2. ASSUME NEW d \in Coupons, coupon[d] \in Live,
             NEW st \in Live \cup Closed \cup {"placed"},
             coupon' = [coupon EXCEPT ![d] = st]
      PROVE  Forward(c)
  BY <1>2 DEF IndInv, TypeOK
<1>7. ASSUME NEW d \in Coupons, PlaceCommit(d) PROVE Forward(c)
  <2>1. coupon[d] \in Live
    BY <1>7 DEF PlaceCommit, IndInv, RequestsHold, Confirm
  <2> QED
    BY <1>2, <1>7, <2>1 DEF PlaceCommit, Expire
<1>3. CASE Operator
  BY <1>1, <1>2, <1>3, <1>7 DEF Operator, ExpireOnTouch, Expire, AcceptCoupon,
     RejectCoupon, MarkNotPlaced, PlaceRead, PlaceRollsBack, ModifyCoupon, ManualSettle,
     PromoteStrategy, LaunchProposed, SetStrategyStatus, Confirm, dbVars
<1>4. CASE LoopCommit
  <2>1. PICK W \in WithdrawChoices :
          coupon'[c] = IF Stale(c) \/ Withdrawn(c, W) THEN "expired"
                       ELSE RefreshedCoupon(c)
    BY <1>4 DEF LoopCommit
  <2>2. Stale(c) \/ Withdrawn(c, W) => coupon[c] \in Live
    BY DEF Stale, Withdrawn
  <2>3. coupon[c] \notin Settling => RefreshedCoupon(c) = coupon[c]
    BY RefreshedCouponCases DEF IndInv, RowsAreSettling
  <2>4. coupon[c] \in Settling => RefreshedCoupon(c) \in Settling
    BY RefreshedCouponCases DEF FinalResults
  <2> QED
    BY <2>1, <2>2, <2>3, <2>4
<1>5. CASE CommitCycle
  BY <1>5 DEF CommitCycle, Inserted, Slips
<1>6. CASE Advisor
  BY <1>1, <1>4, <1>5, <1>6 DEF Advisor, SettleRead, LoopFails, AdvisorCrash,
     AdvisorRestarts, EndLoop, ReleaseFunded, PauseBroke, BeginCycle, dbVars
<1> QED
  BY <1>1, <1>3, <1>6 DEF Next, Feed, FeedWrites, DetailTask, KickOffAges, TtlElapses,
     dbVars

\* A coupon that has left the offer never returns to it, and a placed coupon
\* stays placed or settled, whatever the loop had read before.
THEOREM MovesForward == Spec => CouponsMoveForward
<1>1. IndInv /\ [Next]_vars =>
        [\A c \in Coupons : Forward(c)]_vars
  BY ForwardStep
<1>2. [\A c \in Coupons : Forward(c)]_vars =>
      [\A c \in Coupons :
         /\ coupon[c] \in Closed => coupon'[c] = coupon[c]
         /\ coupon[c] \in Settling => coupon'[c] \in Settling
         /\ coupon[c] \in Live => coupon'[c] \notin {"none", "won", "lost", "void"}
      ]_vars
  BY DEF Forward
<1> QED
  BY <1>1, <1>2, Inductive, PTL DEF Spec, CouponsMoveForward
===============================================================================
