---------------------------- MODULE MCRecoConverges ----------------------------
(***************************************************************************)
(* Recommendations for the liveness run, with a history of the legs the    *)
(* operator settled by hand.  The run has two parts that share nothing:    *)
(* one coupon whose leg is settled, by the loop and by hand, and two       *)
(* offers on one match that the feed may put back in play, without goals.  *)
(* The strategies stay promoted: they only end an offer sooner.            *)
(***************************************************************************)
EXTENDS Recommendations

VARIABLES
    part,     \* which of the two parts the behaviour belongs to
    typed     \* coupons with a leg settled by hand that no refresh has counted

Solo == CHOOSE c \in Coupons : TRUE

\* A hand-settled leg counts once a refresh of its coupon has read it.
Counted(c) ==
    /\ \E f \in Fixtures : Rewrites(c, f)
    /\ \A f \in Fixtures :
         <<c, f>> \in DOMAIN rows => Rewrites(c, f) \/ rows[<<c, f>>].leg = leg[c][f]

\* The legs a step settles by hand.
Types(c) == \E f \in Fixtures : leg[c][f] = "manual" /\ leg'[c][f] # "manual"

Typed ==
    typed' = IF pc = "settling" /\ pc' = "ready"
             THEN {c \in typed : ~Counted(c)}
             ELSE typed \cup {c \in Coupons : Types(c)}

\* One coupon, and a feed that never puts an ended match back in play.
Settles ==
    /\ part = "settles"
    /\ \A c \in Coupons \ {Solo} : coupon'[c] = "none"
    /\ \A f \in Fixtures : board[f].phase \in {"play", "off"}
                           \/ board'[f].phase = board[f].phase

\* No goals, and nothing is settled by hand.
Ends ==
    /\ part = "ends"
    /\ \A f \in Fixtures : board'[f].goals \in {0, NoTotal}
    /\ typed' = {}

MCInit ==
    /\ Init
    /\ \A s \in Strategies : strategy[s] = "promoted"
    /\ part \in {"settles", "ends"}
    /\ typed = {}
MCNext == Next /\ Typed /\ (Settles \/ Ends) /\ UNCHANGED <<strategy, part>>
MCSpec == MCInit /\ [][MCNext]_<<vars, part, typed>> /\ Fairness

\* Once the final scores of all its matches stand, a placed coupon ends up
\* with the outcome of its legs (_refresh_coupon), provided a refresh counts
\* the legs that were settled by hand: a leg typed with the very result the loop
\* computes is not rewritten, and its coupon is left as it was
\* (LostLegLosesTheCoupon).
CouponsConverge ==
    \A c \in Coupons, score \in [Fixtures -> Goals] :
        <>[](/\ coupon[c] \in Settling
             /\ c \notin typed
             /\ \A f \in LegsOf(c) : FinalScoreStands(f, score[f]))
        => <>[](coupon[c] = SettleCoupon({AsSettlement(leg[c][f]) : f \in LegsOf(c)}))

\* Legs and coupons both end up where the final scores put them.
SettlementConverges == CorrectionsConverge /\ CouponsConverge
===============================================================================
