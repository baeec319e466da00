---------------------------- MODULE SandboxBook ----------------------------
(***************************************************************************)
(* One sandbox portfolio: virtual coupons, the bankroll they are paid      *)
(* from, and the record of what became of every decision                   *)
(* (services/advisor/sandbox.py, services/advisor/settle.py).  The balance *)
(* is never stored: it is the sum of the coupons, and so moves backwards   *)
(* when a settled coupon is corrected.                                     *)
(*                                                                         *)
(* Money is counted in units of the first stake; every leg has the price   *)
(* 2 after the payout share, so a coupon pays 2^k for k winning legs.      *)
(***************************************************************************)
EXTENDS Totals, FiniteSets, Settlement

CONSTANTS Fixtures,     \* the matches, by id
          MaxGoals,     \* bound: goals of a match
          MaxCoupons,   \* bound: coupons of the book
          MaxMoves,     \* bound: boards the worker stores
          Bankroll,     \* SANDBOX_BANKROLL in first stakes
          StakeStep     \* what a settled win adds to the stake

VARIABLES kind,        \* advisor_strategies.kind: "baseline" or "llm"
          status,      \* advisor_strategies.status: "sandbox" or "paused"
          match,       \* the board of each match: phase, goals
          refreshed,   \* matches whose detail task is done
          late,        \* matches more than CONTROL_REFRESH_HOURS from kick-off
          coupons,     \* advisor_coupons with their legs; a leg of the model's
                       \* carries the goal_scored of its decision, or "none"
          corrected,   \* a settled coupon has changed since
          moves        \* boards stored so far

vars == <<kind, status, match, refreshed, late, coupons, corrected, moves>>

Goals == 0..MaxGoals

TypeOK ==
    /\ kind \in {"baseline", "llm"} /\ status \in {"sandbox", "paused"}
    /\ match \in [Fixtures -> [phase : Phases, goals : Goals \union {NoTotal}]]
    /\ refreshed \subseteq Fixtures /\ late \subseteq Fixtures
    /\ \A i \in 1..Len(coupons) :
          /\ coupons[i].stake \in Nat
          /\ coupons[i].status \in {"open", "won", "lost", "void"}
          /\ \A f \in DOMAIN coupons[i].legs :
                coupons[i].legs[f] \in [n : Goals, status : LegStatus,
                                        goal : {"none", "yes", "no"}]
    /\ corrected \in BOOLEAN /\ moves \in 0..MaxMoves

-----------------------------------------------------------------------------
(* The money.                                                              *)

\* The odds of a coupon with k winning legs, 2^k.
CombinedOdd(k) ==
    LET doubled[i \in 0 .. k] == IF i = 0 THEN 1 ELSE 2 * doubled[i - 1]
    IN  doubled[k]

\* settled_pnl of a won coupon, at the odds of its legs that were not voided.
WonPnl(c) ==
    c.stake * (CombinedOdd(Cardinality({f \in DOMAIN c.legs : c.legs[f].status = "won"})) - 1)

Pnl(c) ==
    CASE c.status \in {"open", "lost"} -> - c.stake
      [] c.status = "won"              -> WonPnl(c)
      [] c.status = "void"             -> 0

\* portfolio_balance
Balance(cs) == Bankroll + Sum([i \in DOMAIN cs |-> Pnl(cs[i])])

\* stake_after_wins of _won_count
StakeAfterWins(cs) == 1 + StakeStep * Cardinality({i \in DOMAIN cs : cs[i].status = "won"})

-----------------------------------------------------------------------------
(* Placing.                                                                *)

\* The legs that the partial unique index holds.
OpenFixtures(cs) ==
    UNION {{f \in DOMAIN cs[i].legs : cs[i].legs[f].status \in HoldsFixture} :
              i \in 1..Len(cs)}

\* _insert_slip: in a savepoint, all legs or, on a conflict, nothing.
InsertSlip(cs, slip, stake) ==
    IF slip \intersect OpenFixtures(cs) # {} THEN cs
    ELSE Append(cs, [stake |-> stake, status |-> "open",
                     legs |-> [f \in slip |-> [n |-> match[f].goals, status |-> "open",
                                               goal |-> "none"]]])

\* Mutant: the balance is looked at once, before the first slip.
PlaceSlipsOnce(slips) ==
    LET stake == StakeAfterWins(coupons)
        placed[i \in 0 .. Len(slips)] ==
            IF i = 0 \/ Balance(coupons) < stake THEN coupons
            ELSE InsertSlip(placed[i - 1], slips[i], stake)
    IN  placed[Len(slips)]

\* The loop of place_sandbox_coupons: one stake for all slips, and none placed
\* that the balance does not cover.
PlaceSlips(slips) ==
    LET stake == StakeAfterWins(coupons)
        placed[i \in 0 .. Len(slips)] ==
            IF i = 0 THEN coupons
            ELSE IF Balance(placed[i - 1]) < stake THEN placed[i - 1]
            ELSE InsertSlip(placed[i - 1], slips[i], stake)
    IN  placed[Len(slips)]

\* place_sandbox_coupons, with the strategy row locked.
PlaceSandboxCoupons(slips) ==
    /\ status = "sandbox" /\ slips # <<>>
    /\ coupons' = PlaceSlips(slips)
    /\ status' = IF Balance(coupons') < StakeAfterWins(coupons) THEN "paused" ELSE status

\* A match of the board that no open leg of the strategy is on.
Playable == {f \in Fixtures : match[f].phase = "play"} \ OpenFixtures(coupons)

\* baseline_slips: one single for every candidate, in the board's order.
BaselineSlips ==
    [i \in 1..Cardinality(Playable) |->
        {f \in Playable : Cardinality({g \in Playable : g < f}) = i - 1}]

\* place_baseline
PlaceBaseline ==
    /\ kind = "baseline" /\ Len(coupons) + Cardinality(Playable) <= MaxCoupons
    /\ PlaceSandboxCoupons(BaselineSlips)
    /\ UNCHANGED <<kind, match, refreshed, late, corrected, moves>>

\* _commit_cycle with a valid reply: the decisions and, in the same transaction,
\* the coupons whose every leg was stored (reply_slips).
PlaceReply(slips) ==
    /\ kind = "llm" /\ Len(coupons) + Len(slips) <= MaxCoupons
    /\ \A i \in 1..Len(slips) : slips[i] # {} /\ slips[i] \subseteq Playable
    /\ \A i, j \in 1..Len(slips) : i # j => slips[i] \intersect slips[j] = {}
    /\ PlaceSandboxCoupons(slips)
    /\ UNCHANGED <<kind, match, refreshed, late, corrected, moves>>

\* release_funded_strategies, at the head of a tick.
ReleaseFunded ==
    /\ status = "paused" /\ Balance(coupons) >= StakeAfterWins(coupons)
    /\ status' = "sandbox"
    /\ UNCHANGED <<kind, match, refreshed, late, coupons, corrected, moves>>

-----------------------------------------------------------------------------
(* Settling.                                                               *)

\* What settle_leg says of a leg now.
Verdict(n, f) == SettleLeg(n, match[f], f \in refreshed, f \in late)

\* settle_finished on one leg: the first settlement at any time, a correction
\* inside the window only.
SettledLeg(leg, f) ==
    LET new == Verdict(leg.n, f)
    IN  IF new = "pending" \/ (leg.status # "open" /\ f \in late) THEN leg
        ELSE [leg EXCEPT !.status = new]

\* Mutant: the score is taken before the match's detail was fetched again.
RecordCounterfactualEarly(leg, f) ==
    IF match[f].phase = "finished" /\ match[f].goals # NoTotal
       /\ (leg.goal = "none" \/ f \notin late)
    THEN [leg EXCEPT !.goal = IF match[f].goals > leg.n THEN "yes" ELSE "no"]
    ELSE leg

\* _record_counterfactuals on the decision of one leg: the first record at any
\* time, a correction inside the window only.
RecordCounterfactual(leg, f) ==
    IF /\ match[f].phase = "finished" /\ match[f].goals # NoTotal
       /\ f \in refreshed
       /\ leg.goal = "none" \/ f \notin late
    THEN [leg EXCEPT !.goal = IF match[f].goals > leg.n THEN "yes" ELSE "no"]
    ELSE leg

\* settle_finished and _refresh_coupon on one coupon: the legs, the coupon when
\* they decide it, and the records of the model's decisions.
SettledCoupon(c) ==
    LET legs == [f \in DOMAIN c.legs |-> SettledLeg(c.legs[f], f)]
        result == SettleCoupon({AsSettlement(legs[f].status) : f \in DOMAIN legs})
    IN  [c EXCEPT !.legs = IF kind = "baseline" THEN legs
                           ELSE [f \in DOMAIN legs |-> RecordCounterfactual(legs[f], f)],
                  !.status = IF legs # c.legs /\ result \in FinalResults THEN result ELSE @]

\* settle_finished: one transaction.
SettleFinished ==
    /\ coupons' = [i \in 1..Len(coupons) |-> SettledCoupon(coupons[i])]
    /\ corrected' = (corrected \/ \E i \in 1..Len(coupons) :
                        /\ coupons[i].status # "open"
                        /\ Pnl(coupons'[i]) # Pnl(coupons[i]))
    /\ UNCHANGED <<kind, status, match, refreshed, late, moves>>

-----------------------------------------------------------------------------
(* The matches.                                                            *)

\* The worker stores a new board.  The vendor corrects a final score, and may
\* take a match back into play or call it off, until it is a day old.
BoardMoves(f) ==
    /\ f \notin late /\ moves < MaxMoves
    /\ moves' = moves + 1
    /\ \E phase \in Phases, goals \in Goals \union {NoTotal} :
          /\ goals = NoTotal => phase = "finished"
          /\ match[f].phase = "finished" => phase # "off"
          /\ match' = [match EXCEPT ![f] = [phase |-> phase, goals |-> goals]]
          /\ match' # match
    /\ UNCHANGED <<kind, status, refreshed, late, coupons, corrected>>

\* The detail task of a finished match completes.
DetailRefreshed(f) ==
    /\ match[f].phase = "finished" /\ f \notin refreshed
    /\ refreshed' = refreshed \union {f}
    /\ UNCHANGED <<kind, status, match, late, coupons, corrected, moves>>

\* A day has passed since kick-off.
DayPasses(f) ==
    /\ f \notin late
    /\ late' = late \union {f}
    /\ UNCHANGED <<kind, status, match, refreshed, coupons, corrected, moves>>

Init ==
    /\ kind \in {"baseline", "llm"} /\ status = "sandbox"
    /\ match = [f \in Fixtures |-> [phase |-> "play", goals |-> 0]]
    /\ refreshed = {} /\ late = {} /\ coupons = <<>>
    /\ corrected = FALSE /\ moves = 0

Replies == LET slips == SUBSET Fixtures \ {{}}
           IN  {<<a>> : a \in slips} \union {<<a, b>> : a, b \in slips}

Next ==
    \/ PlaceBaseline \/ ReleaseFunded \/ SettleFinished
    \/ \E slips \in Replies : PlaceReply(slips)
    \/ \E f \in Fixtures : BoardMoves(f) \/ DetailRefreshed(f) \/ DayPasses(f)

Spec == Init /\ [][Next]_vars

-----------------------------------------------------------------------------
(***************************************************************************)
(* Until a settled coupon is corrected the book never owes money: every    *)
(* coupon of a batch is covered by what the ones before it left over       *)
(* (place_sandbox_coupons, portfolio_balance).                             *)
(***************************************************************************)
BookIsFunded == ~corrected => Balance(coupons) >= 0

(***************************************************************************)
(* What the book learned of a bet and what it was paid for it agree: a leg *)
(* that won has its later goal on record and one that lost has not, also   *)
(* after corrections and after the window has closed (settle_finished,     *)
(* _record_counterfactuals).                                               *)
(***************************************************************************)
RecordAgreesWithLedger ==
    kind = "llm" => \A i \in 1..Len(coupons) : \A f \in DOMAIN coupons[i].legs :
        /\ coupons[i].legs[f].status = "won"  => coupons[i].legs[f].goal = "yes"
        /\ coupons[i].legs[f].status = "lost" => coupons[i].legs[f].goal = "no"

\* The book is what its coupons say, in money and in the record of the decisions.
BookIsSound == BookIsFunded /\ RecordAgreesWithLedger
=============================================================================
