------------------------------- MODULE LegRules -------------------------------
(***************************************************************************)
(* An Over N+0.5 leg through the periods of a match: when it may be        *)
(* proposed and at which N (advisor/domain.py, advisor/candidates.py), the *)
(* preview the pages show while the match is on, and its settlement.  The  *)
(* stored row is what the last poll brought (ingest/persist_fixtures.py):  *)
(* every column is overwritten, and the vendor may leave the score of a    *)
(* period blank.                                                           *)
(*                                                                         *)
(* A score is a number of goals: `goals' counts both periods, `ft' the     *)
(* regulation period, `et' extra time alone.                               *)
(***************************************************************************)
EXTENDS Integers, Settlement

CONSTANT MaxGoals      \* bound on the goals of a period

VARIABLES
    truth,      \* the match: status, goals of each period, minute past the limit
    row,        \* the stored row: status, goals, ft, et, minute past the limit
    quotes,     \* the newest live rows: market, line, the score they are stamped with
    rejected,   \* states the model has rejected
    leg,        \* the leg proposed, or NoLeg
    hit         \* the preview has called it hit, in a status that names a period

vars == <<truth, row, quotes, rejected, leg, hit>>

Blank == -1
Regulation == {"1H", "HT", "2H"}
ExtraTime == {"ET", "BT"}
Finished == {"FT", "AET", "PEN"}
Irregular == {"ABD"}
Pause == {"INT"}
Statuses == Regulation \cup ExtraTime \cup {"P"} \cup Finished \cup Irregular \cup Pause
Periods == {"regulation", "extra_time"}
Numbers == Blank .. 2 * MaxGoals
NoLeg == [period |-> "none", n |-> 0]

TypeOK ==
    /\ truth \in [status : Statuses, reg : 0 .. MaxGoals, extra : 0 .. MaxGoals,
                  resume : Statuses, late : BOOLEAN]
    /\ row \in [status : Statuses, goals : Numbers, ft : Numbers, et : Numbers,
                late : BOOLEAN]
    /\ quotes \subseteq [market : Periods, line : Numbers, stamp : Numbers]
    /\ rejected \subseteq Periods \X Numbers \X Numbers
    /\ leg \in {NoLeg} \cup [period : Periods, n : Numbers]
    /\ hit \in BOOLEAN

Init ==
    /\ truth = [status |-> "1H", reg |-> 0, extra |-> 0, resume |-> "1H", late |-> FALSE]
    /\ row = [status |-> "1H", goals |-> 0, ft |-> Blank, et |-> Blank, late |-> FALSE]
    /\ quotes = {} /\ rejected = {} /\ leg = NoLeg /\ hit = FALSE

-----------------------------------------------------------------------------
(* Periods.                                                                *)

\* period_for
PeriodFor(status) ==
    IF status \in Regulation THEN "regulation"
    ELSE IF status \in ExtraTime THEN "extra_time" ELSE "none"

\* _period_finished
PeriodFinished(period, status) ==
    \/ status \in Finished \cup {"P"}
    \/ period = "regulation" /\ status \in ExtraTime

OrZero(n) == IF n = Blank THEN 0 ELSE n

\* _period_goals: the N of a leg proposed now.
PeriodGoals(period, r) == IF period = "regulation" THEN r.goals ELSE OrZero(r.et)

\* Mutant: the whole score stands for the regulation period.
PeriodGoalsNowWhole(period, r) ==
    IF period = "regulation" THEN r.goals ELSE r.et

\* period_goals_now
PeriodGoalsNow(period, r) ==
    CASE period = "regulation" /\ PeriodFinished(period, r.status) -> r.ft
      [] period = "regulation" /\ r.status \in Regulation -> r.goals
      [] period = "regulation" /\ r.status \in Pause ->
           IF r.ft # Blank THEN r.ft ELSE r.goals
      [] period = "extra_time" /\ r.et # Blank -> r.et
      [] period = "extra_time" /\ r.et = Blank /\ r.status \in ExtraTime \cup Pause ->
           IF r.goals = Blank \/ r.ft = Blank THEN Blank ELSE r.goals - r.ft
      [] OTHER -> Blank

-----------------------------------------------------------------------------
(* Preview and settlement.                                                 *)

\* live_leg_progress
Progress(period, n, r) ==
    LET goals == PeriodGoalsNow(period, r)
    IN  CASE r.status \in Irregular -> "void"
          [] r.status \notin Irregular /\ goals # Blank /\ goals > n -> "hit"
          [] r.status \notin Irregular /\ (goals = Blank \/ goals <= n) ->
               IF PeriodFinished(period, r.status) THEN "lost"
               ELSE IF goals = Blank THEN "unknown" ELSE "open"

\* Mutant: a blank score counts as no goals.
FinalGoalsOrZero(period, r) == OrZero(IF period = "regulation" THEN r.ft ELSE r.et)

\* _final_goals
FinalGoals(period, r) == IF period = "regulation" THEN r.ft ELSE r.et

\* The board of Settlement that settle_leg sees.
Board(period, r) ==
    [phase |-> CASE r.status \in Irregular -> "irregular"
                 [] r.status \in Finished -> "finished"
                 [] OTHER -> "play",
     goals |-> IF FinalGoals(period, r) = Blank THEN NoTotal ELSE FinalGoals(period, r)]
Ledger(period, n, r) == SettleLeg(n, Board(period, r), TRUE, FALSE)

\* Mutant: a leg that is not decided comes before one that is lost.
CouponProgressOpenFirst(outcomes) ==
    IF "unknown" \in outcomes THEN "unknown"
    ELSE IF "open" \in outcomes THEN "open"
    ELSE IF "lost" \in outcomes THEN "lost"
    ELSE IF outcomes \subseteq {"void"} THEN "void" ELSE "hit"

\* live_coupon_progress
CouponProgress(outcomes) ==
    IF "lost" \in outcomes THEN "lost"
    ELSE IF "unknown" \in outcomes THEN "unknown"
    ELSE IF "open" \in outcomes THEN "open"
    ELSE IF outcomes \subseteq {"void"} THEN "void" ELSE "hit"

-----------------------------------------------------------------------------
(* Candidates.                                                             *)

\* quote_for_period and over_line_matches: Over N+0.5 of the period's own market,
\* stamped with the score of the row.
HasQuote(period, r) ==
    [market |-> period, line |-> PeriodGoals(period, r), stamp |-> r.goals] \in quotes

\* The state key of a candidate.
StateKey(period, r) == <<period, r.goals, PeriodGoals(period, r) + 1>>

\* assess and playable_candidate
Playable(r) ==
    LET period == PeriodFor(r.status)
    IN  /\ period # "none" /\ r.goals # Blank /\ ~r.late
        /\ HasQuote(period, r)
        /\ StateKey(period, r) \notin rejected

\* A candidate is accepted: this is the leg.
Propose ==
    /\ leg = NoLeg /\ Playable(row)
    /\ leg' = [period |-> PeriodFor(row.status), n |-> PeriodGoals(PeriodFor(row.status), row)]
    /\ hit' = FALSE
    /\ UNCHANGED <<truth, row, quotes, rejected>>

\* A candidate is rejected: the state is not asked again (rejected_states).
Reject ==
    /\ leg = NoLeg /\ Playable(row)
    /\ rejected' = rejected \cup {StateKey(PeriodFor(row.status), row)}
    /\ UNCHANGED <<truth, row, quotes, leg, hit>>

-----------------------------------------------------------------------------
(* The match and the polls.                                                *)

After(status) ==
    CASE status = "1H" -> {"HT"} [] status = "HT" -> {"2H"}
      [] status = "2H" -> {"FT", "ET"} [] status = "ET" -> {"BT", "AET", "P"}
      [] status = "BT" -> {"ET"} [] status = "P" -> {"PEN"} [] OTHER -> {}

Kick ==
    /\ truth.status \in {"1H", "2H", "ET"}
    /\ truth' \in IF truth.status = "ET"
                  THEN {[truth EXCEPT !.extra = @ + 1]} ELSE {[truth EXCEPT !.reg = @ + 1]}
    /\ truth'.reg <= MaxGoals /\ truth'.extra <= MaxGoals
    /\ UNCHANGED <<row, quotes, rejected, leg, hit>>

Whistle ==
    /\ \/ \E s \in After(truth.status) :
            truth' = [truth EXCEPT !.status = s, !.late = FALSE]
       \/ truth.status \in {"2H", "ET"} /\ ~truth.late /\ truth' = [truth EXCEPT !.late = TRUE]
       \/ /\ truth.status \in {"1H", "2H", "ET"}
          /\ truth' = [truth EXCEPT !.status = "INT", !.resume = truth.status]
       \/ /\ truth.status = "INT"
          /\ \E s \in {truth.resume} \cup Irregular : truth' = [truth EXCEPT !.status = s]
    /\ UNCHANGED <<row, quotes, rejected, leg, hit>>

Played == IF truth.status = "INT" THEN truth.resume ELSE truth.status
InExtra == Played \in ExtraTime \cup {"P", "AET", "PEN"}
RegulationOver == InExtra \/ Played = "FT"

\* A poll stores the row as a whole, with what the vendor has filled in.
Poll ==
    /\ \E ft \in {Blank} \cup {truth.reg}, et \in {Blank} \cup {truth.extra} :
        /\ ~RegulationOver => ft = Blank
        /\ ~InExtra => et = Blank
        /\ row' = [status |-> truth.status, goals |-> truth.reg + truth.extra,
                   ft |-> ft, et |-> et, late |-> truth.late]
    /\ row' # row
    /\ hit' = (hit \/ (/\ leg # NoLeg /\ row'.status \notin Pause
                       /\ Progress(leg.period, leg.n, row') = "hit"))
    /\ UNCHANGED <<truth, quotes, rejected, leg>>

\* A live odds snapshot replaces the last one: the line above the goals of each
\* period, stamped with the score of the feed.
Snapshot ==
    /\ quotes' = {[market |-> "regulation", line |-> truth.reg, stamp |-> truth.reg + truth.extra],
                  [market |-> "extra_time", line |-> truth.extra, stamp |-> truth.reg + truth.extra]}
    /\ quotes' # quotes
    /\ UNCHANGED <<truth, row, rejected, leg, hit>>

Next == Kick \/ Whistle \/ Poll \/ Snapshot \/ Propose \/ Reject

Spec == Init /\ [][Next]_vars

-----------------------------------------------------------------------------
\* A leg the page has called hit is not lost when the match is settled, through
\* interruptions, extra time and penalties (live_leg_progress, settle_leg).
HitIsNeverLost ==
    leg # NoLeg /\ hit => Ledger(leg.period, leg.n, row) # "lost"

\* Once the match is over the page and the ledger say the same; they differ only
\* where the score of the period is blank: lost on the page, for the operator to
\* decide in the ledger.
PageAgreesWithLedger ==
    leg # NoLeg /\ row.status \in Finished \cup Irregular =>
        LET page == Progress(leg.period, leg.n, row)
            book == Ledger(leg.period, leg.n, row)
        IN  \/ <<page, book>> \in {<<"hit", "won">>, <<"lost", "lost">>, <<"void", "void">>}
            \/ /\ <<page, book>> = <<"lost", "manual">>
               /\ FinalGoals(leg.period, row) = Blank

\* "Same precedence as settle_coupon; hit/open/unknown stand in for won/pending":
\* this leg with any others gives the page's coupon the standing of the ledger's.
CouponPreviewMatches ==
    LET AsBook(p) == CASE p = "hit" -> "won" [] p = "open" -> "pending"
                       [] p = "unknown" -> "manual" [] OTHER -> p
        Pages == {"hit", "open", "unknown", "lost", "void"}
    IN  leg # NoLeg =>
          \A others \in SUBSET Pages :
            LET all == others \cup {Progress(leg.period, leg.n, row)}
            IN  AsBook(CouponProgress(all)) = SettleCoupon({AsBook(p) : p \in all})

\* Its three readers agree about a leg: the page while it is played, the page
\* when it is over, and the ledger, by itself and in a coupon.
ReadersAgree == HitIsNeverLost /\ PageAgreesWithLedger /\ CouponPreviewMatches
===============================================================================
