------------------------------ MODULE BoardRules ------------------------------
(***************************************************************************)
(* Which live matches the next-goal board shows (services/live_board): the *)
(* bookmaker line that names the favourite, the earlier leg of a tie, and  *)
(* the reasons that put a match on the board while it is played.  The      *)
(* board is also the list of matches the advisor considers.                *)
(*                                                                         *)
(* A price is a number, Missing where the bookmaker has none; prices below *)
(* MaxFavoriteOdd pass the gate.  Names of markets and labels are left out:*)
(* a line is what is left once they are matched.                           *)
(***************************************************************************)
EXTENDS Integers, FiniteSets

CONSTANTS
    Books,             \* bookmakers, numbered
    Prices,            \* the prices in use
    MaxFavoriteOdd,    \* LLM_MAX_FAVORITE_ODD
    MaxPeriodGoals,    \* LLM_MAX_PERIOD_GOALS
    MaxGoals,          \* bound on the goals of a side
    MaxReds            \* bound on its red cards

\* Bookmakers and prices are numbers; a missing price is none of them.
ConstantsOK ==
    /\ Books \subseteq Nat /\ Prices \subseteq Nat \ {0}
    /\ {MaxFavoriteOdd, MaxPeriodGoals, MaxGoals, MaxReds} \subseteq Nat

VARIABLES
    stage,      \* "offers", "kickoff" or "live"
    offers,     \* 1X2 lines by bookmaker
    pairs,      \* Home/Away lines by bookmaker
    odds,       \* the line the board uses
    tie,        \* what is known of the tie and of the prediction
    match       \* the stored row, the events and statistics of its children, and the
                \* goals of extra time, which the row may leave blank

vars == <<stage, offers, pairs, odds, tie, match>>

Missing == 0
Sides == {"home", "away"}
Other(side) == IF side = "home" THEN "away" ELSE "home"
Lines == [home : Prices \cup {Missing}, draw : Prices \cup {Missing},
          away : Prices \cup {Missing}]
NoLine == [home |-> Missing, draw |-> Missing, away |-> Missing, source |-> "none"]
Statuses == {"1H", "ET", "P"}
Pens == {"P", "PEN"}
ExtraLive == {"ET", "BT"}
Blank == -1
Scores == [Sides -> 0 .. MaxGoals]

-----------------------------------------------------------------------------
(* The line.                                                               *)

Has(line) == {s \in {"home", "draw", "away"} : line[s] # Missing}

\* The key _pick_prematch_book sorts by.
BookRank(b, lines, draw) ==
    <<IF Sides \cup draw \subseteq Has(lines[b]) THEN 1 ELSE 0,
      Cardinality(Has(lines[b])), -b>>

Above(x, y) == \/ x[1] > y[1]
               \/ x[1] = y[1] /\ (x[2] > y[2] \/ (x[2] = y[2] /\ x[3] >= y[3]))

\* _pick_prematch_book: the books with two prices or more, the best of them.
Pick(lines, draw) ==
    LET ranked == {b \in Books : Cardinality(Has(lines[b])) >= 2}
        best == CHOOSE b \in ranked : \A c \in ranked :
                  Above(BookRank(b, lines, draw), BookRank(c, lines, draw))
    IN  IF ranked = {} THEN NoLine
        ELSE [home |-> lines[best].home, draw |-> lines[best].draw,
              away |-> lines[best].away, source |-> "prematch"]

\* select_prematch_odds: Match Winner, and Home/Away only if there is none.
SelectPrematch(winner, homeAway) ==
    LET picked == Pick(winner, {"draw"})
    IN  IF picked # NoLine THEN picked ELSE Pick(homeAway, {})

\* select_live_1x2
SelectLive(line) ==
    IF Cardinality(Has(line)) < 2 THEN NoLine
    ELSE [home |-> line.home, draw |-> line.draw, away |-> line.away, source |-> "live"]

\* favorite_side
Favorite(line) ==
    LET Short(s) == /\ line.home # Missing /\ line.away # Missing
                    /\ line[s] < line[Other(s)]
                    /\ line.draw = Missing \/ line[s] < line.draw
    IN  IF \E s \in Sides : Short(s) THEN CHOOSE s \in Sides : Short(s) ELSE "none"

\* favorite_prematch_odd
FavoriteOdd(line) ==
    IF line.source = "prematch" /\ Favorite(line) # "none" THEN line[Favorite(line)]
    ELSE Missing

\* match_favorite_side: the prematch line, else the prediction, else the live line.
MatchFavorite(line, predicted) ==
    IF line.source = "prematch" /\ Favorite(line) # "none" THEN Favorite(line)
    ELSE IF predicted # "none" THEN predicted
    ELSE IF line.source = "live" THEN Favorite(line) ELSE "none"

-----------------------------------------------------------------------------
(* Reasons.                                                                *)

\* The red cards of a side: those of the events, or of the statistics when there
\* are none (_fill_events, _fill_stats).
Reds(m, s) == IF m.events[s] = 0 THEN m.stats[s] ELSE m.events[s]

\* favorite_outnumbered_after_red
Outnumbered(m, fav) == fav # "none" /\ Reds(m, fav) > 0 /\ Reds(m, fav) > Reds(m, Other(fav))

\* Mutant: the favourite is losing when the visitors lead.
FavoriteLosingAtHome(m, fav) ==
    m.status \notin Pens /\ fav # "none" /\ m.goals.away - m.goals.home = 1

\* is_favorite_losing
FavoriteLosing(m, fav) ==
    m.status \notin Pens /\ fav # "none" /\ m.goals[Other(fav)] - m.goals[fav] = 1

\* The goals of a side of this match in the earlier leg (_goals_for_team).
LegGoals(leg, s) == leg.goals[IF leg.swapped THEN Other(s) ELSE s]

\* is_tie_deficit
TieDeficit(m, fav, leg) ==
    /\ m.status \notin Pens /\ leg.known /\ fav # "none"
    /\ m.goals[Other(fav)] + LegGoals(leg, Other(fav))
         - (m.goals[fav] + LegGoals(leg, fav)) = 1

\* Mutant: the score of extra time stands for every period.
BoardPeriodGoalsExtra(m) == IF m.extra = Blank THEN 0 ELSE m.extra

\* _board_period_goals
BoardPeriodGoals(m) ==
    IF m.status \in ExtraLive THEN IF m.extra = Blank THEN 0 ELSE m.extra
    ELSE m.goals.home + m.goals.away

\* passes_next_goal_score_gates
PassesGates(m, line) ==
    /\ BoardPeriodGoals(m) <= MaxPeriodGoals
    /\ FavoriteOdd(line) # Missing /\ FavoriteOdd(line) < MaxFavoriteOdd

\* load_first_legs: the earlier meeting counts if this leg is marked as the second,
\* or if it had the same round and the round is not a final.
FirstLeg(t) == [t.leg EXCEPT !.known = @ /\ (t.marked \/ (t.sameRound /\ ~t.final))]

\* next_goal_reasons
Reasons(m, line, t) ==
    LET fav == MatchFavorite(line, t.predicted)
        leg == FirstLeg(t)
    IN  IF Outnumbered(m, fav) \/ ~PassesGates(m, line) THEN {}
        ELSE {r \in {"favorite_losing", "tie_deficit"} :
                \/ r = "favorite_losing" /\ ~t.marked /\ ~leg.known /\ FavoriteLosing(m, fav)
                \/ r = "tie_deficit" /\ TieDeficit(m, fav, leg)}

\* select_next_goal_matches
OnBoard == stage = "live" /\ Reasons(match, odds, tie) # {}

\* prompt_gate_misses, for the candidate this match makes: the goals of its period
\* as the advisor counts them, and the favourite's price.
GateMisses(m, line) ==
    LET n == IF m.status \in ExtraLive THEN IF m.extra = Blank THEN 0 ELSE m.extra
             ELSE m.goals.home + m.goals.away
    IN  {g \in {"PERIOD_GOALS", "FAVORITE_ODD"} :
           \/ g = "PERIOD_GOALS" /\ n > MaxPeriodGoals
           \/ g = "FAVORITE_ODD" /\ (FavoriteOdd(line) = Missing
                                     \/ FavoriteOdd(line) >= MaxFavoriteOdd)}

-----------------------------------------------------------------------------
Nil == [s \in Sides |-> 0]
NoTie == [marked |-> FALSE, final |-> FALSE, sameRound |-> FALSE, predicted |-> "none",
          leg |-> [known |-> FALSE, swapped |-> FALSE, goals |-> Nil]]
NoMatch == [status |-> "1H", goals |-> Nil, extra |-> Blank, late |-> 0,
            events |-> Nil, stats |-> Nil]

TypeOK ==
    /\ stage \in {"offers", "kickoff", "live"}
    /\ offers \in [Books -> Lines] /\ pairs \in [Books -> Lines]
    /\ match.status \in Statuses /\ match.goals \in Scores
    /\ match.late \in 0 .. 2 * MaxGoals /\ match.extra \in {Blank, match.late}
    /\ match.events \in [Sides -> 0 .. MaxReds] /\ match.stats \in [Sides -> 0 .. MaxReds]

Init ==
    /\ stage = "offers" /\ odds = NoLine /\ tie = NoTie /\ match = NoMatch
    /\ offers \in [Books -> Lines]
    /\ pairs \in [Books -> {l \in Lines : Has(l) \in {{}, Sides} /\ l.away # 1}]

\* _fill_prematch, _fill_live_opening_1x2: the stored odds, or the live ones.
FillPrematch ==
    /\ stage = "offers" /\ stage' = "kickoff"
    /\ odds' \in LET picked == SelectPrematch(offers, pairs)
                 IN  IF picked # NoLine THEN {picked}
                     ELSE {SelectLive(l) : l \in {l \in Lines : Has(l) \in {{}, Sides}}}
    /\ offers' = [b \in Books |-> CHOOSE l \in Lines : TRUE] /\ pairs' = offers'
    /\ UNCHANGED <<tie, match>>

\* The match is on: its round, the earlier leg and the prediction are known.
Kickoff ==
    /\ stage = "kickoff" /\ stage' = "live"
    /\ \E marked, final, same, known, swapped \in BOOLEAN, g \in [Sides -> 0 .. 1],
          predicted \in {"none", "away"} :
        /\ known \/ (g = Nil /\ ~swapped /\ ~same)
        /\ final => same /\ ~marked
        /\ tie' = [marked |-> marked, final |-> final, sameRound |-> same,
                   predicted |-> predicted,
                   leg |-> [known |-> known, swapped |-> swapped, goals |-> g]]
    /\ UNCHANGED <<offers, pairs, odds, match>>

\* A poll brings a goal; the score of extra time may be left blank.
Goal(s) ==
    /\ stage = "live" /\ match.status \in {"1H", "ET"} /\ match.goals[s] < MaxGoals
    /\ LET late == match.late + (IF match.status = "ET" THEN 1 ELSE 0)
       IN  \E extra \in {Blank} \cup (IF match.status = "ET" THEN {late} ELSE {}) :
             match' = [match EXCEPT !.goals[s] = @ + 1, !.late = late, !.extra = extra]
    /\ UNCHANGED <<stage, offers, pairs, odds, tie>>

\* A detail brings a red card, in the events or only in the statistics.
Red(s) ==
    /\ stage = "live"
    /\ match.events[s] + match.stats[s] < MaxReds
    /\ \/ match' = [match EXCEPT !.events[s] = @ + 1]
       \/ match' = [match EXCEPT !.stats[s] = @ + 1]
    /\ UNCHANGED <<stage, offers, pairs, odds, tie>>

Whistle ==
    /\ stage = "live"
    /\ \E to \in CASE match.status = "1H" -> {"ET"} [] match.status = "ET" -> {"P"}
                   [] OTHER -> {} :
         match' = [match EXCEPT !.status = to]
    /\ UNCHANGED <<stage, offers, pairs, odds, tie>>

Next == FillPrematch \/ Kickoff \/ Whistle \/ \E s \in Sides : Goal(s) \/ Red(s)

Spec == Init /\ [][Next]_vars

-----------------------------------------------------------------------------
(* Properties.                                                             *)

Flip(f) == [s \in Sides |-> f[Other(s)]]
FlipLine(l) == [l EXCEPT !.home = l.away, !.away = l.home]
FlipMatch(m) == [m EXCEPT !.goals = Flip(m.goals), !.events = Flip(m.events),
                          !.stats = Flip(m.stats)]
FlipTie(t) == [t EXCEPT !.predicted = IF @ = "none" THEN @ ELSE Other(@),
                        !.leg.goals = Flip(t.leg.goals)]

\* The board treats the sides alike: with the teams the other way round, at every
\* moment of the match, it gives the same reasons (next_goal_reasons).
SidesAreAlike ==
    stage = "live" =>
        Reasons(FlipMatch(match), FlipLine(odds), FlipTie(tie)) = Reasons(match, odds, tie)

\* What the board shows, the advisor's gates on goals and on the favourite let
\* through: the two count the goals of the period apart (_board_period_goals,
\* prompt_gate_misses).
BoardPassesTheGates == OnBoard => GateMisses(match, odds) = {}

\* A match is selected by what happens in it and not by where its teams play, and
\* the gates of the prompt do not contradict the selection.
SelectionIsSound == SidesAreAlike /\ BoardPassesTheGates
===============================================================================
