----------------------------- MODULE PromptNote -----------------------------
(***************************************************************************)
(* The note on a match's page that says why the model is not asked about   *)
(* it (services/advisor/llm_note.py), beside the tick that really selects  *)
(* the prompt's matches (tick.py, candidates.py, domain.py).  The two are  *)
(* written twice: the note collects every gate that fails, the tick stops  *)
(* at the first.                                                           *)
(*                                                                         *)
(* Minutes and odds are numbered by the limits the code compares them      *)
(* with.  A match's goals count both periods, `et' extra time alone.       *)
(***************************************************************************)
EXTENDS Integers, FiniteSets

CONSTANTS Fixtures,           \* the matches of the board
          Others,             \* the matches that are plain and still: ready, or not listed
          RegulationLimit,    \* max_minute_regulation of the strategy
          ExtraLimit,         \* its max_minute_extra
          PageExtraLimit,     \* the 110 that the page uses in its place
          Minutes,            \* bound: minutes a match may show
          Goals               \* bound: goals of a match, and of its extra time

ConstantsOK == Minutes \cup Goals \cup {RegulationLimit, ExtraLimit, PageExtraLimit} \subseteq Int

VARIABLES match,    \* the board: what the tick and the page read of each match
          notes     \* the gaps on the page, by match

vars == <<match, notes>>

Blank == -1
LlmStatuses == {"2H", "ET", "BT"}
ShortAfter == 1             \* LLM_SHORT_ODD_AFTER_MINUTE
MaxPeriodGoals == 2         \* LLM_MAX_PERIOD_GOALS
NoPrice == 1                \* an odd of 1 or less
MinAnalysisOdd == 3         \* MIN_ANALYSIS_ODD
ShortOdd == 4               \* LLM_SHORT_ODD
SingleOdd == 5              \* max(min_combined_odd, LLM_SINGLE_MIN_ODD)

\* The newest Over row of the market of the match's period.
Rows == [odd : NoPrice .. SingleOdd, state : {"open", "suspended", "stale"},
         line : Goals, stamp : Goals]
NoRow == [odd |-> NoPrice, state |-> "open", line |-> Blank, stamp |-> Blank]

\* A match that passes every gate of its own when it is listed.
Plain(listed) ==
    [status |-> "2H", minute |-> ShortAfter, goals |-> 0, et |-> Blank,
     row |-> [odd |-> SingleOdd, state |-> "open", line |-> 0, stamp |-> 0],
     favorite |-> TRUE, listed |-> listed, opened |-> FALSE, rejected |-> FALSE]

\* `favorite': the favourite's price is known and short; `listed': the match
\* is a candidate of the next-goal rule; `opened': in an open coupon of the
\* strategy; `rejected': the model refused the state the match is in.
\* Extra time has a score only once it is played.
Match ==
    LET Matches(statuses, extra) ==
          [status : statuses, minute : Minutes \cup {Blank}, goals : Goals \cup {Blank},
           et : extra, row : Rows \cup {NoRow}, favorite : BOOLEAN, listed : BOOLEAN,
           opened : BOOLEAN, rejected : BOOLEAN]
    IN  Matches({"HT", "2H"}, {Blank}) \cup Matches({"ET", "P"}, Goals \cup {Blank})

Init ==
    /\ \E m \in Match, listed \in BOOLEAN :
         match = [f \in Fixtures |-> IF f \in Others THEN Plain(listed) ELSE m]
    /\ notes = <<>>

-----------------------------------------------------------------------------
(* What both read of a match.                                              *)

PeriodFor(m) ==
    CASE m.status \in {"1H", "HT", "2H"} -> "regulation"
      [] m.status \in {"ET", "BT"}       -> "extra_time"
      [] OTHER                           -> "none"

\* match_minute: half-time without a clock counts as its first minute.
MatchMinute(m) ==
    IF m.status = "HT" /\ m.minute = Blank THEN ShortAfter ELSE m.minute

\* _period_goals: a blank score of extra time counts as no goal.
PeriodGoals(m) ==
    IF PeriodFor(m) = "extra_time" THEN IF m.et = Blank THEN 0 ELSE m.et ELSE m.goals

\* quote_for_period: the Over line of the score, stamped with the board's score.
HasQuote(m) ==
    /\ PeriodFor(m) # "none" /\ m.goals # Blank
    /\ m.row # NoRow
    /\ m.row.stamp = m.goals /\ m.row.line = PeriodGoals(m)

\* prompt_gate_misses
PromptGateMisses(m) ==
       (IF PeriodGoals(m) > MaxPeriodGoals THEN {"period_goals"} ELSE {})
    \cup (IF m.favorite THEN {} ELSE {"favorite_odd"})
    \cup (IF /\ PeriodFor(m) = "regulation"
             /\ MatchMinute(m) # Blank /\ MatchMinute(m) > ShortAfter
             /\ m.row.odd < ShortOdd
          THEN {"short_late"} ELSE {})

\* lone_candidate_allowed for a set of matches.
LoneCandidateAllowed(board, S) ==
    Cardinality(S) = 1 =>
        \A f \in S : PeriodFor(board[f]) = "regulation" /\ board[f].row.odd >= SingleOdd

-----------------------------------------------------------------------------
(* The tick.                                                               *)

\* _quote_block
QuoteBlock(m) == ~HasQuote(m) \/ m.row.odd <= NoPrice \/ m.row.state # "open"

\* assess: the match is in a period, with a score, in time and with a price.
Assess(m) ==
    /\ PeriodFor(m) # "none" /\ m.goals # Blank
    /\ MatchMinute(m) # Blank
    /\ MatchMinute(m) <= IF PeriodFor(m) = "extra_time" THEN ExtraLimit ELSE RegulationLimit
    /\ ~QuoteBlock(m)

\* playable_candidate with for_llm
PlayableCandidate(m) ==
    /\ m.status \in LlmStatuses
    /\ Assess(m) /\ m.row.odd >= MinAnalysisOdd
    /\ PromptGateMisses(m) = {}
    /\ ~m.rejected /\ ~m.opened

\* run_tick: the matches a prompt would hold, none when a lone one is too weak.
PromptSet ==
    LET S == {f \in Fixtures : match[f].listed /\ PlayableCandidate(match[f])}
    IN  IF LoneCandidateAllowed(match, S) THEN S ELSE {}

-----------------------------------------------------------------------------
(* The page.                                                               *)

If(test, gap) == IF test THEN {gap} ELSE {}

\* _state_rejected
StateRejected(m) == m.goals # Blank /\ PeriodFor(m) # "none" /\ m.rejected

\* Mutant: a suspended price is no gap.
QuoteGapsTradable(m) ==
    IF ~HasQuote(m) \/ m.row.odd <= NoPrice THEN {"no_line"}
    ELSE If(m.row.state = "stale", "stale")
         \cup If(m.row.odd < MinAnalysisOdd, "odd_low") \cup PromptGateMisses(m)

\* The price gates of llm_prompt_gaps.
QuoteGaps(m) ==
    IF ~HasQuote(m) \/ m.row.odd <= NoPrice THEN {"no_line"}
    ELSE If(m.row.state = "suspended", "suspended")
         \cup If(m.row.state = "stale", "stale")
         \cup If(m.row.odd < MinAnalysisOdd, "odd_low") \cup PromptGateMisses(m)

\* llm_prompt_gaps
LlmPromptGaps(m) ==
    LET limit == IF PeriodFor(m) = "extra_time" THEN PageExtraLimit ELSE RegulationLimit
    IN  If(~m.listed, "not_candidate")
        \cup If(m.status = "P", "penalties")
        \cup If(m.status \notin LlmStatuses \cup {"P"}, "not_second_half")
        \cup If(/\ m.status \in LlmStatuses
                /\ MatchMinute(m) = Blank \/ MatchMinute(m) > limit, "minute")
        \cup QuoteGaps(m)
        \cup If(m.opened, "open_coupon")
        \cup If(StateRejected(m), "rejected")

\* _apply_lone_weak: the sole match without a gap, when it is too weak alone.
ApplyLoneWeak(gaps) ==
    LET ready == {f \in Fixtures : gaps[f] = {}}
    IN  [f \in Fixtures |-> gaps[f] \cup
           If(f \in ready /\ ~LoneCandidateAllowed(match, ready), "lone_weak")]

\* load_llm_notes over the whole board
Show ==
    /\ notes' = ApplyLoneWeak([f \in Fixtures |-> LlmPromptGaps(match[f])])
    /\ UNCHANGED match

\* A goal reaches the board; the row keeps its stamp, the state is a new one.
Goal(f) ==
    /\ match[f].goals # Blank
    /\ \E g \in Goals : g > match[f].goals /\
         match' = [match EXCEPT ![f].goals = g, ![f].rejected = FALSE]
    /\ UNCHANGED notes

Next == Show \/ \E f \in Fixtures \ Others : Goal(f)

Spec == Init /\ [][Next]_vars

-----------------------------------------------------------------------------
(* Properties.                                                             *)

\* A page that is shown names a gap for exactly the matches the tick would
\* leave out of the prompt: the gates are the same on both sides, the lone
\* weak match included (llm_prompt_gaps, _apply_lone_weak, playable_candidate).
NoteAgreesWithPrompt ==
    [][notes' # notes =>
         \A f \in Fixtures : notes'[f] = {} <=> f \in PromptSet]_vars
=============================================================================
