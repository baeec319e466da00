------------------------------ MODULE QuotaPlan ------------------------------
(***************************************************************************)
(* The planner of the worker's daily quota (services/quota.py): what it    *)
(* holds back for live matches until UTC midnight, how fast live work may  *)
(* run, and what is left for history.                                      *)
(*                                                                         *)
(* Instants are whole units from midnight to midnight, calls are numbers   *)
(* of requests.  A fraction of the code is kept as a fraction: the rate of *)
(* context calls in parts of 1/Scale, the pause between two score polls as *)
(* a numerator and a denominator.                                          *)
(***************************************************************************)
EXTENDS Integers, Sequences, FiniteSets, FiniteSetsExt

CONSTANTS
    DayEnd,          \* units in a day
    Target,          \* live_poll_target_seconds
    IdlePoll,        \* IDLE_SCORE_POLL_SECONDS
    Fast,            \* LIVE_DETAIL_REFRESH_SECONDS
    Span,            \* MATCH_LIVE_HOURS
    Buffer,          \* safety_buffer_requests of the daily limit
    Oneshots,        \* LIVE_CONTEXT_ONESHOT_CALLS
    FewOneshots,     \* the reduced number of them
    FinalCalls,      \* LIVE_CONTEXT_FINAL_CALLS
    ContextCap,      \* LIVE_CONTEXT_MAX_CALLS_PER_TICK
    CreditTicks,     \* LIVE_CONTEXT_CREDIT_TICKS
    Scale            \* a multiple of 4 * i for every interval i in use

PlanConstantsOK ==
    /\ {DayEnd, Target, IdlePoll, Fast, Span, Scale, CreditTicks} \subseteq Nat \ {0}
    /\ {Buffer, Oneshots, FewOneshots, FinalCalls, ContextCap} \subseteq Nat
    /\ FewOneshots <= Oneshots

CeilDiv(a, b) == (a + b - 1) \div b

Largest(a, b) == IF a < b THEN b ELSE a
Smallest(a, b) == IF a < b THEN a ELSE b

-----------------------------------------------------------------------------
(* The load until midnight.                                                *)

\* The total of f over the instants S of the day.
TotalOver(f, S) ==
    LET upTo[u \in 0 .. DayEnd] ==
            IF u = 0 THEN 0 ELSE upTo[u - 1] + (IF u - 1 \in S THEN f[u - 1] ELSE 0)
    IN  upTo[DayEnd]

\* _windows: matches in play, as expected, in each unit left of the day.  A
\* match is in play for Span from its kick-off; one that is live now, for Span
\* from now.
Load(now, live, forecast) ==
    [u \in now .. DayEnd - 1 |->
        (IF u < now + Span THEN live ELSE 0)
        + TotalOver(forecast, {k \in DOMAIN forecast : k <= u /\ u < k + Span})]

\* _match_seconds
MatchSeconds(load) == TotalOver(load, DOMAIN load)

\* _busy_seconds: the units of _segments in which something is in play.
BusySeconds(load) == Cardinality({u \in DOMAIN load : load[u] > 0})

\* _integrated_polls, rounded up
ScorePolls(load) ==
    LET busy == BusySeconds(load)
    IN  CeilDiv(busy * IdlePoll + (Cardinality(DOMAIN load) - busy) * Target, Target * IdlePoll)

OddsPolls(load) == CeilDiv(BusySeconds(load), Target)

-----------------------------------------------------------------------------
(* Quality: what fits into the calls left.                                 *)

\* _calls_only; amounts of match time are in quarters from here on.
CallsFor(quarters, interval) ==
    IF quarters <= 0 \/ interval <= 0 THEN 0 ELSE CeilDiv(quarters, 4 * interval)

\* _detail_calls
DetailCalls(seconds, finishing, interval) ==
    CallsFor(4 * seconds, interval) + finishing

\* _interval_only: the shortest interval that spends no more than the budget,
\* or the rest of the day.
IntervalFor(quarters, budget, left) ==
    LET ceiling == Largest(Fast, left)
        first   == Largest(Fast, CeilDiv(quarters, 4 * budget))
    IN  IF quarters <= 0 \/ budget <= 0 THEN ceiling
        ELSE Min({i \in first .. ceiling : CallsFor(quarters, i) <= budget}
                 \cup {ceiling})

\* What one quality reserves of the day: its intervals, the calls for detail and
\* odds, the one-shot context calls of a match, and whether live work is cut.
Quality(interval, relaxed, detail, odds, oneshots, reserve, overloaded) ==
    [interval |-> interval, relaxed |-> relaxed, detail |-> detail, odds |-> odds,
     oneshots |-> oneshots, reserve |-> reserve, overloaded |-> overloaded]

\* Detail at stretched intervals, with neither odds nor one-shot calls.
Stretched(interval, relaxed, detail) ==
    Quality(interval, relaxed, detail, 0, 0, 0, TRUE)

\* Mutant: what the intervals cost is not held down to the budget.
TieredUnheld(seconds, finishing, budget, left) ==
    LET quick == IntervalFor(seconds, Largest(1, budget \div 2), left)
        slow  == Largest(quick, IntervalFor(3 * seconds, Largest(1, budget \div 2), left))
    IN  Stretched(quick, slow, CallsFor(seconds, quick) + CallsFor(3 * seconds, slow)
                               + Smallest(finishing, budget))

\* _tiered_intervals: half-time detail, a quarter of a match, stays fast as
\* long as it can; the rest of the match is stretched.
Tiered(seconds, finishing, budget, left) ==
    LET ceiling == Largest(Fast, left)
        finish  == Smallest(finishing, budget)
        body    == budget - finish
        relaxed == 3 * seconds
    IN  IF budget <= 0 THEN Stretched(ceiling, ceiling, finish)
        ELSE IF seconds <= 0 \/ body <= 0 THEN Stretched(Fast, Fast, finish)
        ELSE IF CallsFor(seconds, Fast) <= body
        THEN LET rest == body - CallsFor(seconds, Fast)
                 slow == IntervalFor(relaxed, rest, left)
             IN  Stretched(Fast, Largest(Fast, slow),
                           CallsFor(seconds, Fast) + Smallest(rest, CallsFor(relaxed, slow))
                           + finish)
        ELSE LET most == Largest(1, body \div 2)
                 rest == body - most
                 quick == IntervalFor(seconds, most, left)
                 slow == Largest(quick, IntervalFor(relaxed, Largest(1, rest), left))
             IN  Stretched(quick, slow, Smallest(most, CallsFor(seconds, quick))
                                        + Smallest(rest, CallsFor(relaxed, slow)) + finish)

\* The levels of quality _fit_quality tries, best first: fewer one-shot calls,
\* none, and at last no odds.
Levels(detail, odds, busy) ==
    LET Level(polls, oneshots) ==
            Quality(Fast, Fast, detail, polls, oneshots,
                    CeilDiv(oneshots * busy, Target), polls < odds)
    IN  << Level(odds, Oneshots), Level(odds, FewOneshots), Level(odds, 0), Level(0, 0) >>

Cost(q) == q.detail + q.odds + q.reserve

\* _fit_quality, with `calls' left over by the scores.
FitQuality(calls, load, finishing) ==
    LET levels == Levels(DetailCalls(MatchSeconds(load), finishing, Fast),
                         OddsPolls(load), BusySeconds(load))
        fitting == {i \in DOMAIN levels : Cost(levels[i]) <= calls}
    IN  IF fitting # {} THEN levels[Min(fitting)]
        ELSE Tiered(MatchSeconds(load), finishing, calls, Cardinality(DOMAIN load))

\* The rate of _assemble_plan: context calls for each tick, in parts of Scale.
ContextRate(q, live, finishing, tick) ==
    LET matches == IF live = 0 THEN 0
                   ELSE (live * tick * Scale) \div (4 * q.interval)
                        + (3 * live * tick * Scale) \div (4 * q.relaxed)
        ended   == IF q.detail = 0 THEN 0
                   ELSE Smallest(FinalCalls * Scale,
                                 (finishing * tick * Scale) \div q.interval)
        extra   == IF live = 0 THEN 0 ELSE q.oneshots * Scale
    IN  Smallest(ContextCap * Scale, matches + ended + extra)

\* _assemble_plan for a quality: `base' is the pause between two score polls.
Assembled(score, q, base, live, finishing) ==
    [score |-> score, detail |-> q.detail, odds |-> q.odds, reserve |-> q.reserve,
     interval |-> q.interval, relaxed |-> q.relaxed,
     rate |-> ContextRate(q, live, finishing, base), sleep |-> <<base, 1>>,
     pollOdds |-> live > 0 /\ q.odds > 0, overloaded |-> q.overloaded]

\* A plan with no detail, no odds and no context: the day's calls are spent, or
\* the scores take what is left of them.
Bare(score, interval, sleep) ==
    [score |-> score, detail |-> 0, odds |-> 0, reserve |-> 0, interval |-> interval,
     relaxed |-> interval, rate |-> 0, sleep |-> sleep, pollOdds |-> FALSE,
     overloaded |-> TRUE]

\* plan_live_budget
Plan(now, live, finishing, forecast, remaining) ==
    LET load   == Load(now, live, forecast)
        usable == Largest(0, remaining - Buffer)
        ideal  == ScorePolls(load)
        left   == DayEnd - now
        base   == IF live > 0 THEN Target ELSE IdlePoll
    IN  IF usable = 0 THEN Bare(0, Fast, <<left, 1>>)
        ELSE IF ideal > usable
        THEN Bare(usable, Largest(Fast, left), <<base * ideal, usable>>)
        ELSE Assembled(ideal, FitQuality(usable - ideal, load, finishing),
                       base, live, finishing)

\* full_reserve
FullReserve(plan) == plan.score + plan.detail + plan.odds

\* Mutant: nothing is held back for the scores.
QuotaAllowsAboveBuffer(priority, remaining, plan) ==
    /\ remaining > Buffer
    /\ priority = 3 => plan.rate > 0
    /\ priority = 4 => plan.pollOdds /\ remaining > Buffer + plan.detail
    /\ priority > 4 => remaining > Buffer + plan.detail + plan.odds

\* quota_allows: scores run above the buffer, history above the full reserve.
QuotaAllows(priority, remaining, plan) ==
    /\ remaining > Buffer
    /\ priority > 2 => remaining > Buffer + plan.score
    /\ priority = 3 => plan.rate > 0
    /\ priority > 3 => ~plan.overloaded
    /\ priority = 4 => plan.pollOdds /\ remaining > Buffer + plan.score + plan.detail
    /\ priority > 4 => remaining > Buffer + FullReserve(plan)

\* history_call_allowance: the surplus spread evenly until midnight.
HistoryAllowance(surplus, left, sleep, cap) ==
    IF surplus <= 0 \/ left <= 0 \/ sleep[1] <= 0 THEN 0
    ELSE LET paced == IF left * sleep[2] <= sleep[1] THEN surplus
                      ELSE Smallest(surplus, CeilDiv(surplus * sleep[1], left * sleep[2]))
         IN  IF cap > 0 THEN Smallest(paced, cap) ELSE paced

-----------------------------------------------------------------------------
(* Context credit, in parts of Scale.                                      *)

\* draw_context_credit: whole calls, and what is left of the balance.
Drawn(balance, rate) ==
    LET filled == Smallest(CreditTicks * rate, balance + rate)
    IN  IF rate <= 0 THEN [calls |-> 0, balance |-> balance]
        ELSE [calls |-> filled \div Scale, balance |-> filled % Scale]

\* refund_context_credit
Refunded(balance, unused, rate) ==
    IF unused <= 0 \/ rate <= 0 THEN balance
    ELSE Smallest(CreditTicks * rate, balance + unused * Scale)

\* context_allowance: never past the room.
ContextAllowance(balance, rate, room) ==
    LET drawn   == Drawn(balance, rate)
        allowed == Smallest(drawn.calls, Largest(0, room))
    IN  [calls |-> allowed,
         balance |-> Refunded(drawn.balance, drawn.calls - allowed, rate)]
===============================================================================
