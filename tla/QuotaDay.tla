------------------------------- MODULE QuotaDay -------------------------------
(***************************************************************************)
(* One day of the worker's scheduler under the plan of QuotaPlan           *)
(* (services/scheduler.py): the slots of a score tick, the history window  *)
(* that opens between two ticks, and the score tick that interrupts it.    *)
(*                                                                         *)
(* The counter of the vendor is read exactly here; QuotaReset is about     *)
(* readings that are late or wrong.  Handlers take no time: time passes    *)
(* between ticks and between the calls of a history window.                *)
(***************************************************************************)
EXTENDS QuotaPlan

CONSTANTS
    Kickoffs,      \* instants at which matches may start
    MaxMatches,    \* bound on the matches of one instant
    MaxCalls,      \* bound on the calls left at the start
    MinuteCap,     \* history_per_minute of lane_split
    Batch,         \* calls a history handler may make once it is admitted
    MaxUnplanned   \* bound on the calls no plan reserves

ConstantsOK ==
    /\ Kickoffs \subseteq 0 .. DayEnd - 1
    /\ {MaxMatches, MaxCalls, MinuteCap, MaxUnplanned} \subseteq Nat
    /\ Batch \in Nat \ {0}

VARIABLES
    schedule,    \* matches by kick-off, as the database has them
    now,         \* the instant
    clock,       \* when the next score tick is due
    left,        \* calls the vendor still grants today
    polled,      \* instant of the last score poll, -1 before the first
    finishing,   \* matches the last poll saw end
    balance,     \* ContextCredit
    unplanned,   \* calls made so far that no plan reserves
    overdrawn,   \* calls of the scores' reserve that admitted handlers went on to spend
    window,      \* calls left in the history window, -1 when it is closed
    pc,          \* the slot the tick has reached, or what runs between ticks
    fitted       \* did the live work of the day fit when it began

vars == <<schedule, now, clock, left, polled, finishing, balance, unplanned,
          overdrawn, window, pc, fitted>>
given == <<schedule, fitted>>
taken == <<unplanned, overdrawn>>

\* The board of the last poll, and the kick-offs forecast_day_load still expects.
InPlay(at) == TotalOver(schedule, {k \in Kickoffs : k <= at /\ at < k + Span})
LiveNow  == IF polled < 0 THEN 0 ELSE InPlay(polled)
Expected == [k \in {q \in Kickoffs : q > polled /\ q + Span > now} |-> schedule[k]]

CurrentPlan == Plan(now, LiveNow, finishing, Expected, left)

\* A handler is admitted once, for all the n calls it makes: those after the first
\* that are paid from the reserve of the scores.
Beyond(n) == Largest(0, Smallest(n - 1, Buffer + CurrentPlan.score + n - left))

TypeOK ==
    /\ schedule \in [Kickoffs -> 0 .. MaxMatches]
    /\ now \in 0 .. DayEnd /\ clock \in Nat
    /\ left \in 0 .. MaxCalls
    /\ polled \in -1 .. DayEnd - 1
    /\ finishing \in 0 .. MaxMatches * Cardinality(Kickoffs)
    /\ balance \in 0 .. CreditTicks * ContextCap * Scale
    /\ unplanned \in 0 .. MaxUnplanned /\ overdrawn \in Nat
    /\ window \in -1 .. MaxCalls
    /\ pc \in {"idle", "score", "context", "odds", "residual", "history", "over"}
    /\ fitted \in BOOLEAN

Init ==
    /\ schedule \in [Kickoffs -> 0 .. MaxMatches]
    /\ now = 0 /\ clock = 0
    /\ left \in 0 .. MaxCalls
    /\ polled = -1 /\ finishing = 0 /\ balance = 0 /\ window = -1
    /\ unplanned = 0 /\ overdrawn = 0
    /\ pc = "idle"
    /\ fitted = ~CurrentPlan.overloaded

-----------------------------------------------------------------------------
\* The drain of odds requests, at the head of a tick or when a request wakes
\* the pause, and the dictionaries of priority 1: the plan knows neither.
Unplanned ==
    /\ pc \in {"idle", "score"}
    /\ left > 0 /\ unplanned < MaxUnplanned
    /\ pc = "score" => QuotaAllows(1, left, CurrentPlan)
    /\ left' = left - 1
    /\ unplanned' = unplanned + 1
    /\ UNCHANGED <<given, now, clock, polled, finishing, balance, overdrawn, window, pc>>

\* The score tick begins; with the counter inside the buffer it does nothing.
\* A window that is open is closed for the tick and keeps its allowance.
BeginTick ==
    /\ pc \in {"idle", "history"}
    /\ now >= clock /\ now < DayEnd
    /\ IF left > Buffer
       THEN /\ pc' = "score" /\ UNCHANGED <<clock, window>>
       ELSE /\ pc' = "idle" /\ clock' = now + IdlePoll /\ window' = -1
    /\ UNCHANGED <<given, now, left, polled, finishing, balance, taken>>

\* Mutant: a match that ended is counted again by every poll.
ScorePollRecounts ==
    /\ pc = "score"
    /\ QuotaAllows(2, left, CurrentPlan)
    /\ left' = left - 1
    /\ polled' = now
    /\ finishing' = finishing + TotalOver(schedule, {k \in Kickoffs : k + Span <= now})
    /\ pc' = "context"
    /\ UNCHANGED <<given, now, clock, balance, window, taken>>

\* refresh_live_fixtures, priority 2: one call, and a new board.
ScorePoll ==
    /\ pc = "score"
    /\ QuotaAllows(2, left, CurrentPlan)
    /\ left' = left - 1
    /\ polled' = now
    /\ finishing' = finishing + TotalOver(schedule,
                        {k \in Kickoffs : k <= polled /\ polled < k + Span
                                          /\ k + Span <= now})
    /\ pc' = "context"
    /\ UNCHANGED <<given, now, clock, balance, window, taken>>

\* The last call above the buffer was the one before: the slot is skipped.
SkipScore ==
    /\ pc = "score"
    /\ ~QuotaAllows(2, left, CurrentPlan)
    /\ pc' = "context"
    /\ UNCHANGED <<given, now, clock, left, polled, finishing, balance, window, taken>>

\* priority_three: the live context spends up to its allowance; the rest is
\* refunded.
Context ==
    /\ pc = "context"
    /\ LET plan  == CurrentPlan
           grant == ContextAllowance(balance, plan.rate, left - Buffer - 1)
       IN  IF QuotaAllows(3, left, plan)
           THEN \E spent \in 0 .. grant.calls :
                  /\ left' = left - spent
                  /\ overdrawn' = overdrawn + Beyond(spent)
                  /\ balance' = Refunded(grant.balance, grant.calls - spent, plan.rate)
                  /\ finishing' \in {finishing, Largest(0, finishing - spent)}
           ELSE UNCHANGED <<left, overdrawn, balance, finishing>>
    /\ pc' = "odds"
    /\ UNCHANGED <<given, now, clock, polled, window, unplanned>>

\* priority_four, unless the tick has taken its time already.
Odds ==
    /\ pc = "odds"
    /\ left' \in {left} \cup
                 (IF QuotaAllows(4, left, CurrentPlan) THEN {left - 1} ELSE {})
    /\ pc' = "residual"
    /\ UNCHANGED <<given, now, clock, polled, finishing, balance, window, taken>>

\* A slot of priority 5 to 9 in the tick: admitted once, then free to make its
\* batch of calls.  No window bounds it.
Residual ==
    /\ pc = "residual"
    /\ QuotaAllows(5, left, CurrentPlan)
    /\ \E calls \in 1 .. Batch :
        /\ left' = Largest(0, left - calls)
        /\ overdrawn' = overdrawn + Beyond(calls)
    /\ UNCHANGED <<given, now, clock, polled, finishing, balance, window, pc, unplanned>>

\* The pause after the tick, in whole units.
Pause(plan) == CeilDiv(plan.sleep[1], plan.sleep[2])

\* _arm_score_clock, and back to the history window if the tick interrupted one.
EndTick ==
    /\ pc = "residual"
    /\ clock' = now + (IF left <= Buffer THEN IdlePoll ELSE Pause(CurrentPlan))
    /\ pc' = IF window >= 0 THEN "history" ELSE "idle"
    /\ UNCHANGED <<given, now, left, polled, finishing, balance, window, taken>>

-----------------------------------------------------------------------------
\* What history may use of the day: all above the buffer and the full reserve.
Surplus == left - Buffer - FullReserve(CurrentPlan)

\* _spend_history opens a window with the share of this pause.
OpenWindow ==
    /\ pc = "idle"
    /\ now < clock /\ polled >= 0
    /\ ~CurrentPlan.overloaded
    /\ LET share == HistoryAllowance(Surplus, DayEnd - now, CurrentPlan.sleep, MinuteCap)
       IN  share > 0 /\ window' = share
    /\ pc' = "history"
    /\ UNCHANGED <<given, now, clock, left, polled, finishing, balance, taken>>

\* A history handler is admitted by the present plan and makes some of the
\* calls the window has left (_refuse_closed_window ends it there).
HistoryCalls ==
    /\ pc = "history"
    /\ now < clock
    /\ QuotaAllows(5, left, CurrentPlan)
    /\ \E calls \in 1 .. Smallest(window, Smallest(left, Batch)) :
        /\ left' = left - calls
        /\ overdrawn' = overdrawn + Beyond(calls)
        /\ window' = window - calls
    /\ UNCHANGED <<given, now, clock, polled, finishing, balance, pc, unplanned>>

CloseWindow ==
    /\ pc = "history"
    /\ pc' = "idle" /\ window' = -1
    /\ UNCHANGED <<given, now, clock, left, polled, finishing, balance, taken>>

\* Time passes, in a pause or while a history request is under way.
Pass ==
    /\ pc \in {"idle", "history"}
    /\ now < clock /\ now < DayEnd
    /\ now' = now + 1
    /\ pc' = IF now' = DayEnd THEN "over" ELSE pc
    /\ UNCHANGED <<given, clock, left, polled, finishing, balance, window, taken>>

Next ==
    \/ Unplanned \/ BeginTick \/ ScorePoll \/ SkipScore \/ Context \/ Odds \/ Residual \/ EndTick
    \/ OpenWindow \/ HistoryCalls \/ CloseWindow \/ Pass

Spec == Init /\ [][Next]_vars

-----------------------------------------------------------------------------
\* The planner never promises more than is left above the buffer, at whatever
\* hour and for whatever board and forecast (plan_live_budget, _fit_quality,
\* _tiered_intervals).
PlanFits ==
    now < DayEnd =>
        LET plan == CurrentPlan
        IN  FullReserve(plan) + plan.reserve <= Largest(0, left - Buffer)

\* "keep enough requests for live matches until UTC midnight" (quota.py): on a
\* day whose live work fits when it begins, every score tick is made.  A tick
\* is missed only for the unplanned calls and for what handlers, once admitted
\* (quota_allows, context_allowance), have taken of the scores' reserve;
\* whatever history, detail and odds spend besides.
ScoresReachMidnight ==
    fitted /\ pc \in {"idle", "history"} /\ now >= clock /\ now < DayEnd
        => left + unplanned + overdrawn > Buffer
===============================================================================
