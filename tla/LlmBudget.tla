------------------------------ MODULE LlmBudget ------------------------------
(***************************************************************************)
(* The daily budget for model calls (services/advisor/budget.py, cycle.py, *)
(* summary.py and advisor/main.py).                                        *)
(*                                                                         *)
(* A cycle takes a session advisory lock, reads the day's sum, asks the    *)
(* model and commits what the call cost; the sum and the insert are two    *)
(* transactions with the call between them.  The daily summaries call the  *)
(* same model and insert into the same table without that lock.            *)
(*                                                                         *)
(* Several advisors are allowed: the lock is the one thing that orders     *)
(* their cycles.  An amount is a number of money units; a call costs what  *)
(* the provider meters, which the caller learns only from its answer.      *)
(***************************************************************************)
EXTENDS Integers, FiniteSets

CONSTANTS
    Advisors,     \* advisor processes
    Summarised,   \* active strategies of kind llm: each has a summary a day
    Limit,        \* advisor_daily_budget_pln
    SandboxCap,   \* the share of it the sandbox may spend
    Estimates,    \* what estimate_call_cost may answer
    Costs,        \* what a call may really cost
    Overrun,      \* the most a call costs above its estimate
    Days          \* accounting days

NoOne == "nobody"

ASSUME AdvisorsAssumption == NoOne \notin Advisors
ASSUME CapsAssumption ==
    Limit \in Nat /\ SandboxCap \in Nat /\ SandboxCap <= Limit
ASSUME AmountsAssumption ==
    /\ Estimates \subseteq Nat /\ Costs \subseteq Nat /\ Overrun \in Nat
    /\ \A e \in Estimates, c \in Costs : c <= e + Overrun
    /\ \E c \in Costs : \A d \in Costs : d <= c
ASSUME FiniteAssumption == IsFiniteSet(Advisors) /\ IsFiniteSet(Summarised)
ASSUME DaysAssumption == Days \subseteq Nat /\ 1 \in Days

VARIABLES
    today,       \* the UTC day
    ledger,      \* sum of cost_pln by day and kind of entry, as committed
    unbooked,    \* has a metered call left no row
    holder,      \* who holds ADVISOR_CYCLE_LOCK_KEY
    pc,          \* where each advisor is
    now,         \* the day of its loop's start
    mode,        \* mode of its cycle
    est,         \* estimate of its call
    seen,        \* the sum it read
    cost,        \* what it will commit
    jobs,        \* the summaries it still has to make
    cycled,      \* <<strategy, day>> with a summary cycle
    named        \* names of the strategies that summaries have created

dbVars   == <<ledger, cycled, named>>
ownVars  == <<pc, now, mode, est, seen, cost, jobs>>
vars     == <<today, dbVars, unbooked, holder, ownVars>>

Modes == {"sandbox", "recommendation"}
\* What the rows of a day are for: cycles of either mode, and summaries, whose
\* rows have mode sandbox too.
Entries == Modes \cup {"summary"}
InCycle  == {"locked", "calling", "paid", "done"}
Labels == {"idle", "waiting", "listed", "summing", "summed"} \cup InCycle
Jobs == Summarised \X Days

TypeOK ==
    /\ today \in Days
    /\ ledger \in [Days -> [Entries -> Nat]]
    /\ unbooked \in BOOLEAN
    /\ holder \in Advisors \cup {NoOne}
    /\ pc \in [Advisors -> Labels]
    /\ now \in [Advisors -> Days]
    /\ mode \in [Advisors -> Modes]
    /\ est \in [Advisors -> Nat]
    /\ seen \in [Advisors -> Nat]
    /\ cost \in [Advisors -> Nat]
    /\ jobs \in [Advisors -> SUBSET Summarised]
    /\ cycled \in SUBSET Jobs
    /\ named \in SUBSET Jobs

Init ==
    /\ today = 1
    /\ ledger = [d \in Days |-> [m \in Entries |-> 0]]
    /\ unbooked = FALSE
    /\ holder = NoOne
    /\ pc = [a \in Advisors |-> "idle"]
    /\ now = [a \in Advisors |-> 1]
    /\ mode = [a \in Advisors |-> "sandbox"]
    /\ est = [a \in Advisors |-> 0]
    /\ seen = [a \in Advisors |-> 0]
    /\ cost = [a \in Advisors |-> 0]
    /\ jobs = [a \in Advisors |-> {}]
    /\ cycled = {} /\ named = {}

-----------------------------------------------------------------------------
\* budget_cap
BudgetCap(m) == IF m = "sandbox" THEN SandboxCap ELSE Limit

\* budget_allows
BudgetAllows(spent, estimated, m) == spent + estimated <= BudgetCap(m)

\* What the cycles of a day cost.
CycleSpent(d) == ledger[d]["sandbox"] + ledger[d]["recommendation"]

\* spent_today: all rows count.
Spent(d) == CycleSpent(d) + ledger[d]["summary"]

Goto(a, label) == pc' = [pc EXCEPT ![a] = label]

\* run_cycle or _summarize is left: its local values are gone.
Leave(a) ==
    /\ pc' = [pc EXCEPT ![a] = "idle"]
    /\ now' = [now EXCEPT ![a] = 1]
    /\ mode' = [mode EXCEPT ![a] = "sandbox"]
    /\ est' = [est EXCEPT ![a] = 0]
    /\ seen' = [seen EXCEPT ![a] = 0]
    /\ cost' = [cost EXCEPT ![a] = 0]
    /\ jobs' = [jobs EXCEPT ![a] = {}]

Insert(d, m, c) == ledger' = [ledger EXCEPT ![d][m] = @ + c]

NextDay ==
    /\ today + 1 \in Days
    /\ today' = today + 1
    /\ UNCHANGED <<dbVars, unbooked, holder, ownVars>>

-----------------------------------------------------------------------------
(* A cycle.                                                                *)

\* The tick has a due set of candidates and enters run_cycle.  The clock it
\* hands over is the time its loop began.
BeginCycle(a) ==
    /\ pc[a] = "idle"
    /\ \E m \in Modes, e \in Estimates :
        /\ mode' = [mode EXCEPT ![a] = m]
        /\ est' = [est EXCEPT ![a] = e]
    /\ now' = [now EXCEPT ![a] = today]
    /\ Goto(a, "waiting")
    /\ UNCHANGED <<today, dbVars, unbooked, holder, seen, cost, jobs>>

\* Mutant: the lock is granted to any number of sessions.
TakeLockShared(a) ==
    /\ pc[a] = "waiting"
    /\ holder' = a
    /\ Goto(a, "locked")
    /\ UNCHANGED <<today, dbVars, unbooked, now, mode, est, seen, cost, jobs>>

\* hold_session_lock
TakeLock(a) ==
    /\ pc[a] = "waiting"
    /\ holder = NoOne
    /\ holder' = a
    /\ Goto(a, "locked")
    /\ UNCHANGED <<today, dbVars, unbooked, now, mode, est, seen, cost, jobs>>

\* Mutant: the sandbox is checked against the whole budget.
CheckBudgetWhole(a) ==
    /\ pc[a] = "locked"
    /\ seen' = [seen EXCEPT ![a] = Spent(now[a])]
    /\ Goto(a, IF BudgetAllows(Spent(now[a]), est[a], "recommendation")
               THEN "calling" ELSE "done")
    /\ UNCHANGED <<today, dbVars, unbooked, holder, now, mode, est, cost, jobs>>

\* Mutant: each mode is checked against a budget of its own.
CheckBudgetByMode(a) ==
    /\ pc[a] = "locked"
    /\ seen' = [seen EXCEPT ![a] = Spent(now[a])]
    /\ Goto(a, IF BudgetAllows(ledger[now[a]][mode[a]], est[a], mode[a])
               THEN "calling" ELSE "done")
    /\ UNCHANGED <<today, dbVars, unbooked, holder, now, mode, est, cost, jobs>>

CheckBudget(a) ==
    /\ pc[a] = "locked"
    /\ seen' = [seen EXCEPT ![a] = Spent(now[a])]
    /\ Goto(a, IF BudgetAllows(Spent(now[a]), est[a], mode[a])
               THEN "calling" ELSE "done")
    /\ UNCHANGED <<today, dbVars, unbooked, holder, now, mode, est, cost, jobs>>

\* The model answers: the usage it reports is priced by call_cost.
CallReturns(a) ==
    /\ pc[a] = "calling"
    /\ \E c \in Costs : cost' = [cost EXCEPT ![a] = c]
    /\ Goto(a, "paid")
    /\ UNCHANGED <<today, dbVars, unbooked, holder, now, mode, est, seen, jobs>>

\* ProviderError carries no usage: the estimate is charged, whatever was
\* metered.
CallFails(a) ==
    /\ pc[a] = "calling"
    /\ cost' = [cost EXCEPT ![a] = est[a]]
    /\ Goto(a, "paid")
    /\ UNCHANGED <<today, dbVars, unbooked, holder, now, mode, est, seen, jobs>>

\* _commit_cycle
CommitCycle(a) ==
    /\ pc[a] = "paid"
    /\ Insert(now[a], mode[a], cost[a])
    /\ Goto(a, "done")
    /\ UNCHANGED <<today, cycled, named, unbooked, holder, now, mode, est, seen,
                   cost, jobs>>

\* Mutant: the connection is returned to the pool with the lock still held.
KeepLock(a) ==
    /\ pc[a] = "done"
    /\ Leave(a)
    /\ UNCHANGED <<today, dbVars, unbooked, holder>>

\* pg_advisory_unlock on the way out of run_cycle, refused or not.
Unlock(a) ==
    /\ pc[a] = "done"
    /\ holder' = NoOne
    /\ Leave(a)
    /\ UNCHANGED <<today, dbVars, unbooked>>

-----------------------------------------------------------------------------
(* The daily summaries.                                                    *)

\* Mutant: a strategy that has its summary is listed again.
ListSummariesAgain(a) ==
    /\ pc[a] = "idle"
    /\ Summarised # {}
    /\ now' = [now EXCEPT ![a] = today]
    /\ seen' = [seen EXCEPT ![a] = 0]
    /\ jobs' = [jobs EXCEPT ![a] = Summarised]
    /\ Goto(a, "listed")
    /\ UNCHANGED <<today, dbVars, unbooked, holder, mode, est, cost>>

\* _summarize reads the sum and the due jobs once, for the day its loop began,
\* which may be over by now; neither query has an upper bound on the day.
\* Before 06:00 there are no jobs, and nothing happens.
ListSummaries(a) ==
    /\ pc[a] = "idle"
    /\ Summarised # {}
    /\ \E d \in Days \cap {today - 1, today} :
        /\ now' = [now EXCEPT ![a] = d]
        /\ seen' = [seen EXCEPT ![a] =
                      IF d = today THEN Spent(d) ELSE Spent(d) + Spent(today)]
        /\ jobs' = [jobs EXCEPT ![a] =
                      {s \in Summarised : cycled \cap {<<s, d>>, <<s, today>>} = {}}]
    /\ Goto(a, "listed")
    /\ UNCHANGED <<today, dbVars, unbooked, holder, mode, est, cost>>

\* The next job, in any order; one that does not fit ends the list.
CheckSummary(a) ==
    /\ pc[a] = "listed"
    /\ jobs[a] # {}
    /\ \E e \in Estimates :
        \/ /\ BudgetAllows(seen[a], e, "recommendation")
           /\ Goto(a, "summing")
           /\ est' = [est EXCEPT ![a] = e]
           /\ UNCHANGED <<now, mode, seen, cost, jobs>>
        \/ /\ ~BudgetAllows(seen[a], e, "recommendation")
           /\ Leave(a)
    /\ UNCHANGED <<today, dbVars, unbooked, holder>>

SummaryReturns(a) ==
    /\ pc[a] = "summing"
    /\ \E c \in Costs : cost' = [cost EXCEPT ![a] = c]
    /\ Goto(a, "summed")
    /\ UNCHANGED <<today, dbVars, unbooked, holder, now, mode, est, seen, jobs>>

\* A failed summary call is skipped; if it was metered, it is not charged.
SummaryFails(a, s) ==
    /\ pc[a] = "summing"
    /\ s \in jobs[a]
    /\ unbooked' \in {unbooked, TRUE}
    /\ jobs' = [jobs EXCEPT ![a] = @ \ {s}]
    /\ Goto(a, "listed")
    /\ UNCHANGED <<today, dbVars, holder, now, mode, est, seen, cost>>

\* store_summary: the cycle row has mode sandbox and the day of the insert,
\* the new strategy is named for the day of the loop.  A name that exists
\* undoes the row as well.
StoreSummary(a, s) ==
    /\ pc[a] = "summed"
    /\ s \in jobs[a]
    /\ jobs' = [jobs EXCEPT ![a] = @ \ {s}]
    /\ Goto(a, "listed")
    /\ \/ /\ Insert(today, "summary", cost[a])
          /\ cycled' = cycled \cup {<<s, today>>}
          /\ \/ named' = named
             \/ /\ <<s, now[a]>> \notin named
                /\ named' = named \cup {<<s, now[a]>>}
          /\ UNCHANGED unbooked
       \/ /\ <<s, now[a]>> \in named
          /\ unbooked' = TRUE
          /\ UNCHANGED dbVars
    /\ UNCHANGED <<today, holder, now, mode, est, seen, cost>>

EndSummaries(a) ==
    /\ pc[a] = "listed"
    /\ jobs[a] = {}
    /\ Leave(a)
    /\ UNCHANGED <<today, dbVars, unbooked, holder>>

\* The process dies; the server ends its session, and the lock with it.
Crash(a) ==
    /\ pc[a] # "idle"
    /\ Leave(a)
    /\ holder' = IF holder = a THEN NoOne ELSE holder
    /\ unbooked' = (unbooked \/ pc[a] \in {"paid", "summed"})
    /\ UNCHANGED <<today, dbVars>>

-----------------------------------------------------------------------------
Cycle(a) ==
    \/ BeginCycle(a) \/ TakeLock(a) \/ CheckBudget(a) \/ CallReturns(a)
    \/ CallFails(a) \/ CommitCycle(a) \/ Unlock(a)

Summary(a) ==
    \/ ListSummaries(a) \/ CheckSummary(a) \/ SummaryReturns(a) \/ EndSummaries(a)
    \/ \E s \in Summarised : SummaryFails(a, s) \/ StoreSummary(a, s)

Next == NextDay \/ \E a \in Advisors : Cycle(a) \/ Summary(a) \/ Crash(a)

Spec == Init /\ [][Next]_vars

\* A cycle that runs goes on: each of its statements ends, and the model call
\* has a timeout.  The server grants a free lock to a waiting session.
Runs(a) == CheckBudget(a) \/ CallReturns(a) \/ CallFails(a) \/ CommitCycle(a) \/ Unlock(a)
Fairness ==
    \A a \in Advisors :
        /\ WF_vars(Runs(a))
        /\ SF_vars(TakeLock(a))

FairSpec == Spec /\ Fairness

-----------------------------------------------------------------------------
(* Safety.                                                                 *)

\* Only the lock's holder is between the budget read and the end of its cycle.
HolderRuns == \A a \in Advisors : pc[a] \in InCycle => holder = a

\* While a cycle's call runs and its cost is committed, the sum its check used
\* holds all that the cycles of the day have spent: what was added to the day
\* meanwhile are summaries.
CyclesAreCounted ==
    \A a \in Advisors :
        pc[a] \in {"calling", "paid"} => CycleSpent(now[a]) <= seen[a]

\* The cycles of a day pass the limit by no more than what one call may cost
\* above its estimate, however many advisors run.
CyclesStayInBudget == \A d \in Days : CycleSpent(d) <= Limit + Overrun

\* The sandbox's cycles pass the share of the sandbox by no more than that.
SandboxCyclesStayInShare ==
    \A d \in Days : ledger[d]["sandbox"] <= SandboxCap + Overrun

\* What the lock is for, with the daily summaries beside it: no cycle spends
\* while another one is between its check and its commit, and so what the cycles
\* spend, and what the sandbox's spend of it, pass their limits by at most one
\* overrun.
CyclesKeepTheBudget ==
    CyclesAreCounted /\ CyclesStayInBudget /\ SandboxCyclesStayInShare

\* "Sandbox may spend 70 percent; the rest is for recommendations" (budget.py),
\* of the rows of mode sandbox, up to the overrun of one call.
SandboxLeavesTheRest ==
    \A d \in Days :
        ledger[d]["sandbox"] + ledger[d]["summary"] <= SandboxCap + Overrun

MaxCost == CHOOSE c \in Costs : \A d \in Costs : d <= c

\* The unlocked summaries of a day add at most one call for each strategy and
\* advisor to what the cycles may spend, though all of them are checked against
\* one sum and a list drawn up before midnight may be worked off after it.
OneCallPerSummary ==
    \A d \in Days :
        Spent(d) <= Limit + Overrun
                    + Cardinality(Summarised) * Cardinality(Advisors) * MaxCost

\* "A crash after the call still leaves the paid cost in the sum" (run_cycle):
\* every metered call has a row.
PaidIsInTheSum == ~unbooked

-----------------------------------------------------------------------------
(* Liveness.                                                               *)

\* A waiting cycle gets the lock or its process dies: a holder that is refused
\* by the budget, whose call fails, or that crashes gives the lock up.
LockIsFreed == \A a \in Advisors : pc[a] = "waiting" ~> pc[a] # "waiting"
===============================================================================
