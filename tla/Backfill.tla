------------------------------ MODULE Backfill ------------------------------
(***************************************************************************)
(* The backfill of past days (services/ingest/fixtures.py, priority 8) and *)
(* the rules it stands on: the day task and its refresh (queue/core.py),   *)
(* the completeness of a day (services/completeness.py) and the follow-ups *)
(* of a stored list (queue/followups.py).  One pass repairs days stuck on  *)
(* a stale status, waits for today's list and for old open work, fetches   *)
(* the cursor's day and moves the cursor down when that day is complete.   *)
(* Every database step is its own transaction and the process may stop     *)
(* between any two.  A day stands for its matches: one match, with its     *)
(* detail task and the tasks beside it (predictions, odds, head to head,   *)
(* half statistics).                                                       *)
(***************************************************************************)
EXTENDS Integers, SequencesExt

CONSTANTS
    Days,           \* past UTC days 1..n; the cursor goes down from n
    RetryLimit,     \* ERROR_RETRY_LIMIT
    MaxFailures,    \* counted failures of a day's fetch, over the whole run
    MaxRefusals,    \* exhausted quota and closed spend windows
    MaxStops        \* restarts of the worker

LastDay == CHOOSE d \in Days : \A e \in Days : e <= d

ConstantsOK == LastDay \in Nat \ {0} /\ Days = 1 .. LastDay

VARIABLES
    pc, todo, day,  \* the pass: where it is, days to repair, the day at hand
    task,           \* the day task's status, "none" before it is created
    errors,         \* error_retries of the day task; never reset
    fresh,          \* the day was completed on the current UTC day
    stored,         \* fixtures.status_short: "none", "stale" or "final"
    vendor,         \* what /fixtures?date= says of the match
    detail, kids,   \* the match's tasks: "none", "open" or "closed"
    old,            \* an open task of the match is more than a week old
    cursor,         \* next_day of the backfill cursor; 0 is past the bound
    todayDone,      \* today's /fixtures task is complete
    looked,         \* a pass has met today's list since it is stored
    failures, refusals, stops

pass == <<pc, todo, day>>
lists == <<task, errors, fresh>>
matches == <<stored, detail, kids, old>>
faults == <<failures, refusals, stops>>
today == <<todayDone, looked>>
vars == <<pass, lists, matches, vendor, cursor, today, faults>>

\* The last day may have been stored while it was today, its match not yet
\* played; the vendor reports it as played by now or never will.
Init ==
    /\ pc = "idle" /\ todo = <<>> /\ day = 0
    /\ \E seen \in BOOLEAN :
          LET At(d, x, y) == IF seen /\ d = LastDay THEN x ELSE y
          IN  /\ task = [d \in Days |-> At(d, "complete", "none")]
              /\ stored = [d \in Days |-> At(d, "stale", "none")]
              /\ detail = [d \in Days |-> At(d, "open", "none")]
              /\ kids = [d \in Days |-> At(d, "open", "none")]
    /\ vendor \in [Days -> {"stale", "final"}]
    /\ errors = [d \in Days |-> 0]
    /\ fresh = [d \in Days |-> FALSE]
    /\ old = [d \in Days |-> FALSE]
    /\ cursor = LastDay
    /\ todayDone = FALSE /\ looked = FALSE
    /\ failures = 0 /\ refusals = 0 /\ stops = 0

-----------------------------------------------------------------------------
(* Rules.                                                                  *)

\* Mutant: a complete day is never looked at again.
NeedsRefreshOnce(d) == task[d] \in {"none", "pending", "retryable_error"}

\* needs_refresh on the day task, which is created pending.
NeedsRefresh(d) ==
    \/ task[d] \in {"none", "pending", "retryable_error"}
    \/ task[d] = "complete" /\ ~fresh[d]

IsOpen(d) == detail[d] = "open" \/ kids[d] = "open"

\* historical_backlog_blocks: an open task has waited for over a week.
BacklogBlocks == \E d \in Days : IsOpen(d) /\ old[d]

\* stale_fixture_days: an open detail task on a match whose kickoff passed
\* and whose status still is NS, TBD or in play.
StaleDays == {d \in Days : detail[d] = "open" /\ stored[d] = "stale"}
RepairOrder == SetToSortSeq(StaleDays, <)

\* match_blockers: only a played or called-off match can block its day.
Blocked(d) ==
    /\ stored[d] = "final"
    /\ detail[d] \in {"none", "open"} \/ kids[d] = "open"

\* Mutant: a missing detail task does not count.
DayIsCompleteWhenNoneOpen(d) ==
    task[d] = "complete" /\ ~(stored[d] = "final" /\ IsOpen(d))

\* day_is_complete.
DayIsComplete(d) == task[d] = "complete" /\ ~Blocked(d)

\* ensure_enrichment_task and its siblings: one task for good.
Ensure(status) == IF status = "none" THEN "open" ELSE status

\* enqueue_fixture_followups.  A backfilled day gets none while old work
\* waits.
Followups(d, historical) ==
    IF historical /\ BacklogBlocks
    THEN UNCHANGED <<detail, kids>>
    ELSE /\ detail' = [detail EXCEPT ![d] = Ensure(@)]
         /\ kids' = [kids EXCEPT ![d] = Ensure(@)]

\* The transaction of _ingest_day.
StoreDay(d, historical) ==
    /\ stored' = [stored EXCEPT ![d] = vendor[d]]
    /\ Followups(d, historical)
    /\ task' = [task EXCEPT ![d] = "complete"]
    /\ fresh' = [fresh EXCEPT ![d] = TRUE]
    /\ UNCHANGED <<errors, old>>

\* fail_task: exhausted quota is not counted (counted = FALSE); past the
\* limit the task is given up.
FailDay(d, counted) ==
    LET n == errors[d] + (IF counted THEN 1 ELSE 0)
    IN  /\ errors' = [errors EXCEPT ![d] = n]
        /\ task' = [task EXCEPT ![d] = IF counted /\ n > RetryLimit
                                       THEN "permanent_error"
                                       ELSE "retryable_error"]
        /\ UNCHANGED fresh

\* The ways _ingest_day's fetch ends without a list.
FetchFails(d) ==
    \/ /\ failures < MaxFailures
       /\ failures' = failures + 1
       /\ FailDay(d, TRUE)
       /\ UNCHANGED <<refusals, stops>>
    \/ /\ refusals < MaxRefusals
       /\ refusals' = refusals + 1
       /\ FailDay(d, FALSE) \/ UNCHANGED lists
       /\ UNCHANGED <<failures, stops>>

-----------------------------------------------------------------------------
(* One pass of refresh_backfill.                                           *)

ReadStaleDays ==
    /\ pc = "idle"
    /\ todo' = RepairOrder
    /\ pc' = "repair"
    /\ UNCHANGED <<day, lists, matches, vendor, cursor, today, faults>>

RepairDay ==
    /\ pc = "repair" /\ todo # <<>>
    /\ StoreDay(Head(todo), FALSE)
    /\ pc' = "close"
    /\ UNCHANGED <<todo, day, vendor, cursor, today, faults>>

\* A failed repair ends the repairs of this pass, not the pass.
RepairFails ==
    /\ pc = "repair" /\ todo # <<>>
    /\ FetchFails(Head(todo))
    /\ pc' = "gate" /\ todo' = <<>>
    /\ UNCHANGED <<day, matches, vendor, cursor, today>>

\* Mutant: what stays stale after the repair stays open.
CloseStaleNever ==
    /\ pc = "close"
    /\ todo' = Tail(todo)
    /\ pc' = "repair"
    /\ UNCHANGED <<day, lists, matches, vendor, cursor, today, faults>>

\* close_stale_prematch_enrichment, on what the repair left stale.
CloseStale ==
    /\ pc = "close"
    /\ detail' = [detail EXCEPT ![Head(todo)] =
                    IF Head(todo) \in StaleDays THEN "closed" ELSE @]
    /\ todo' = Tail(todo)
    /\ pc' = "repair"
    /\ UNCHANGED <<day, lists, stored, kids, old, vendor, cursor, today, faults>>

RepairsDone ==
    /\ pc = "repair" /\ todo = <<>>
    /\ pc' = "gate"
    /\ UNCHANGED <<todo, day, lists, matches, vendor, cursor, today, faults>>

PassGate ==
    /\ pc = "gate"
    /\ todayDone /\ ~BacklogBlocks /\ cursor > 0
    /\ day' = cursor
    /\ pc' = "ingest"
    /\ looked' = TRUE
    /\ UNCHANGED <<todo, lists, matches, vendor, cursor, todayDone, faults>>

StopAtGate ==
    /\ pc = "gate"
    /\ ~todayDone \/ BacklogBlocks \/ cursor = 0
    /\ pc' = "idle"
    /\ looked' = todayDone
    /\ UNCHANGED <<todo, day, lists, matches, vendor, cursor, todayDone, faults>>

\* A day that needs no refresh counts as fetched, whatever its status.
SkipDay ==
    /\ pc = "ingest" /\ ~NeedsRefresh(day)
    /\ pc' = "check"
    /\ UNCHANGED <<todo, day, lists, matches, vendor, cursor, today, faults>>

IngestDay ==
    /\ pc = "ingest" /\ NeedsRefresh(day)
    /\ StoreDay(day, TRUE)
    /\ pc' = "check"
    /\ UNCHANGED <<todo, day, vendor, cursor, today, faults>>

IngestFails ==
    /\ pc = "ingest" /\ NeedsRefresh(day)
    /\ FetchFails(day)
    /\ pc' = "idle" /\ day' = 0
    /\ UNCHANGED <<todo, matches, vendor, cursor, today>>

CheckDay ==
    /\ pc = "check"
    /\ IF DayIsComplete(day)
       THEN pc' = "advance" /\ UNCHANGED day
       ELSE pc' = "idle" /\ day' = 0
    /\ UNCHANGED <<todo, lists, matches, vendor, cursor, today, faults>>

Advance ==
    /\ pc = "advance"
    /\ cursor' = day - 1
    /\ pc' = "idle" /\ day' = 0
    /\ UNCHANGED <<todo, lists, matches, vendor, today, faults>>

-----------------------------------------------------------------------------
(* The lanes beside it, the calendar and the vendor.                       *)

\* claim_enrichment_task takes played and called-off matches only.
CloseDetail(d) ==
    /\ detail[d] = "open" /\ stored[d] = "final"
    /\ detail' = [detail EXCEPT ![d] = "closed"]
    /\ UNCHANGED <<pass, lists, stored, kids, old, vendor, cursor, today, faults>>

CloseKids(d) ==
    /\ kids[d] = "open"
    /\ kids' = [kids EXCEPT ![d] = "closed"]
    /\ UNCHANGED <<pass, lists, stored, detail, old, vendor, cursor, today, faults>>

Age(d) ==
    /\ IsOpen(d) /\ ~old[d]
    /\ old' = [old EXCEPT ![d] = TRUE]
    /\ UNCHANGED <<pass, lists, stored, detail, kids, vendor, cursor, today, faults>>

\* refresh_forward stores today's list.
ForwardDone ==
    /\ ~todayDone
    /\ todayDone' = TRUE
    /\ UNCHANGED <<looked, pass, lists, matches, vendor, cursor, faults>>

\* A day is longer than a pass: one meets today's list before it ends.
Midnight ==
    /\ looked
    /\ todayDone' = FALSE /\ looked' = FALSE
    /\ fresh' = [d \in Days |-> FALSE]
    /\ UNCHANGED <<pass, task, errors, matches, vendor, cursor, faults>>

VendorCorrects(d) ==
    /\ vendor[d] = "stale"
    /\ vendor' = [vendor EXCEPT ![d] = "final"]
    /\ UNCHANGED <<pass, lists, matches, cursor, today, faults>>

Restart ==
    /\ stops < MaxStops
    /\ stops' = stops + 1
    /\ pc' = "idle" /\ todo' = <<>> /\ day' = 0
    /\ UNCHANGED <<lists, matches, vendor, cursor, today, failures, refusals>>

Pass ==
    \/ ReadStaleDays \/ RepairDay \/ CloseStale \/ RepairsDone
    \/ PassGate \/ StopAtGate \/ SkipDay \/ IngestDay \/ CheckDay \/ Advance

Next ==
    \/ Pass \/ RepairFails \/ IngestFails \/ Restart
    \/ ForwardDone \/ Midnight
    \/ \E d \in Days : CloseDetail(d) \/ CloseKids(d) \/ Age(d) \/ VendorCorrects(d)

Spec == Init /\ [][Next]_vars

\* The scheduler runs a pass on every tick and the other lanes work their
\* queues off.
Fairness ==
    /\ WF_vars(Pass)
    /\ WF_vars(ForwardDone) /\ WF_vars(Midnight)
    /\ \A d \in Days : WF_vars(CloseDetail(d)) /\ WF_vars(CloseKids(d))

FairSpec == Spec /\ Fairness

-----------------------------------------------------------------------------
TypeOK ==
    /\ pc \in {"idle", "repair", "close", "gate", "ingest", "check", "advance"}
    /\ todo \in Seq(Days) /\ day \in Days \cup {0}
    /\ task \in [Days -> {"none", "pending", "retryable_error",
                          "permanent_error", "complete"}]
    /\ stored \in [Days -> {"none", "stale", "final"}]
    /\ detail \in [Days -> {"none", "open", "closed"}]
    /\ kids \in [Days -> {"none", "open", "closed"}]
    /\ cursor \in Days \cup {0}

\* The cursor passes a day only when its list is stored and every played
\* match of it has its detail task: a list stored while old work waited,
\* and so without follow-ups, holds the cursor (refresh_backfill and
\* enqueue_fixture_followups read the backlog separately).
PassedDaysHaveDetails ==
    [][\A d \in Days : cursor = d /\ cursor' < d =>
          /\ task[d] = "complete"
          /\ stored[d] = "final" => detail[d] # "none"]_vars

\* As long as no day fails past its retry limit, the cursor reaches the end
\* of the history: neither a match the vendor never closes, nor follow-ups
\* skipped, nor a week-old task stops it for good.
BackfillGoesOn == <>(cursor = 0)
=============================================================================
