------------------------------- MODULE EtlQueue -------------------------------
(***************************************************************************)
(* The task queue of the worker (table etl_tasks): how a task is enqueued, *)
(* claimed, fetched, finished, retried, given up, reopened and, after a    *)
(* crash, requeued.                                                        *)
(*                                                                         *)
(* One worker runs at a time, under an advisory lock, in one event loop.   *)
(* It alternates between score ticks and the history window, in which the  *)
(* client may end any request with SpendWindowClosed.  Handlers run one    *)
(* after the other; only the detail fetches of the live lane and a batch   *)
(* of global tasks are in flight together.                                 *)
(*                                                                         *)
(* Time is left to the schedule: a backoff, a cadence or the 24 hours of   *)
(* the control refresh are over whenever the action that waits for them    *)
(* happens.  Payloads, paging and the audit columns are left out.          *)
(***************************************************************************)
EXTENDS Integers, FiniteSets

CONSTANTS
    Matches,      \* matches the worker knows
    Leagues,      \* league seasons it follows
    Kinds,        \* kinds of task in this instance
    RetryLimit,   \* ERROR_RETRY_LIMIT
    EmptyLimit    \* LIVE_CONTEXT_MAX_EMPTY_ATTEMPTS

ASSUME LimitsAssumption == RetryLimit \in Nat /\ EmptyLimit \in Nat \ {0}
ASSUME KindsAssumption ==
    Kinds \subseteq {"detail", "half", "prematch", "injuries", "rounds", "global"}

\* detail: /fixtures?id=, half: /fixtures/statistics, prematch: odds,
\* predictions and head to head; the others belong to a league season.
MatchTasks  == (Kinds \cap {"detail", "half", "prematch"}) \X Matches
LeagueTasks == (Kinds \cap {"injuries", "rounds", "global"}) \X Leagues
Tasks == MatchTasks \cup LeagueTasks

Kind(t) == t[1]
Detail(m) == <<"detail", m>>

VARIABLES
    status,      \* of each task, "none" before it is enqueued
    retries,     \* params.error_retries, counted up to RetryLimit + 1
    empties,     \* params.empty_attempts, counted up to EmptyLimit
    job,         \* what is fetching the task, "none" if nothing is
    dropped,     \* tasks last claimed by a fetch that left them in progress
    lane,        \* the worker: down, in a tick or in the history window
    phase,       \* fixtures.status_short, by group
    listed,      \* where the live poll's task lists the match
    finalAt,     \* matches whose task carries final_detail_at
    control,     \* control refresh of the detail: unset, armed or done
    seenFinal    \* matches whose stored detail came from a finished match

taskVars  == <<status, retries, empties>>
matchVars == <<phase, listed, finalAt, control, seenFinal>>
vars      == <<taskVars, job, dropped, lane, matchVars>>

Claimable == {"pending", "retryable_error"}
Open      == Claimable \cup {"in_progress"}              \* OPEN_ETL_STATUSES
Terminal  == {"complete", "coverage_empty", "not_supported", "permanent_error"}
Status    == {"none"} \cup Open \cup Terminal
Modes     == {"live", "scoped", "plain", "control"}
Phases    == {"before", "play", "finished", "irregular"}
Enrichable == {"finished", "irregular"}      \* ENRICHABLE_FIXTURE_STATUSES

TypeOK ==
    /\ status \in [Tasks -> Status]
    /\ retries \in [Tasks -> 0 .. RetryLimit + 1]
    /\ empties \in [Tasks -> 0 .. EmptyLimit]
    /\ job \in [Tasks -> Modes \cup {"none"}]
    /\ dropped \in SUBSET Tasks
    /\ lane \in {"down", "tick", "history"}
    /\ phase \in [Matches -> Phases]
    /\ listed \in [Matches -> {"off", "live", "finishing"}]
    /\ finalAt \in SUBSET Matches
    /\ control \in [Matches -> {"unset", "armed", "done"}]
    /\ seenFinal \in SUBSET Matches

Init ==
    /\ status = [t \in Tasks |-> "none"]
    /\ retries = [t \in Tasks |-> 0]
    /\ empties = [t \in Tasks |-> 0]
    /\ job = [t \in Tasks |-> "none"] /\ dropped = {}
    /\ lane = "down"
    /\ phase = [m \in Matches |-> "before"]
    /\ listed = [m \in Matches |-> "off"]
    /\ finalAt = {} /\ seenFinal = {}
    /\ control = [m \in Matches |-> "unset"]

Idle == lane # "down" /\ \A t \in Tasks : job[t] = "none"

-----------------------------------------------------------------------------
(* The worker's life.                                                      *)

\* Mutant: what was in progress is left as it is.
StartKeepsClaims ==
    /\ lane = "down"
    /\ lane' = "tick"
    /\ UNCHANGED <<taskVars, job, dropped, matchVars>>

\* run_locked_loop: requeue_orphans, then the profiles and venues that are
\* stored by now are closed without a fetch.
Start ==
    /\ lane = "down"
    /\ lane' = "tick"
    /\ \E stored \in SUBSET {t \in Tasks : Kind(t) = "global"
                                           /\ status[t] \in {"pending", "in_progress"}} :
         status' = [t \in Tasks |-> IF t \in stored THEN "complete"
                                    ELSE IF status[t] = "in_progress" THEN "pending"
                                    ELSE status[t]]
    /\ UNCHANGED <<retries, empties, job, dropped, matchVars>>

\* The process ends, by a signal, a lost database, a refused key
\* (AuthBlockedError) or a bug.
Dies ==
    /\ lane' = "down"
    /\ job' = [t \in Tasks |-> "none"]
    /\ dropped' = {}

Crash ==
    /\ lane # "down"
    /\ Dies
    /\ UNCHANGED <<taskVars, matchVars>>

\* The scheduler goes from the score tick to the history window and back.
SwitchLane ==
    /\ Idle
    /\ lane' = IF lane = "tick" THEN "history" ELSE "tick"
    /\ UNCHANGED <<taskVars, job, dropped, matchVars>>

-----------------------------------------------------------------------------
(* What puts tasks on the queue or takes them off without a fetch.         *)

\* Tasks of matches ms and league seasons ls.
TasksOf(ms, ls) ==
    {t \in MatchTasks : t[2] \in ms} \cup {t \in LeagueTasks : t[2] \in ls}

\* The ensure_* functions: a task is created once and never again.
Ensured(st, tasks) ==
    [t \in Tasks |-> IF t \in tasks /\ st[t] = "none" THEN "pending" ELSE st[t]]

\* enqueue_fixture_followups: retire_untracked_tasks closes the open tasks of
\* the matches U and league seasons V that are no longer followed; then the
\* followups of the matches found are ensured.
Followups(found, U, V) ==
    LET retired == [t \in Tasks |->
                      IF t \in TasksOf(U, V) /\ status[t] \in Open
                      THEN "not_supported" ELSE status[t]]
    IN  Ensured(retired,
                {t \in TasksOf(found \ U, IF found \subseteq U THEN {} ELSE Leagues \ V) :
                    Kind(t) # "half"})

\* refresh_live_fixtures: the vendor lists L as live.  A match that was listed
\* and is not any more is finishing.
Poll(L, U, V) ==
    /\ Idle /\ lane = "tick"
    /\ phase' = [m \in Matches |-> IF m \in L THEN "play" ELSE phase[m]]
    /\ listed' = [m \in Matches |->
                    IF m \in U THEN "off"
                    ELSE IF m \in L THEN "live"
                    ELSE IF listed[m] = "live" THEN "finishing"
                    ELSE listed[m]]
    /\ status' = Followups(L, U, V)
    /\ UNCHANGED <<retries, empties, job, dropped, lane, finalAt, control, seenFinal>>

\* _ingest_day stores a match of the day, with status p, and enqueues its
\* followups; for a historical day with a week-old backlog it only retires.
\* The live context and the odds poll do the same to matches they know.
IngestDay(m, p, U, V) ==
    /\ Idle
    /\ phase' = [phase EXCEPT ![m] = p]
    /\ \E found \in {{}, {m}} : status' = Followups(found, U, V)
    /\ UNCHANGED <<retries, empties, job, dropped, lane, listed, finalAt, control,
                   seenFinal>>

\* close_stale_prematch_enrichment, after the repair of a day.
CloseStale(m) ==
    /\ Idle
    /\ Detail(m) \in Tasks
    /\ status[Detail(m)] \in Open
    /\ phase[m] \in {"before", "play"}
    /\ status' = [status EXCEPT ![Detail(m)] = "coverage_empty"]
    /\ UNCHANGED <<retries, empties, job, dropped, lane, matchVars>>

\* skip_reconstructable_lookups: endpoints that are never fetched.
SkipLookup(t) ==
    /\ Idle
    /\ Kind(t) = "global"
    /\ status[t] \in Claimable
    /\ status' = [status EXCEPT ![t] = "not_supported"]
    /\ UNCHANGED <<retries, empties, job, dropped, lane, matchVars>>

\* _prune_finishing: a match that has ended and has no open odds, predictions
\* or head to head task leaves the list, closing fetch or not.
PruneFinishing(m) ==
    /\ Idle /\ lane = "tick"
    /\ listed[m] = "finishing"
    /\ phase[m] \in Enrichable
    /\ <<"prematch", m>> \in Tasks => status[<<"prematch", m>>] \notin Open
    /\ listed' = [listed EXCEPT ![m] = "off"]
    /\ UNCHANGED <<taskVars, job, dropped, lane, phase, finalAt, control, seenFinal>>

-----------------------------------------------------------------------------
(* Claims.                                                                 *)

\* _mark_claimed, for the tasks of one transaction.
Claim(tasks, mode) ==
    /\ status' = [t \in Tasks |-> IF t \in tasks THEN "in_progress" ELSE status[t]]
    /\ job' = [t \in Tasks |-> IF t \in tasks THEN mode ELSE job[t]]
    /\ dropped' = dropped \ tasks
    /\ UNCHANGED <<retries, empties, lane, matchVars>>

\* detail_refresh_due: a closed task is opened again on the live cadence, and
\* once after the end.
LiveDetailDue(m) ==
    status[Detail(m)] \in Terminal /\ phase[m] = "finished" => m \notin finalAt

\* _refresh_detail, several of a batch at once.
ClaimLive(m) ==
    /\ lane = "tick"
    /\ Detail(m) \in Tasks
    /\ \A t \in Tasks : job[t] \in {"none", "live"}
    /\ listed[m] # "off"
    /\ status[Detail(m)] # "in_progress"
    /\ LiveDetailDue(m)
    /\ Claim({Detail(m)}, "live")

\* The one-shot drains of the live lane: claim_live_fixture_task and
\* claim_live_param_task, for tasks of a listed match.
ClaimScoped(t) ==
    /\ Idle /\ lane = "tick"
    /\ \E m \in Matches : listed[m] # "off"
    /\ Kind(t) \in {"prematch", "injuries", "rounds", "global"}
    /\ Kind(t) = "prematch" => listed[t[2]] # "off"
    /\ status[t] \in Claimable
    /\ Claim({t}, "scoped")

\* claim_control_refresh_task, a day after the last fetch.
ClaimControl(m) ==
    /\ Idle
    /\ Detail(m) \in Tasks
    /\ status[Detail(m)] = "complete"
    /\ control[m] = "armed"
    /\ Claim({Detail(m)}, "control")

\* Mutant: whatever is not complete is claimed.
ClaimOneAny(t) ==
    /\ Idle
    /\ Kind(t) # "global"
    /\ Kind(t) = "detail" => phase[t[2]] \in Enrichable
    /\ status[t] \notin {"none", "in_progress", "complete"}
    /\ Claim({t}, "plain")

\* claim_enrichment_task, claim_half_stats_task, claim_injuries_task,
\* claim_rounds_task and the prematch claims: one task at a time, a detail task
\* only of a match that has ended.
ClaimOne(t) ==
    /\ Idle
    /\ Kind(t) # "global"
    /\ Kind(t) = "detail" => phase[t[2]] \in Enrichable
    /\ status[t] \in Claimable
    /\ Claim({t}, "plain")

\* claim_global_batch
ClaimGlobals(tasks) ==
    /\ Idle
    /\ tasks # {}
    /\ \A t \in tasks : Kind(t) = "global" /\ status[t] \in Claimable
    /\ Claim(tasks, "plain")

-----------------------------------------------------------------------------
(* How a claimed task ends.                                                *)

Ends(t, st) ==
    /\ status' = [status EXCEPT ![t] = st]
    /\ job' = [job EXCEPT ![t] = "none"]
    /\ UNCHANGED dropped

\* _stamp_detail: the live lane marks the closing fetch when the match, as it is
\* now stored, has ended; a transaction of its own, whose error the batch drops.
Stamp(t, p) ==
    \/ UNCHANGED finalAt
    \/ job[t] = "live" /\ p \in Enrichable /\ finalAt' = finalAt \cup {t[2]}

\* error_retry_status
FailStatus(n) == IF n > RetryLimit THEN "permanent_error" ELSE "retryable_error"

\* empty_retry_status
EmptyStatus(n) == IF n >= EmptyLimit THEN "coverage_empty" ELSE "retryable_error"

\* Counters stop where they no longer matter.
Count(n, limit) == IF n < limit THEN n + 1 ELSE n

\* _enrich_task on a match that is off: closed without a fetch.
SkipIrregular(t) ==
    /\ job[t] # "none" /\ Kind(t) = "detail"
    /\ phase[t[2]] = "irregular"
    /\ Ends(t, "coverage_empty")
    /\ Stamp(t, "irregular")
    /\ UNCHANGED <<retries, empties, lane, phase, listed, control, seenFinal>>

Fetches(t) ==
    /\ job[t] # "none"
    /\ Kind(t) = "detail" => phase[t[2]] # "irregular"

\* Mutant: control_done is never set.
ControlAfterArms(mode) == "armed"

\* control_done: every fetch but the control refresh itself asks for one.
ControlAfter(mode) == IF mode = "control" THEN "done" ELSE "armed"

\* The detail answers and is stored, with the match's status p; the half-time
\* statistics are enqueued where the coverage has them.
DetailOk(t, p) ==
    /\ Fetches(t) /\ Kind(t) = "detail"
    /\ phase' = [phase EXCEPT ![t[2]] = p]
    /\ control' = [control EXCEPT ![t[2]] = ControlAfter(job[t])]
    /\ seenFinal' = IF p = "finished" THEN seenFinal \cup {t[2]}
                                      ELSE seenFinal \ {t[2]}
    /\ Stamp(t, p)
    /\ \E st \in {"complete", "coverage_empty"},
          half \in {{}, {<<"half", t[2]>>} \cap Tasks} :
         status' = [Ensured(status, half) EXCEPT ![t] = st]
    /\ job' = [job EXCEPT ![t] = "none"]
    /\ UNCHANGED <<retries, empties, dropped, lane, listed>>

\* Any other endpoint answers and its rows are stored.
FetchOk(t) ==
    /\ Fetches(t) /\ Kind(t) # "detail"
    /\ Ends(t, "complete")
    /\ UNCHANGED <<retries, empties, lane, matchVars>>

\* The vendor has nothing, or the league has no coverage.  Only the live lane
\* asks again.
FetchEmpty(t) ==
    /\ Fetches(t) /\ Kind(t) # "rounds"
    /\ IF job[t] = "scoped"
       THEN /\ empties' = [empties EXCEPT ![t] = Count(@, EmptyLimit)]
            /\ Ends(t, EmptyStatus(empties[t] + 1))
       ELSE /\ Ends(t, "coverage_empty")
            /\ UNCHANGED empties
    /\ IF Kind(t) = "detail" THEN Stamp(t, phase[t[2]]) ELSE UNCHANGED finalAt
    /\ UNCHANGED <<retries, lane, phase, listed, control, seenFinal>>

\* fail_task: an HTTP error, an invalid answer or a failed store.
FetchFails(t) ==
    /\ Fetches(t)
    /\ retries' = [retries EXCEPT ![t] = Count(@, RetryLimit + 1)]
    /\ Ends(t, FailStatus(retries[t] + 1))
    /\ UNCHANGED <<empties, lane, matchVars>>

\* fail_task with quota_exhausted: not counted.
QuotaOut(t) ==
    /\ Fetches(t)
    /\ Ends(t, "retryable_error")
    /\ UNCHANGED <<retries, empties, lane, matchVars>>

\* A missing match, unusable parameters, or a detail the database refuses.
GivesUp(t) ==
    /\ Fetches(t)
    /\ Ends(t, "permanent_error")
    /\ UNCHANGED <<retries, empties, lane, matchVars>>

\* The fetch is over and its task is still in progress.
LeftBehind(t) ==
    /\ job' = [job EXCEPT ![t] = "none"]
    /\ dropped' = dropped \cup {t}
    /\ UNCHANGED status

\* An error nobody expected, of the database mostly, in a fetch of a batch: gather
\* keeps it with the results, and of those only AuthBlockedError and
\* SpendWindowClosed are raised again (_refresh_detail_batch, _run_batch).
\* Anywhere else it ends the process: Crash.
Dropped(t) ==
    /\ job[t] = "live" \/ (job[t] = "plain" /\ Kind(t) = "global")
    /\ LeftBehind(t)
    /\ UNCHANGED <<retries, empties, lane, matchVars>>

\* SpendWindowClosed.  release_in_progress_task gives the task back; but
\* _ingest_rounds does not catch it, and _process_injuries goes on to read
\* rows it never fetched, which ends the process.
WindowCloses(t) ==
    /\ lane = "history"
    /\ Fetches(t)
    /\ CASE Kind(t) = "rounds" ->
              /\ LeftBehind(t)
              /\ UNCHANGED lane
         [] Kind(t) = "injuries" ->
              /\ status' = [status EXCEPT ![t] = "pending"]
              /\ Dies
         [] OTHER ->
              /\ Ends(t, "pending")
              /\ UNCHANGED lane
    /\ UNCHANGED <<retries, empties, matchVars>>

Answered(t) ==
    \/ FetchOk(t)
    \/ \E p \in Phases : DetailOk(t, p)

JobEnds(t) ==
    \/ Answered(t) \/ SkipIrregular(t) \/ FetchEmpty(t) \/ FetchFails(t)
    \/ QuotaOut(t) \/ GivesUp(t) \/ WindowCloses(t) \/ Dropped(t)

-----------------------------------------------------------------------------
Polls == \E L, U \in SUBSET Matches, V \in SUBSET Leagues : Poll(L, U, V)

Next ==
    \/ Start \/ Crash \/ SwitchLane \/ Polls
    \/ \E m \in Matches :
        \/ CloseStale(m) \/ PruneFinishing(m)
        \/ ClaimLive(m) \/ ClaimControl(m)
        \/ \E p \in Phases, U \in SUBSET Matches, V \in SUBSET Leagues :
             IngestDay(m, p, U, V)
    \/ \E tasks \in SUBSET {t \in Tasks : Kind(t) = "global"} : ClaimGlobals(tasks)
    \/ \E t \in Tasks :
        SkipLookup(t) \/ ClaimScoped(t) \/ ClaimOne(t) \/ JobEnds(t)

Spec == Init /\ [][Next]_vars

\* A poll that finds an ended match no longer listed as live.
PollDrops(m) ==
    /\ listed[m] = "live" /\ phase[m] = "finished"
    /\ \E L \in SUBSET (Matches \ {m}) : Poll(L, {}, {})

\* Requests time out, the container is restarted, ticks poll and prune.  The
\* queue is served in order, on days whose quota leaves a surplus, and the
\* vendor answers now and then.
Fairness ==
    /\ WF_vars(Start)
    /\ \A t \in Tasks : WF_vars(JobEnds(t))
    /\ SF_vars(SwitchLane /\ lane = "history")
    /\ \A m \in Matches :
        /\ SF_vars(PollDrops(m)) /\ SF_vars(PruneFinishing(m))
        /\ SF_vars(ClaimControl(m))
    /\ \A t \in {u \in Tasks : Kind(u) \in {"detail", "prematch"}} :
        /\ SF_vars(ClaimOne(t))
        /\ \A mode \in {"plain", "control"} : SF_vars(job[t] = mode /\ Answered(t))

FairSpec == Spec /\ Fairness

-----------------------------------------------------------------------------
\* While the worker runs, a task in progress is one it is fetching, or one that a
\* fetch has left behind in one of two ways: its error was dropped by the batch, or
\* the history window closed on a rounds task.  No other end of a fetch, no restart
\* and no housekeeping leaves a claim behind, and none takes a task away from the
\* fetch that has it.
ClaimsAreOwned ==
    \A t \in Tasks :
        /\ job[t] # "none" => status[t] = "in_progress" /\ t \notin dropped
        /\ lane # "down" /\ status[t] = "in_progress" => job[t] # "none" \/ t \in dropped

\* "Return a claimed task to pending when the history window closes
\* mid-request" (release_in_progress_task): between handlers no task is left
\* in progress, where no later claim would look for it.
ClosedWindowReturnsTheTask ==
    Idle => \A t \in Tasks : status[t] # "in_progress"

\* "the FT detail row was stored" (settle.py, _DETAIL_REFRESHED): a finished
\* match whose detail task counts as refreshed has a detail that was fetched
\* after the end.
RefreshedMeansFinal ==
    \A m \in Matches :
        Detail(m) \in Tasks /\ phase[m] = "finished"
            /\ status[Detail(m)] \in {"complete", "coverage_empty"}
        => m \in seenFinal

\* Outside the live lane nothing reopens what was given up or closed as empty:
\* a terminal task that is neither complete nor of a listed match stays.
GivenUpStays ==
    [][\A t \in Tasks :
         /\ status[t] \in {"coverage_empty", "not_supported", "permanent_error"}
         /\ status'[t] # status[t]
         => Kind(t) = "detail" /\ lane = "tick" /\ listed[t[2]] # "off"]_vars

\* Once a match has ended for good its detail task comes to rest, whatever failed,
\* closed or crashed before, and if it rests as complete it has had its control
\* refresh; unless a fetch of the live lane has dropped it for ever: no claim looks
\* at a task in progress, and only the next start gives it back (requeue_orphans).
FinishedMatchesRest ==
    \A m \in Matches : Detail(m) \in Tasks =>
        LET detail == status[Detail(m)]
        IN  <>[](/\ phase[m] = "finished" /\ detail # "none"
                 /\ ~(detail = "in_progress" /\ Detail(m) \in dropped))
            => <>[](detail \in Terminal /\ (detail = "complete" => control[m] = "done"))
===============================================================================
