---------------------------- MODULE Dictionaries ----------------------------
(***************************************************************************)
(* The vendor's dictionaries (services/ingest/catalog.py, priority 1) and  *)
(* their tables (services/ingest/persist.py).  A pass goes through the     *)
(* endpoints in the order their tables refer to each other and fetches     *)
(* each that is due, as long as the quota is above its buffer; a failure   *)
(* leaves the endpoint due and the pass goes on.  Match lists meanwhile    *)
(* store the leagues and countries they mention.                           *)
(***************************************************************************)
EXTENDS Integers, Sequences

CONSTANTS
    Steps,          \* the endpoints in the order of a pass
    RetryLimit,     \* ERROR_RETRY_LIMIT
    MaxFailures,    \* failed fetches, over the whole run
    MaxOutages      \* times the quota falls to its buffer

VARIABLES
    at,             \* the pass's place in Steps; 0 between passes
    status,         \* the endpoints' tasks
    errors,         \* their error_retries; never reset
    fresh,          \* completed on the current UTC day
    room,           \* the quota is above its buffer
    passed,         \* a pass has ended on the current UTC day
    country,        \* the country row: "absent", or its code "blank", "known"
    league,         \* the league row names the country
    coverage,       \* the season's flags: "absent", "unknown" or "known"
    failures, outages

tables == <<country, league, coverage>>
tasks == <<status, errors, fresh>>
vars == <<at, tasks, room, passed, tables, failures, outages>>

Endpoints == {Steps[i] : i \in DOMAIN Steps}

Init ==
    /\ at = 0
    /\ status = [e \in Endpoints |-> "pending"]
    /\ errors = [e \in Endpoints |-> 0]
    /\ fresh = [e \in Endpoints |-> FALSE]
    /\ room = TRUE /\ passed = FALSE
    /\ country = "absent" /\ league = FALSE /\ coverage = "absent"
    /\ failures = 0 /\ outages = 0

-----------------------------------------------------------------------------
\* Mutant: a failed endpoint is not due again.
IsDueUnlessFailed(e) ==
    status[e] = "pending" \/ (status[e] = "complete" /\ ~fresh[e])

\* needs_refresh.
IsDue(e) ==
    \/ status[e] \in {"pending", "retryable_error"}
    \/ status[e] = "complete" /\ ~fresh[e]

\* Mutant: the leagues do not bring their countries.
UpsertLeaguesOnly ==
    /\ UNCHANGED country
    /\ league' = TRUE
    /\ coverage' = "known"

\* upsert_leagues stores the countries its rows name before the rows.
UpsertLeagues ==
    /\ country' = "known"
    /\ league' = TRUE
    /\ coverage' = "known"

\* upsert_countries writes code and flag as they come.
UpsertCountries ==
    /\ country' = "known"
    /\ UNCHANGED <<league, coverage>>

\* The persist function of an endpoint; the others have tables of their own.
Persist(e) ==
    CASE e = "leagues" -> UpsertLeagues
      [] e = "countries" -> UpsertCountries
      [] OTHER -> UNCHANGED tables

-----------------------------------------------------------------------------
StartPass ==
    /\ at = 0
    /\ at' = 1
    /\ UNCHANGED <<tasks, room, passed, tables, failures, outages>>

\* The step ends; the last one ends the pass.
Onward ==
    /\ at' = IF at = Len(Steps) THEN 0 ELSE at + 1
    /\ passed' = (passed \/ at = Len(Steps))

SkipStep ==
    /\ at > 0 /\ room
    /\ ~IsDue(Steps[at])
    /\ Onward
    /\ UNCHANGED <<tasks, room, tables, failures, outages>>

\* The quota is at its buffer: the rest of the pass is left out.
StopForQuota ==
    /\ at > 0 /\ ~room
    /\ at' = 0
    /\ passed' = TRUE
    /\ UNCHANGED <<tasks, room, tables, failures, outages>>

FetchStep ==
    /\ at > 0 /\ room
    /\ IsDue(Steps[at])
    /\ Persist(Steps[at])
    /\ status' = [status EXCEPT ![Steps[at]] = "complete"]
    /\ fresh' = [fresh EXCEPT ![Steps[at]] = TRUE]
    /\ Onward
    /\ UNCHANGED <<errors, room, failures, outages>>

\* An HTTP or a persist error; past the limit the endpoint is given up.
StepFails ==
    LET e == Steps[at]
    IN  /\ at > 0 /\ room
        /\ IsDue(e)
        /\ failures < MaxFailures
        /\ failures' = failures + 1
        /\ errors' = [errors EXCEPT ![e] = @ + 1]
        /\ status' = [status EXCEPT ![e] = IF errors[e] + 1 > RetryLimit
                                           THEN "permanent_error"
                                           ELSE "retryable_error"]
        /\ Onward
        /\ UNCHANGED <<fresh, room, tables, outages>>

\* The call the planner still allowed is refused: not counted.
QuotaRefuses ==
    /\ at > 0 /\ room
    /\ IsDue(Steps[at])
    /\ outages < MaxOutages
    /\ outages' = outages + 1
    /\ room' = FALSE
    /\ status' = [status EXCEPT ![Steps[at]] = "retryable_error"]
    /\ Onward
    /\ UNCHANGED <<errors, fresh, tables, failures>>

-----------------------------------------------------------------------------
\* Other callers spend down to the buffer.
QuotaSpent ==
    /\ room /\ outages < MaxOutages
    /\ outages' = outages + 1
    /\ room' = FALSE
    /\ UNCHANGED <<at, tasks, passed, tables, failures>>

\* A day is longer than a pass, and brings new quota.
Midnight ==
    /\ passed
    /\ fresh' = [e \in Endpoints |-> FALSE]
    /\ room' = TRUE /\ passed' = FALSE
    /\ UNCHANGED <<at, status, errors, tables, failures, outages>>

\* on_conflict_do_nothing on league_seasons.
ListSeason == IF coverage = "absent" THEN "unknown" ELSE coverage

\* _upsert_nested_leagues of a match list.  The country comes by name only,
\* so its code and flag are blanked until the next pass.
StoreList ==
    /\ country' = "blank"
    /\ league' = TRUE
    /\ coverage' = ListSeason
    /\ UNCHANGED <<at, tasks, room, passed, failures, outages>>

Pass == StartPass \/ SkipStep \/ StopForQuota \/ FetchStep

Next == Pass \/ StepFails \/ QuotaRefuses \/ QuotaSpent \/ Midnight \/ StoreList

Spec == Init /\ [][Next]_vars

\* The scheduler runs the pass again and again; days go by.
FairSpec == Spec /\ WF_vars(Pass) /\ WF_vars(Midnight)

-----------------------------------------------------------------------------
TypeOK ==
    /\ at \in 0..Len(Steps)
    /\ status \in [Endpoints -> {"pending", "retryable_error",
                                 "permanent_error", "complete"}]
    /\ fresh \in [Endpoints -> BOOLEAN]
    /\ country \in {"absent", "blank", "known"}
    /\ coverage \in {"absent", "unknown", "known"}

\* A league row finds its country, whichever of the dictionary and the match
\* lists comes first (the column is a foreign key).
LeagueHasItsCountry == league => country # "absent"

\* An endpoint that is due is fetched, after failures and outages of the
\* quota, as long as it has failed no more than RetryLimit times in all.
DictionariesAreRefreshed ==
    \A e \in Endpoints : ~fresh[e] ~> fresh[e]
=============================================================================
