---------------------------- MODULE MCWorkerRules ----------------------------
(***************************************************************************)
(* The worker's rules, each checked by itself: `part' is chosen at the     *)
(* start and only that part moves; the others keep one initial state.  The *)
(* grounds of the teams are the module's own variables, the other parts    *)
(* are instances; the three parts of the task queue share theirs.          *)
(***************************************************************************)
EXTENDS GlobalCatalog

CONSTANTS
    \* QuotaDay, QuotaPlan
    DayEnd, Target, IdlePoll, Fast, Span, DayBuffer, Oneshots, FewOneshots, FinalCalls,
    ContextCap, CreditTicks, Scale, Kickoffs, MaxMatches, DayCalls, MinuteCap, Batch,
    MaxUnplanned,
    \* QuotaReset
    DayLength, ResetDays, Probe, Refresh, IdleCap, Limit, ResetBuffer, ResetCalls, Lags,
    \* Backfill
    PastDays, RetryLimit, MaxFailures, MaxRefusals, MaxStops,
    \* MatchDetail
    LineupPlayers, Nobody, MaxEvents,
    \* MatchExtras
    MappedMatches, InjuredPlayers, MaxLinks,
    \* EtlQueue
    QueuedMatches, QueuedLeagues, BatchLeagues, QueueRetries, EmptyLimit,
    \* Dictionaries
    DictionaryRetries, MaxMisses, MaxOutages

VARIABLES
    part,
    \* QuotaDay
    schedule, now, clock, left, polled, finishing, balance, unplanned, overdrawn, window,
    pc, fitted,
    \* QuotaReset
    instant, used, carried, lag, client, quota, answer, calls, next, at, started, made,
    refused,
    \* Backfill
    step, todo, day, dayTask, errors, fresh, kept, said, detail, kids, old, cursor,
    todayDone, looked, failures, refusals, stops,
    \* MatchDetail
    names, clubs, events, lineup, figures, stats,
    \* MatchExtras
    known, stubs, mapping, mapTask, oddsTask, priced, injuries, links,
    \* EtlQueue
    status, retries, empties, job, dropped, lane, phase, listed, finalAt, control, seenFinal,
    \* Dictionaries
    place, endpoints, failed, today, room, passed, country, league, coverage, misses,
    outages

Quota == INSTANCE QuotaDay WITH Buffer <- DayBuffer, MaxCalls <- DayCalls

Reset == INSTANCE QuotaReset WITH
    Days <- ResetDays, Buffer <- ResetBuffer, MaxCalls <- ResetCalls,
    now <- instant, status <- answer, clock <- next, pc <- at

Past == INSTANCE Backfill WITH
    Days <- PastDays, pc <- step, task <- dayTask, stored <- kept, vendor <- said

Details == INSTANCE MatchDetail WITH
    Players <- LineupPlayers, None <- Nobody

Extras == INSTANCE MatchExtras WITH
    Matches <- MappedMatches, Players <- InjuredPlayers

\* The fetches that follow a match; the details of the live lane run in a batch.
Matchday == INSTANCE EtlQueue WITH
    Matches <- QueuedMatches, Leagues <- {}, Kinds <- {"half", "detail"},
    RetryLimit <- QueueRetries

\* The endpoints fetched one at a time.
Singles == INSTANCE EtlQueue WITH
    Matches <- QueuedMatches, Leagues <- QueuedLeagues,
    Kinds <- {"prematch", "injuries", "rounds"}, RetryLimit <- QueueRetries

\* The catalog, whose tasks are claimed and fetched together.
Globals == INSTANCE EtlQueue WITH
    Matches <- QueuedMatches, Leagues <- BatchLeagues, Kinds <- {"global"},
    RetryLimit <- QueueRetries

Dictionary == INSTANCE Dictionaries WITH
    Steps <- <<"countries", "leagues", "live_bets">>, RetryLimit <- DictionaryRetries,
    MaxFailures <- MaxMisses, at <- place, status <- endpoints,
    errors <- failed, fresh <- today, failures <- misses

\* What the proofs about these parts assume of their constants.
ASSUME GroundConstants == ConstantsOK
ASSUME PastConstants == Past!ConstantsOK
ASSUME ResetConstants == Reset!ConstantsOK
\* The units of the planner fit one another.
ASSUME QuotaConstants == Quota!PlanConstantsOK /\ Quota!ConstantsOK

quotaVars == <<schedule, now, clock, left, polled, finishing, balance, unplanned,
               overdrawn, window, pc, fitted>>

resetVars == <<instant, used, carried, lag, client, quota, answer, calls, next, at,
               started, made, refused>>
pastVars == <<step, todo, day, dayTask, errors, fresh, kept, said, detail, kids,
              old, cursor, todayDone, looked, failures, refusals, stops>>
detailVars == <<names, clubs, events, lineup, figures, stats>>
extraVars == <<known, stubs, mapping, mapTask, oddsTask, priced, injuries, links>>
queueVars == <<status, retries, empties, job, dropped, lane, phase, listed, finalAt,
               control, seenFinal>>
dictionaryVars == <<place, endpoints, failed, today, room, passed, country, league,
                    coverage, misses, outages>>
allVars == <<part, vars, quotaVars, resetVars, pastVars, detailVars, extraVars,
             queueVars, dictionaryVars>>

-----------------------------------------------------------------------------
MCInit ==
    /\ part \in {"quota", "reset", "past", "grounds", "detail", "extras", "matchday",
                 "singles", "globals", "dictionaries"}
    /\ Quota!Init /\ (part # "quota" => left = 0 /\ schedule = [k \in Kickoffs |-> 0])
    /\ Reset!Init /\ (part # "reset" => carried = 0 /\ lag = "none")
    /\ Past!Init /\ (part # "past" => detail = [d \in PastDays |-> "none"]
                                      /\ said = [d \in PastDays |-> "final"])
    /\ Init
    /\ part # "grounds" => /\ vendor.ground = CHOOSE c \in Countries : TRUE
                           /\ \A t \in Teams : vendor.home[t] = vendor.ground
    /\ Details!Init /\ Extras!Init /\ Dictionary!Init
    /\ CASE part = "matchday" -> Matchday!Init
         [] part = "globals" -> Globals!Init
         [] OTHER -> Singles!Init

MCNext ==
    /\ UNCHANGED part
    /\ \/ /\ part = "quota" /\ Quota!Next
          /\ UNCHANGED <<vars, resetVars, pastVars, detailVars, extraVars,
                         queueVars, dictionaryVars>>
       \/ /\ part = "reset" /\ Reset!Next
          /\ UNCHANGED <<vars, quotaVars, pastVars, detailVars, extraVars,
                         queueVars, dictionaryVars>>
       \/ /\ part = "past" /\ Past!Next
          /\ UNCHANGED <<vars, quotaVars, resetVars, detailVars, extraVars,
                         queueVars, dictionaryVars>>
       \/ /\ part = "grounds" /\ Next
          /\ UNCHANGED <<quotaVars, resetVars, pastVars, detailVars, extraVars,
                         queueVars, dictionaryVars>>
       \/ /\ part = "detail" /\ Details!Next
          /\ UNCHANGED <<vars, quotaVars, resetVars, pastVars, extraVars,
                         queueVars, dictionaryVars>>
       \/ /\ part = "extras" /\ Extras!Next
          /\ UNCHANGED <<vars, quotaVars, resetVars, pastVars, detailVars,
                         queueVars, dictionaryVars>>
       \/ /\ \/ part = "matchday" /\ Matchday!Next
             \/ part = "singles" /\ Singles!Next
             \/ part = "globals" /\ Globals!Next
          /\ UNCHANGED <<vars, quotaVars, resetVars, pastVars, detailVars,
                         extraVars, dictionaryVars>>
       \/ /\ part = "dictionaries" /\ Dictionary!Next
          /\ UNCHANGED <<vars, quotaVars, resetVars, pastVars, detailVars,
                         extraVars, queueVars>>

MCSpec == MCInit /\ [][MCNext]_allVars

-----------------------------------------------------------------------------
(* What the run checks, with the types of the part it is about; more is    *)
(* said where each is defined.  SharedStadiumIsAsked is GlobalCatalog's own. *)

\* QuotaDay: no plan promises more than the day has left.
PlanIsKept == part = "quota" => Quota!TypeOK /\ Quota!PlanFits
\* QuotaDay: every score tick is made but for calls nobody reserved or that admitted
\* handlers took of the scores' reserve.  (With it the types of three other parts.)
DayLastsToMidnight ==
    /\ part = "quota" => Quota!ScoresReachMidnight
    /\ part = "reset" => Reset!TypeOK
    /\ part = "past" => Past!TypeOK
    /\ part = "grounds" => TypeOK
\* QuotaReset: a refused call is not repeated before the next probe.
RefusedOncePerProbe == Reset!RefusedOncePerProbe
\* Backfill: the cursor passes a day only with the details of its matches.
PassedDaysHaveDetails == Past!PassedDaysHaveDetails
\* MatchDetail, MatchExtras, Dictionaries: every row stored finds the match, the
\* players, the clubs or the country it names, whatever came first.
RowsHaveTheirParents ==
    /\ part = "detail" => Details!TypeOK /\ Details!DetailIsWhole
    /\ part = "extras" => Extras!ExtrasAreWhole
    /\ part = "dictionaries" => Dictionary!TypeOK /\ Dictionary!LeagueHasItsCountry
\* EtlQueue: while the worker runs, a task in progress is one it is fetching, or one
\* whose error a batch dropped, or rounds cut by the closing window.
ClaimsAreOwned ==
    /\ part = "matchday" => Matchday!TypeOK /\ Matchday!ClaimsAreOwned
    /\ part = "singles" => Singles!TypeOK /\ Singles!ClaimsAreOwned
    /\ part = "globals" => Globals!TypeOK /\ Globals!ClaimsAreOwned
=============================================================================
