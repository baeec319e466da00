--------------------------- MODULE MCWorkerProgress ---------------------------
(***************************************************************************)
(* What the worker must bring to an end: the tasks of a queue that passes  *)
(* from process to process, the advisor's price requests, the days of the  *)
(* past, the catalog and the dictionaries.  `part' is chosen at the start  *)
(* and only that part moves; the others keep one initial state.  The parts *)
(* "lock" and "cut" are the same processes, without and with a lock        *)
(* session that is cut under one of them.                                  *)
(***************************************************************************)
EXTENDS WriterLock

CONSTANTS
    LockFaults,     \* crashes and failed run transactions of the part "lock"
    \* OddsRefresh
    Fixtures, MaxGoals, Books, MaxPolls, MaxFailures

VARIABLES
    part,
    \* OddsRefresh
    goals, feed, scores, stamp, made, wanted, unserved, again, event, deaf, drainer, ids,
    unfetched, got, advisor, book, selected, quotes, cands, polls, errored, called,
    \* Backfill
    step, todo, day, task, errors, fresh, listed, vendor, detail, kids, old,
    cursor, todayDone, looked, failures, refusals, halts,
    \* GlobalCatalog
    known, row, batch, seen, team, stadium, player, answered, lost, overlooked,
    troubles, restarts,
    \* Dictionaries
    at, status, failed, today, room, passed, country, league, coverage, misses,
    outages

Lock == INSTANCE WriterLock WITH MaxFaults <- LockFaults, MaxDrops <- 0

Odds == INSTANCE OddsRefresh WITH
    board <- scores, asked <- called, worker <- drainer, todo <- unfetched,
    failures <- errored

\* What the proofs about these parts assume of their constants.
ASSUME LockConstants == ConstantsOK /\ LockFaults \in Nat
ASSUME OddsConstants == Odds!ConstantsOK

Past == INSTANCE Backfill WITH
    Days <- {1, 2}, RetryLimit <- 1, MaxFailures <- 1, MaxRefusals <- 0, MaxStops <- 0,
    pc <- step, stored <- listed, stops <- halts

Catalog == INSTANCE GlobalCatalog WITH
    Teams <- {"t1"}, Players <- {"p1", "p2"}, Coaches <- {"c1"}, Countries <- {"x"},
    Known <- {"p1"}, MaxRoom <- 2, MaxFaults <- 1, MaxRestarts <- 1,
    vendor <- known, task <- row, faults <- troubles

Dictionary == INSTANCE Dictionaries WITH
    Steps <- <<"countries", "leagues", "live_bets">>, RetryLimit <- 2,
    MaxFailures <- 2, MaxOutages <- 1, errors <- failed, fresh <- today,
    failures <- misses

oddsVars == <<goals, feed, scores, stamp, made, wanted, unserved, again, event, deaf,
              drainer, ids, unfetched, got, advisor, book, selected, quotes, cands,
              polls, errored, called>>
pastVars == <<step, todo, day, task, errors, fresh, listed, vendor, detail, kids, old,
              cursor, todayDone, looked, failures, refusals, halts>>
catalogVars == <<known, row, batch, seen, team, stadium, player, answered, lost,
                 overlooked, troubles, restarts>>
dictionaryVars == <<at, status, failed, today, room, passed, country, league,
                    coverage, misses, outages>>
allVars == <<part, vars, oddsVars, pastVars, catalogVars, dictionaryVars>>

-----------------------------------------------------------------------------
MCInit ==
    /\ part \in {"lock", "cut", "odds", "past", "catalog", "dictionaries"}
    /\ Init /\ Odds!Init /\ Past!Init /\ Catalog!Init /\ Dictionary!Init
    /\ part # "past" => detail = [d \in {1, 2} |-> "none"]
                        /\ vendor = [d \in {1, 2} |-> "final"]

MCNext ==
    /\ UNCHANGED part
    /\ \/ /\ part = "lock" /\ Lock!Next
          /\ UNCHANGED <<oddsVars, pastVars, catalogVars, dictionaryVars>>
       \/ /\ part = "cut" /\ Next
          /\ UNCHANGED <<oddsVars, pastVars, catalogVars, dictionaryVars>>
       \/ /\ part = "odds" /\ Odds!Next
          /\ UNCHANGED <<vars, pastVars, catalogVars, dictionaryVars>>
       \/ /\ part = "past" /\ Past!Next
          /\ UNCHANGED <<vars, oddsVars, catalogVars, dictionaryVars>>
       \/ /\ part = "catalog" /\ Catalog!Next
          /\ UNCHANGED <<vars, oddsVars, pastVars, dictionaryVars>>
       \/ /\ part = "dictionaries" /\ Dictionary!Next
          /\ UNCHANGED <<vars, oddsVars, pastVars, catalogVars>>

\* The fairness of each part, of the part that moves.
MCSpec ==
    /\ MCInit /\ [][MCNext]_allVars
    /\ \A w \in Workers : WF_vars(part = "lock" /\ Lock!Work(w))
    /\ WF_vars(part = "lock" /\ Lock!ServerNotices)
    /\ WF_oddsVars(part = "odds" /\ Odds!DrainOnTick)
    /\ WF_oddsVars(part = "odds" /\ Odds!FetchScore)
    /\ WF_oddsVars(part = "odds" /\ Odds!FetchPrice)
    /\ WF_oddsVars(part = "odds" /\ Odds!StoreBoth)
    /\ WF_oddsVars(part = "odds" /\ Odds!Clear)
    /\ WF_pastVars(part = "past" /\ Past!Pass)
    /\ WF_pastVars(part = "past" /\ Past!ForwardDone)
    /\ WF_pastVars(part = "past" /\ Past!Midnight)
    /\ \A d \in {1, 2} : /\ WF_pastVars(part = "past" /\ Past!CloseDetail(d))
                         /\ WF_pastVars(part = "past" /\ Past!CloseKids(d))
    /\ WF_catalogVars(part = "catalog" /\ Catalog!ClaimBatch)
    /\ \A k \in Catalog!Keys : WF_catalogVars(part = "catalog" /\ Catalog!Ends(k))
    /\ WF_dictionaryVars(part = "dictionaries" /\ Dictionary!Pass)
    /\ WF_dictionaryVars(part = "dictionaries" /\ Dictionary!Midnight)

-----------------------------------------------------------------------------
(* What the run checks; more is said where each is defined.                *)

\* WriterLock: as long as no session is cut, the processes together behave as one
\* writer (SingleWriter) and work every task to its end.  With it the types, and
\* that an open run row belongs to the holder.
One == INSTANCE SingleWriter WITH
    writer <- IF part = "lock" THEN writer ELSE None,
    queue <- IF part = "lock" THEN queue ELSE [t \in Tasks |-> "pending"]
BehavesAsOneWriter ==
    /\ One!Spec /\ (part = "lock" => One!TasksFinish)
    /\ [](part = "lock" => Lock!TypeOK /\ OpenRunHoldsLock)
\* OddsRefresh: the model is shown prices made at the score it is told.
PricedAtItsScore == part = "odds" => Odds!TypeOK /\ Odds!PricedAtItsScore
\* OddsRefresh: a request is served by a drain that read it, also when its wake-up was
\* not heard; or it goes with an earlier one that was.
RequestIsServed == Odds!RequestIsServed
\* Backfill: the cursor reaches the end of the history.
BackfillGoesOn == <>(part = "past" => cursor = 0)
\* GlobalCatalog: every task queued is closed in the end, and a player of a stored
\* squad gets his profile.
CatalogIsComplete == Catalog!CatalogIsComplete
\* Dictionaries: an endpoint that is due is fetched.
DictionariesAreRefreshed ==
    \A e \in Dictionary!Endpoints : part = "dictionaries" /\ ~today[e] ~> today[e]
===============================================================================
