# Predictor: a TLA+ model of its advisor and its worker

Predictor is an operator console for live football. This directory holds
TLA+ modules for the parts of it that keep state and change it concurrently or
over many steps, TLC configurations that check them on small instances, and TLAPS
proofs of the main safety properties for every instance. Paths below are relative
to the repository's package, `src/predictor/`.

## 1. Inventory

Three processes share one PostgreSQL database and talk through it alone, one
`NOTIFY` channel included.

| process | code | what it writes |
|---|---|---|
| worker | `worker`, `services/scheduler.py`, `services/ingest`, `services/queue`, `client` | matches, odds, statistics, catalogue; `etl_tasks`, `etl_cursors`, `etl_runs` |
| status | `api`, `services/advisor/recommend_ops.py`, `services/operator_bets.py`, `ui` | coupons, legs and strategies on the operator's request; the operator's own bets |
| advisor | `advisor/main.py`, `services/advisor` | coupons, legs, cycles, strategies, decisions, outboxes; odds refresh requests |

### The advisor

* **Recommendation coupons** (`recommend_ops.py`, `settle.py`, `tick.py`).
  State: strategies, coupons, legs. A cycle proposes coupons; the operator accepts,
  modifies, rejects, places or settles them by hand; the loop settles finished legs,
  corrects them for a day, expires what is late or whose score moved, and withdraws a
  strategy that loses money. *Hard:* the loop reads without a lock and writes after
  its last read, a confirmation reads the scores and commits later, a model call lies between "the match is free"
  and the insert, and the feed changes or reopens matches underneath. *Correct when:* the index of open
  legs refuses only what a settled coupon stands in the way of, closed coupons hold no match, statuses never go back, results converge to the final score, offers end.
* **Leg arithmetic** (`domain.py`, `sql.py`, `candidates.py`): three readers judge one market, live,
  after the period and in the ledger, from columns the vendor fills late or leaves
  blank. *Correct when* they agree, and a preview never says what settlement denies.
* **Model budget and cycle lock** (`budget.py`, `cycle.py`, `summary.py`, `lock.py`).
  *Hard:* read, call and insert are three steps; crashes, midnight and the summaries,
  which spend without the lock, come in between. *Correct when:* what cycles
  have spent is in the sum another one pays on, cycles and summaries stay near their limits, the lock
  is freed.
* **Candidate window and prompt** (`tick.py`, `llm_note.py`): a set of matches fires when
  it has stood still, is priced again, sent, and remembered. *Correct when:* a set that
  stands still is not paid for again and again nor lost below the floor, and the page
  explains a gap exactly where the tick leaves a match out.
* **Gate** (`tick.py`): hours, coupons and losses of a day. Counted before the call,
  inserted after it.
* **Books and promotion** (`sandbox.py`, `recommend.py`, `settle.py`): a bankroll for each
  strategy, stakes, corrections; the window of settled coupons a promotion
  rests on.
* **Outboxes** (`telegram.py`, `langfuse.py`): pending, sending, sent, abandoned. Notices
  are posted inside the transaction that marks them; traces are claimed,
  sent and marked in three steps.
* **Operator's own bets** (`operator_bets.py`): automatic and manual settlement against
  a match whose score flickers and whose events are late.
* **Next-goal board** (`live_board/domain.py`): which matches it shows, by rules of its own.

### The worker

* **ETL task queue** (`queue/*`, `task_completion.py` and the handlers). Tasks are ensured,
  claimed, completed, retried, given up, released, reopened and requeued. *Hard:*
  every handler returns its own claim on each of its error paths, a history window ends
  any request, the live lane reopens what others consider closed, and
  settlement reads the same rows as a signal.
* **Worker and writer lock** (`worker/main.py`, `lock.py`): a session lock on a connection of
  its own. *Hard:* crashes leave a ghost session; a cut session is not noticed.
* **Quota** (`services/quota.py`, `scheduler.py`, `client/football.py`): the plan of a day, the
  slots of a tick, the window of history between ticks, and three readings of one
  counter that may all be yesterday's. *Correct when:* the score ticks of the day can be
  paid to midnight, and a refused call is not repeated before the next probe.
* **Day tasks and cursor** (`ingest/fixtures.py`, `queue/core.py`, `queue/followups.py`):
  the history goes backwards one day at a time. *Correct when:* no day is passed without
  its details, and the cursor gets to the end.
* **Catalogue** (`queue/global_catalog.py`, `ingest/global_entities.py`,
  `persist_seasonal.py`): teams, squads, players, coaches, stadiums, each asked for once.
* **Dictionaries** (`ingest/catalog.py`, `persist_fixtures.py`): countries, leagues, odds names.
* **Match detail and extras** (`persist_children.py`, `enrichment.py`, `prematch.py`):
  which rows an answer stores and what they refer to.
* **Odds refresh** (`odds_refresh.py`, `candidate_refresh.py`, `odds_refresh_drain.py`):
  requested by the advisor before a call, drained by the worker.

Read-only or declarative: the other board tabs, match detail page, reports, HTML,
metrics, vendor schemas, settings. `PROJECT.json` lists every component with its status,
and the hazards line by line.

## 2. Modules

| module | content |
|---|---|
| `Settlement`, `LegRules` | operators: settling a leg and a coupon; the three readers, previews and proposals |
| `Recommendations` | strategies, coupons, legs; feed, operator, loop. Extends `Settlement` |
| `LlmBudget` | budget, cycle lock, summaries |
| `CandidateWindow`, `RecommendationGate`, `PromptNote` | what is sent to the model, when, and how it is explained |
| `SandboxBook`, `PromotionBook` | a book from stake to correction; promotion and withdrawal on it |
| `Outbox` | notices and traces |
| `OperatorBets` | the operator's own bets |
| `BoardRules` | the next-goal board beside the advisor's selection |
| `EtlQueue` | match, league and global tasks of one worker |
| `SingleWriter`, `WriterLock` | one writer in the abstract; processes around the lock |
| `QuotaPlan`, `QuotaDay`, `QuotaReset` | the planner as operators; a day under its plan; the readings around midnight |
| `Backfill` | day tasks and the cursor |
| `GlobalCatalog`, `Dictionaries` | entity tasks and reference rows |
| `MatchDetail`, `MatchExtras` | rows of a match and what they refer to |
| `OddsRefresh` | request, wake-up, drain and the advisor's wait; both processes |
| `MCRecommendations`, `MCLlmBudget`, `MCEtlQueue` | one component and its symmetry |
| `MCRecoConverges` | the coupons for the liveness run, with the legs typed by hand on record |
| `MCAdvisorRules`, `MCAdvisorProgress`, `MCWorkerRules`, `MCWorkerProgress` | several components for one question |
| `Totals` | the total of a list of amounts, used by the two books |
| `RecommendationsProofs`, `EtlQueueProofs` | theorems about one component |
| `AdvisorProofs`, `BooksProofs` | theorems about parts of `MCAdvisorRules`: what is sent and shown; budget, sandbox, promotion, own bets |
| `OutboxProofs`, `WorkerProofs`, `WorkerProgressProofs` | theorems about parts of `MCAdvisorProgress`, `MCWorkerRules`, `MCWorkerProgress` |
| `Recursion` | lemmas on functions defined by recursion, for the proofs about totals |

The `MC...Rules` and `MC...Progress` modules each extend one component (`LlmBudget` on the
advisor's side, `GlobalCatalog` and `WriterLock` on the worker's) and hold the others as
an `INSTANCE`; `part` is chosen in the initial state and only that component moves, so
that every property is checked on the component it is about. Where a part is also proved
about, its constants are constants of the MC module: the cfg gives them the values of the
run, an `ASSUME` of the MC module states what the proof needs of them, and the theorem is
about `MCSpec` for every value. The other bounds are stated at the instance. `QuotaDay` extends `QuotaPlan`, `OddsRefresh` joins the two processes through the
tables they share, and `Backfill`, `GlobalCatalog` and `Dictionaries` own the
tasks `EtlQueue` does not have.

Definitions whose comment begins with *Mutant* are broken variants of the
definition that follows them. They are used by no specification; substituted
for the original they show that a property can fail.

### How state and actions correspond to the code

**Recommendations.** A request of the operator locks its row first and is one
transaction: one action each. The confirmation of a placed bet is two, `PlaceRead` and
`PlaceCommit`: it holds the coupon's row meanwhile (`request`, `Unlocked`) but not the matches it
read, and it may roll back (`PlaceRollsBack`). `ExpireOnTouch` is the request that finds its
coupon late: it fails for the caller, but the expiry is committed. The loop's transaction is
two actions: `SettleRead` is the SELECT of `settle_finished`, `LoopCommit` writes
with what was read, `settle_finished`, `expire_due` and `withdraw_promoted` together, and
waits for the confirmations that hold an offer (`OffersUnlocked`). `LoopFails` is the same transaction refused by the unique index. `BeginCycle` and
`CommitCycle` stand on both sides of the model call. The feed is
unconstrained; `ReopensMatches` says whether an ended match may be put back in play.

**LlmBudget.** Several advisors are allowed, since the lock is what orders them. `Overrun`
is the most a call may cost above its estimate; nothing in the code bounds it, so
every bound on spending is relative to it. The ledger has an entry of its own for the summaries, whose
rows the code marks as the sandbox's: every check counts them (`Spent`), and what only cycles
spend can still be told (`CycleSpent`).

**EtlQueue.** `job[t]` is the fetch that has claimed `t` and its mode. The ends of a fetch
are actions of their own (`DetailOk`, `FetchOk`, `FetchEmpty`, `FetchFails`, `QuotaOut`,
`GivesUp`, `SkipIrregular`, `WindowCloses`, `Dropped`). The last is the error `gather` keeps and the
batch drops, of the live details or of global tasks: the fetch is over, its task stays in progress, and
`dropped` remembers it. The stamp of a detail is written in a transaction of its own, which may be
lost (`Stamp`). Backoff and cadence are left to the
schedule: what waits for them may happen at any later time.

**WriterLock.** A process connects, asks for the lock, requeues orphans, opens its run
row, works, closes the row, releases the lock and leaves, one action each. A
crash leaves a ghost that holds the lock until the server notices. A dropped session
frees the lock while the process works on.

**Quota.** Time is in units of a short day. `QuotaDay` has an action for each slot of a tick
and treats the handlers as numbers of calls: a history handler is admitted once
and may make up to `Batch`. `QuotaReset` has the vendor's counter and the three readings the
code keeps of it, each possibly late.

**Backfill.** `Pass` is one pass of the handler: gate, list or repair of one day, followups,
cursor. Details and their children close on their own.

**GlobalCatalog.** Batches are claimed and fetched concurrently; `Ends(k)` is the end of each
fetch. Two teams of a batch run in transactions that do not see each other; `overlooked` says that
one of them wrote over a conflict it had not seen and asked for nothing.

**OddsRefresh.** Fetch of the score, fetch of the price, store and clearing of the request are
four actions; goals fall between any two, the wake-up may be missed, and the advisor
polls with the rows of its own session. `unserved` are the matches asked for and not stored since,
`again` those asked for again while the drain was fetching.

**Outbox.** Claim, send and mark of a trace are three actions; a pass over the notices is one
transaction of several posts, and a crash rolls back the marks, never the posts.

**SandboxBook, PromotionBook, RecommendationGate, CandidateWindow.** One action for each step of
the loop that has its own transaction; prices are small numbers, money whole units.

## 3. Runs

| run | instance | question |
|---|---|---|
| `reco_offers` | 2 coupons, 1 match, reopened matches | may a coupon go back or hold a match it gave up; what does the index refuse |
| `reco_settles` | 1 coupon with goals, or 2 without; fair | does settlement converge, do offers end |
| `etl_detail` | 1 match, 1 league, detail and global tasks, fair | does the task of an ended match come to rest; what opens a closed task |
| `advisor_rules` | 9 parts | what the advisor keeps at every step |
| `advisor_progress` | 4 parts, fair | what the advisor must get done |
| `worker_rules` | 10 parts | what the worker keeps at every step |
| `worker_progress` | 6 parts, fair | what the worker must get done, through crashes |
| `reco_manual_lost` | 1 coupon, fair | *violated:* `LostLegLosesTheCoupon` |
| `budget_crash` | 1 advisor | *violated:* `PaidIsInTheSum` |
| `sandbox_share` | 1 advisor, 1 summary | *violated:* `SandboxLeavesTheRest` |
| `etl_rounds` | rounds only | *violated:* `ClosedWindowReturnsTheTask` |
| `etl_settlement` | 1 match, detail only | *violated:* `RefreshedMeansFinal` |

The parts and what is said of each:

| part | instance | property |
|---|---|---|
| budget | 2 advisors, 2 days, a summary | `CyclesKeepTheBudget`, `OneCallPerSummary`, `LockIsFreed` |
| legs | every truth and row of up to one goal for each period | `ReadersAgree` |
| board | every card, price and period within one goal | `SelectionIsSound` |
| sandbox | 2 matches, 2 coupons, bankroll 1 | `BookIsSound` |
| note | 2 matches, minutes at and around the limit | `NoteAgreesWithPrompt` |
| promotion | books of 4 coupons, windows of 2 | `PromotedBookHolds` |
| gate | 2 days of 3 hours, a window over midnight | `DayStaysNearItsLimit` |
| bets | 2 bets, 2 requests, one of them manual | `BetsAreFair`, `AutoNeverContradicts`, `PlayedBetsSettle` |
| window | 3 candidates of 2 matches, one restart | `AskedAtMostTwice`, `BelowThresholdIsRetried` |
| outbox | 2 notices, 1 trace, one crash | `SendingsAreCounted`, `OutboxesDrain` |
| quota | 10 units, kick-offs at 0, 1, 2, every number of calls to 20 | `PlanIsKept`, `DayLastsToMidnight` |
| reset | 2 days of 4 units, limit 4, 2 calls between ticks, counters that lag | `RefusedOncePerProbe` |
| past | 2 days, one failure, refusal and stop | `PassedDaysHaveDetails`, `BackfillGoesOn` |
| grounds, catalog | 3 teams of 2 countries; a team with 2 players and a coach | `SharedStadiumIsAsked`, `CatalogIsComplete` |
| detail, extras | one event, 2 players; 2 matches | `RowsHaveTheirParents` |
| dictionaries | 3 endpoints, 2 failures | `RowsHaveTheirParents`, `DictionariesAreRefreshed` |
| matchday, singles | half-time and detail tasks; prematch, injuries and rounds tasks | `ClaimsAreOwned` |
| globals | global tasks of two leagues, claimed in batches | `ClaimsAreOwned` |
| lock, cut | 2 processes, 2 tasks; 2 crashes, or one cut session | `WritersNeedACut`, `BehavesAsOneWriter` |
| odds | 2 matches, one goal, one failure | `PricedAtItsScore`, `RequestIsServed` |

The type invariant of a part is checked with its first invariant (those of *reset*, *past* and
*grounds* with `DayLastsToMidnight`, that of the coupons with `LegsFitTheirCoupon`).

**Bounds.** Two coupons on one match are what the unique index arbitrates. `reco_offers` has no goals:
a match that is off, interrupted, ended, ended without a total or in play again differs from the proposal
as a goal would, and the theorems of `RecommendationsProofs` hold for any `MaxGoals`.
In `reco_settles` a behaviour is of one of two parts: one coupon with one
goal, which can differ from the proposal and be corrected, or two coupons on one match that may be put
back in play, without goals. Two advisors and two
days give the lock someone to exclude and midnight something to separate. The
queue's properties speak of one task at a time, and tasks interact only
through the sequential worker and the batches it claims: one match is enough, and two leagues for a
batch of global tasks; limits on retries are small,
but reached and passed. A quota limit of 4 above a buffer of 1 has the three
regimes the code knows: free, inside the buffer, spent. Two days of history
are one to pass and one to wait for. Three teams are two that share a stadium across a
border and one that does not. Two processes are a writer and its successor. Every other bound
is a constant of its module with a comment. What the bounds leave out, the proofs
cover for the properties of section 5.

Two properties need more of their constants than a size. `RefusedOncePerProbe` needs
`MaxCalls * Probe <= Limit` (`QuotaReset!ConstantsOK`): the calls made within one probe fit
into a day's plan. Without it a plan still refused by yesterday's count at midnight is freed, spent
and refused again within the probe. The client paces its calls
(`quota_requests_per_minute`, 450 by default): 6,750 in the 15 minutes of a probe, of the 75,000
of the plan `settings.py:58` speaks of. `DayLastsToMidnight` says that a score tick is missed only
for calls nobody reserved (`unplanned`) or that a handler, once admitted, made out of the scores'
reserve (`overdrawn`). Ten units, a poll every 4, matches of one unit and three left over
for the last poll are a day on which a burst of context calls does cost score ticks.

**Deadlock.** The four runs with parts say `CHECK_DEADLOCK FALSE`: a part with bounded faults, coupons
or days stops when they are used up, which is the end of the instance and not of
the program. The liveness properties say what has been done by then.

**Fairness.** The advisor's loop runs on a timer in a container that restarts, so
its statements are weakly fair; `LoopCommit` is strongly fair: the process is not killed in
every single pass. A confirmation that has begun ends (`WF PlaceCommit`; a rollback ends it too); nothing else
is assumed of the operator or the feed. `OffersEnd` assumes that time passes: the correction window of
every match ends. A cycle in progress
continues, since its call has a timeout, and PostgreSQL grants a free lock to a
waiter (`SF TakeLock`). In `etl_detail` requests end, the worker is restarted, windows end,
and a claimable task is claimed and answered again and again: days whose quota
leaves a surplus, and a vendor that answers now and then. The parts state theirs in `MCSpec`:
a claim or a pass over an outbox comes again (strong, since a crash
interrupts it), posts and marks follow; the pass that settles the operator's bets and
the tick of the window run on a timer; a worker goes on and the server notices a dead
session; the drain runs on every tick; passes of the backfill and of the dictionaries come
again, midnight comes, and details close. No fault, cut, goal or request of the operator is fair.

## 4. What is shown

### One writer

`SingleWriter` says: a worker becomes the writer when there is none, puts back what its
predecessor left in progress, only the writer takes and finishes tasks, and every task
finishes. `WriterLock` implements it under the mapping `writer` (the process whose
loop runs) and its own queue, **as long as no session is cut**
(`MaxDrops <- 0`): the property `BehavesAsOneWriter` of part *lock*, liveness
included. The ghost of a dead worker makes its successor wait, and requeuing orphans before
the first claim is what hands the tasks over. With cuts (part *cut*) `WritersNeedACut` says exactly how far the
README's "only one process writes to the vendor API" (README.md:21) goes: every
process past the lock still holds it, but one for each cut.

### Properties that are violated

* `LostLegLosesTheCoupon`: `manual_settle` writes the leg and not the coupon, and
  `settle_finished` recomputes a coupon only when it rewrites one of its legs.
  A coupon whose last leg the operator settles as lost stays `placed`.
* `PaidIsInTheSum`: `run_cycle` promises that a crash after the call leaves the
  paid cost in the sum; the row is inserted only after the call has returned.
* `SandboxLeavesTheRest`: `budget.py:1` lets the sandbox spend 70 percent and keeps the rest for
  recommendations. A summary is checked against the whole limit and its row is inserted as the
  sandbox's; what the sandbox's *cycles* spend does keep the share (`CyclesKeepTheBudget`).
* `ClosedWindowReturnsTheTask`: `_ingest_rounds` does not catch
  `SpendWindowClosed`; its task stays `in_progress` until the worker restarts.
  (`_process_injuries` does catch it, gives the task back, and then uses rows it
  never fetched: the error ends the worker. The model has that crash.)
* `RefreshedMeansFinal`: settlement takes a closed detail task as "the
  finished match was fetched". `close_stale_prematch_enrichment` and the
  live lane close that task before the end.

### Observations that no run states

Each is in the model, and a property was worded so as to allow it.

* `place_coupon` reads the matches without a lock and commits later: a goal the worker stores in
  between is not noticed, and the coupon is placed at the score that was read. The expiry by the loop
  cannot make up for it, since it waits for the row and then leaves a placed coupon alone.
* A leg typed with the very result the loop computes is never rewritten, so its coupon stays `placed`
  (the case of `LostLegLosesTheCoupon` for any result). `SettlementConverges` speaks of the legs without
  exception, and of the coupon once a refresh has counted what was typed.
* `open_recommendation_fixtures` looks at offers and placed coupons, the index at every open or manual leg:
  a match that a settled coupon still holds (another of its legs was lost, or a correction made this one manual)
  is offered to the model, and the paid slip is skipped (`IndexIsALastResort` says that nothing else is).
* One promoted strategy is a matter of the unique index and of the demotion in the same transaction;
  the model has both as guards and states no property of them.
* An unexpected error in a batch of live details or of global tasks is dropped (`live_context.py:571`,
  `global_entities.py:158`): the task stays `in_progress` until the next start, or until housekeeping
  closes it. `ClaimsAreOwned` names the two ways a claim may be left behind and excludes any other;
  `FinishedMatchesRest` does not speak of a detail task that stays so.
* A request for odds made again while its match is being fetched is deleted with the first one; the
  prices stored are those of the first fetch (`RequestIsServed` counts the second one away).
* The summaries are checked against one sum read before the first of them; a failed
  one is retried on every pass and not charged.
* Promoting a strategy with a lower id than the promoted one fails on the unique index;
  `release_funded_strategies` undoes a pause the operator set. Losses of a promoted
  strategy's sandbox coupons stop counting towards withdrawal once it places none.
* A correction from won to lost may leave a book negative.
* `final_detail_at` and `error_retries` are never reset: failures years apart add up.
* Two teams of one batch that share a stadium do not see each other, and the stadium may
  keep the wrong country without being asked for, although `persist_seasonal.py:138` says that "a stadium
  already stored under a different country needs /venues". `SharedStadiumIsAsked` shows that this slip is
  the only way, and that the next conflict that is seen makes up for it.
* When the backlog appears between the gate of a pass and its transaction, the day is
  stored without its follow-up tasks.
* A match list blanks the code and flag of a country until the next dictionary pass; a
  starter dropped from a corrected line-up stays in it.
* The set marked as fired may differ from the one that was sent.
* The page's limit of minutes in extra time is a number of its own (`llm_note.py:305`): page and tick
  agree only for the setting that equals it.
* A trace claimed by a process that dies stays `sending`.
* The room of the context calls is what is left above the buffer less one (`scheduler.py:479`),
  so a burst paid from the credits of earlier ticks may draw on the calls the plan keeps for the
  scores; later score ticks are then stretched or missed, although `quota.py:1` keeps their cadence
  until midnight. `DayLastsToMidnight` counts such calls (`overdrawn`) and shows that
  nothing else but unplanned calls takes a score tick away.

## 5. Proofs

Every theorem is checked by TLAPS for arbitrary constants that satisfy the named
`ASSUME`s, in the module that declares the constants; TLC evaluates them in the run of that
module. They ask no more than that limits are natural numbers, that a few of them are not zero,
and that sets that are counted are finite, with the exceptions named below.
The argument is everywhere the same: an invariant that is inductive, which contains the
checked one and says in addition what the code relies on between its steps; one
lemma for each action that keeps it; the theorem from these by temporal logic. What
the invariants add is the interesting part:

* **RecommendationsProofs.** `IndInv` is `TypeOK`, `LegsFollow(c)` for every
  coupon (which leg statuses go with which coupon status) and `RowsAreSettling`
  (a row the loop has read belongs to a coupon past the offer). The last is what
  makes the stale loop harmless: since a coupon never leaves the settling
  statuses, what was settling when read still is when written. From it:
  `LegsFitTheirCoupon` (closed coupons hold no match, offers are unsettled) and
  `CouponsMoveForward`, which also needs that a confirmation under way holds a coupon that is
  still to be confirmed (`RequestsHold`). `IndexIsALastResort` has two halves.
  A match that was free when the tick read the open recommendations is on no offer and no placed
  coupon when the reply is inserted (`SlateStep`): no request gives a coupon a match it did not hold.
  And what a row that was read can have become since is known (`ReadOrTyped`): it is the leg as it
  stands, or it was read as manual and has been settled by hand. With one holder of a match at most
  (`MatchHeldOnce`), a settlement that makes a second one must turn a leg that gave its match back
  into a manual one.
* **BooksProofs, budget.** `BudgetInv` adds `CycleInv(a)`: an advisor inside its cycle
  holds the lock, what the cycles of its day have spent is in the sum it saw while it calls and pays, and
  what it is about to commit fits with one overrun. `CyclesKeepTheBudget` follows with the summaries
  running beside the cycles, for any number of advisors, summaries and days: a summary adds to an entry no
  cycle's bound speaks of (`SameCycles`). What the summaries add, `OneCallPerSummary`, is proved
  by a potential: `SummaryInv` says that what a day has spent,
  plus one dearest call for each pair of strategy and advisor whose summary of that day is
  still to come (`Reserve`), stays within the limit, one overrun and the reserve of all
  pairs. A summary that is stored takes its pair out of the reserve, and nothing puts a
  pair back, midnight and crashes included.
* **EtlQueueProofs.** `IndInv` adds to `TypeOK` and `ClaimsAreOwned` that a worker
  that is down is fetching nothing (`DownIsIdle`): the restart requeues on the
  assumption that nobody is fetching. `ClaimsAreOwned` is proved for tasks of any kinds, batches and
  dropped errors included. Also `GivenUpStays`.
* **WorkerProgressProofs, the lock.** `WritersNeedACut` holds for any number of
  processes, crashes and cuts: it needs the count of the processes past the lock that
  do not hold it, which only a cut can raise. Until the first fault, an open run belongs to the holder (`OpenRunHeld`), from
  `RunsAreCounted`. `OneWriter` is the refinement: **if no session is cut**
  (`MaxDrops = 0`), `Spec => Abstract!Spec`, where `Abstract` is `SingleWriter` under the mapping of
  section 4. It needs `HolderInside` (who is past the lock holds it, so two loops
  exclude each other) and `TasksInHand` (a process works on a task only while its loop runs,
  and the task is in progress meanwhile). That every task finishes is the part left to TLC.
* **WorkerProgressProofs, odds.** `PricesInv` adds that the stamp of a price row is the
  score the price was made at (`stamp = made`): the advisor trusts the stamp. `PricedAtItsScore`
  follows for any matches, goals, polls and failures.
* **WorkerProofs, catalogue.** `SharedStadiumIsAsked` needs `StadiumHasACountry` (the country a stadium
  has, or is read to have, is that of one of its stored teams) and `AskedWhileShared` (until the
  stadium is asked about, its country is that of all its stored teams, unless a conflict was
  overlooked), for batches of any size.
* **WorkerProofs, backfill.** `BackfillInv`: from the gate on the day at hand is the cursor's, and once the
  pass is past its check the day is listed and its played match has a detail task, which the
  lanes running meanwhile can only move forward. `PassedDaysHaveDetails`, an action property,
  follows for any number of days.
* **WorkerProofs, rows.** `ParentsAreStored`: `_collect_people` and `nested_fixture_teams` name
  everybody the rows of an answer refer to, including those of rows that are left out
  (`StoreDetailKeeps`), links of a mapping are keyed by the last place of a meeting (`LinkIsAKey`),
  and a league is stored with its country. So for any answers in any order, blanks included.
* **WorkerProofs, plan.** `PlanIsKept`: `DayInv` says that no match is counted as ended that was not
  over at the last poll (`finishing <= Over(polled)`) and that a day with work in it is
  not over. With it the planner is shown by cases of the interval it chooses: what the score ticks,
  the finals and the context credits are promised never exceeds what is left above the buffer
  (`TieredFits`, `PlanKeeps`), for any board, forecast, hour and units that satisfy
  `PlanConstantsOK`. The sums over instants are the lemmas on `TotalOver`.
* **WorkerProofs, readings.** `RefusedOncePerProbe`: a refusal arms the client until a probe later or
  midnight (`Armed`). Meanwhile either it refuses further calls by itself (`Held`), or `/status`
  has let it go, and then the vendor counts the new day and has seen at most `MaxCalls` calls
  for each instant since the refusal (`Counting`: every pause is a unit at least,
  `SleepIsPositive`), which is less than the plan. Which counters lag, and how the readings
  overtake one another, is free.
* **AdvisorProofs, gate.** `GateInv`: while a tick whose gate was open runs, its
  day is under the limit, since only its own reply adds coupons and none comes
  back once it is gone.
* **AdvisorProofs, window.** `WindowInv` has three parts: while a counted call stands, a tick under
  way goes for the set it found, still the playable one (`Steady`), a set paid for once is on record where a restart finds
  it (`OnRecord`), and one paid for twice is marked as fired (`TwiceIsMarked`). So
  `AskedAtMostTwice` through restarts, refused calls and newer prompts.
* **AdvisorProofs, legs.** `ReadersAgree` needs that extra time has no goals before it begins, also
  not through an interruption (`ExtraComesLate`), and that a leg shown as hit has the goals in its own
  period, of which the row has the total or none yet (`HitIsScored`); `LegsBounded` carries the types.
* **AdvisorProofs, note.** `NoteAgreesWithPrompt` under **`ExtraLimit = PageExtraLimit`**, which is the
  setting the page assumes (section 4).
* **AdvisorProofs, board.** `SelectionIsSound` for any bookmakers and prices: the best line
  exists and is typed (the books are ranked by a well-founded order), the favourite of
  a mirrored line is the other side, and so on up to `Reasons`; the board's count of the
  period and the prompt's are one operator in two places.
* **BooksProofs, own bets.** `Inv`: the events stored never run ahead of the match and a stored end is
  the true one (`StoredHappened`, the score itself may flicker), a status the automatic settlement has
  written, or holds in a transaction, is right for the goals seen (`AutoIsRight`), and one bet of a match is open
  (`OneOpen`). The first two make overlapping settlements agree (`AutoNeverContradicts`).
* **BooksProofs, promotion.** `PromotedBookHolds`: the loop compares yields rounded to two places and
  a drawdown folded over the book. `DropIsBounded` shows that the fold bounds every drop between two
  points of the book, `YieldsCompare` that a larger rounded yield is a larger exact one, and
  `YieldOfAnEarner` that a positive one means the book earned; what is left is that the book is
  still the one the decision was taken on.
* **BooksProofs, sandbox.** `SandboxInv` adds to the types that a leg's status agrees with the
  recorded goal, and that the balance is not negative until the first correction. A batch of slips is
  placed against a balance that each of them lowers (`InsertStep`, `SlipsPlaced`), settlement
  only adds to it (`BalanceGrows`), and a correction changes status and record together.
* **OutboxProofs.** `PassIsCounted` and `ClaimIsCounted` relate what has been sent to the
  attempts on record, those the open transaction would add, and the crashes;
  `SendingsAreCounted` for any messages, attempts and crashes.

### Only model-checked

* Everything under fairness, which the prover does not do: `SettlementConverges`, `OffersEnd`,
  `FinishedMatchesRest`, the liveness properties of the two *progress* runs, and
  the liveness half of `BehavesAsOneWriter`.
* `DayLastsToMidnight`: that every score tick of a day that fitted is made, but for the calls it
  counts. No inductive form was found: a stretched pause rounds the ticks of the rest of the day, and
  the calls still to be made are a sum over ticks whose lengths depend on the later schedule. What
  the planner promises at each instant is proved (`PlanIsKept`), and so are the types of the day;
  that the promises add up to midnight is checked for the run's units.
* What a recursive *operator* computes. The models define their sums and folds as recursive
  functions, and `Recursion` shows that such a function exists and what holds of its values, from
  the smallest element of a set of naturals (the library's well-founded relation), by induction stated
  over sets and not over predicates.

## 6. Not modelled, and the plan

Left out because there is no control in them: vendor schemas, settings, HTML, reports,
metrics, the board's other tabs and the match detail page. Texts, names and most prices are
abstracted away everywhere. Parts of modelled components that are left out: the retries of a single HTTP request, the
forward sync's own days, the priorities between the worker's lanes beyond admission,
several model strategies in one window, field checks of a model reply, paging.

Next:

1. The composition of `EtlQueue`'s detail task with `Recommendations`' settlement, in place of the
   free `DetailTask` of the feed.
2. `DayLastsToMidnight` for one interval at a time: a potential of the ticks and finals still to
   come, from the plan that is proved to fit.
3. The forward sync's own days beside the cursor of the backfill.
