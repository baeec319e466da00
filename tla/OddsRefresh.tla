----------------------------- MODULE OddsRefresh -----------------------------
(***************************************************************************)
(* The advisor asks the worker for prices that fit the score.  A candidate *)
(* whose price is by now stamped with another score than its board is put  *)
(* into advisor_odds_refresh; the worker fetches score and price, stores   *)
(* both and deletes the request; the advisor waits for them, for a while,  *)
(* and then asks the model (advisor/odds_refresh.py, advisor/tick.py,      *)
(* ingest/odds_refresh_drain.py, ingest/candidate_refresh.py).             *)
(*                                                                         *)
(* A score is the number of goals so far.  A candidate has a fitting price *)
(* when the tick reads it, so the first strategy that is due never asks    *)
(* for prices: a request needs a second one, with a candidate of its own,  *)
(* that goes by the prices the first one has read again.                   *)
(***************************************************************************)
EXTENDS Naturals, FiniteSets, FiniteSetsExt

CONSTANTS
    Fixtures,       \* the matches before the model, by id
    MaxGoals,       \* bound on the goals of a match
    Books,          \* how many model strategies are due in one tick
    MaxPolls,       \* polls of one wait: ODDS_REFRESH_WAIT_SECONDS / _POLL_SECONDS
    MaxFailures     \* bound on the requests the vendor fails

\* Matches are numbered, and a tick has a strategy at least.
ConstantsOK ==
    /\ Fixtures \subseteq Nat /\ Books \in Nat \ {0}
    /\ {MaxGoals, MaxPolls, MaxFailures} \subseteq Nat

VARIABLES
    goals,      \* the score on the pitch
    feed,       \* the score the vendor's odds feed has
    board,      \* the stored score
    stamp,      \* the score the newest stored price is stamped with
    made,       \* the score the vendor made that price at
    wanted,     \* the rows of advisor_odds_refresh
    unserved,   \* requests no drain that read them has stored prices for
    again,      \* requests made since the running drain read the rows
    event,      \* OddsRefreshWake.event
    deaf,       \* the LISTEN connection has failed
    worker,     \* "idle", or the step its drain has reached
    ids,        \* the matches this drain read
    todo,       \* those of them it has not fetched yet
    got,        \* what it has fetched: score and price of each match
    advisor,    \* "idle", "quotes", "book", "wait", "recheck"
    book,       \* the strategy run_tick has reached
    selected,   \* the board the tick works from
    quotes,     \* the stamps the tick works from
    cands,      \* the candidates of each strategy when the tick began
    polls,      \* polls left of the wait
    failures,
    asked       \* the last call to the model: match, score, score of the price

store == <<board, stamp, made>>
requests == <<wanted, unserved, again>>
drain == <<worker, ids, todo, got>>
asking == <<advisor, book, selected, quotes, cands, polls, asked>>
vars == <<goals, feed, store, requests, event, deaf, drain, asking, failures>>

Scores == 0 .. MaxGoals
Nowhere == [f \in Fixtures |-> 0]
Nothing == [score |-> Nowhere, price |-> Nowhere]

TypeOK ==
    /\ {goals, feed, board, stamp, made, selected, quotes} \subseteq [Fixtures -> Scores]
    /\ wanted \cup unserved \cup again \subseteq Fixtures
    /\ ids \subseteq Fixtures /\ todo \subseteq ids
    /\ event \in BOOLEAN /\ deaf \in BOOLEAN
    /\ worker \in {"idle", "score", "price", "store", "clear"}
    /\ got \in [score : [Fixtures -> Scores], price : [Fixtures -> Scores]]
    /\ advisor \in {"idle", "quotes", "book", "wait", "recheck"}
    /\ book \in 1 .. Books /\ cands \in [1 .. Books -> SUBSET Fixtures]
    /\ polls \in 0 .. MaxPolls /\ failures \in 0 .. MaxFailures
    /\ asked \subseteq Fixtures \X Scores \X Scores

Init ==
    /\ goals = Nowhere /\ feed = Nowhere
    /\ board = Nowhere /\ stamp = Nowhere /\ made = Nowhere
    /\ wanted = {} /\ unserved = {} /\ again = {} /\ event = FALSE /\ deaf = FALSE
    /\ worker = "idle" /\ ids = {} /\ todo = {}
    /\ got = Nothing
    /\ advisor = "idle" /\ book = 1 /\ selected = Nowhere /\ quotes = Nowhere
    /\ cands = [b \in 1 .. Books |-> {}] /\ polls = 0 /\ failures = 0 /\ asked = {}

-----------------------------------------------------------------------------
(* The match and the vendor.                                               *)

Goal(f) ==
    /\ goals[f] < MaxGoals
    /\ goals' = [goals EXCEPT ![f] = @ + 1]
    /\ UNCHANGED <<feed, store, requests, event, deaf, drain, asking, failures>>

FeedCatchesUp(f) ==
    /\ feed[f] # goals[f]
    /\ feed' = [feed EXCEPT ![f] = goals[f]]
    /\ UNCHANGED <<goals, store, requests, event, deaf, drain, asking, failures>>

-----------------------------------------------------------------------------
(* The worker.                                                             *)

\* The score poll of a tick.
ScorePoll ==
    /\ worker = "idle" /\ board # goals
    /\ board' = goals
    /\ UNCHANGED <<goals, feed, stamp, made, requests, event, deaf, drain, asking, failures>>

\* Mutant: a price is stamped with the score the board has.
OddsPollStampsBoard ==
    /\ worker = "idle" /\ made # feed
    /\ stamp' = board /\ made' = feed
    /\ UNCHANGED <<goals, feed, board, requests, event, deaf, drain, asking, failures>>

\* The odds poll of a tick, when the quota leaves room for it: the stamp is the
\* odds payload's own score (persist_odds_live_snapshots).
OddsPoll ==
    /\ worker = "idle" /\ stamp # feed
    /\ stamp' = feed /\ made' = feed
    /\ UNCHANGED <<goals, feed, board, requests, event, deaf, drain, asking, failures>>

\* LISTEN sets the event; once the connection has failed nothing does.
Deafen ==
    /\ ~deaf
    /\ deaf' = TRUE
    /\ UNCHANGED <<goals, feed, store, requests, event, drain, asking, failures>>

\* drain_odds_refresh reads the requests: woken by the event, which it clears,
\* or at the head of every tick.
DrainWith(wake) ==
    /\ worker = "idle"
    /\ event' = wake
    /\ ids' = wanted /\ todo' = wanted
    /\ worker' = IF wanted = {} THEN "idle" ELSE "score"
    /\ UNCHANGED <<goals, feed, store, requests, deaf, got, asking, failures>>
DrainOnWake == event /\ DrainWith(FALSE)

\* Mutant: requests are drained on a wake-up only.
DrainOnWakeOnly == wanted # {} /\ event /\ DrainWith(FALSE)

DrainOnTick == wanted # {} /\ DrainWith(event)

\* persist_targeted_live: match by match, the score ...
FetchScore ==
    /\ worker = "score"
    /\ got' = [got EXCEPT !.score[Min(todo)] = goals[Min(todo)]]
    /\ worker' = "price"
    /\ UNCHANGED <<goals, feed, store, requests, event, deaf, ids, todo, asking, failures>>

\* ... and the price, which carries the score it was made at ...
FetchPrice ==
    /\ worker = "price"
    /\ got' = [got EXCEPT !.price[Min(todo)] = feed[Min(todo)]]
    /\ todo' = todo \ {Min(todo)}
    /\ worker' = IF todo' = {} THEN "store" ELSE "score"
    /\ UNCHANGED <<goals, feed, store, requests, event, deaf, ids, asking, failures>>

\* ... stored in one transaction (upsert_fixtures, persist_odds_live_snapshots).
StoreBoth ==
    /\ worker = "store"
    /\ board' = [f \in Fixtures |-> IF f \in ids THEN got.score[f] ELSE board[f]]
    /\ stamp' = [f \in Fixtures |-> IF f \in ids THEN got.price[f] ELSE stamp[f]]
    /\ made' = [f \in Fixtures |-> IF f \in ids THEN got.price[f] ELSE made[f]]
    /\ worker' = "clear"
    /\ got' = Nothing
    /\ unserved' = unserved \ (ids \ again)
    /\ UNCHANGED <<goals, feed, wanted, again, event, deaf, ids, todo, asking, failures>>

\* Mutant: the rows go whatever the fetch has brought.
DrainFailsAndClears ==
    /\ worker \in {"score", "price", "store"} /\ failures < MaxFailures
    /\ failures' = failures + 1
    /\ wanted' = wanted \ ids
    /\ worker' = "idle" /\ ids' = {} /\ todo' = {} /\ got' = Nothing /\ again' = {}
    /\ UNCHANGED <<goals, feed, store, unserved, event, deaf, asking>>

\* A request fails, or the transaction: nothing is stored and the rows stay.
DrainFails ==
    /\ worker \in {"score", "price", "store"} /\ failures < MaxFailures
    /\ failures' = failures + 1
    /\ worker' = "idle" /\ ids' = {} /\ todo' = {} /\ got' = Nothing /\ again' = {}
    /\ UNCHANGED <<goals, feed, store, wanted, unserved, event, deaf, asking>>

\* clear_odds_refresh, after the commit: one more request for the same match, made
\* since the rows were read, goes with them unserved.
Clear ==
    /\ worker = "clear"
    /\ wanted' = wanted \ ids /\ unserved' = unserved \ ids /\ again' = {}
    /\ worker' = "idle" /\ ids' = {}
    /\ UNCHANGED <<goals, feed, store, event, deaf, todo, got, asking, failures>>

-----------------------------------------------------------------------------
(* The advisor.                                                            *)

\* run_tick reads the board ...
ReadBoard ==
    /\ advisor = "idle"
    /\ selected' = board
    /\ advisor' = "quotes"
    /\ UNCHANGED <<goals, feed, store, requests, event, deaf, drain, book, quotes, cands,
                   polls, asked, failures>>

\* quote_for_period: a price counts at its own score only.
Fitting(scores, stamps) == {f \in Fixtures : stamps[f] = scores[f]}

\* ... and, in another transaction, the prices: the candidates of a strategy
\* are matches with a fitting one that it has not bet on or rejected.
ReadQuotes ==
    /\ advisor = "quotes"
    /\ quotes' = stamp
    /\ cands' \in [1 .. Books -> SUBSET Fitting(selected, stamp)]
    /\ advisor' = "book"
    /\ UNCHANGED <<goals, feed, store, requests, event, deaf, drain, book, selected, polls,
                   asked, failures>>

\* fixtures_needing_odds_refresh, only of the candidates.
Needing(scores, stamps) == {f \in cands[book] : stamps[f] # scores[f]}

\* enqueue_odds_refresh: upsert and NOTIFY, or straight on if all prices fit.
AskForPrices ==
    /\ advisor = "book" /\ cands[book] # {}
    /\ LET need == Needing(selected, quotes)
       IN  IF need = {}
           THEN advisor' = "recheck" /\ UNCHANGED <<requests, event, polls>>
           ELSE /\ wanted' = wanted \cup need /\ unserved' = unserved \cup need
                /\ again' = IF worker = "idle" THEN {} ELSE again \cup need
                /\ event' = (event \/ ~deaf)
                /\ polls' = MaxPolls /\ advisor' = "wait"
    /\ UNCHANGED <<goals, feed, store, deaf, drain, book, selected, quotes, cands, asked,
                   failures>>

\* The next strategy of the tick, or the end of it.
NextBook ==
    IF book = Books
    THEN advisor' = "idle" /\ book' = 1 /\ cands' = [b \in 1 .. Books |-> {}]
    ELSE advisor' = "book" /\ book' = book + 1 /\ UNCHANGED cands

\* A strategy with no candidates is passed over.
SkipBook ==
    /\ advisor = "book" /\ cands[book] = {}
    /\ NextBook
    /\ UNCHANGED <<goals, feed, store, requests, event, deaf, drain, selected, quotes, polls,
                   asked, failures>>

\* _wait_for_matching_quotes: one poll.
PollQuotes ==
    /\ advisor = "wait"
    /\ IF Needing(board, stamp) = {}
       THEN /\ selected' = board /\ quotes' = stamp
            /\ advisor' = "recheck" /\ polls' = 0 /\ UNCHANGED <<book, cands>>
       ELSE /\ UNCHANGED <<selected, quotes>>
            /\ IF polls = 0 THEN NextBook /\ UNCHANGED polls
               ELSE polls' = polls - 1 /\ UNCHANGED <<advisor, book, cands>>
    /\ UNCHANGED <<goals, feed, store, requests, event, deaf, drain, asked, failures>>

\* _refresh_before_llm reads the prices once more, in the transaction the
\* candidates are priced in: one that fits no more stops the call, and the
\* tick keeps its prices; otherwise run_tick calls the model.
CallModel ==
    /\ advisor = "recheck"
    /\ IF Needing(selected, stamp) = {}
       THEN /\ quotes' = stamp
            /\ asked' = {<<f, selected[f], made[f]>> : f \in Fitting(selected, stamp)}
       ELSE UNCHANGED <<quotes, asked>>
    /\ NextBook
    /\ UNCHANGED <<goals, feed, store, requests, event, deaf, drain, selected, polls,
                   failures>>

Next ==
    \/ \E f \in Fixtures : Goal(f) \/ FeedCatchesUp(f)
    \/ ScorePoll \/ OddsPoll \/ Deafen \/ DrainOnWake \/ DrainOnTick
    \/ FetchScore \/ FetchPrice \/ StoreBoth \/ DrainFails \/ Clear
    \/ ReadBoard \/ ReadQuotes \/ AskForPrices \/ SkipBook
    \/ PollQuotes \/ CallModel

\* The worker's loop ticks for ever, and the steps of a drain follow one another.
Fairness ==
    /\ WF_vars(DrainOnTick)
    /\ WF_vars(FetchScore) /\ WF_vars(FetchPrice) /\ WF_vars(StoreBoth) /\ WF_vars(Clear)

Spec == Init /\ [][Next]_vars /\ Fairness

-----------------------------------------------------------------------------
\* The model is shown a price the vendor made at the score the candidate is
\* described by, however goals, polls, drains and a lagging odds feed fall
\* between the advisor's reads (_refresh_before_llm, persist_targeted_live).
PricedAtItsScore == \A a \in asked : a[2] = a[3]

\* "Clear only on success" (drain_odds_refresh): a request is not lost before a drain
\* that read it has stored score and price of its match, also when the wake-up was
\* never heard or the vendor failed on the way: the tick drains what the event did
\* not.  Only a request made again while its match is being fetched may go with the
\* first one's row, unserved; the prices stored are then those of that fetch.
RequestIsServed == \A f \in Fixtures : f \in unserved ~> f \notin unserved
===============================================================================
