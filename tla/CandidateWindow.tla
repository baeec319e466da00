-------------------------- MODULE CandidateWindow --------------------------
(***************************************************************************)
(* The debounce in front of the model (services/advisor/tick.py).  A tick  *)
(* reads the board, and once the set of playable states has stood still    *)
(* for the debounce it prices the set again and asks the model about what  *)
(* it then finds.  The window is kept in memory and rebuilt after a        *)
(* restart from the newest cycle in the database.                          *)
(*                                                                         *)
(* One model strategy, the default sandbox-llm.  A state key is a match    *)
(* with its score; the board holds one key of a match at most, and a match *)
(* has a price at one score at most.  The time since the set last changed  *)
(* is counted in ticks, up to Wait.                                        *)
(***************************************************************************)
EXTENDS Integers, FiniteSets, Sequences

CONSTANTS Keys,         \* matches with a score they can have, as pairs
          Strong,       \* keys whose price may be bet alone
          Wait,         \* the debounce, in ticks
          MaxMoves,     \* bound: changes of the board, the prices, the strategy
          MaxSkips,     \* bound: calls the budget does not allow
          MaxBelow,     \* bound: replies under the combined-odd floor
          MaxRestarts   \* bound: restarts of the process

VARIABLES board,     \* the keys a rule selects: board_snapshots
          priced,    \* the keys with a tradable price: latest_over_under
          rejected,  \* keys with a stored reject: rejected_states
          opened,    \* matches on an open sandbox leg: open_fixture_ids
          status,    \* advisor_strategies.status
          versions,  \* prompt_version of the strategy's versions, oldest first
          prompt,    \* PROMPT_VERSION of the running code
          cycle,     \* the newest row of advisor_cycles, or NoCycle
          window,    \* CandidateWindow
          tick,      \* where run_tick is, and the board and set it holds
          asked,     \* calls about one set while the board stood still
          left       \* what is left of each bound

vars == <<board, priced, rejected, opened, status, versions, prompt, cycle, window,
          tick, asked, left>>

Fixtures == {k[1] : k \in Keys}
Boards == {b \in SUBSET Keys : \A k, l \in b : k[1] = l[1] => k = l}
NoCycle == [sig |-> {}, detail |-> "none", version |-> 0]
Idle == [at |-> "idle", seen |-> {}, cands |-> {}]
Details == {"ok", "provider_error", "invalid_output", "below_threshold"}

TypeOK ==
    /\ board \in Boards /\ priced \in Boards
    /\ rejected \subseteq Keys
    /\ opened \subseteq Fixtures
    /\ status \in {"sandbox", "paused"}
    /\ \A v \in 1..Len(versions) : versions[v] \in {"p4", "p5", "summary"}
    /\ prompt \in {"p4", "p5"}
    /\ cycle.sig \subseteq Keys /\ cycle.detail \in Details \union {"none"}
    /\ cycle.version \in 0..Len(versions)
    /\ window.sig \subseteq Keys /\ window.age \in -1..Wait /\ window.fired \in BOOLEAN
    /\ tick.at \in {"idle", "refresh", "call"}
    /\ asked.n \in Nat

-----------------------------------------------------------------------------
(* A lone key may call the model only at a price worth betting alone.      *)
LoneCandidateAllowed(cands) == Cardinality(cands) = 1 => cands \subseteq Strong

\* _playable and the lone rule, on one reading of the board and the prices now.
Playable(seen) ==
    LET cands == {k \in seen \intersect priced : k \notin rejected /\ k[1] \notin opened}
    IN  IF LoneCandidateAllowed(cands) THEN cands ELSE {}

\* CandidateWindow.ready: the window after the question; it is due when the
\* set has not changed, was not sent, and has aged for the debounce.
Ready(w, sig) ==
    IF sig # w.sig THEN [sig |-> sig, age |-> 0, fired |-> FALSE]
    ELSE IF sig = {} \/ w.fired THEN w
    ELSE IF w.age = -1 THEN [w EXCEPT !.age = 0]
    ELSE [w EXCEPT !.age = IF @ < Wait THEN @ + 1 ELSE @]

Due(w, sig) == sig # {} /\ sig = w.sig /\ ~w.fired /\ w.age >= Wait

MarkFired(w) == [w EXCEPT !.fired = TRUE]
HoldForRetry(w) == [w EXCEPT !.age = 0, !.fired = FALSE]

\* Mutant: the newest cycle of the current version.
LastCycleOfVersion(c, vs) == IF c.version = Len(vs) THEN c ELSE NoCycle
\* The newest cycle of the strategy, whichever of its versions called.
LastCycle(c, vs) == c

\* Mutant: a set that was asked about once is decided.
BelowThresholdClosed(c) == FALSE
\* _below_threshold_open: a set under the floor is still to be decided.
BelowThresholdOpen(c) == c.detail = "below_threshold"

\* last_signature and restore_window: what a new process starts from.
RestoreWindow(c) == [sig |-> c.sig, age |-> -1, fired |-> ~BelowThresholdOpen(c)]

\* _align_llm_prompt_version: a new row when the code's prompt moved on.
AlignPrompt(vs, p) ==
    IF vs[Len(vs)] \in {p, "summary"} THEN vs ELSE Append(vs, p)

-----------------------------------------------------------------------------
Init ==
    /\ board \in Boards /\ priced \in Boards
    /\ rejected = {} /\ opened = {}
    /\ status = "sandbox"
    /\ versions \in {<<"p4">>, <<"summary">>}
    /\ prompt = "p4"
    /\ cycle = NoCycle
    /\ window = RestoreWindow(NoCycle)
    /\ tick = Idle
    /\ asked = [set |-> {}, n |-> 0]
    /\ left = [moves |-> MaxMoves, skips |-> MaxSkips, below |-> MaxBelow,
               restarts |-> MaxRestarts]

\* run_tick up to the window: one transaction reads the board and the books.
Tick ==
    /\ tick.at = "idle"
    /\ versions' = AlignPrompt(versions, prompt)
    /\ IF status = "sandbox"
       THEN LET sig == Playable(board)
                w == Ready(window, sig)
            IN  /\ window' = w
                /\ tick' = IF Due(w, sig)
                           THEN [at |-> "refresh", seen |-> board, cands |-> sig]
                           ELSE Idle
       ELSE UNCHANGED <<window, tick>>
    /\ UNCHANGED <<board, priced, rejected, opened, status, prompt, cycle, asked, left>>

\* fixtures_needing_odds_refresh: a candidate with a price at another score.
Mismatched(cands) ==
    {k \in cands \ priced : \E l \in priced : l[1] = k[1]}

\* _refresh_before_llm: the prices are read again, of the board the tick read.
\* A candidate priced at another score by now ends the attempt; what is
\* playable at these prices is what the model is asked about.
RefreshBeforeLlm ==
    /\ tick.at = "refresh"
    /\ tick' = IF Mismatched(tick.cands) # {} \/ Playable(tick.seen) = {} THEN Idle
               ELSE [tick EXCEPT !.at = "call", !.cands = Playable(tick.seen)]
    /\ UNCHANGED <<board, priced, rejected, opened, status, versions, prompt, cycle,
                   window, asked, left>>

\* budget_allows said no: nothing is sent and the window is not marked.
BudgetSkip ==
    /\ tick.at = "call" /\ left.skips > 0
    /\ left' = [left EXCEPT !.skips = @ - 1]
    /\ tick' = Idle
    /\ UNCHANGED <<board, priced, rejected, opened, status, versions, prompt, cycle,
                   window, asked>>

\* The window after a cycle that called the model.
AfterCycle(w, detail) ==
    IF detail = "below_threshold" THEN HoldForRetry(w) ELSE MarkFired(w)

\* Calls about one set, counted while neither the board nor the set changes;
\* a reply under the floor is a call that is meant to be repeated.
Count(detail) ==
    IF detail = "below_threshold" THEN [set |-> tick.cands, n |-> 0]
    ELSE [set |-> tick.cands,
          n |-> IF asked.set = tick.cands THEN asked.n + 1 ELSE 1]

\* run_cycle with a reply that is not stored as decisions.
CallFails(detail) ==
    /\ tick.at = "call"
    /\ detail = "below_threshold" => left.below > 0
    /\ left' = IF detail = "below_threshold"
               THEN [left EXCEPT !.below = @ - 1] ELSE left
    /\ cycle' = [sig |-> tick.cands, detail |-> detail, version |-> Len(versions)]
    /\ window' = AfterCycle(window, detail)
    /\ asked' = Count(detail)
    /\ tick' = Idle
    /\ UNCHANGED <<board, priced, rejected, opened, status, versions, prompt>>

\* run_cycle with a valid reply: rejects are stored with the cycle, and the
\* bets that found funds become open legs.  The rest waits, or was only
\* recommended, and stays playable.
CallDecides(rejects, bets) ==
    /\ tick.at = "call"
    /\ rejects \subseteq tick.cands /\ bets \subseteq tick.cands \ rejects
    /\ rejected' = rejected \union rejects
    /\ opened' = opened \union {k[1] : k \in bets}
    /\ cycle' = [sig |-> tick.cands, detail |-> "ok", version |-> Len(versions)]
    /\ window' = AfterCycle(window, "ok")
    /\ asked' = Count("ok")
    /\ tick' = Idle
    /\ UNCHANGED <<board, priced, status, versions, prompt, left>>

\* The worker stored a new board: a goal, a match that began or ended.
BoardMoves ==
    /\ left.moves > 0
    /\ left' = [left EXCEPT !.moves = @ - 1]
    /\ board' \in Boards \ {board}
    /\ asked' = [asked EXCEPT !.n = 0]
    /\ UNCHANGED <<priced, rejected, opened, status, versions, prompt, cycle, window, tick>>

\* The worker stored new prices.
PricesMove ==
    /\ left.moves > 0
    /\ left' = [left EXCEPT !.moves = @ - 1]
    /\ priced' \in Boards \ {priced}
    /\ asked' = [asked EXCEPT !.n = 0]
    /\ UNCHANGED <<board, rejected, opened, status, versions, prompt, cycle, window, tick>>

\* The book ran out of funds or was funded again.
StatusMoves ==
    /\ left.moves > 0
    /\ left' = [left EXCEPT !.moves = @ - 1]
    /\ status' = IF status = "sandbox" THEN "paused" ELSE "sandbox"
    /\ UNCHANGED <<board, priced, rejected, opened, versions, prompt, cycle, window,
                   tick, asked>>

\* run_advisor starts again, perhaps with a newer prompt: ensure_strategy
\* finds the row, and the window is rebuilt from the newest cycle.
Restart ==
    /\ left.restarts > 0
    /\ left' = [left EXCEPT !.restarts = @ - 1]
    /\ prompt' \in {prompt, "p5"}
    /\ versions' = AlignPrompt(versions, prompt')
    /\ window' = RestoreWindow(LastCycle(cycle, versions'))
    /\ tick' = Idle
    /\ UNCHANGED <<board, priced, rejected, opened, status, cycle, asked>>

Next ==
    \/ Tick \/ RefreshBeforeLlm \/ BudgetSkip
    \/ \E d \in Details \ {"ok"} : CallFails(d)
    \/ \E r, b \in SUBSET tick.cands : CallDecides(r, b)
    \/ BoardMoves \/ PricesMove \/ StatusMoves \/ Restart

Spec == Init /\ [][Next]_vars

(***************************************************************************)
(* The loop of run_advisor ticks for as long as the process runs, the      *)
(* prices are one query, and a model call ends by its timeout.             *)
(***************************************************************************)
Called ==
    \/ \E d \in Details \ {"ok"} : CallFails(d)
    \/ \E r, b \in SUBSET tick.cands : CallDecides(r, b)
Fairness == WF_vars(Tick) /\ WF_vars(RefreshBeforeLlm) /\ WF_vars(Called)
FairSpec == Spec /\ Fairness

-----------------------------------------------------------------------------
(***************************************************************************)
(* A set that stands still is paid for twice at most: once when new prices *)
(* turned another set into it between the window and the call, and once as *)
(* itself.  A restart, a newer prompt or a spent budget adds no call.      *)
(***************************************************************************)
AskedAtMostTwice == asked.n <= 2

(***************************************************************************)
(* A set whose reply was under the combined-odd floor is no decision: as   *)
(* long as it stands and the strategy is funded, it is asked about again,  *)
(* also by the process that starts after a restart.                        *)
(***************************************************************************)
Undecided ==
    /\ status = "sandbox" /\ cycle.detail = "below_threshold"
    /\ Playable(board) = cycle.sig
BelowThresholdIsRetried == ~<>[]Undecided
=============================================================================
