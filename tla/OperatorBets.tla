----------------------------- MODULE OperatorBets -----------------------------
(***************************************************************************)
(* The operator's own next-goal bets (services/operator_bets.py and the    *)
(* two POST handlers of api/main.py), on one match.  Bets are placed and   *)
(* settled by hand in the status process, and settled from the stored      *)
(* score and goal events by every tick of the worker and by every request  *)
(* that places one.  Each runs in a transaction of its own that reads rows *)
(* without locking them.                                                   *)
(*                                                                         *)
(* A score is the goals of each side.  The stored score may show a goal    *)
(* that is taken back (an API flicker); stored events are goals that fell. *)
(***************************************************************************)
EXTENDS Naturals, FiniteSets, FiniteSetsExt

CONSTANTS
    Bets,        \* ids of bets, given out in order
    Requests,    \* requests that place a bet, served at the same time
    Manual,      \* requests that settle one by hand
    Outcomes,    \* the outcomes the operator gives
    MaxGoals     \* bound on the goals of the match

\* Ids are numbers, and settle_bet_manual refuses any other outcome.
ConstantsOK ==
    /\ Bets \subseteq Nat /\ IsFiniteSet(Bets) /\ MaxGoals \in Nat
    /\ Outcomes \subseteq {"won", "lost", "void"}

Sides == {"home", "away"}
Scores == [Sides -> 0 .. MaxGoals + 1]
Total(score) == score["home"] + score["away"]
Ended == {"finished", "stopped"}
Processes == Requests \cup Manual \cup {"worker"}

VARIABLES
    pitch,      \* the match: goals and phase
    board,      \* the stored match: goals and phase
    events,     \* the stored goal events that have a minute, by side
    bet,        \* the ledger: status, snapshot, and who settled it
    tx          \* what each process is doing

vars == <<pitch, board, events, bet, tx>>

NoGoals == [s \in Sides |-> 0]
NoBet == [status |-> "none", snap |-> NoGoals, by |-> "nobody"]
NoTx == [step |-> "idle", snap |-> NoGoals, writes |-> [b \in {} |-> "open"]]

TypeOK ==
    /\ {pitch, board} \subseteq [goals : Scores, phase : {"live"} \cup Ended]
    /\ events \in Scores
    /\ bet \in [Bets -> [status : {"none", "open", "won", "lost", "void"},
                         snap : Scores, by : {"nobody", "operator", "auto"}]]
    /\ \A p \in Processes :
         /\ tx[p].step \in {"idle", "board", "place", "manual", "auto"}
         /\ tx[p].snap \in Scores
         /\ DOMAIN tx[p].writes \subseteq Bets

Init ==
    /\ pitch = [goals |-> NoGoals, phase |-> "live"]
    /\ board = pitch
    /\ events = NoGoals
    /\ bet = [b \in Bets |-> NoBet]
    /\ tx = [p \in Processes |-> NoTx]

-----------------------------------------------------------------------------
(* The match, and the ingest that stores it.                               *)

Goal(s) ==
    /\ pitch.phase = "live" /\ Total(pitch.goals) < MaxGoals
    /\ pitch' = [pitch EXCEPT !.goals[s] = @ + 1]
    /\ UNCHANGED <<board, events, bet, tx>>

Ends ==
    /\ pitch.phase = "live"
    /\ \E phase \in Ended : pitch' = [pitch EXCEPT !.phase = phase]
    /\ UNCHANGED <<board, events, bet, tx>>

\* A score poll; while the match is in play it may show one goal too many (the
\* sides are alike: the home side's).
StoreScore ==
    /\ board.phase = "live"
    /\ \/ board' = pitch
       \/ pitch.phase = "live" /\ board' = [pitch EXCEPT !.goals["home"] = @ + 1]
    /\ UNCHANGED <<pitch, events, bet, tx>>

StoreEvents ==
    /\ events # pitch.goals
    /\ events' = pitch.goals
    /\ UNCHANGED <<pitch, board, bet, tx>>

-----------------------------------------------------------------------------
(* Automatic settlement.                                                   *)

\* has_counting_goal_since_snapshot: the running score of the events only
\* grows, so it passes the snapshot if it ends past it.
CountingGoal(snap) == \E s \in Sides : events[s] > snap[s]

\* Mutant: a score that has moved wins.
ResolveTrustsScore(snap) ==
    CASE CountingGoal(snap) \/ Total(board.goals) > Total(snap) -> "won"
      [] board.phase = "finished" /\ Total(board.goals) <= Total(snap) -> "lost"
      [] OTHER -> "open"

\* Mutant: a goal without an event is waited for, after the end as well.
ResolveWaitsForEvents(snap) ==
    CASE CountingGoal(snap) -> "won"
      [] ~CountingGoal(snap) /\ board.phase = "finished" /\ board.goals = snap -> "lost"
      [] OTHER -> "open"

\* Mutant: a score below the snapshot is no reason to wait.
ResolveIgnoresDrop(snap) ==
    CASE CountingGoal(snap) -> "won"
      [] ~CountingGoal(snap) /\ board.phase = "finished" ->
           IF Total(board.goals) > Total(snap) THEN "won" ELSE "lost"
      [] OTHER -> "open"

\* resolve_auto_outcome; "open" stands for None.
ResolveAutoOutcome(snap) ==
    CASE CountingGoal(snap) -> "won"
      [] ~CountingGoal(snap) /\ board.phase = "finished"
           /\ \A s \in Sides : board.goals[s] >= snap[s] ->
              IF Total(board.goals) > Total(snap) THEN "won" ELSE "lost"
      [] OTHER -> "open"

\* settle_open_tickets reads the open bets, the match and its events, and
\* decides; the rows are written when the transaction commits.
Decided ==
    LET due == {b \in Bets : bet[b].status = "open" /\ ResolveAutoOutcome(bet[b].snap) # "open"}
    IN  [b \in due |-> ResolveAutoOutcome(bet[b].snap)]

\* Rows are written by primary key, whatever their status is by now.
Written(writes, by) ==
    [b \in Bets |-> IF b \in DOMAIN writes
                    THEN [bet[b] EXCEPT !.status = writes[b], !.by = by] ELSE bet[b]]

\* settle_open_from_engine, at the end of a tick.
AutoRead ==
    /\ tx["worker"].step = "idle" /\ DOMAIN Decided # {}
    /\ tx' = [tx EXCEPT !["worker"] = [NoTx EXCEPT !.step = "auto", !.writes = Decided]]
    /\ UNCHANGED <<pitch, board, events, bet>>

AutoCommit ==
    /\ tx["worker"].step = "auto"
    /\ bet' = Written(tx["worker"].writes, "auto")
    /\ tx' = [tx EXCEPT !["worker"] = NoTx]
    /\ UNCHANGED <<pitch, board, events>>

-----------------------------------------------------------------------------
(* Requests.                                                               *)

\* place_live_bet finds the match on the board, in a connection of its own ...
PlaceReadsBoard(r) ==
    /\ tx[r].step = "idle" /\ board.phase = "live"
    /\ tx' = [tx EXCEPT ![r] = [NoTx EXCEPT !.step = "board", !.snap = board.goals]]
    /\ UNCHANGED <<pitch, board, events, bet>>

\* ... then settles what is due and looks for an open bet.  If there is one the
\* whole transaction is rolled back, the settlements too.
PlaceChecks(r) ==
    /\ tx[r].step = "board"
    /\ tx' = [tx EXCEPT ![r] =
                IF \E b \in Bets \ DOMAIN Decided : bet[b].status = "open"
                THEN NoTx ELSE [@ EXCEPT !.step = "place", !.writes = Decided]]
    /\ UNCHANGED <<pitch, board, events, bet>>

\* Mutant: no unique index on the open bets of a match.
IndexMissing(ledger) == TRUE

\* uq_operator_bets_open_fixture
IndexAllows(ledger) == Cardinality({b \in Bets : ledger[b].status = "open"}) = 0

Free == {b \in Bets : bet[b] = NoBet}

\* The insert and the commit; the index fails it when another bet was placed
\* since the check.
PlaceCommits(r) ==
    /\ tx[r].step = "place"
    /\ LET settled == Written(tx[r].writes, "auto")
       IN  IF IndexAllows(settled)
           THEN /\ Free # {}
                /\ bet' = [settled EXCEPT ![Min(Free)] =
                              [NoBet EXCEPT !.status = "open", !.snap = tx[r].snap]]
           ELSE UNCHANGED bet
    /\ tx' = [tx EXCEPT ![r] = NoTx]
    /\ UNCHANGED <<pitch, board, events>>

\* settle_bet_manual: a bet that is not open any more is refused.
ManualRead(r) ==
    /\ tx[r].step = "idle"
    /\ \E b \in Bets, outcome \in Outcomes :
         /\ bet[b].status = "open"
         /\ tx' = [tx EXCEPT ![r] = [NoTx EXCEPT !.step = "manual",
                                                 !.writes = [x \in {b} |-> outcome]]]
    /\ UNCHANGED <<pitch, board, events, bet>>

ManualCommit(r) ==
    /\ tx[r].step = "manual"
    /\ bet' = Written(tx[r].writes, "operator")
    /\ tx' = [tx EXCEPT ![r] = NoTx]
    /\ UNCHANGED <<pitch, board, events>>

Next ==
    \/ \E s \in Sides : Goal(s)
    \/ Ends \/ StoreScore \/ StoreEvents \/ AutoRead \/ AutoCommit
    \/ \E r \in Requests : PlaceReadsBoard(r) \/ PlaceChecks(r) \/ PlaceCommits(r)
    \/ \E r \in Manual : ManualRead(r) \/ ManualCommit(r)

\* Every tick of the worker settles, whatever else it does.
Fairness == WF_vars(AutoRead) /\ WF_vars(AutoCommit)

Spec == Init /\ [][Next]_vars /\ Fairness

-----------------------------------------------------------------------------
\* A match never has two open bets, though two requests may both have seen none.
OneOpenBet == Cardinality({b \in Bets : bet[b].status = "open"}) <= 1

\* A bet the program counts as won has seen a goal: the stored score that shows
\* one too many never wins it ("Trusting live score alone caused false wins on
\* API flickers", resolve_auto_outcome).
WonByAGoal ==
    \A b \in Bets : bet[b].status = "won" /\ bet[b].by = "auto" =>
        \E s \in Sides : pitch.goals[s] > bet[b].snap[s]

\* What the program has decided of a bet it never decides otherwise: two
\* settlements that overlap agree, and only the operator's can be overwritten
\* or overwrite one.
AutoNeverContradicts ==
    [][\A b \in Bets : bet[b].by = "auto" /\ bet'[b].by = "auto"
                       => bet'[b].status = bet[b].status]_vars

\* A bet on a match that was played to its end is settled, unless its snapshot
\* shows a goal that was taken back: that one waits for the operator.
PlayedBetsSettle ==
    \A b \in Bets :
        /\ bet[b].status = "open" /\ board.phase = "finished"
        /\ \A s \in Sides : board.goals[s] >= bet[b].snap[s]
        ~> bet[b].status # "open"

\* One open bet on a match, and none won without a goal.
BetsAreFair == OneOpenBet /\ WonByAGoal
===============================================================================
