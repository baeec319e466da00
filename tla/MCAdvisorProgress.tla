-------------------------- MODULE MCAdvisorProgress --------------------------
(***************************************************************************)
(* What the advisor must bring to an end: its outboxes, the sets of        *)
(* candidates, the operator's own bets, and the turns at the cycle lock    *)
(* beside the daily summaries.  `part' is chosen at the start and only     *)
(* that part moves; the others keep one initial state, in which nothing is *)
(* due.  The budget's cycles are the module's own variables, the other     *)
(* parts are instances.                                                    *)
(***************************************************************************)
EXTENDS LlmBudget

CONSTANTS
    \* Outbox
    Notices, Traces, MaxAttempts, Batch, MaxCrashes

VARIABLES
    part,
    \* Outbox
    notice, pass, posted, trace, exported, claim, answer, orphans, crashes,
    \* OperatorBets
    pitch, stored, events, bet, tx,
    \* CandidateWindow
    board, priced, refused, opened, status, versions, prompt, cycle, window,
    tick, asked, left

Boxes == INSTANCE Outbox

OwnBets == INSTANCE OperatorBets WITH
    Bets <- {1, 2}, Requests <- {"r1"}, Manual <- {"r2"}, Outcomes <- {"void"},
    MaxGoals <- 1, board <- stored

Window == INSTANCE CandidateWindow WITH
    Keys <- {<<1, 0>>, <<1, 1>>, <<2, 0>>}, Strong <- {<<1, 0>>}, Wait <- 1,
    MaxMoves <- 1, MaxSkips <- 1, MaxBelow <- 1, MaxRestarts <- 1, rejected <- refused

\* What the proofs about the outboxes assume of their constants.
ASSUME BoxConstants == Boxes!ConstantsOK

boxVars == <<notice, pass, posted, trace, exported, claim, answer, orphans, crashes>>
betVars == <<pitch, stored, events, bet, tx>>
windowVars == <<board, priced, refused, opened, status, versions, prompt, cycle,
                window, tick, asked, left>>
allVars == <<part, vars, boxVars, betVars, windowVars>>

-----------------------------------------------------------------------------
MCInit ==
    /\ part \in {"budget", "outbox", "bets", "window"}
    /\ Init /\ Boxes!Init /\ OwnBets!Init /\ Window!Init
    /\ part # "window" => board = {} /\ priced = {} /\ versions = <<"p4">>

MCNext ==
    /\ UNCHANGED part
    /\ \/ /\ part = "budget" /\ Next
          /\ UNCHANGED <<boxVars, betVars, windowVars>>
       \/ /\ part = "outbox" /\ Boxes!Next
          /\ UNCHANGED <<vars, betVars, windowVars>>
       \/ /\ part = "bets" /\ OwnBets!Next
          /\ UNCHANGED <<vars, boxVars, windowVars>>
       \/ /\ part = "window" /\ Window!Next
          /\ UNCHANGED <<vars, boxVars, betVars>>

MCSpec ==
    /\ MCInit /\ [][MCNext]_allVars
    /\ \A a \in Advisors :
         /\ WF_vars(part = "budget" /\ Runs(a))
         /\ SF_vars(part = "budget" /\ TakeLock(a))
    /\ SF_boxVars(part = "outbox" /\ Boxes!DeliverPending)
    /\ WF_boxVars(part = "outbox" /\ Boxes!PostOne)
    /\ WF_boxVars(part = "outbox" /\ Boxes!EndPass)
    /\ \A t \in Traces :
         /\ SF_boxVars(part = "outbox" /\ Boxes!Claim(t))
         /\ WF_boxVars(part = "outbox" /\ Boxes!Send(t))
         /\ WF_boxVars(part = "outbox" /\ Boxes!Mark(t))
    /\ WF_betVars(part = "bets" /\ OwnBets!AutoRead)
    /\ WF_betVars(part = "bets" /\ OwnBets!AutoCommit)
    /\ WF_windowVars(part = "window" /\ Window!Tick)
    /\ WF_windowVars(part = "window" /\ Window!RefreshBeforeLlm)
    /\ WF_windowVars(part = "window" /\ Window!Called)

-----------------------------------------------------------------------------
(* What the run checks; more is said where each is defined.                *)
(* OneCallPerSummary and LockIsFreed are LlmBudget's own.                  *)

\* Outbox: no message goes out more often than what is on record allows for.
SendingsAreCounted == part = "outbox" => Boxes!TypeOK /\ Boxes!SendingsAreCounted
\* Outbox: what is pending is sent or given up.
OutboxesDrain == Boxes!OutboxesDrain
\* OperatorBets: a bet on a match that was played is settled.
PlayedBetsSettle == OwnBets!PlayedBetsSettle
\* CandidateWindow: a reply under the floor is asked for again.
BelowThresholdIsRetried == Window!BelowThresholdIsRetried
=============================================================================
