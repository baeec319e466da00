--------------------------- MODULE MCAdvisorRules ---------------------------
(***************************************************************************)
(* The advisor's rules, each checked by itself: `part' is chosen at the    *)
(* start and only that part moves; the others keep one initial state.  The *)
(* budget's cycles are the module's own variables, the other parts are     *)
(* instances.                                                              *)
(***************************************************************************)
EXTENDS LlmBudget

CONSTANTS
    GoalsAPeriod,    \* LegRules
    \* BoardRules
    Books, Prices, MaxFavoriteOdd, PeriodLimit, SideGoals, MaxReds,
    \* SandboxBook
    BookMatches, BookGoals, BookCoupons, BookMoves, Bankroll, StakeStep,
    \* PromotionBook
    Sample, Recent, MaxDrop, Rate, Loss, MaxBook, MaxBase,
    \* PromptNote
    NoteMatches, Others, RegulationLimit, ExtraLimit, PageExtraLimit, Minutes, NoteGoals,
    \* RecommendationGate
    HoursADay, Start, End, CouponLimit, LossLimit, PerReply, MaxCoupons, MaxDays,
    \* OperatorBets
    Bets, Requests, Manual, Outcomes, BetGoals,
    \* CandidateWindow
    Keys, Strong, Wait, MaxMoves, MaxSkips, MaxBelow, MaxRestarts

VARIABLES
    part,
    \* LegRules
    truth, row, quotes, rejected, leg, hit,
    \* BoardRules
    stage, offers, pairs, odds, tie, match,
    \* SandboxBook
    kind, bookStatus, played, refreshed, late, slips, corrected, moves,
    \* PromptNote
    shown, notes,
    \* PromotionBook
    book, base, status,
    \* RecommendationGate
    clock, coupons, gateTick,
    \* OperatorBets
    pitch, stored, events, bet, tx,
    \* CandidateWindow
    board, priced, refused, opened, strategy, versions, prompt, cycle, window,
    tick, asked, left

Legs == INSTANCE LegRules WITH MaxGoals <- GoalsAPeriod

Board == INSTANCE BoardRules WITH
    MaxGoals <- SideGoals, MaxPeriodGoals <- PeriodLimit

Sandbox == INSTANCE SandboxBook WITH
    Fixtures <- BookMatches, MaxGoals <- BookGoals, MaxCoupons <- BookCoupons,
    MaxMoves <- BookMoves, status <- bookStatus, match <- played, coupons <- slips

Note == INSTANCE PromptNote WITH
    Fixtures <- NoteMatches, Goals <- NoteGoals, match <- shown

Promotion == INSTANCE PromotionBook

Gate == INSTANCE RecommendationGate WITH tick <- gateTick

OwnBets == INSTANCE OperatorBets WITH MaxGoals <- BetGoals, board <- stored

\* Two matches, one of them with a goal; its first score may be bet alone.
WindowKeys == {<<1, 0>>, <<1, 1>>, <<2, 0>>}
StrongKeys == {<<1, 0>>}
Window == INSTANCE CandidateWindow WITH rejected <- refused, status <- strategy

\* What the proofs about these parts assume of their constants.
ASSUME LegConstants == GoalsAPeriod \in Nat \ {0}
ASSUME BoardConstants == Board!ConstantsOK
ASSUME BookConstants ==
    IsFiniteSet(BookMatches) /\ {BookGoals, BookMoves, Bankroll, StakeStep} \subseteq Nat
ASSUME PromotionConstants == Rate \in Nat \ {0} /\ Sample \in Nat /\ MaxDrop \in Nat
ASSUME GateConstants == Gate!ConstantsOK
ASSUME BetConstants == OwnBets!ConstantsOK
ASSUME WindowConstants == Wait \in Nat
ASSUME NoteConstants == Note!ConstantsOK /\ ExtraLimit = PageExtraLimit

legVars == <<truth, row, quotes, rejected, leg, hit>>
boardVars == <<stage, offers, pairs, odds, tie, match>>
sandboxVars == <<kind, bookStatus, played, refreshed, late, slips, corrected, moves>>
noteVars == <<shown, notes>>
promotionVars == <<book, base, status>>
gateVars == <<clock, coupons, gateTick>>
betVars == <<pitch, stored, events, bet, tx>>
windowVars == <<board, priced, refused, opened, strategy, versions, prompt, cycle,
                window, tick, asked, left>>
allVars == <<part, vars, legVars, boardVars, sandboxVars, noteVars, promotionVars,
             gateVars, betVars, windowVars>>

-----------------------------------------------------------------------------
MCInit ==
    /\ part \in {"budget", "legs", "board", "sandbox", "note", "promotion", "gate",
                 "bets", "window"}
    /\ Init /\ Legs!Init /\ Promotion!Init /\ Gate!Init /\ OwnBets!Init
    /\ Sandbox!Init /\ (part # "sandbox" => kind = "llm")
    /\ Window!Init
    /\ part # "window" => board = {} /\ priced = {} /\ versions = <<"p4">>
    /\ IF part = "board" THEN Board!Init
       ELSE /\ stage = "off" /\ offers = "off" /\ pairs = "off" /\ odds = "off"
            /\ tie = "off" /\ match = "off"
    /\ IF part = "note" THEN Note!Init ELSE shown = "off" /\ notes = "off"

MCNext ==
    /\ UNCHANGED part
    /\ \/ /\ part = "budget" /\ Next
          /\ UNCHANGED <<legVars, boardVars, sandboxVars, noteVars, promotionVars,
                         gateVars, betVars, windowVars>>
       \/ /\ part = "legs" /\ Legs!Next
          /\ UNCHANGED <<vars, boardVars, sandboxVars, noteVars, promotionVars,
                         gateVars, betVars, windowVars>>
       \/ /\ part = "board" /\ Board!Next
          /\ UNCHANGED <<vars, legVars, sandboxVars, noteVars, promotionVars,
                         gateVars, betVars, windowVars>>
       \/ /\ part = "sandbox" /\ Sandbox!Next
          /\ UNCHANGED <<vars, legVars, boardVars, noteVars, promotionVars,
                         gateVars, betVars, windowVars>>
       \/ /\ part = "note" /\ Note!Next
          /\ UNCHANGED <<vars, legVars, boardVars, sandboxVars, promotionVars,
                         gateVars, betVars, windowVars>>
       \/ /\ part = "promotion" /\ Promotion!Next
          /\ UNCHANGED <<vars, legVars, boardVars, sandboxVars, noteVars,
                         gateVars, betVars, windowVars>>
       \/ /\ part = "gate" /\ Gate!Next
          /\ UNCHANGED <<vars, legVars, boardVars, sandboxVars, noteVars,
                         promotionVars, betVars, windowVars>>
       \/ /\ part = "bets" /\ OwnBets!Next
          /\ UNCHANGED <<vars, legVars, boardVars, sandboxVars, noteVars,
                         promotionVars, gateVars, windowVars>>
       \/ /\ part = "window" /\ Window!Next
          /\ UNCHANGED <<vars, legVars, boardVars, sandboxVars, noteVars,
                         promotionVars, gateVars, betVars>>

MCSpec == MCInit /\ [][MCNext]_allVars

-----------------------------------------------------------------------------
(* What the run checks, with the types of the part it is about; more is    *)
(* said where each is defined.  CyclesKeepTheBudget is LlmBudget's own.    *)

\* LegRules: the page and the ledger agree about a leg and its coupon.
ReadersAgree == part = "legs" => Legs!TypeOK /\ Legs!ReadersAgree
\* BoardRules: matches are selected alike for both sides, and the gates of the
\* prompt let them through.
SelectionIsSound == part = "board" => Board!TypeOK /\ Board!SelectionIsSound
\* SandboxBook: no stake is placed that the bankroll does not hold, and the record
\* of a decision agrees with the settled leg.
BookIsSound == part = "sandbox" => Sandbox!TypeOK /\ Sandbox!BookIsSound
\* PromptNote: the page names a gap exactly where the tick leaves a match out.
NoteAgreesWithPrompt == Note!NoteAgreesWithPrompt
\* PromotionBook: a promotion rests on a book that earns without a deep drop.
PromotedBookHolds == Promotion!PromotedBookHolds
\* RecommendationGate: a day keeps the limit but for what one reply may add.
DayStaysNearItsLimit == part = "gate" => Gate!DayStaysNearItsLimit
\* OperatorBets: one open bet on a match, and none won without a goal.
BetsAreFair == part = "bets" => OwnBets!TypeOK /\ OwnBets!BetsAreFair
\* OperatorBets: the program never decides a bet in two ways.
AutoNeverContradicts == OwnBets!AutoNeverContradicts
\* CandidateWindow: a set that stands still is paid for twice at most.
AskedAtMostTwice == part = "window" => Window!TypeOK /\ Window!AskedAtMostTwice
=============================================================================
