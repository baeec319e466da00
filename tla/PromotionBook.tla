--------------------------- MODULE PromotionBook ---------------------------
(***************************************************************************)
(* Which strategy may recommend: promotion reads the whole sandbox book of *)
(* the strategy and of the baseline, the loop withdraws the promoted       *)
(* strategy on its newest coupons alone (services/advisor/recommend.py,    *)
(* services/advisor/recommend_ops.py).                                     *)
(*                                                                         *)
(* Odds are even money after the payout share.  A yield is a whole number  *)
(* of 1/Rate, rounded half up as the code rounds at 1/10000.               *)
(***************************************************************************)
EXTENDS Totals

CONSTANTS Sample,      \* PROMOTION_SAMPLE
          Recent,      \* the coupons withdraw_promoted reads
          MaxDrop,     \* MAX_DRAWDOWN of the bankroll, in stakes
          Rate,        \* steps of a rounded yield
          Loss,        \* minus withdraw_yield, in steps of 1/Rate
          MaxBook,     \* bound: coupons of the strategy
          MaxBase      \* bound: coupons of the baseline

VARIABLES book,     \* the strategy's sandbox coupons by id: stake, status
          base,     \* the baseline's
          status    \* advisor_strategies.status of the llm strategy

vars == <<book, base, status>>

Coupon == [stake : {1, 2}, status : {"open", "won", "lost"}]

Init == book = <<>> /\ base = <<>> /\ status = "sandbox"

-----------------------------------------------------------------------------
(* The record of a book.                                                   *)

\* settled_pnl
Pnl(c) == IF c.status = "won" THEN c.stake ELSE - c.stake

Pnls(cs) == [i \in DOMAIN cs |-> Pnl(cs[i])]
Stakes(cs) == Sum([i \in DOMAIN cs |-> cs[i].stake])

\* The settled coupons of a book, in its order.
Settled(cs) ==
    LET upTo[i \in 0 .. Len(cs)] ==
            IF i = 0 THEN <<>>
            ELSE IF cs[i].status \in {"won", "lost"} THEN Append(upTo[i - 1], cs[i])
            ELSE upTo[i - 1]
    IN  upTo[Len(cs)]

\* _sandbox_book: the newest `limit' settled coupons, by id, oldest first.
SandboxBook(cs, limit) ==
    LET s == Settled(cs) IN
    SubSeq(s, IF Len(s) > limit THEN Len(s) - limit + 1 ELSE 1, Len(s))

\* net_yield of a book with a settled coupon: half up, away from zero.
NetYield(cs) ==
    LET pnl == Sum(Pnls(cs))
        stakes == Stakes(cs)
        size == (2 * (IF pnl < 0 THEN - pnl ELSE pnl) * Rate + stakes) \div (2 * stakes)
    IN  IF pnl < 0 THEN - size ELSE size

\* Mutant: the drop is measured from the bankroll, not from the peak.
MaxDrawdownFromStart(cs) ==
    LET upTo[i \in 0 .. Len(cs)] ==
            IF i = 0 THEN [equity |-> 0, worst |-> 0]
            ELSE LET equity == upTo[i - 1].equity + Pnl(cs[i]) IN
                 [equity |-> equity,
                  worst |-> IF - equity > upTo[i - 1].worst THEN - equity
                            ELSE upTo[i - 1].worst]
    IN  upTo[Len(cs)].worst

\* max_drawdown, in stakes: every book starts from the same bankroll.
MaxDrawdown(cs) ==
    LET upTo[i \in 0 .. Len(cs)] ==
            IF i = 0 THEN [equity |-> 0, peak |-> 0, worst |-> 0]
            ELSE LET equity == upTo[i - 1].equity + Pnl(cs[i])
                     peak == IF equity > upTo[i - 1].peak THEN equity ELSE upTo[i - 1].peak
                 IN  [equity |-> equity, peak |-> peak,
                      worst |-> IF peak - equity > upTo[i - 1].worst THEN peak - equity
                                ELSE upTo[i - 1].worst]
    IN  upTo[Len(cs)].worst

\* promotion_block is None.  A book without a settled coupon has no yield.
MayPromote ==
    LET own == Settled(book)
        other == Settled(base)      \* _baseline_yield
    IN  /\ Len(own) >= Sample
        /\ own # <<>> /\ NetYield(own) > 0
        /\ other # <<>> /\ NetYield(own) > NetYield(other)
        /\ MaxDrawdown(own) <= MaxDrop

WithdrawDue ==
    LET new == SandboxBook(book, Recent) IN new # <<>> /\ NetYield(new) < - Loss

-----------------------------------------------------------------------------
(* Steps.                                                                  *)

\* A cycle places a coupon of the strategy.
Place ==
    /\ Len(book) < MaxBook
    /\ \E stake \in {1, 2} : book' = Append(book, [stake |-> stake, status |-> "open"])
    /\ UNCHANGED <<base, status>>

PlaceBaseline ==
    /\ Len(base) < MaxBase
    /\ \E stake \in {1, 2} : base' = Append(base, [stake |-> stake, status |-> "open"])
    /\ UNCHANGED <<book, status>>

\* A coupon settles, in any order of ids, or a settled one is corrected.
Settle ==
    /\ \/ \E i \in DOMAIN book, r \in {"won", "lost"} :
             book' = [book EXCEPT ![i].status = r] /\ UNCHANGED base
       \/ \E i \in DOMAIN base, r \in {"won", "lost"} :
             base' = [base EXCEPT ![i].status = r] /\ UNCHANGED book
    /\ UNCHANGED status

\* The operator promotes the strategy.
Promote ==
    /\ status = "sandbox" /\ MayPromote
    /\ status' = "promoted" /\ UNCHANGED <<book, base>>

\* withdraw_promoted, in a pass of the loop.
Withdraw ==
    /\ status = "promoted" /\ WithdrawDue
    /\ status' = "sandbox" /\ UNCHANGED <<book, base>>

Next == Place \/ PlaceBaseline \/ Settle \/ Promote \/ Withdraw

Spec == Init /\ [][Next]_vars

-----------------------------------------------------------------------------
(* Properties.                                                             *)

\* A strategy is promoted only on a book that earns, earns more for its
\* stakes than the baseline exactly and not only after rounding, and at no
\* point of it lay further than MaxDrop under an earlier point
\* (promote_strategy, promotion_block, max_drawdown).
PromotedBookHolds ==
    [][status = "sandbox" /\ status' = "promoted" =>
         LET own == Settled(book)
             other == Settled(base)
             Level(i) == Sum(SubSeq(Pnls(own), 1, i))
         IN  /\ Len(own) >= Sample /\ Sum(Pnls(own)) > 0
             /\ Sum(Pnls(own)) * Stakes(other) > Sum(Pnls(other)) * Stakes(own)
             /\ \A i, j \in 0 .. Len(own) : i <= j => Level(i) - Level(j) <= MaxDrop]_vars

=============================================================================
