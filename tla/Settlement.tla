------------------------------ MODULE Settlement ------------------------------
(***************************************************************************)
(* How one leg and one coupon are settled, as the advisor computes it      *)
(* (services/advisor/domain.py, services/advisor/settle.py).               *)
(*                                                                         *)
(* A board is what the worker last stored of a match: its phase and the    *)
(* goals of the leg's period.  While the match is in play goals is the     *)
(* live count; once finished it is the period's final total, or NoTotal    *)
(* when the vendor has not filled it in.  One number stands for the score: *)
(* a goal of either side changes it.                                       *)
(*   play       unfinished, in the leg's own period (period_for)           *)
(*   off        any other unfinished status: SUSP, INT, P, NS, and extra   *)
(*              time for a leg on the regulation period                    *)
(*   finished   FINISHED_FIXTURE_STATUSES  (FT, AET, PEN)                  *)
(*   irregular  IRREGULAR_FIXTURE_STATUSES (PST, CANC, ABD, AWD, WO)       *)
(***************************************************************************)
EXTENDS Integers

NoTotal == -1

Phases == {"play", "off", "finished", "irregular"}

LegStatus == {"open", "won", "lost", "void", "removed", "manual"}

\* A leg of these statuses is covered by the partial unique indexes.
HoldsFixture == {"open", "manual"}

\* Settlement of an Over n+0.5 leg: awaiting says the match is unfinished a
\* day after kick-off, refreshed that its detail task is done.
SettleLeg(n, b, refreshed, awaiting) ==
    CASE b.phase = "irregular"                 -> "void"
      [] b.phase \in {"play", "off"}           -> IF awaiting THEN "manual"
                                                              ELSE "pending"
      [] b.phase = "finished" /\ ~refreshed    -> "pending"
      [] b.phase = "finished" /\ refreshed     ->
            IF b.goals = NoTotal THEN "manual"
            ELSE IF b.goals > n THEN "won" ELSE "lost"

\* A removed leg drops out of the coupon exactly as a void one does.
AsSettlement(status) ==
    CASE status = "removed" -> "void"
      [] status = "open"    -> "pending"
      [] OTHER              -> status

\* Outcome of a coupon from the set of its legs' outcomes: one lost leg
\* loses it even while others are undecided.
SettleCoupon(outcomes) ==
    IF "lost" \in outcomes THEN "lost"
    ELSE IF "manual" \in outcomes THEN "manual"
    ELSE IF "pending" \in outcomes THEN "pending"
    ELSE IF outcomes \subseteq {"void"} THEN "void"
    ELSE "won"

\* Results that _refresh_coupon writes to the coupon row; the others leave it.
FinalResults == {"won", "lost", "void"}
===============================================================================
