------------------------- MODULE RecommendationGate -------------------------
(***************************************************************************)
(* How many coupons a day recommends.  A tick counts the day's coupons and *)
(* its loss once, at its start, and the promoted strategy's reply may open *)
(* several coupons afterwards (services/advisor/recommend.py, tick.py,     *)
(* recommend_ops.py).  The operator, the expiry and the settlement work on *)
(* the coupons meanwhile, and midnight may pass.                           *)
(***************************************************************************)
EXTENDS Integers, Sequences, FiniteSets

CONSTANTS HoursADay,     \* hours of a day
          Start, End,    \* operator_hours
          CouponLimit,   \* recommendation_coupon_limit
          LossLimit,     \* recommendation_loss_limit, in stakes
          PerReply,      \* bound: coupons of one reply
          MaxCoupons,    \* bound: coupons ever opened
          MaxDays        \* bound: days

ConstantsOK ==
    /\ {CouponLimit, HoursADay, MaxDays} \subseteq Nat \ {0}
    /\ {PerReply, MaxCoupons} \subseteq Nat

VARIABLES clock,     \* day and hour
          coupons,   \* recommendations by id: created, placed (days), status
          tick       \* the tick under way: its day and its gate, or Idle

vars == <<clock, coupons, tick>>

Idle == [day |-> 0, open |-> FALSE, run |-> FALSE]

Init ==
    /\ clock = [day |-> 1, hour |-> 0]
    /\ coupons = <<>> /\ tick = Idle

-----------------------------------------------------------------------------
(* The gates.                                                              *)

\* hour_allowed: a window may pass midnight.
HourAllowed(hour) ==
    IF Start < End THEN Start <= hour /\ hour < End ELSE hour >= Start \/ hour < End

\* Mutant: only what the operator has not answered counts.
CouponsTodayOpen(day) ==
    Cardinality({i \in DOMAIN coupons : coupons[i].created = day /\ coupons[i].status = "live"})

\* recommendation_usage: what was neither rejected nor expired counts.
CouponsToday(day) ==
    Cardinality({i \in DOMAIN coupons :
                    coupons[i].created = day /\ coupons[i].status # "gone"})

\* The coupons placed that day and settled, at even money.
LossToday(day) ==
    LET Of(result) == Cardinality({i \in DOMAIN coupons :
                          coupons[i].placed = day /\ coupons[i].status = result})
    IN  IF Of("lost") > Of("won") THEN Of("lost") - Of("won") ELSE 0

\* inactive_reason is None.
GateOpen ==
    /\ HourAllowed(clock.hour)
    /\ CouponsToday(clock.day) < CouponLimit
    /\ LossToday(clock.day) < LossLimit

-----------------------------------------------------------------------------
(* Steps.                                                                  *)

\* run_tick reads the usage in its first transaction.
BeginTick ==
    /\ ~tick.run
    /\ tick' = [day |-> clock.day, open |-> GateOpen, run |-> TRUE]
    /\ UNCHANGED <<clock, coupons>>

\* place_proposed for the slips of the promoted strategy's reply; created_at
\* is the tick's own time.  With the gate closed the cycle is a sandbox one.
Recommend ==
    /\ tick.run
    /\ \E k \in 0 .. PerReply :
         /\ tick.open \/ k = 0
         /\ Len(coupons) + k <= MaxCoupons
         /\ coupons' = coupons \o
              [i \in 1 .. k |-> [created |-> tick.day, placed |-> 0, status |-> "live"]]
    /\ tick' = Idle /\ UNCHANGED clock

\* place_coupon
PlaceCoupon(i) ==
    /\ coupons[i].status = "live"
    /\ coupons' = [coupons EXCEPT ![i].status = "placed", ![i].placed = clock.day]

\* reject_coupon, expire_due and a withdrawal; or the operator did not place it.
CloseCoupon(i) ==
    /\ coupons[i].status = "live"
    /\ \E s \in {"gone", "not_placed"} : coupons' = [coupons EXCEPT ![i].status = s]

\* Settlement of a placed coupon, and its correction.
SettleCoupon(i) ==
    /\ coupons[i].status \in {"placed", "won", "lost"}
    /\ \E s \in {"won", "lost"} : coupons' = [coupons EXCEPT ![i].status = s]

Act ==
    /\ \E i \in DOMAIN coupons : PlaceCoupon(i) \/ CloseCoupon(i) \/ SettleCoupon(i)
    /\ UNCHANGED <<clock, tick>>

PassHour ==
    /\ clock' = IF clock.hour + 1 < HoursADay
                THEN [clock EXCEPT !.hour = @ + 1]
                ELSE [day |-> clock.day + 1, hour |-> 0]
    /\ clock'.day <= MaxDays
    /\ UNCHANGED <<coupons, tick>>

Next == BeginTick \/ Recommend \/ Act \/ PassHour

Spec == Init /\ [][Next]_vars

-----------------------------------------------------------------------------
(* Properties.                                                             *)

\* However ticks, answers and midnight interleave, a day keeps no more
\* coupons than the limit and what one reply may add beyond it: the gate is
\* read once a tick, before the model answers (run_tick, recommendation_usage).
DayStaysNearItsLimit ==
    \A day \in 1 .. MaxDays :
        Cardinality({i \in DOMAIN coupons : /\ coupons[i].created = day
                                            /\ coupons[i].status # "gone"})
            <= CouponLimit - 1 + PerReply
=============================================================================
