---------------------------- MODULE AdvisorProofs ----------------------------
(***************************************************************************)
(* What the advisor does before and after it asks the model, for every     *)
(* value of the constants: the gate of a day's coupons, the window before  *)
(* a call, the standing of a leg, and the page beside the prompt.  Each    *)
(* theorem is about one part of MCAdvisorRules.                            *)
(***************************************************************************)
EXTENDS MCAdvisorRules, Sequences, FiniteSetTheorems, SequenceTheorems,
        WellFoundedInduction, TLAPS

-----------------------------------------------------------------------------
(* A day's coupons.                                                        *)

LEMMA GateCardinality == \A S : Gate!Cardinality(S) = Cardinality(S)
  BY DEF Gate!Cardinality, Cardinality

States == {"live", "placed", "won", "lost", "gone", "not_placed"}
Coupon == [created : Nat, placed : Nat, status : States]

\* The coupons of a day that count.
Standing(day) == {i \in DOMAIN coupons : coupons[i].created = day /\ coupons[i].status # "gone"}

GateTyped ==
    /\ clock \in [day : Nat, hour : Nat]
    /\ coupons \in Seq(Coupon)
    /\ gateTick \in [day : Nat, open : BOOLEAN, run : BOOLEAN]

\* While a tick with an open gate runs its day is still under the limit: only
\* its own reply adds coupons, and no step brings one back that is gone.
GateInv ==
    /\ GateTyped
    /\ \A day \in Nat : Cardinality(Standing(day)) <= CouponLimit - 1 + PerReply
    /\ gateTick.run /\ gateTick.open => Cardinality(Standing(gateTick.day)) < CouponLimit

LEMMA StandingIsFinite ==
    ASSUME GateTyped, NEW day
    PROVE  IsFiniteSet(Standing(day)) /\ Cardinality(Standing(day)) \in Nat
<1>1. DOMAIN coupons = 1 .. Len(coupons) /\ Len(coupons) \in Nat
  BY DEF GateTyped
<1>2. IsFiniteSet(1 .. Len(coupons))
  BY <1>1, FS_Interval
<1>3. Standing(day) \subseteq 1 .. Len(coupons)
  BY <1>1 DEF Standing
<1> QED
  BY <1>2, <1>3, FS_Subset, FS_CardinalityType

\* A step that adds no coupon and brings none back that is gone keeps the count.
LEMMA FewerStand ==
    ASSUME Gate!ConstantsOK, GateInv, GateTyped', UNCHANGED gateTick,
           \A day \in Nat : Standing(day)' \subseteq Standing(day)
    PROVE  GateInv'
<1>1. ASSUME NEW day \in Nat
      PROVE  /\ Cardinality(Standing(day)') <= Cardinality(Standing(day))
             /\ Cardinality(Standing(day)) \in Nat /\ Cardinality(Standing(day)') \in Nat
  <2>1. IsFiniteSet(Standing(day)) /\ Cardinality(Standing(day)) \in Nat
    BY StandingIsFinite DEF GateInv
  <2>2. Standing(day)' \subseteq Standing(day)
    OBVIOUS
  <2> HIDE DEF Standing
  <2>3. Cardinality(Standing(day)') <= Cardinality(Standing(day)) /\ IsFiniteSet(Standing(day)')
    BY <2>1, <2>2, FS_Subset
  <2> QED
    BY <2>1, <2>3, FS_CardinalityType
<1>2. gateTick.day \in Nat /\ UNCHANGED <<gateTick.day, gateTick.run, gateTick.open>>
  BY DEF GateInv, GateTyped
<1>3. CouponLimit \in Nat /\ PerReply \in Nat
  BY DEF Gate!ConstantsOK
<1>4. \A day \in Nat : Cardinality(Standing(day)') <= CouponLimit - 1 + PerReply
  BY <1>1, <1>3 DEF GateInv
<1>5. gateTick.run /\ gateTick.open => Cardinality(Standing(gateTick.day)') < CouponLimit
  BY <1>1, <1>2, <1>3 DEF GateInv
<1>6. gateTick' = gateTick
  OBVIOUS
<1> QED
  BY <1>4, <1>5, <1>6 DEF GateInv

LEMMA GateInit == ASSUME Gate!ConstantsOK, Gate!Init PROVE GateInv
<1>1. GateTyped
  BY DEF Gate!Init, Gate!Idle, GateTyped
<1>2. \A day : Standing(day) = {}
  BY DEF Gate!Init, Standing
<1>3. \A day : Cardinality(Standing(day)) = 0
  BY <1>2, FS_EmptySet
<1>4. CouponLimit \in Nat \ {0} /\ PerReply \in Nat
  BY DEF Gate!ConstantsOK
<1> QED
  BY <1>1, <1>3, <1>4 DEF GateInv

LEMMA BeginTickKeeps == ASSUME Gate!ConstantsOK, GateInv, Gate!BeginTick PROVE GateInv'
<1>1. /\ UNCHANGED <<clock, coupons>>
      /\ gateTick' = [day |-> clock.day, open |-> Gate!GateOpen, run |-> TRUE]
  BY DEF Gate!BeginTick
<1>2. Gate!GateOpen \in BOOLEAN
  BY DEF Gate!GateOpen, Gate!HourAllowed
<1>3. GateTyped'
  BY <1>1, <1>2 DEF GateInv, GateTyped
<1>4. \A day : Standing(day)' = Standing(day)
  BY <1>1 DEF Standing
<1>5. Gate!GateOpen => Cardinality(Standing(clock.day)) < CouponLimit
  BY GateCardinality DEF Gate!GateOpen, Gate!CouponsToday, Standing
<1>6. gateTick'.open = Gate!GateOpen /\ gateTick'.day = clock.day
  BY <1>1
<1>7. gateTick'.run /\ gateTick'.open => Cardinality(Standing(gateTick'.day)) < CouponLimit
  BY <1>5, <1>6
<1> QED
  BY <1>3, <1>4, <1>7 DEF GateInv

LEMMA RecommendKeeps == ASSUME Gate!ConstantsOK, GateInv, Gate!Recommend PROVE GateInv'
<1>1. PICK k \in 0 .. PerReply :
        /\ gateTick.open \/ k = 0
        /\ coupons' = coupons \o
             [i \in 1 .. k |-> [created |-> gateTick.day, placed |-> 0, status |-> "live"]]
  BY DEF Gate!Recommend
<1> DEFINE more == [i \in 1 .. k |-> [created |-> gateTick.day, placed |-> 0, status |-> "live"]]
           new == (Len(coupons) + 1) .. (Len(coupons) + k)
<1>2. k \in Nat /\ k <= PerReply /\ PerReply \in Nat /\ CouponLimit \in Nat \ {0}
  BY DEF Gate!ConstantsOK
<1>3. gateTick.run /\ gateTick' = [day |-> 0, open |-> FALSE, run |-> FALSE] /\ UNCHANGED clock
  BY DEF Gate!Recommend, Gate!Idle
<1>4. more \in Seq(Coupon) /\ Len(more) = k /\ \A i \in 1 .. k : more[i].created = gateTick.day
  <2>1. [created |-> gateTick.day, placed |-> 0, status |-> "live"] \in Coupon
    BY DEF GateInv, GateTyped, Coupon, States
  <2> QED
    BY <1>2, <2>1
<1>5. coupons \in Seq(Coupon) /\ gateTick.day \in Nat
  BY DEF GateInv, GateTyped
<1>6. coupons' = coupons \o more
  BY <1>1
<1> HIDE DEF more
<1>7. /\ coupons' \in Seq(Coupon) /\ Len(coupons') = Len(coupons) + k
      /\ \A i \in 1 .. Len(coupons) + k :
            coupons'[i] = IF i <= Len(coupons) THEN coupons[i] ELSE more[i - Len(coupons)]
  BY <1>4, <1>5, <1>6, ConcatProperties
<1>8. Len(coupons) \in Nat /\ DOMAIN coupons = 1 .. Len(coupons)
  BY <1>5
<1>9. DOMAIN coupons' = 1 .. Len(coupons) + k
  BY <1>7
<1>10. \A i \in DOMAIN coupons : i \in DOMAIN coupons' /\ coupons'[i] = coupons[i]
  BY <1>2, <1>7, <1>8, <1>9
<1>11. \A i \in DOMAIN coupons' : i \notin DOMAIN coupons =>
          i \in new /\ coupons'[i].created = gateTick.day
  BY <1>2, <1>4, <1>7, <1>8, <1>9
<1> HIDE DEF new
<1>12. GateTyped'
  BY <1>3, <1>7 DEF GateInv, GateTyped
<1>13. \A day \in Nat : day # gateTick.day => Standing(day)' = Standing(day)
  BY <1>10, <1>11 DEF Standing
<1>14. \A day \in Nat : Standing(day)' \subseteq Standing(day) \cup new
  BY <1>10, <1>11 DEF Standing
<1>15. ASSUME NEW day \in Nat, day = gateTick.day
       PROVE  Cardinality(Standing(day)') <= CouponLimit - 1 + PerReply
  <2>1. CASE k = 0
    <3>1. Standing(day)' \subseteq Standing(day)
      BY <1>14, <1>2, <1>8, <2>1 DEF new
    <3>2. IsFiniteSet(Standing(day)) /\ Cardinality(Standing(day)) \in Nat
      BY StandingIsFinite DEF GateInv
    <3>3. Cardinality(Standing(day)) <= CouponLimit - 1 + PerReply
      BY DEF GateInv
    <3> HIDE DEF Standing
    <3>4. /\ Cardinality(Standing(day)') <= Cardinality(Standing(day))
          /\ IsFiniteSet(Standing(day)')
      BY <3>1, <3>2, FS_Subset
    <3>5. Cardinality(Standing(day)') \in Nat
      BY <3>4, FS_CardinalityType
    <3> QED
      BY <1>2, <3>2, <3>3, <3>4, <3>5
  <2>2. CASE k # 0
    <3>1. Cardinality(Standing(day)) < CouponLimit
      BY <1>1, <1>3, <1>15, <2>2 DEF GateInv
    <3>2. IsFiniteSet(Standing(day)) /\ Cardinality(Standing(day)) \in Nat
      BY StandingIsFinite DEF GateInv
    <3>3. IsFiniteSet(new) /\ Cardinality(new) = k
      <4>1. /\ Len(coupons) + 1 \in Int /\ Len(coupons) + k \in Int
            /\ Len(coupons) + 1 <= Len(coupons) + k
        BY <1>2, <1>8, <2>2
      <4>2. /\ IsFiniteSet(new)
            /\ Cardinality(new) = IF Len(coupons) + 1 > Len(coupons) + k THEN 0
                                  ELSE Len(coupons) + k - (Len(coupons) + 1) + 1
        BY <4>1, FS_Interval DEF new
      <4> QED
        BY <1>2, <1>8, <4>1, <4>2
    <3> DEFINE old == Standing(day)
    <3> HIDE DEF old, new
    <3>4. /\ IsFiniteSet(old \cup new)
          /\ Cardinality(old \cup new) = Cardinality(old) + k - Cardinality(old \cap new)
      BY <3>2, <3>3, FS_Union DEF old
    <3>5. Cardinality(old \cap new) \in Nat
      BY <3>2, FS_Subset, FS_CardinalityType DEF old
    <3>6. /\ Cardinality(Standing(day)') <= Cardinality(old \cup new)
          /\ IsFiniteSet(Standing(day)')
      BY <1>14, <3>4, FS_Subset DEF old
    <3>7. Cardinality(Standing(day)') \in Nat
      BY <3>6, FS_CardinalityType
    <3> QED
      BY <1>2, <3>1, <3>2, <3>4, <3>5, <3>6, <3>7 DEF old
  <2> QED
    BY <2>1, <2>2
<1>16. \A day \in Nat : Cardinality(Standing(day)') <= CouponLimit - 1 + PerReply
  BY <1>5, <1>13, <1>15 DEF GateInv
<1>17. ~gateTick'.run
  BY <1>3
<1> QED
  BY <1>12, <1>16, <1>17 DEF GateInv

\* An answer, an expiry or a settlement changes one coupon, and none comes back.
LEMMA ActKeeps == ASSUME Gate!ConstantsOK, GateInv, Gate!Act PROVE GateInv'
<1>1. PICK i \in DOMAIN coupons :
        Gate!PlaceCoupon(i) \/ Gate!CloseCoupon(i) \/ Gate!SettleCoupon(i)
  BY DEF Gate!Act
<1>2. UNCHANGED <<clock, gateTick>>
  BY DEF Gate!Act
<1>3. coupons \in Seq(Coupon) /\ clock.day \in Nat
  BY DEF GateInv, GateTyped
<1>4. PICK c \in Coupon :
        /\ coupons' = [coupons EXCEPT ![i] = c]
        /\ c.created = coupons[i].created
        /\ coupons[i].status # "gone"
  <2>0. coupons[i] \in Coupon
    BY <1>3
  <2>1. ASSUME NEW s \in States
        PROVE  /\ [coupons[i] EXCEPT !.status = s] \in Coupon
               /\ [coupons[i] EXCEPT !.status = s].created = coupons[i].created
    BY <2>0 DEF Coupon
  <2>2. CASE Gate!PlaceCoupon(i)
    <3> DEFINE c == [coupons[i] EXCEPT !.status = "placed", !.placed = clock.day]
    <3>1. c \in Coupon /\ c.created = coupons[i].created
      BY <1>3, <2>0 DEF Coupon, States
    <3>2. coupons' = [coupons EXCEPT ![i] = c]
      BY <1>3, <2>0, <2>2 DEF Gate!PlaceCoupon
    <3> QED
      BY <2>2, <3>1, <3>2 DEF Gate!PlaceCoupon
  <2>3. CASE Gate!CloseCoupon(i)
    <3>1. PICK s \in {"gone", "not_placed"} : coupons' = [coupons EXCEPT ![i].status = s]
      BY <2>3 DEF Gate!CloseCoupon
    <3>2. coupons' = [coupons EXCEPT ![i] = [coupons[i] EXCEPT !.status = s]]
      BY <3>1
    <3> QED
      BY <2>1, <2>3, <3>2 DEF Gate!CloseCoupon, States
  <2>4. CASE Gate!SettleCoupon(i)
    <3>1. PICK s \in {"won", "lost"} : coupons' = [coupons EXCEPT ![i].status = s]
      BY <2>4 DEF Gate!SettleCoupon
    <3>2. coupons' = [coupons EXCEPT ![i] = [coupons[i] EXCEPT !.status = s]]
      BY <3>1
    <3> QED
      BY <2>1, <2>4, <3>2 DEF Gate!SettleCoupon, States
  <2> QED
    BY <1>1, <2>2, <2>3, <2>4
<1>5. coupons' \in Seq(Coupon) /\ DOMAIN coupons' = DOMAIN coupons
  BY <1>3, <1>4
<1>6. GateTyped'
  BY <1>2, <1>5 DEF GateInv, GateTyped
<1>7. \A day \in Nat : Standing(day)' \subseteq Standing(day)
  BY <1>3, <1>4, <1>5 DEF Standing
<1> QED
  BY <1>2, <1>6, <1>7, FewerStand

LEMMA PassHourKeeps == ASSUME Gate!ConstantsOK, GateInv, Gate!PassHour PROVE GateInv'
<1>1. UNCHANGED <<coupons, gateTick>>
  BY DEF Gate!PassHour
<1>2. clock' \in [day : Nat, hour : Nat]
  BY DEF GateInv, GateTyped, Gate!PassHour, Gate!ConstantsOK
<1>3. GateTyped'
  BY <1>1, <1>2 DEF GateInv, GateTyped
<1>4. \A day : Standing(day)' = Standing(day)
  BY <1>1 DEF Standing
<1> QED
  BY <1>1, <1>3, <1>4, FewerStand

(***************************************************************************)
(* A day keeps no more coupons than its limit and what one reply may add   *)
(* beyond it, although the gate is read once a tick and answers, expiry,   *)
(* settlement and midnight fall in between (run_tick).                     *)
(***************************************************************************)
THEOREM DayKeepsItsLimit == MCSpec => []DayStaysNearItsLimit
<1> USE GateConstants
<1>1. MCInit => GateInv
  BY GateInit DEF MCInit
<1>2. GateInv /\ [MCNext]_allVars => GateInv'
  <2> SUFFICES ASSUME GateInv, [MCNext]_allVars PROVE GateInv'
    OBVIOUS
  <2>1. CASE UNCHANGED gateVars
    BY <2>1 DEF gateVars, GateInv, GateTyped, Standing
  <2>2. CASE Gate!Next
    BY <2>2, BeginTickKeeps, RecommendKeeps, ActKeeps, PassHourKeeps DEF Gate!Next
  <2>3. UNCHANGED gateVars \/ Gate!Next
    BY DEF MCNext, allVars
  <2> QED
    BY <2>1, <2>2, <2>3
<1>3. GateInv => DayStaysNearItsLimit
  BY GateCardinality
     DEF GateInv, Standing, DayStaysNearItsLimit, Gate!DayStaysNearItsLimit, Gate!ConstantsOK
<1> QED
  BY <1>1, <1>2, <1>3, PTL DEF MCSpec

-----------------------------------------------------------------------------
(* The window before a call.                                               *)

Prompts == {"p4", "p5", "summary"}
Sent == Window!Details \ {"below_threshold"}

WindowTyped ==
    /\ board \in Window!Boards /\ priced \in Window!Boards
    /\ refused \in SUBSET Keys /\ opened \in SUBSET Window!Fixtures
    /\ strategy \in {"sandbox", "paused"} /\ prompt \in {"p4", "p5"}
    /\ versions \in Seq(Prompts) /\ versions # <<>>
    /\ cycle \in [sig : SUBSET Keys, detail : Window!Details \cup {"none"}, version : Nat]
    /\ cycle.version <= Len(versions)
    /\ window \in [sig : SUBSET Keys, age : -1 .. Wait, fired : BOOLEAN]
    /\ tick \in [at : {"idle", "refresh", "call"}, seen : SUBSET Keys, cands : SUBSET Keys]
    /\ asked \in [set : SUBSET Keys, n : Nat]

\* Once a call is counted the prices and the board have stood still since, so a
\* tick under way goes for the set it found, which is still the playable one.
Steady ==
    /\ tick.at # "idle" => ~window.fired
    /\ asked.n >= 1 /\ tick.at # "idle" =>
          /\ tick.seen = board
          /\ tick.cands = Window!Playable(board) /\ window.sig = tick.cands

\* A restart rebuilds the window from the call that was counted last.
OnRecord ==
    asked.n >= 1 => cycle.sig = asked.set /\ cycle.detail \in Sent

\* Twice asked, a set is marked as sent for as long as it is the playable one.
TwiceIsMarked ==
    asked.n >= 2 => \/ window.sig = asked.set /\ window.fired
                    \/ Window!Playable(board) # asked.set

WindowInv == WindowTyped /\ Steady /\ OnRecord /\ TwiceIsMarked /\ asked.n <= 2

LEMMA PlayableIsKeys ==
    ASSUME NEW keys \in SUBSET Keys PROVE Window!Playable(keys) \in SUBSET Keys
  BY DEF Window!Playable

LEMMA BoardsAreKeys == \A b \in Window!Boards : b \in SUBSET Keys
  BY DEF Window!Boards

LEMMA WindowInit == ASSUME Wait \in Nat, Window!Init PROVE WindowInv
<1>1. WindowTyped
  <2>1. window = [sig |-> {}, age |-> -1, fired |-> TRUE]
    BY DEF Window!Init, Window!RestoreWindow, Window!NoCycle, Window!BelowThresholdOpen
  <2>2. window \in [sig : SUBSET Keys, age : -1 .. Wait, fired : BOOLEAN]
    BY <2>1
  <2>3. versions \in Seq(Prompts) /\ versions # <<>> /\ Len(versions) = 1
    <3>1. CASE versions = <<"p4">>
      BY <3>1 DEF Prompts
    <3>2. CASE versions = <<"summary">>
      BY <3>2 DEF Prompts
    <3> QED
      BY <3>1, <3>2 DEF Window!Init
  <2>4. /\ cycle \in [sig : SUBSET Keys, detail : Window!Details \cup {"none"}, version : Nat]
        /\ cycle.version = 0
    BY DEF Window!Init, Window!NoCycle
  <2> QED
    BY <2>2, <2>3, <2>4 DEF Window!Init, WindowTyped, Window!Idle
<1>2. asked.n = 0 /\ tick.at = "idle"
  BY DEF Window!Init, Window!Idle
<1> QED
  BY <1>1, <1>2 DEF WindowInv, Steady, OnRecord, TwiceIsMarked

LEMMA AlignedPrompts ==
    ASSUME NEW vs \in Seq(Prompts), vs # <<>>, NEW p \in {"p4", "p5"}
    PROVE  /\ Window!AlignPrompt(vs, p) \in Seq(Prompts) /\ Window!AlignPrompt(vs, p) # <<>>
           /\ Len(vs) <= Len(Window!AlignPrompt(vs, p))
  BY DEF Window!AlignPrompt, Prompts

\* What Ready makes of a window for a set.
LEMMA ReadyKeeps ==
    ASSUME Wait \in Nat, NEW sig \in SUBSET Keys,
           NEW w \in [sig : SUBSET Keys, age : -1 .. Wait, fired : BOOLEAN]
    PROVE  /\ Window!Ready(w, sig) \in [sig : SUBSET Keys, age : -1 .. Wait, fired : BOOLEAN]
           /\ w.sig = sig /\ w.fired => Window!Ready(w, sig) = w
<1>1. \A n \in -1 .. Wait : [w EXCEPT !.age = n] \in [sig : SUBSET Keys, age : -1 .. Wait,
                                                       fired : BOOLEAN]
  OBVIOUS
<1>2. 0 \in -1 .. Wait /\ (IF w.age < Wait THEN w.age + 1 ELSE w.age) \in -1 .. Wait
  OBVIOUS
<1> QED
  BY <1>1, <1>2 DEF Window!Ready

LEMMA WindowTick == ASSUME Wait \in Nat, WindowInv, Window!Tick PROVE WindowInv'
<1> USE DEF WindowInv
<1> DEFINE sig == Window!Playable(board)
           w == Window!Ready(window, sig)
<1>1. /\ tick.at = "idle" /\ versions' = Window!AlignPrompt(versions, prompt)
      /\ UNCHANGED <<board, priced, refused, opened, strategy, prompt, cycle, asked>>
  BY DEF Window!Tick
<1>2. \/ UNCHANGED <<window, tick>>
      \/ /\ window' = w
         /\ tick' = IF Window!Due(w, sig)
                    THEN [at |-> "refresh", seen |-> board, cands |-> sig]
                    ELSE Window!Idle
  BY DEF Window!Tick
<1>3. sig \in SUBSET Keys /\ board \in SUBSET Keys
  BY PlayableIsKeys, BoardsAreKeys DEF WindowTyped
<1>4. sig' = sig
  BY <1>1 DEF Window!Playable
<1>5. /\ w \in [sig : SUBSET Keys, age : -1 .. Wait, fired : BOOLEAN]
      /\ window.sig = sig /\ window.fired => w = window
  BY <1>3, ReadyKeeps DEF WindowTyped
<1>6. Window!Due(w, sig) => w.sig = sig /\ ~w.fired
  BY DEF Window!Due
<1> HIDE DEF sig, w
<1>7. WindowTyped'
  <2>1. /\ versions' \in Seq(Prompts) /\ versions' # <<>>
        /\ Len(versions) <= Len(versions')
    BY <1>1, AlignedPrompts DEF WindowTyped
  <2>2. cycle.version <= Len(versions')
    BY <2>1 DEF WindowTyped
  <2>3. tick' \in [at : {"idle", "refresh", "call"}, seen : SUBSET Keys, cands : SUBSET Keys]
    BY <1>2, <1>3 DEF WindowTyped, Window!Idle
  <2> QED
    BY <1>1, <1>2, <1>5, <2>1, <2>2, <2>3 DEF WindowTyped
<1>8. Steady'
  BY <1>1, <1>2, <1>4, <1>6 DEF Steady, Window!Idle, sig
<1>9. TwiceIsMarked'
  BY <1>1, <1>2, <1>4, <1>5 DEF TwiceIsMarked, sig
<1>10. OnRecord' /\ asked'.n <= 2
  BY <1>1 DEF OnRecord
<1> QED
  BY <1>7, <1>8, <1>9, <1>10

LEMMA WindowRefresh ==
    ASSUME Wait \in Nat, WindowInv, Window!RefreshBeforeLlm PROVE WindowInv'
<1> USE DEF WindowInv
<1> DEFINE set == Window!Playable(tick.seen)
<1>1. /\ tick.at = "refresh"
      /\ UNCHANGED <<board, priced, refused, opened, strategy, versions, prompt, cycle,
                     window, asked>>
      /\ \/ tick' = Window!Idle
         \/ tick' = [tick EXCEPT !.at = "call", !.cands = set]
  BY DEF Window!RefreshBeforeLlm
<1>2. set \in SUBSET Keys
  BY PlayableIsKeys DEF WindowTyped
<1>3. Window!Playable(board)' = Window!Playable(board)
  BY <1>1 DEF Window!Playable
<1>4. asked.n >= 1 => set = tick.cands
  BY <1>1 DEF Steady
<1> HIDE DEF set
<1> DEFINE next == [tick EXCEPT !.at = "call", !.cands = set]
<1>5. /\ next \in [at : {"idle", "refresh", "call"}, seen : SUBSET Keys, cands : SUBSET Keys]
      /\ next.at = "call" /\ next.seen = tick.seen /\ next.cands = set
  BY <1>2 DEF WindowTyped
<1>6. tick' = Window!Idle \/ tick' = next
  BY <1>1
<1> HIDE DEF next
<1>7. WindowTyped'
  BY <1>1, <1>5, <1>6 DEF WindowTyped, Window!Idle
<1>8. Steady'
  <2>1. CASE tick' = Window!Idle
    BY <2>1 DEF Steady, Window!Idle
  <2>2. CASE tick' = next
    BY <1>1, <1>3, <1>4, <1>5, <2>2 DEF Steady
  <2> QED
    BY <1>6, <2>1, <2>2
<1>9. TwiceIsMarked' /\ OnRecord' /\ asked'.n <= 2
  BY <1>1, <1>3 DEF TwiceIsMarked, OnRecord
<1> QED
  BY <1>7, <1>8, <1>9

\* A call, whatever comes of it.
LEMMA WindowCall ==
    ASSUME Wait \in Nat, WindowInv, tick.at = "call",
           NEW detail \in Window!Details,
           cycle' = [sig |-> tick.cands, detail |-> detail, version |-> Len(versions)],
           window' = Window!AfterCycle(window, detail),
           asked' = Window!Count(detail), tick' = Window!Idle,
           UNCHANGED <<board, priced, strategy, versions, prompt>>,
           refused' \in SUBSET Keys, opened' \in SUBSET Window!Fixtures
    PROVE  WindowInv'
<1> USE DEF WindowInv
<1>1. /\ window' \in [sig : SUBSET Keys, age : -1 .. Wait, fired : BOOLEAN]
      /\ window'.sig = window.sig
      /\ detail # "below_threshold" => window'.fired
  <2> DEFINE Windows == [sig : SUBSET Keys, age : -1 .. Wait, fired : BOOLEAN]
  <2>1. window \in Windows
    BY DEF WindowTyped
  <2>2. CASE detail = "below_threshold"
    <3>1. /\ Window!HoldForRetry(window) \in Windows
          /\ Window!HoldForRetry(window).sig = window.sig
      <4> DEFINE young == [window EXCEPT !.age = 0]
      <4>1. young \in Windows /\ young.sig = window.sig
        BY <2>1
      <4> HIDE DEF young
      <4>2. [young EXCEPT !.fired = FALSE] \in Windows
            /\ [young EXCEPT !.fired = FALSE].sig = young.sig
        BY <4>1
      <4> QED
        BY <4>1, <4>2 DEF Window!HoldForRetry, young
    <3> QED
      BY <2>2, <3>1 DEF Window!AfterCycle
  <2>3. CASE detail # "below_threshold"
    <3>1. /\ Window!MarkFired(window) \in Windows
          /\ Window!MarkFired(window).sig = window.sig /\ Window!MarkFired(window).fired
      BY <2>1 DEF Window!MarkFired
    <3> QED
      BY <2>3, <3>1 DEF Window!AfterCycle
  <2> QED
    BY <2>2, <2>3
<1>2. /\ asked' \in [set : SUBSET Keys, n : Nat]
      /\ asked'.set = tick.cands /\ (detail = "below_threshold" => asked'.n = 0)
      /\ asked'.n >= 2 => asked.set = tick.cands /\ asked.n >= 1 /\ asked'.n = asked.n + 1
  BY DEF WindowTyped, Window!Count
<1>3. ~window.fired
  BY DEF Steady
<1>4. WindowTyped'
  BY <1>1, <1>2 DEF WindowTyped, Window!Idle
<1>5. Steady'
  BY DEF Steady, Window!Idle
<1>6. OnRecord'
  BY <1>2 DEF OnRecord, Sent, WindowTyped
<1>7. ASSUME asked'.n >= 2 PROVE asked'.n = 2 /\ window'.sig = asked'.set /\ window'.fired
  <2>1. /\ asked.n >= 1 /\ asked.set = tick.cands /\ asked'.n = asked.n + 1
        /\ detail # "below_threshold"
    BY <1>2, <1>7
  <2>2. window.sig = tick.cands /\ tick.cands = Window!Playable(board)
    BY <2>1 DEF Steady
  <2>3. asked.n < 2
    BY <1>3, <2>1, <2>2 DEF TwiceIsMarked, WindowTyped
  <2> QED
    BY <1>1, <1>2, <2>1, <2>2, <2>3 DEF WindowTyped
<1>8. asked'.n <= 2 /\ TwiceIsMarked'
  BY <1>2, <1>7 DEF TwiceIsMarked
<1> QED
  BY <1>4, <1>5, <1>6, <1>8

\* The board or the prices change: the count begins anew.
LEMMA WindowMoves ==
    ASSUME WindowInv, asked' = [asked EXCEPT !.n = 0],
           board' \in Window!Boards, priced' \in Window!Boards,
           UNCHANGED <<refused, opened, strategy, versions, prompt, cycle, window, tick>>
    PROVE  WindowInv'
<1>1. asked' \in [set : SUBSET Keys, n : Nat] /\ asked'.n = 0
  BY DEF WindowInv, WindowTyped
<1>2. WindowTyped'
  BY <1>1 DEF WindowInv, WindowTyped
<1> QED
  BY <1>1, <1>2 DEF WindowInv, Steady, OnRecord, TwiceIsMarked

LEMMA WindowRestart ==
    ASSUME Wait \in Nat, WindowInv, Window!Restart PROVE WindowInv'
<1> USE DEF WindowInv
<1>1. /\ prompt' \in {prompt, "p5"} /\ versions' = Window!AlignPrompt(versions, prompt')
      /\ window' = [sig |-> cycle.sig, age |-> -1, fired |-> cycle.detail # "below_threshold"]
      /\ tick' = Window!Idle
      /\ UNCHANGED <<board, priced, refused, opened, strategy, cycle, asked>>
  BY DEF Window!Restart, Window!RestoreWindow, Window!LastCycle, Window!BelowThresholdOpen
<1>2. /\ versions' \in Seq(Prompts) /\ versions' # <<>>
      /\ Len(versions) <= Len(versions')
  BY <1>1, AlignedPrompts DEF WindowTyped
<1>3. window' \in [sig : SUBSET Keys, age : -1 .. Wait, fired : BOOLEAN]
  BY <1>1 DEF WindowTyped
<1>4. WindowTyped'
  BY <1>1, <1>2, <1>3 DEF WindowTyped, Window!Idle
<1>5. Steady' /\ OnRecord' /\ asked'.n <= 2
  BY <1>1 DEF Steady, OnRecord, Window!Idle
<1>6. ASSUME asked'.n >= 2 PROVE window'.sig = asked'.set /\ window'.fired
  <2>1. cycle.sig = asked.set /\ cycle.detail # "below_threshold" /\ asked' = asked
    BY <1>1, <1>6 DEF OnRecord, Sent, WindowTyped
  <2>2. window'.fired = (cycle.detail # "below_threshold") /\ window'.sig = cycle.sig
    BY <1>1
  <2> QED
    BY <2>1, <2>2
<1> QED
  BY <1>4, <1>5, <1>6 DEF TwiceIsMarked

(***************************************************************************)
(* A set that stands still is paid for twice at most, for any keys, prices *)
(* and debounce, and through restarts, newer prompts and refused calls     *)
(* (CandidateWindow, restore_window).                                      *)
(***************************************************************************)
THEOREM SetsArePaidTwice == MCSpec => []AskedAtMostTwice
<1> USE WindowConstants
<1>1. MCInit => WindowInv
  BY WindowInit DEF MCInit
<1>2. WindowInv /\ [MCNext]_allVars => WindowInv'
  <2> SUFFICES ASSUME WindowInv, UNCHANGED windowVars \/ Window!Next PROVE WindowInv'
    BY DEF MCNext, allVars
  <2>1. ASSUME UNCHANGED <<board, priced, refused, opened, versions, prompt, cycle, window,
                           tick, asked>>,
               strategy' \in {"sandbox", "paused"}
        PROVE  WindowInv'
    BY <2>1 DEF WindowInv, WindowTyped, Steady, OnRecord, TwiceIsMarked, Window!Playable
  <2>2. CASE UNCHANGED windowVars
    BY <2>1, <2>2 DEF windowVars, WindowInv, WindowTyped
  <2>3. CASE Window!StatusMoves
    BY <2>1, <2>3 DEF Window!StatusMoves
  <2>4. CASE Window!Tick \/ Window!RefreshBeforeLlm \/ Window!Restart
    BY <2>4, WindowTick, WindowRefresh, WindowRestart
  <2>5. CASE Window!BudgetSkip
    <3>1. UNCHANGED <<board, priced, refused, opened, strategy, versions, prompt, cycle,
                      window, asked>> /\ tick' = Window!Idle
      BY <2>5 DEF Window!BudgetSkip
    <3> QED
      BY <3>1 DEF WindowInv, WindowTyped, Steady, OnRecord, TwiceIsMarked, Window!Idle,
                  Window!Playable
  <2>6. ASSUME NEW d \in Window!Details \ {"ok"}, Window!CallFails(d) PROVE WindowInv'
    BY <2>6, WindowCall DEF Window!CallFails, WindowInv, WindowTyped
  <2>7. ASSUME NEW r \in SUBSET tick.cands, NEW b \in SUBSET tick.cands,
               Window!CallDecides(r, b)
        PROVE  WindowInv'
    <3>1. refused' \in SUBSET Keys /\ opened' \in SUBSET Window!Fixtures
      BY <2>7 DEF Window!CallDecides, WindowInv, WindowTyped, Window!Fixtures
    <3>2. "ok" \in Window!Details
      BY DEF Window!Details
    <3> QED
      BY <2>7, <3>1, <3>2, WindowCall DEF Window!CallDecides
  <2>8. CASE Window!BoardMoves \/ Window!PricesMove
    BY <2>8, WindowMoves DEF Window!BoardMoves, Window!PricesMove, WindowInv, WindowTyped
  <2> QED
    BY <2>2, <2>3, <2>4, <2>5, <2>6, <2>7, <2>8 DEF Window!Next
<1>3. WindowInv => AskedAtMostTwice
  <2> SUFFICES ASSUME WindowInv PROVE Window!TypeOK /\ Window!AskedAtMostTwice
    BY DEF AskedAtMostTwice
  <2>1. \A v \in 1 .. Len(versions) : versions[v] \in Prompts
    BY DEF WindowInv, WindowTyped
  <2>2. cycle.version \in 0 .. Len(versions)
    BY DEF WindowInv, WindowTyped
  <2>3. cycle.sig \subseteq Keys /\ cycle.detail \in Window!Details \cup {"none"}
    BY DEF WindowInv, WindowTyped
  <2> QED
    BY <2>1, <2>2, <2>3
       DEF WindowInv, WindowTyped, Prompts, Window!TypeOK, Window!AskedAtMostTwice
<1> QED
  BY <1>1, <1>2, <1>3, PTL DEF MCSpec

-----------------------------------------------------------------------------
(* The standing of a leg.                                                  *)

\* The goals of a period so far.
Scored(period) == IF period = "regulation" THEN truth.reg ELSE truth.extra

LegsTyped ==
    /\ truth \in [status : Legs!Statuses, reg : Nat, extra : Nat, resume : Legs!Statuses,
                  late : BOOLEAN]
    /\ row \in [status : Legs!Statuses, goals : Int, ft : Int, et : Int, late : BOOLEAN]
    /\ leg \in {Legs!NoLeg} \cup [period : Legs!Periods, n : Int]
    /\ hit \in BOOLEAN

\* Extra time has no goals before it, also not through an interruption.
ExtraComesLate ==
    /\ truth.status = "INT" => truth.resume \in {"1H", "2H", "ET"}
    /\ truth.status \notin Legs!Irregular /\ ~Legs!InExtra => truth.extra = 0

\* What the page has called hit was scored in the leg's own period, and goals
\* are not taken back; the row has this total of the period, or none yet.
HitIsScored ==
    hit => /\ leg # Legs!NoLeg
           /\ Scored(leg.period) > leg.n
           /\ \/ Legs!FinalGoals(leg.period, row) = Legs!Blank
              \/ Legs!FinalGoals(leg.period, row) > leg.n

LegsInv == LegsTyped /\ ExtraComesLate /\ HitIsScored

LEMMA LegsInit == ASSUME Legs!Init PROVE LegsInv
<1>1. "1H" \in Legs!Statuses
  BY DEF Legs!Statuses, Legs!Regulation
<1>2. LegsTyped
  <2>1. Legs!Blank \in Int
    BY DEF Legs!Blank
  <2>2. /\ truth \in [status : Legs!Statuses, reg : Nat, extra : Nat, resume : Legs!Statuses,
                      late : BOOLEAN]
        /\ leg = Legs!NoLeg /\ hit = FALSE
    BY <1>1 DEF Legs!Init
  <2>3. row \in [status : Legs!Statuses, goals : Int, ft : Int, et : Int, late : BOOLEAN]
    BY <1>1, <2>1 DEF Legs!Init
  <2> QED
    BY <2>2, <2>3 DEF LegsTyped
<1>3. ExtraComesLate /\ HitIsScored
  BY DEF Legs!Init, ExtraComesLate, HitIsScored
<1> QED
  BY <1>2, <1>3 DEF LegsInv

\* A row the page calls a hit shows the goals of the leg's period.
LEMMA HitShowsTheScore ==
    ASSUME LegsInv, NEW ft \in {Legs!Blank, truth.reg}, NEW et \in {Legs!Blank, truth.extra},
           NEW period \in Legs!Periods, NEW n \in Int,
           NEW r, r = [status |-> truth.status, goals |-> truth.reg + truth.extra,
                       ft |-> ft, et |-> et, late |-> truth.late],
           r.status \notin Legs!Pause, Legs!Progress(period, n, r) = "hit"
    PROVE  Scored(period) > n
<1>1. truth.reg \in Nat /\ truth.extra \in Nat /\ truth.status \in Legs!Statuses
  BY DEF LegsInv, LegsTyped
<1>2. /\ r.status = truth.status /\ r.goals = truth.reg + truth.extra
      /\ r.ft = ft /\ r.et = et
  OBVIOUS
<1>3. Legs!PeriodGoalsNow(period, r) \in Int
  BY <1>1, <1>2 DEF Legs!PeriodGoalsNow, Legs!Blank
<1>4. /\ Legs!PeriodGoalsNow(period, r) # Legs!Blank
      /\ Legs!PeriodGoalsNow(period, r) > n
      /\ r.status \notin Legs!Irregular
  BY <1>3 DEF Legs!Progress
<1>5. CASE period = "regulation"
  <2>1. Legs!PeriodGoalsNow(period, r) = Legs!Blank \/ Legs!PeriodGoalsNow(period, r) = truth.reg
    <3>1. CASE r.status \in Legs!Regulation
      <4>1. ~Legs!InExtra /\ truth.status \notin Legs!Irregular
        BY <1>2, <3>1 DEF Legs!InExtra, Legs!Played, Legs!Regulation, Legs!ExtraTime,
                          Legs!Irregular
      <4>2. truth.extra = 0
        BY <4>1 DEF LegsInv, ExtraComesLate
      <4>3. ~Legs!PeriodFinished(period, r.status)
        BY <3>1 DEF Legs!PeriodFinished, Legs!Regulation, Legs!ExtraTime, Legs!Finished
      <4> QED
        BY <1>1, <1>2, <1>5, <3>1, <4>2, <4>3 DEF Legs!PeriodGoalsNow
    <3>2. CASE r.status \notin Legs!Regulation
      BY <1>2, <1>5, <3>2 DEF Legs!PeriodGoalsNow
    <3> QED
      BY <3>1, <3>2
  <2> QED
    BY <1>4, <1>5, <2>1 DEF Scored
<1>6. CASE period = "extra_time"
  <2>1. \/ Legs!PeriodGoalsNow(period, r) = Legs!Blank
        \/ Legs!PeriodGoalsNow(period, r) = truth.extra
    BY <1>1, <1>2, <1>6 DEF Legs!PeriodGoalsNow, Legs!Blank
  <2> QED
    BY <1>4, <1>6, <2>1 DEF Scored
<1> QED
  BY <1>5, <1>6 DEF Legs!Periods

\* Nothing but the match moves: goals are added, the score of extra time only
\* while it is played.
LEMMA MatchMoves ==
    ASSUME LegsInv, Legs!Kick \/ Legs!Whistle PROVE LegsInv'
<1>1. UNCHANGED <<row, leg, hit>>
  BY DEF Legs!Kick, Legs!Whistle
<1>2. /\ truth' \in [status : Legs!Statuses, reg : Nat, extra : Nat, resume : Legs!Statuses,
                     late : BOOLEAN]
      /\ truth'.reg >= truth.reg /\ truth'.extra >= truth.extra
      /\ ExtraComesLate'
  <2> DEFINE T == [status : Legs!Statuses, reg : Nat, extra : Nat, resume : Legs!Statuses,
                   late : BOOLEAN]
  <2>1. truth \in T
    BY DEF LegsInv, LegsTyped
  <2>2. CASE Legs!Kick
    <3>1. CASE truth.status = "ET"
      <4>1. truth' = [truth EXCEPT !.extra = @ + 1]
        BY <2>2, <3>1 DEF Legs!Kick
      <4>2. /\ truth' \in T /\ truth'.reg = truth.reg /\ truth'.extra = truth.extra + 1
            /\ truth'.status = "ET"
        BY <2>1, <3>1, <4>1
      <4> QED
        BY <2>1, <4>2 DEF ExtraComesLate, Legs!InExtra, Legs!Played, Legs!ExtraTime
    <3>2. CASE truth.status # "ET"
      <4>1. truth' = [truth EXCEPT !.reg = @ + 1] /\ truth.status \in {"1H", "2H"}
        BY <2>2, <3>2 DEF Legs!Kick
      <4>2. /\ truth' \in T /\ truth'.reg = truth.reg + 1 /\ truth'.extra = truth.extra
            /\ truth'.status = truth.status
        BY <2>1, <4>1
      <4>3. truth.extra = 0
        BY <4>1 DEF LegsInv, ExtraComesLate, Legs!InExtra, Legs!Played, Legs!ExtraTime,
                    Legs!Irregular
      <4> QED
        BY <2>1, <4>1, <4>2, <4>3 DEF ExtraComesLate
    <3> QED
      BY <3>1, <3>2
  <2>3. CASE Legs!Whistle
    <3> DEFINE At(s) == [truth EXCEPT !.status = s]
    <3>1. \A s \in Legs!Statuses :
            /\ At(s) \in T /\ At(s).reg = truth.reg /\ At(s).extra = truth.extra
            /\ At(s).status = s /\ At(s).resume = truth.resume
      BY <2>1
    <3> HIDE DEF At
    <3>2. ASSUME NEW s \in Legs!After(truth.status),
                 truth' = [truth EXCEPT !.status = s, !.late = FALSE]
          PROVE  /\ truth' \in T /\ truth'.reg = truth.reg /\ truth'.extra = truth.extra
                 /\ ExtraComesLate'
      <4>1. s \in Legs!Statuses /\ s # "INT"
        BY DEF Legs!After, Legs!Statuses, Legs!Regulation, Legs!ExtraTime, Legs!Finished
      <4>2. truth' = [At(s) EXCEPT !.late = FALSE]
        BY <3>2 DEF At
      <4>3. /\ truth' \in T /\ truth'.reg = truth.reg /\ truth'.extra = truth.extra
            /\ truth'.status = s
        BY <3>1, <4>1, <4>2
      <4>4. s \in {"HT", "2H", "FT"} => truth.status \in {"1H", "HT", "2H"}
        BY DEF Legs!After
      <4>5. truth.status \in {"1H", "HT", "2H"} => truth.extra = 0
        BY DEF LegsInv, ExtraComesLate, Legs!InExtra, Legs!Played, Legs!ExtraTime,
               Legs!Irregular
      <4>6. s \in {"HT", "2H", "FT"} \/ s \in {"ET", "BT", "P", "AET", "PEN"}
        BY DEF Legs!After
      <4> QED
        BY <4>1, <4>3, <4>4, <4>5, <4>6
           DEF ExtraComesLate, Legs!InExtra, Legs!Played, Legs!ExtraTime
    <3>3. ASSUME truth' = [truth EXCEPT !.late = TRUE]
          PROVE  /\ truth' \in T /\ truth'.reg = truth.reg /\ truth'.extra = truth.extra
                 /\ ExtraComesLate'
      <4>1. /\ truth' \in T /\ truth'.reg = truth.reg /\ truth'.extra = truth.extra
            /\ truth'.status = truth.status /\ truth'.resume = truth.resume
        BY <2>1, <3>3
      <4> QED
        BY <4>1 DEF LegsInv, ExtraComesLate, Legs!InExtra, Legs!Played
    <3>4. ASSUME truth.status \in {"1H", "2H", "ET"},
                 truth' = [truth EXCEPT !.status = "INT", !.resume = truth.status]
          PROVE  /\ truth' \in T /\ truth'.reg = truth.reg /\ truth'.extra = truth.extra
                 /\ ExtraComesLate'
      <4>1. "INT" \in Legs!Statuses
        BY DEF Legs!Statuses, Legs!Pause
      <4>2. truth' = [At("INT") EXCEPT !.resume = truth.status]
        BY <3>4 DEF At
      <4>3. /\ truth' \in T /\ truth'.reg = truth.reg /\ truth'.extra = truth.extra
            /\ truth'.status = "INT" /\ truth'.resume = truth.status
        BY <2>1, <3>1, <4>1, <4>2
      <4> QED
        BY <3>4, <4>3 DEF LegsInv, ExtraComesLate, Legs!InExtra, Legs!Played, Legs!ExtraTime,
                          Legs!Irregular
    <3>5. ASSUME truth.status = "INT", NEW s \in {truth.resume} \cup Legs!Irregular,
                 truth' = [truth EXCEPT !.status = s]
          PROVE  /\ truth' \in T /\ truth'.reg = truth.reg /\ truth'.extra = truth.extra
                 /\ ExtraComesLate'
      <4>1. s \in Legs!Statuses
        BY <2>1 DEF Legs!Statuses
      <4>2. /\ truth' \in T /\ truth'.reg = truth.reg /\ truth'.extra = truth.extra
            /\ truth'.status = s /\ truth'.resume = truth.resume
        BY <3>1, <3>5, <4>1 DEF At
      <4> QED
        BY <3>5, <4>2 DEF LegsInv, ExtraComesLate, Legs!InExtra, Legs!Played, Legs!ExtraTime,
                          Legs!Irregular
    <3>6. \/ \E s \in Legs!After(truth.status) :
               truth' = [truth EXCEPT !.status = s, !.late = FALSE]
          \/ truth' = [truth EXCEPT !.late = TRUE]
          \/ /\ truth.status \in {"1H", "2H", "ET"}
             /\ truth' = [truth EXCEPT !.status = "INT", !.resume = truth.status]
          \/ /\ truth.status = "INT"
             /\ \E s \in {truth.resume} \cup Legs!Irregular : truth' = [truth EXCEPT !.status = s]
      BY <2>3 DEF Legs!Whistle
    <3>7. truth.reg \in Nat /\ truth.extra \in Nat
      BY <2>1
    <3> HIDE DEF T
    <3>8. /\ truth' \in T /\ truth'.reg = truth.reg /\ truth'.extra = truth.extra
          /\ ExtraComesLate'
      BY <3>2, <3>3, <3>4, <3>5, <3>6, Zenon
    <3> QED
      BY <3>7, <3>8 DEF T
  <2> QED
    BY <2>2, <2>3
<1>3. LegsTyped'
  BY <1>1, <1>2 DEF LegsInv, LegsTyped
<1>4. hit => leg.period \in Legs!Periods /\ leg.n \in Int
  BY DEF LegsInv, LegsTyped, HitIsScored
<1>5. HitIsScored'
  <2> SUFFICES ASSUME hit PROVE HitIsScored'
    BY <1>1 DEF HitIsScored
  <2>1. Scored(leg.period)' >= Scored(leg.period) /\ Scored(leg.period)' \in Nat
        /\ Scored(leg.period) \in Nat
    BY <1>1, <1>2 DEF Scored, LegsInv, LegsTyped
  <2>2. /\ leg # Legs!NoLeg /\ Scored(leg.period) > leg.n /\ leg' = leg
        /\ \/ Legs!FinalGoals(leg.period, row)' = Legs!Blank
           \/ Legs!FinalGoals(leg.period, row)' > leg.n
    BY <1>1 DEF LegsInv, HitIsScored, Legs!FinalGoals
  <2> QED
    BY <1>1, <1>4, <2>1, <2>2 DEF HitIsScored
<1> QED
  BY <1>2, <1>3, <1>5 DEF LegsInv

LEMMA PollKeeps == ASSUME LegsInv, Legs!Poll PROVE LegsInv'
<1>1. PICK ft \in {Legs!Blank, truth.reg}, et \in {Legs!Blank, truth.extra} :
        row' = [status |-> truth.status, goals |-> truth.reg + truth.extra,
                ft |-> ft, et |-> et, late |-> truth.late]
  BY DEF Legs!Poll
<1>2. /\ UNCHANGED <<truth, leg>>
      /\ hit' = (hit \/ (/\ leg # Legs!NoLeg /\ row'.status \notin Legs!Pause
                        /\ Legs!Progress(leg.period, leg.n, row') = "hit"))
  BY DEF Legs!Poll
<1>3. LegsTyped'
  BY <1>1, <1>2 DEF LegsInv, LegsTyped, Legs!Blank
<1>4. ExtraComesLate'
  BY <1>2 DEF LegsInv, ExtraComesLate, Legs!InExtra, Legs!Played
<1>5. ASSUME hit' PROVE leg # Legs!NoLeg /\ Scored(leg.period) > leg.n
  <2>1. CASE hit
    BY <2>1 DEF LegsInv, HitIsScored
  <2>2. CASE /\ leg # Legs!NoLeg /\ row'.status \notin Legs!Pause
             /\ Legs!Progress(leg.period, leg.n, row') = "hit"
    <3>1. leg.period \in Legs!Periods /\ leg.n \in Int
      BY <2>2 DEF LegsInv, LegsTyped
    <3> QED
      BY <1>1, <2>2, <3>1, HitShowsTheScore
  <2> QED
    BY <1>2, <1>5, <2>1, <2>2
<1>6. /\ Scored(leg.period)' = Scored(leg.period)
      /\ Legs!FinalGoals(leg.period, row') \in {Legs!Blank, Scored(leg.period)}
  BY <1>1, <1>2 DEF Scored, Legs!FinalGoals
<1>7. HitIsScored'
  BY <1>2, <1>5, <1>6 DEF HitIsScored
<1> QED
  BY <1>3, <1>4, <1>7 DEF LegsInv

LEMMA ProposeKeeps == ASSUME LegsInv, Legs!Propose PROVE LegsInv'
<1>1. /\ UNCHANGED <<truth, row>> /\ ~hit' /\ hit' \in BOOLEAN
      /\ leg' = [period |-> Legs!PeriodFor(row.status),
                 n |-> Legs!PeriodGoals(Legs!PeriodFor(row.status), row)]
  BY DEF Legs!Propose
<1>2. Legs!PeriodFor(row.status) \in Legs!Periods
  BY DEF Legs!Propose, Legs!Playable, Legs!PeriodFor, Legs!Periods
<1>3. Legs!PeriodGoals(Legs!PeriodFor(row.status), row) \in Int
  BY DEF Legs!PeriodGoals, Legs!OrZero, LegsInv, LegsTyped
<1>4. LegsTyped'
  BY <1>1, <1>2, <1>3 DEF LegsInv, LegsTyped
<1> QED
  BY <1>1, <1>4 DEF LegsInv, ExtraComesLate, HitIsScored, Legs!InExtra, Legs!Played

\* The page, once the match is over, and the ledger.
LEMMA PageAgrees == ASSUME LegsInv PROVE Legs!PageAgreesWithLedger
<1> SUFFICES ASSUME leg # Legs!NoLeg, row.status \in Legs!Finished \cup Legs!Irregular
             PROVE  LET page == Legs!Progress(leg.period, leg.n, row)
                        said == Legs!Ledger(leg.period, leg.n, row)
                    IN  \/ <<page, said>> \in {<<"hit", "won">>, <<"lost", "lost">>,
                                               <<"void", "void">>}
                        \/ /\ <<page, said>> = <<"lost", "manual">>
                           /\ Legs!FinalGoals(leg.period, row) = Legs!Blank
  BY DEF Legs!PageAgreesWithLedger
<1> DEFINE period == leg.period
           n == leg.n
           goals == Legs!FinalGoals(period, row)
           board1 == Legs!Board(period, row)
<1>1. period \in Legs!Periods /\ n \in Int /\ goals \in Int
  BY DEF LegsInv, LegsTyped, Legs!FinalGoals
<1>2. CASE row.status \in Legs!Irregular
  <2>1. Legs!Progress(period, n, row) = "void"
    BY <1>2 DEF Legs!Progress
  <2>2. board1.phase = "irregular"
    BY <1>2 DEF Legs!Board, Legs!Irregular, Legs!Finished
  <2>3. Legs!Ledger(period, n, row) = "void"
    BY <2>2 DEF Legs!Ledger, Legs!SettleLeg
  <2> QED
    BY <2>1, <2>3
<1>3. CASE row.status \in Legs!Finished
  <2>1. /\ row.status \notin Legs!Irregular /\ Legs!PeriodFinished(period, row.status)
        /\ row.status \notin Legs!ExtraTime \cup Legs!Pause
        /\ row.status \notin Legs!Regulation
    BY <1>3 DEF Legs!Finished, Legs!Irregular, Legs!PeriodFinished, Legs!ExtraTime,
                Legs!Pause, Legs!Regulation
  <2>2. Legs!PeriodGoalsNow(period, row) = goals
    BY <1>1, <2>1 DEF Legs!PeriodGoalsNow, Legs!FinalGoals, Legs!Periods
  <2>3. /\ goals # Legs!Blank /\ goals > n => Legs!Progress(period, n, row) = "hit"
        /\ goals = Legs!Blank \/ goals <= n => Legs!Progress(period, n, row) = "lost"
    BY <1>1, <2>1, <2>2 DEF Legs!Progress
  <2>4. /\ board1.phase = "finished"
        /\ board1.goals = IF goals = Legs!Blank THEN Legs!NoTotal ELSE goals
    BY <1>3, <2>1 DEF Legs!Board
  <2>5. Legs!Ledger(period, n, row) = IF goals = Legs!Blank THEN "manual"
                                      ELSE IF goals > n THEN "won" ELSE "lost"
    BY <2>4 DEF Legs!Ledger, Legs!SettleLeg, Legs!Blank, Legs!NoTotal
  <2> QED
    BY <1>1, <2>3, <2>5
<1> QED
  BY <1>2, <1>3

\* A coupon's standing on the page, from any outcomes of its legs.
LEMMA PreviewMatches == ASSUME LegsInv PROVE Legs!CouponPreviewMatches
<1> DEFINE AsBook(p) == CASE p = "hit" -> "won" [] p = "open" -> "pending"
                          [] p = "unknown" -> "manual" [] OTHER -> p
           Pages == {"hit", "open", "unknown", "lost", "void"}
<1>1. ASSUME leg # Legs!NoLeg PROVE Legs!Progress(leg.period, leg.n, row) \in Pages
  <2>1. row.goals \in Int /\ row.ft \in Int /\ row.et \in Int /\ leg.n \in Int
    BY <1>1 DEF LegsInv, LegsTyped
  <2>2. Legs!PeriodGoalsNow(leg.period, row) \in Int
    BY <2>1 DEF Legs!PeriodGoalsNow, Legs!Blank
  <2> QED
    BY <2>1, <2>2 DEF Legs!Progress
<1>2. ASSUME NEW all \in SUBSET Pages
      PROVE  AsBook(Legs!CouponProgress(all)) = Legs!SettleCoupon({AsBook(p) : p \in all})
  <2> DEFINE books == {AsBook(p) : p \in all}
  <2>1. /\ "lost" \in books <=> "lost" \in all
        /\ "manual" \in books <=> "unknown" \in all
        /\ "pending" \in books <=> "open" \in all
        /\ books \subseteq {"void"} <=> all \subseteq {"void"}
    OBVIOUS
  <2> HIDE DEF books
  <2> QED
    BY <2>1 DEF Legs!CouponProgress, Legs!SettleCoupon, books
<1> QED
  BY <1>1, <1>2 DEF Legs!CouponPreviewMatches

\* The numbers of a leg stay in bounds: the lines that are quoted are the goals
\* of a period, and a state is only rejected at a line that is quoted.
LegsBounded ==
    /\ Legs!TypeOK
    /\ \A q \in quotes : q.line \in 0 .. GoalsAPeriod

LEMMA BoundedInit == ASSUME GoalsAPeriod \in Nat \ {0}, Legs!Init PROVE LegsBounded
<1>1. "1H" \in Legs!Statuses /\ 0 \in Legs!Numbers /\ Legs!Blank \in Legs!Numbers
  BY DEF Legs!Statuses, Legs!Regulation, Legs!Numbers, Legs!Blank
<1>2. truth \in [status : Legs!Statuses, reg : 0 .. GoalsAPeriod, extra : 0 .. GoalsAPeriod,
                resume : Legs!Statuses, late : BOOLEAN]
  BY <1>1 DEF Legs!Init
<1>3. row \in [status : Legs!Statuses, goals : Legs!Numbers, ft : Legs!Numbers,
              et : Legs!Numbers, late : BOOLEAN]
  BY <1>1 DEF Legs!Init
<1> QED
  BY <1>2, <1>3 DEF Legs!Init, LegsBounded, Legs!TypeOK

LEMMA BoundedKeeps ==
    ASSUME GoalsAPeriod \in Nat \ {0}, LegsInv, LegsInv', LegsBounded, Legs!Next
    PROVE  LegsBounded'
<1>1. /\ \A n \in 0 .. GoalsAPeriod : n \in Legs!Numbers /\ n + 1 \in Legs!Numbers
      /\ \A m, n \in 0 .. GoalsAPeriod : m + n \in Legs!Numbers
      /\ Legs!Blank \in Legs!Numbers /\ Legs!Blank = -1 /\ 0 \in Legs!Numbers
  BY DEF Legs!Numbers, Legs!Blank
<1>2. truth.reg \in 0 .. GoalsAPeriod /\ truth.extra \in 0 .. GoalsAPeriod
      /\ row.goals \in Legs!Numbers /\ row.et \in Legs!Numbers
  BY DEF LegsBounded, Legs!TypeOK
<1> USE DEF LegsBounded
<1>3. CASE Legs!Kick \/ Legs!Whistle
  <2>1. truth'.reg \in 0 .. GoalsAPeriod /\ truth'.extra \in 0 .. GoalsAPeriod
    <3>1. CASE Legs!Kick
      BY <3>1 DEF Legs!Kick, LegsInv, LegsTyped
    <3>2. CASE Legs!Whistle
      BY <1>2, <3>2 DEF Legs!Whistle, Legs!TypeOK
    <3> QED
      BY <1>3, <3>1, <3>2
  <2>2. truth' \in [status : Legs!Statuses, reg : 0 .. GoalsAPeriod, extra : 0 .. GoalsAPeriod,
                    resume : Legs!Statuses, late : BOOLEAN]
    BY <2>1 DEF LegsInv, LegsTyped
  <2> QED
    BY <1>3, <2>2 DEF Legs!TypeOK, Legs!Kick, Legs!Whistle
<1>4. CASE Legs!Poll
  <2>1. PICK ft \in {Legs!Blank, truth.reg}, et \in {Legs!Blank, truth.extra} :
          row' = [status |-> truth.status, goals |-> truth.reg + truth.extra,
                  ft |-> ft, et |-> et, late |-> truth.late]
    BY <1>4 DEF Legs!Poll
  <2>2. /\ ft \in Legs!Numbers /\ et \in Legs!Numbers
        /\ truth.reg + truth.extra \in Legs!Numbers
    BY <1>1, <1>2
  <2>3. row' \in [status : Legs!Statuses, goals : Legs!Numbers, ft : Legs!Numbers,
                  et : Legs!Numbers, late : BOOLEAN]
    BY <2>1, <2>2 DEF LegsInv, LegsTyped
  <2>4. hit' \in BOOLEAN
    BY DEF LegsInv, LegsTyped
  <2> QED
    BY <1>4, <2>3, <2>4 DEF Legs!TypeOK, Legs!Poll
<1>5. CASE Legs!Snapshot
  <2>1. /\ quotes' = {[market |-> "regulation", line |-> truth.reg,
                       stamp |-> truth.reg + truth.extra],
                      [market |-> "extra_time", line |-> truth.extra,
                       stamp |-> truth.reg + truth.extra]}
        /\ UNCHANGED <<truth, row, rejected, leg, hit>>
    BY <1>5 DEF Legs!Snapshot
  <2>2. /\ quotes' \subseteq [market : Legs!Periods, line : Legs!Numbers, stamp : Legs!Numbers]
        /\ \A q \in quotes' : q.line \in 0 .. GoalsAPeriod
    BY <1>1, <1>2, <2>1 DEF Legs!Periods
  <2> QED
    BY <2>1, <2>2 DEF Legs!TypeOK
<1>6. ASSUME Legs!Playable(row)
      PROVE  LET period == Legs!PeriodFor(row.status)
                 n == Legs!PeriodGoals(period, row)
             IN  /\ period \in Legs!Periods /\ n \in Legs!Numbers /\ n + 1 \in Legs!Numbers
  <2> DEFINE period == Legs!PeriodFor(row.status)
             n == Legs!PeriodGoals(period, row)
             quote == [market |-> period, line |-> n, stamp |-> row.goals]
  <2>1. period \in Legs!Periods
    BY <1>6 DEF Legs!Playable, Legs!PeriodFor, Legs!Periods
  <2>2. quote \in quotes
    BY <1>6 DEF Legs!Playable, Legs!HasQuote
  <2>3. quote.line = n
    OBVIOUS
  <2>4. n \in 0 .. GoalsAPeriod
    BY <2>2, <2>3
  <2> QED
    BY <1>1, <2>1, <2>4
<1>7. CASE Legs!Propose
  <2>1. leg' \in [period : Legs!Periods, n : Legs!Numbers] /\ hit' = FALSE
    BY <1>6, <1>7 DEF Legs!Propose
  <2> QED
    BY <1>7, <2>1 DEF Legs!TypeOK, Legs!Propose
<1>8. CASE Legs!Reject
  <2>1. Legs!StateKey(Legs!PeriodFor(row.status), row)
          \in Legs!Periods \X Legs!Numbers \X Legs!Numbers
    BY <1>2, <1>6, <1>8 DEF Legs!Reject, Legs!StateKey
  <2> QED
    BY <1>8, <2>1 DEF Legs!TypeOK, Legs!Reject
<1> QED
  BY <1>3, <1>4, <1>5, <1>7, <1>8 DEF Legs!Next

(***************************************************************************)
(* The three readers of a leg agree, for any number of goals and whatever  *)
(* the vendor leaves blank: a leg called hit while the match is played is  *)
(* not settled as lost, the page of a finished match says what the ledger  *)
(* says, and a coupon stands as its legs do (live_leg_progress,            *)
(* live_coupon_progress, settle_leg).                                      *)
(***************************************************************************)
THEOREM LegReadersAgree == MCSpec => []ReadersAgree
<1> USE LegConstants
<1>1. MCInit => LegsInv /\ LegsBounded
  BY LegsInit, BoundedInit DEF MCInit
<1>2. LegsInv /\ LegsBounded /\ [MCNext]_allVars => LegsInv' /\ LegsBounded'
  <2> SUFFICES ASSUME LegsInv, LegsBounded, UNCHANGED legVars \/ Legs!Next
               PROVE  LegsInv' /\ LegsBounded'
    BY DEF MCNext, allVars
  <2>1. ASSUME UNCHANGED <<truth, row, leg, hit>> PROVE LegsInv'
    BY <2>1 DEF LegsInv, LegsTyped, ExtraComesLate, HitIsScored, Legs!InExtra, Legs!Played,
                Scored, Legs!FinalGoals
  <2>2. ASSUME Legs!Snapshot \/ Legs!Reject \/ UNCHANGED legVars PROVE LegsInv'
    BY <2>1, <2>2 DEF Legs!Snapshot, Legs!Reject, legVars
  <2>3. CASE UNCHANGED legVars
    BY <2>2, <2>3 DEF legVars, LegsBounded, Legs!TypeOK
  <2> QED
    BY <2>2, <2>3, MatchMoves, PollKeeps, ProposeKeeps, BoundedKeeps DEF Legs!Next
<1>3. LegsInv /\ LegsBounded => ReadersAgree
  <2> SUFFICES ASSUME LegsInv PROVE Legs!ReadersAgree
    BY DEF ReadersAgree, LegsBounded
  <2>1. Legs!HitIsNeverLost
    <3> SUFFICES ASSUME leg # Legs!NoLeg, hit
                 PROVE  Legs!Ledger(leg.period, leg.n, row) # "lost"
      BY DEF Legs!HitIsNeverLost
    <3> DEFINE goals == Legs!FinalGoals(leg.period, row)
    <3>1. goals \in Int /\ leg.n \in Int
      BY DEF LegsInv, LegsTyped, Legs!FinalGoals
    <3>2. goals = Legs!Blank \/ goals > leg.n
      BY DEF LegsInv, HitIsScored
    <3>3. /\ Legs!Board(leg.period, row).goals =
                IF goals = Legs!Blank THEN Legs!NoTotal ELSE goals
          /\ Legs!Board(leg.period, row).phase \in {"irregular", "finished", "play"}
      BY DEF Legs!Board
    <3> HIDE DEF goals
    <3> QED
      BY <3>1, <3>2, <3>3 DEF Legs!Ledger, Legs!SettleLeg, Legs!NoTotal, Legs!Blank
  <2> QED
    BY <2>1, PageAgrees, PreviewMatches DEF Legs!ReadersAgree
<1> QED
  BY <1>1, <1>2, <1>3, PTL DEF MCSpec

-----------------------------------------------------------------------------
(* The page and the prompt.                                                *)

\* What both read of a match, with its types.
NoteMatch ==
    [status : {"HT", "2H", "ET", "P"}, minute : Int, goals : Int, et : Int,
     row : [odd : Int, state : {"open", "suspended", "stale"}, line : Int, stamp : Int],
     favorite : BOOLEAN, listed : BOOLEAN, opened : BOOLEAN, rejected : BOOLEAN]

MatchesTyped == shown \in [NoteMatches -> NoteMatch]

LEMMA NoteInit == ASSUME Note!ConstantsOK, Note!Init PROVE MatchesTyped
<1>1. Note!Rows \cup {Note!NoRow} \subseteq
        [odd : Int, state : {"open", "suspended", "stale"}, line : Int, stamp : Int]
  BY DEF Note!Rows, Note!NoRow, Note!ConstantsOK, Note!NoPrice, Note!SingleOdd, Note!Blank
<1>2. Note!Match \subseteq NoteMatch
  BY <1>1 DEF Note!Match, NoteMatch, Note!ConstantsOK, Note!Blank
<1>3. \A listed \in BOOLEAN : Note!Plain(listed) \in NoteMatch
  BY DEF Note!Plain, NoteMatch, Note!ShortAfter, Note!Blank, Note!SingleOdd
<1> QED
  BY <1>2, <1>3 DEF Note!Init, MatchesTyped

\* A goal changes the score of a match and forgets a refusal.
LEMMA NoteGoal ==
    ASSUME Note!ConstantsOK, MatchesTyped, NEW f \in NoteMatches, Note!Goal(f)
    PROVE  MatchesTyped'
<1>1. PICK g \in NoteGoals : shown' = [shown EXCEPT ![f].goals = g, ![f].rejected = FALSE]
  BY DEF Note!Goal
<1> DEFINE scored == [shown EXCEPT ![f].goals = g]
<1>2. g \in Int
  BY DEF Note!ConstantsOK
<1>3. scored \in [NoteMatches -> NoteMatch]
  BY <1>2 DEF MatchesTyped, NoteMatch
<1>4. shown' = [scored EXCEPT ![f].rejected = FALSE]
  BY <1>1
<1> HIDE DEF scored
<1> DEFINE open == [scored[f] EXCEPT !.rejected = FALSE]
<1>5. open \in NoteMatch
  BY <1>3 DEF NoteMatch
<1>6. shown' = [scored EXCEPT ![f] = open]
  BY <1>4
<1> HIDE DEF open
<1> QED
  BY <1>3, <1>5, <1>6 DEF MatchesTyped

\* The page finds no gap in a match exactly where the tick lets it through.
LEMMA GatesAgree ==
    ASSUME Note!ConstantsOK, ExtraLimit = PageExtraLimit, NEW m \in NoteMatch
    PROVE  Note!LlmPromptGaps(m) = {} <=> m.listed /\ Note!PlayableCandidate(m)
<1> DEFINE limit == IF Note!PeriodFor(m) = "extra_time" THEN ExtraLimit ELSE RegulationLimit
           ok == Note!HasQuote(m) /\ ~(m.row.odd <= Note!NoPrice)
<1>1. /\ limit \in Int /\ Note!MatchMinute(m) \in Int /\ m.row.odd \in Int
      /\ m.row.state \in {"open", "suspended", "stale"}
      /\ m.listed \in BOOLEAN /\ m.opened \in BOOLEAN /\ m.rejected \in BOOLEAN
      /\ m.status # "P" \/ m.status \notin Note!LlmStatuses
  BY DEF NoteMatch, Note!MatchMinute, Note!ConstantsOK, Note!ShortAfter, Note!LlmStatuses
<1>3. Note!QuoteGaps(m) = {} <=> /\ ok /\ m.row.state = "open"
                                 /\ ~(m.row.odd < Note!MinAnalysisOdd)
                                 /\ Note!PromptGateMisses(m) = {}
  <2>1. CASE ~ok
    BY <2>1 DEF Note!QuoteGaps
  <2>2. CASE ok
    <3>1. Note!QuoteGaps(m) = Note!If(m.row.state = "suspended", "suspended")
              \cup Note!If(m.row.state = "stale", "stale")
              \cup Note!If(m.row.odd < Note!MinAnalysisOdd, "odd_low")
              \cup Note!PromptGateMisses(m)
      BY <2>2 DEF Note!QuoteGaps
    <3> DEFINE A == Note!If(m.row.state = "suspended", "suspended")
               B == Note!If(m.row.state = "stale", "stale")
               C == Note!If(m.row.odd < Note!MinAnalysisOdd, "odd_low")
               D == Note!PromptGateMisses(m)
    <3>2. A = {} <=> m.row.state # "suspended"
      BY DEF Note!If
    <3>3. B = {} <=> m.row.state # "stale"
      BY DEF Note!If
    <3>4. C = {} <=> ~(m.row.odd < Note!MinAnalysisOdd)
      BY DEF Note!If
    <3>5. Note!QuoteGaps(m) = A \cup B \cup C \cup D
      BY <3>1
    <3> HIDE DEF A, B, C, D
    <3>6. Note!QuoteGaps(m) = {} <=> A = {} /\ B = {} /\ C = {} /\ D = {}
      BY <3>5
    <3> HIDE DEF ok
    <3> QED
      BY <1>1, <2>2, <3>2, <3>3, <3>4, <3>6 DEF D
  <2> QED
    BY <2>1, <2>2
<1>4. Note!LlmPromptGaps(m) = {} <=>
        /\ m.listed
        /\ m.status \in Note!LlmStatuses
        /\ Note!MatchMinute(m) # Note!Blank /\ ~(Note!MatchMinute(m) > limit)
        /\ Note!QuoteGaps(m) = {} /\ ~m.opened /\ ~Note!StateRejected(m)
  <2> DEFINE A == Note!If(~m.listed, "not_candidate")
             B == Note!If(m.status = "P", "penalties")
             C == Note!If(m.status \notin Note!LlmStatuses \cup {"P"}, "not_second_half")
             past == /\ m.status \in Note!LlmStatuses
                     /\ \/ Note!MatchMinute(m) = Note!Blank
                        \/ Note!MatchMinute(m) > limit
             D == Note!If(past, "minute")
             E == Note!If(m.opened, "open_coupon")
             F == Note!If(Note!StateRejected(m), "rejected")
             G == Note!QuoteGaps(m)
  <2>1. Note!LlmPromptGaps(m) = A \cup B \cup C \cup D \cup G \cup E \cup F
    BY DEF Note!LlmPromptGaps
  <2>2. A = {} <=> m.listed
    BY DEF Note!If
  <2>3. B = {} <=> m.status # "P"
    BY DEF Note!If
  <2>4. C = {} <=> m.status \in Note!LlmStatuses \cup {"P"}
    BY DEF Note!If
  <2>5. D = {} <=> ~past
    <3> HIDE DEF past
    <3> QED
      BY DEF Note!If
  <2>6. E = {} <=> ~m.opened
    BY DEF Note!If
  <2>7. F = {} <=> ~Note!StateRejected(m)
    BY DEF Note!If
  <2> HIDE DEF A, B, C, D, E, F
  <2>8. Note!LlmPromptGaps(m) = {} <=>
          A = {} /\ B = {} /\ C = {} /\ D = {} /\ E = {} /\ F = {} /\ G = {}
    BY <2>1
  <2> QED
    BY <1>1, <2>2, <2>3, <2>4, <2>5, <2>6, <2>7, <2>8
<1>5. Note!PlayableCandidate(m) <=>
        /\ m.status \in Note!LlmStatuses
        /\ Note!PeriodFor(m) # "none" /\ m.goals # Note!Blank
        /\ Note!MatchMinute(m) # Note!Blank /\ Note!MatchMinute(m) <= limit
        /\ ok /\ m.row.state = "open" /\ m.row.odd >= Note!MinAnalysisOdd
        /\ Note!PromptGateMisses(m) = {} /\ ~m.rejected /\ ~m.opened
  BY DEF Note!PlayableCandidate, Note!Assess, Note!QuoteBlock
<1>6. ok => Note!PeriodFor(m) # "none" /\ m.goals # Note!Blank
  BY DEF Note!HasQuote
<1>7. /\ ~(m.row.odd < Note!MinAnalysisOdd) <=> m.row.odd >= Note!MinAnalysisOdd
      /\ ~(Note!MatchMinute(m) > limit) <=> Note!MatchMinute(m) <= limit
  BY <1>1 DEF Note!MinAnalysisOdd
<1> HIDE DEF ok, limit
<1> QED
  BY <1>3, <1>4, <1>5, <1>6, <1>7 DEF Note!StateRejected

\* ... and the lone weak match is left out by both.
LEMMA NoteShown ==
    ASSUME Note!ConstantsOK, ExtraLimit = PageExtraLimit, MatchesTyped, Note!Show,
           NEW f \in NoteMatches
    PROVE  notes'[f] = {} <=> f \in Note!PromptSet
<1> DEFINE gaps == [g \in NoteMatches |-> Note!LlmPromptGaps(shown[g])]
           ready == {g \in NoteMatches : gaps[g] = {}}
           listed == {g \in NoteMatches : shown[g].listed /\ Note!PlayableCandidate(shown[g])}
<1>1. notes'[f] = gaps[f] \cup Note!If(f \in ready /\ ~Note!LoneCandidateAllowed(shown, ready),
                                       "lone_weak")
  BY DEF Note!Show, Note!ApplyLoneWeak
<1>2. ready = listed
  BY GatesAgree DEF MatchesTyped
<1>3. Note!PromptSet = IF Note!LoneCandidateAllowed(shown, listed) THEN listed ELSE {}
  BY DEF Note!PromptSet
<1>4. f \in ready <=> gaps[f] = {}
  OBVIOUS
<1> HIDE DEF gaps, ready, listed
<1> QED
  BY <1>1, <1>2, <1>3, <1>4 DEF Note!If

\* A page that is shown names a gap for exactly the matches the tick would leave out,
\* for any board, as long as the page's own limit of minutes in extra time is the
\* strategy's (llm_prompt_gaps, _apply_lone_weak, playable_candidate).
THEOREM NoteAgrees == MCSpec => NoteAgreesWithPrompt
<1> USE NoteConstants
<1> DEFINE NoteInv == part = "note" => MatchesTyped
<1>1. MCInit => NoteInv
  BY NoteInit DEF MCInit
<1>2. NoteInv /\ [MCNext]_allVars =>
        /\ NoteInv'
        /\ [notes' # notes =>
              \A f \in NoteMatches : notes'[f] = {} <=> f \in Note!PromptSet]_(Note!vars)
  <2>1. ASSUME MatchesTyped, Note!Show PROVE MatchesTyped'
    BY <2>1 DEF Note!Show, MatchesTyped
  <2>2. ASSUME MatchesTyped, NEW f \in NoteMatches, Note!Goal(f)
        PROVE  MatchesTyped' /\ notes' = notes
    BY <2>2, NoteGoal DEF Note!Goal
  <2>3. ASSUME UNCHANGED <<part, noteVars>>, NoteInv PROVE NoteInv' /\ UNCHANGED Note!vars
    BY <2>3 DEF Note!vars, noteVars, MatchesTyped
  <2>4. [MCNext]_allVars =>
           UNCHANGED <<part, noteVars>> \/ (part = "note" /\ Note!Next /\ UNCHANGED part)
    BY DEF MCNext, allVars
  <2>5. ASSUME MatchesTyped, Note!Next, UNCHANGED part
        PROVE  /\ NoteInv'
               /\ [notes' # notes =>
                     \A f \in NoteMatches : notes'[f] = {} <=> f \in Note!PromptSet]_(Note!vars)
    BY <2>1, <2>2, <2>5, NoteShown DEF Note!Next
  <2> QED
    BY <2>3, <2>4, <2>5
<1> QED
  BY <1>1, <1>2, PTL DEF MCSpec, NoteAgreesWithPrompt, Note!NoteAgreesWithPrompt

-----------------------------------------------------------------------------
(* The board.                                                              *)

LEMMA BoardCardinality == \A S : Board!Cardinality(S) = Cardinality(S)
  BY DEF Board!Cardinality, Cardinality

Line == [home : Nat, draw : Nat, away : Nat, source : {"none", "prematch", "live"}]
Legged == [known : BOOLEAN, swapped : BOOLEAN, goals : [Board!Sides -> Int]]
Tie == [marked : BOOLEAN, final : BOOLEAN, sameRound : BOOLEAN,
        predicted : {"none", "home", "away"}, leg : Legged]
Row == [status : Board!Statuses, goals : [Board!Sides -> Int], extra : Int, late : Int,
        events : [Board!Sides -> Int], stats : [Board!Sides -> Int]]

-----------------------------------------------------------------------------
(* Of the books that offer enough one ranks first.                         *)

LEMMA Least ==
    ASSUME NEW S, S # {}, NEW f \in [S -> Nat]
    PROVE  \E s \in S : \A t \in S : f[s] <= f[t]
<1> DEFINE T == {f[s] : s \in S}
<1>1. T \in SUBSET Nat /\ T # {}
  OBVIOUS
<1>2. PICK m \in T : \A y \in T : <<y, m>> \notin OpToRel(<, Nat)
  BY <1>1, NatLessThanWellFounded, WFMin, Zenon
<1>3. \A y \in T : ~(y < m)
  BY <1>1, <1>2, Zenon DEF OpToRel
<1>4. \A y \in T : m <= y
  BY <1>1, <1>3
<1> QED
  BY <1>4

LEMMA HasFew ==
    ASSUME NEW l
    PROVE  Board!Cardinality(Board!Has(l)) \in 0 .. 3
<1> DEFINE all == {"home", "draw", "away"}
<1>1. IsFiniteSet(all) /\ Cardinality(all) = 3
  <2>1. IsFiniteSet({"away"}) /\ Cardinality({"away"}) = 1
    BY FS_Singleton
  <2>2. IsFiniteSet({"draw", "away"}) /\ Cardinality({"draw", "away"}) = 2
    <3>1. {"draw", "away"} = {"away"} \cup {"draw"} /\ "draw" \notin {"away"}
      OBVIOUS
    <3> QED
      BY <2>1, <3>1, FS_AddElement
  <2>3. all = {"draw", "away"} \cup {"home"} /\ "home" \notin {"draw", "away"}
    OBVIOUS
  <2> QED
    BY <2>2, <2>3, FS_AddElement
<1>2. Board!Has(l) \subseteq all
  BY DEF Board!Has
<1> HIDE DEF all
<1>3. IsFiniteSet(Board!Has(l)) /\ Cardinality(Board!Has(l)) <= 3
  BY <1>1, <1>2, FS_Subset
<1>4. Cardinality(Board!Has(l)) \in Nat
  BY <1>3, FS_CardinalityType
<1> QED
  BY <1>3, <1>4, BoardCardinality

LEMMA LineNumbers ==
    ASSUME Board!ConstantsOK, NEW l \in Board!Lines
    PROVE  l.home \in Nat /\ l.draw \in Nat /\ l.away \in Nat
<1>1. Prices \cup {Board!Missing} \subseteq Nat
  BY DEF Board!Missing, Board!ConstantsOK
<1>2. l.home \in Prices \cup {Board!Missing} /\ l.draw \in Prices \cup {Board!Missing}
      /\ l.away \in Prices \cup {Board!Missing}
  BY DEF Board!Lines
<1> QED
  BY <1>1, <1>2

LEMMA PickTyped ==
    ASSUME Board!ConstantsOK, NEW lines \in [Books -> Board!Lines], NEW draw
    PROVE  Board!Pick(lines, draw) \in Line
<1> DEFINE ranked == {b \in Books : Board!Cardinality(Board!Has(lines[b])) >= 2}
           First(b) == \A c \in ranked : Board!Above(Board!BookRank(b, lines, draw),
                                                     Board!BookRank(c, lines, draw))
           best == CHOOSE b \in ranked : First(b)
<1>1. CASE ranked = {}
  BY <1>1 DEF Board!Pick, Board!NoLine, Board!Missing, Line
<1>2. CASE ranked # {}
  <2>1. \E b \in ranked : First(b)
    <3> DEFINE full(b) == Board!Sides \cup draw \subseteq Board!Has(lines[b])
               has(b) == Board!Cardinality(Board!Has(lines[b]))
               f1 == [b \in ranked |-> IF full(b) THEN 0 ELSE 1]
               f2 == [b \in ranked |-> 3 - has(b)]
    <3>1. \A b \in ranked : Board!BookRank(b, lines, draw) = <<1 - f1[b], has(b), -b>>
      BY DEF Board!BookRank
    <3>2. \A b \in ranked : /\ b \in Nat /\ has(b) \in 0 .. 3
                            /\ f1[b] \in {0, 1} /\ f2[b] = 3 - has(b)
      BY HasFew DEF Board!ConstantsOK
    <3>3. f1 \in [ranked -> Nat] /\ f2 \in [ranked -> Nat]
      BY <3>2
    <3> HIDE DEF ranked, f1, f2, has, full
    <3>4. PICK b1 \in ranked : \A c \in ranked : f1[b1] <= f1[c]
      BY <1>2, <3>3, Least
    <3> DEFINE S2 == {b \in ranked : f1[b] = f1[b1]}
    <3>5. PICK b2 \in S2 : \A c \in S2 : f2[b2] <= f2[c]
      <4>1. [b \in S2 |-> f2[b]] \in [S2 -> Nat] /\ S2 # {}
        BY <3>3
      <4> HIDE DEF S2
      <4>2. PICK b \in S2 : \A c \in S2 : [x \in S2 |-> f2[x]][b] <= [x \in S2 |-> f2[x]][c]
        BY <4>1, Least
      <4> QED
        BY <4>2
    <3> DEFINE S3 == {b \in S2 : f2[b] = f2[b2]}
    <3>6. PICK b3 \in S3 : \A c \in S3 : b3 <= c
      <4>1. [b \in S3 |-> b] \in [S3 -> Nat] /\ S3 # {}
        BY <3>2, <3>5
      <4> HIDE DEF S3
      <4>2. PICK b \in S3 : \A c \in S3 : [x \in S3 |-> x][b] <= [x \in S3 |-> x][c]
        BY <4>1, Least
      <4> QED
        BY <4>2
    <3>7. b3 \in ranked
      BY <3>6
    <3>8. ASSUME NEW c \in ranked
          PROVE  \/ 1 - f1[b3] > 1 - f1[c]
                 \/ /\ 1 - f1[b3] = 1 - f1[c]
                    /\ has(b3) > has(c) \/ (has(b3) = has(c) /\ -b3 >= -c)
      BY <3>2, <3>4, <3>5, <3>6, <3>8
    <3>9. First(b3)
      BY <3>1, <3>7, <3>8 DEF Board!Above
    <3> QED
      BY <3>7, <3>9
  <2>2. best \in ranked
    BY <2>1
  <2>3. lines[best] \in Board!Lines
    BY <2>2
  <2>4. Board!Pick(lines, draw) = [home |-> lines[best].home, draw |-> lines[best].draw,
                                   away |-> lines[best].away, source |-> "prematch"]
    BY <1>2 DEF Board!Pick
  <2>5. /\ lines[best].home \in Nat /\ lines[best].draw \in Nat
        /\ lines[best].away \in Nat
    BY <2>3, LineNumbers
  <2> HIDE DEF best
  <2> QED
    BY <2>4, <2>5 DEF Line
<1> QED
  BY <1>1, <1>2

LEMMA OddsTyped ==
    ASSUME Board!ConstantsOK, Board!TypeOK, Board!FillPrematch
    PROVE  odds' \in Line
<1>1. Board!SelectPrematch(offers, pairs) \in Line
  BY PickTyped DEF Board!SelectPrematch, Board!TypeOK
<1>2. ASSUME NEW l \in Board!Lines PROVE Board!SelectLive(l) \in Line
  <2>1. l.home \in Nat /\ l.draw \in Nat /\ l.away \in Nat
    BY LineNumbers
  <2>2. [home |-> l.home, draw |-> l.draw, away |-> l.away, source |-> "live"] \in Line
    BY <2>1 DEF Line
  <2>3. Board!NoLine \in Line
    BY DEF Board!NoLine, Board!Missing, Line
  <2> QED
    BY <2>2, <2>3 DEF Board!SelectLive
<1> DEFINE picked == Board!SelectPrematch(offers, pairs)
<1>3. odds' \in IF picked # Board!NoLine THEN {picked}
                ELSE {Board!SelectLive(l) :
                        l \in {l \in Board!Lines : Board!Has(l) \in {{}, Board!Sides}}}
  BY DEF Board!FillPrematch
<1> HIDE DEF picked
<1>4. picked \in Line
  BY <1>1 DEF picked
<1>5. CASE picked # Board!NoLine
  BY <1>3, <1>4, <1>5
<1>6. CASE picked = Board!NoLine
  <2>1. odds' \in {Board!SelectLive(l) :
                     l \in {l \in Board!Lines : Board!Has(l) \in {{}, Board!Sides}}}
    BY <1>3, <1>6
  <2> QED
    BY <1>2, <2>1
<1> QED
  BY <1>5, <1>6

\* What the board reads of a match and of its line has the values it is read as; the
\* goals of extra time are some of the goals scored.
BoardInv ==
    /\ Board!TypeOK
    /\ odds \in Line /\ tie \in Tie /\ match \in Row
    /\ match.late <= match.goals["home"] + match.goals["away"]

LEMMA BoardInit == ASSUME Board!ConstantsOK, Board!Init PROVE BoardInv
<1>1. Board!Nil \in [Board!Sides -> 0 .. SideGoals] /\ Board!Nil \in [Board!Sides -> 0 .. MaxReds]
  BY DEF Board!Nil, Board!ConstantsOK
<1>2. odds \in Line
  BY DEF Board!Init, Board!NoLine, Board!Missing, Line
<1>3. tie \in Tie
  BY <1>1 DEF Board!Init, Board!NoTie, Tie, Legged
<1>4. /\ match.status = "1H" /\ match.goals = Board!Nil /\ match.extra = -1 /\ match.late = 0
      /\ match.events = Board!Nil /\ match.stats = Board!Nil /\ match \in Row
  BY <1>1 DEF Board!Init, Board!NoMatch, Board!Blank, Row, Board!Statuses
<1>5. pairs \in [Books -> Board!Lines] /\ offers \in [Books -> Board!Lines]
  BY DEF Board!Init
<1>6. match.goals["home"] = 0 /\ match.goals["away"] = 0
  BY <1>4 DEF Board!Nil, Board!Sides
<1>7. Board!TypeOK
  BY <1>1, <1>4, <1>5 DEF Board!Init, Board!TypeOK, Board!Statuses, Board!Scores, Board!Blank,
                          Board!ConstantsOK
<1> QED
  BY <1>2, <1>3, <1>4, <1>6, <1>7 DEF BoardInv

LEMMA MatchFits ==
    ASSUME Board!ConstantsOK, BoardInv
    PROVE  /\ match \in Row
           /\ \A s \in Board!Sides : /\ match.goals[s] \in 0 .. SideGoals
                                     /\ match.events[s] \in 0 .. MaxReds
                                     /\ match.stats[s] \in 0 .. MaxReds
  BY DEF BoardInv, Board!TypeOK, Board!Scores

\* A step of the match alone.
LEMMA MatchKeeps ==
    ASSUME Board!ConstantsOK, BoardInv,
           UNCHANGED <<stage, offers, pairs, odds, tie>>,
           match' \in Row, match'.goals \in Board!Scores,
           match'.late \in Nat, match'.extra \in {Board!Blank, match'.late},
           match'.late <= match'.goals["home"] + match'.goals["away"],
           match'.events \in [Board!Sides -> 0 .. MaxReds],
           match'.stats \in [Board!Sides -> 0 .. MaxReds]
    PROVE  BoardInv'
<1>1. match'.goals["home"] \in 0 .. SideGoals /\ match'.goals["away"] \in 0 .. SideGoals
  BY DEF Board!Scores, Board!Sides
<1>2. match'.late \in 0 .. 2 * SideGoals
  BY <1>1 DEF Board!ConstantsOK
<1>3. match'.status \in Board!Statuses
  BY DEF Row
<1>4. Board!TypeOK'
  BY <1>2, <1>3 DEF BoardInv, Board!TypeOK
<1> QED
  BY <1>4 DEF BoardInv

LEMMA BoardGoal ==
    ASSUME Board!ConstantsOK, BoardInv, NEW s \in Board!Sides, Board!Goal(s)
    PROVE  BoardInv'
<1> DEFINE late1 == match.late + (IF match.status = "ET" THEN 1 ELSE 0)
           goals1 == [match.goals EXCEPT ![s] = @ + 1]
<1>1. PICK extra \in {Board!Blank} \cup (IF match.status = "ET" THEN {late1} ELSE {}) :
        match' = [match EXCEPT !.goals[s] = @ + 1, !.late = late1, !.extra = extra]
  BY DEF Board!Goal
<1>2. match.goals[s] < SideGoals /\ UNCHANGED <<stage, offers, pairs, odds, tie>>
  BY DEF Board!Goal
<1>3. /\ match \in Row /\ match.late \in Nat
      /\ \A x \in Board!Sides : match.goals[x] \in 0 .. SideGoals
      /\ match.late <= match.goals["home"] + match.goals["away"]
  BY MatchFits DEF BoardInv, Board!TypeOK
<1>4. goals1 \in Board!Scores /\ goals1["home"] + goals1["away"]
                                   = match.goals["home"] + match.goals["away"] + 1
  <2>1. match.goals \in [Board!Sides -> 0 .. SideGoals] /\ match.goals[s] + 1 \in 0 .. SideGoals
    BY <1>2, <1>3 DEF BoardInv, Board!TypeOK, Board!Scores, Board!ConstantsOK
  <2>2. match.goals["home"] \in Nat /\ match.goals["away"] \in Nat
    BY <1>3 DEF Board!Sides
  <2> QED
    BY <2>1, <2>2 DEF Board!Scores, Board!Sides
<1>5. late1 \in Nat /\ late1 <= match.late + 1 /\ extra \in Int /\ extra \in {Board!Blank, late1}
  BY <1>3 DEF Board!Blank
<1>6. match' = [[[match EXCEPT !.goals = goals1] EXCEPT !.late = late1] EXCEPT !.extra = extra]
  BY <1>1
<1> HIDE DEF late1, goals1
<1> DEFINE m1 == [match EXCEPT !.goals = goals1]
           m2 == [m1 EXCEPT !.late = late1]
           m3 == [m2 EXCEPT !.extra = extra]
<1>7. goals1 \in [Board!Sides -> Int]
  BY <1>4 DEF Board!Scores
<1>8. /\ m1 \in Row /\ m1.goals = goals1 /\ m1.events = match.events /\ m1.stats = match.stats
  BY <1>3, <1>7 DEF Row
<1> HIDE DEF m1
<1>9. /\ m2 \in Row /\ m2.goals = goals1 /\ m2.events = match.events /\ m2.stats = match.stats
      /\ m2.late = late1
  BY <1>5, <1>8 DEF Row
<1> HIDE DEF m2
<1>10. /\ m3 \in Row /\ m3.goals = goals1 /\ m3.events = match.events /\ m3.stats = match.stats
       /\ m3.late = late1 /\ m3.extra = extra
  BY <1>5, <1>9 DEF Row
<1>11. match' = m3
  BY <1>6 DEF m1, m2
<1> HIDE DEF m3
<1>12. /\ match.events \in [Board!Sides -> 0 .. MaxReds]
       /\ match.stats \in [Board!Sides -> 0 .. MaxReds]
  BY DEF BoardInv, Board!TypeOK
<1>13. late1 <= goals1["home"] + goals1["away"]
  <2>1. match.goals["home"] \in Nat /\ match.goals["away"] \in Nat
    BY <1>3 DEF Board!Sides
  <2> QED
    BY <1>3, <1>4, <1>5, <2>1
<1> QED
  BY <1>2, <1>4, <1>5, <1>10, <1>11, <1>12, <1>13, MatchKeeps

LEMMA BoardRed ==
    ASSUME Board!ConstantsOK, BoardInv, NEW s \in Board!Sides, Board!Red(s)
    PROVE  BoardInv'
<1>1. match.events[s] + match.stats[s] < MaxReds /\ UNCHANGED <<stage, offers, pairs, odds, tie>>
  BY DEF Board!Red
<1> DEFINE more == [match.events EXCEPT ![s] = @ + 1]
           stat == [match.stats EXCEPT ![s] = @ + 1]
<1>2. more \in [Board!Sides -> 0 .. MaxReds] /\ stat \in [Board!Sides -> 0 .. MaxReds]
  <2>1. match.events[s] + 1 \in 0 .. MaxReds /\ match.stats[s] + 1 \in 0 .. MaxReds
    BY <1>1, MatchFits DEF Board!ConstantsOK
  <2> QED
    BY <2>1 DEF BoardInv, Board!TypeOK
<1>3. match' = [match EXCEPT !.events = more] \/ match' = [match EXCEPT !.stats = stat]
  BY DEF Board!Red
<1> HIDE DEF more, stat
<1>4. more \in [Board!Sides -> Int] /\ stat \in [Board!Sides -> Int] /\ match \in Row
  BY <1>2 DEF BoardInv
<1>5. /\ match' \in Row /\ match'.goals = match.goals /\ match'.late = match.late
      /\ match'.extra = match.extra
      /\ match'.events \in {match.events, more} /\ match'.stats \in {match.stats, stat}
  BY <1>3, <1>4 DEF Row
<1>6. /\ match.goals \in Board!Scores /\ match.late \in Nat
      /\ match.extra \in {Board!Blank, match.late}
      /\ match.late <= match.goals["home"] + match.goals["away"]
      /\ match.events \in [Board!Sides -> 0 .. MaxReds]
      /\ match.stats \in [Board!Sides -> 0 .. MaxReds]
  BY DEF BoardInv, Board!TypeOK
<1> QED
  BY <1>1, <1>2, <1>5, <1>6, MatchKeeps

LEMMA BoardStep ==
    ASSUME Board!ConstantsOK, BoardInv, Board!Next
    PROVE  BoardInv'
<1>1. CASE Board!FillPrematch
  <2>1. odds' \in Line
    BY <1>1, OddsTyped DEF BoardInv
  <2>2. /\ stage' = "kickoff" /\ UNCHANGED <<tie, match>> /\ pairs' = offers'
        /\ offers' = [b \in Books |-> CHOOSE l \in Board!Lines : TRUE]
    BY <1>1 DEF Board!FillPrematch
  <2>3. (CHOOSE l \in Board!Lines : TRUE) \in Board!Lines
    <3>1. [home |-> Board!Missing, draw |-> Board!Missing, away |-> Board!Missing] \in Board!Lines
      BY DEF Board!Lines
    <3> QED
      BY <3>1
  <2>4. offers' \in [Books -> Board!Lines] /\ pairs' \in [Books -> Board!Lines]
    BY <2>2, <2>3
  <2>5. Board!TypeOK'
    BY <2>2, <2>4 DEF BoardInv, Board!TypeOK
  <2> QED
    BY <2>1, <2>2, <2>5 DEF BoardInv
<1>2. CASE Board!Kickoff
  <2>1. PICK marked, final, same, known, swapped \in BOOLEAN, g \in [Board!Sides -> 0 .. 1],
             predicted \in {"none", "away"} :
          /\ known \/ (g = Board!Nil /\ ~swapped /\ ~same)
          /\ final => same /\ ~marked
          /\ tie' = [marked |-> marked, final |-> final, sameRound |-> same,
                     predicted |-> predicted,
                     leg |-> [known |-> known, swapped |-> swapped, goals |-> g]]
    BY <1>2, Zenon DEF Board!Kickoff
  <2>2. g \in [Board!Sides -> Int]
    OBVIOUS
  <2>3. [known |-> known, swapped |-> swapped, goals |-> g] \in Legged
    BY <2>2 DEF Legged
  <2>4. tie' \in Tie
    BY <2>1, <2>3 DEF Tie
  <2>5. stage' = "live" /\ UNCHANGED <<offers, pairs, odds, match>>
    BY <1>2, Zenon DEF Board!Kickoff
  <2>6. Board!TypeOK'
    BY <2>5 DEF BoardInv, Board!TypeOK
  <2> QED
    BY <2>4, <2>5, <2>6 DEF BoardInv
<1>3. CASE Board!Whistle
  <2>1. PICK to \in {"ET", "P"} : match' = [match EXCEPT !.status = to]
    BY <1>3 DEF Board!Whistle
  <2>2. UNCHANGED <<stage, offers, pairs, odds, tie>> /\ to \in Board!Statuses /\ match \in Row
    BY <1>3 DEF Board!Whistle, Board!Statuses, BoardInv
  <2>3. /\ match' \in Row /\ match'.goals = match.goals /\ match'.late = match.late
        /\ match'.extra = match.extra /\ match'.events = match.events
        /\ match'.stats = match.stats
    BY <2>1, <2>2 DEF Row
  <2>4. /\ match.goals \in Board!Scores /\ match.late \in Nat
        /\ match.extra \in {Board!Blank, match.late}
        /\ match.late <= match.goals["home"] + match.goals["away"]
        /\ match.events \in [Board!Sides -> 0 .. MaxReds]
        /\ match.stats \in [Board!Sides -> 0 .. MaxReds]
    BY DEF BoardInv, Board!TypeOK
  <2> QED
    BY <2>2, <2>3, <2>4, MatchKeeps
<1> QED
  BY <1>1, <1>2, <1>3, BoardGoal, BoardRed DEF Board!Next

-----------------------------------------------------------------------------
(* The match the other way round.                                          *)

Places == {"none", "home", "away"}
Turn(f) == IF f = "none" THEN f ELSE Board!Other(f)

LEMMA TurnTwice ==
    /\ \A s \in Board!Sides : Board!Other(s) \in Board!Sides /\ Board!Other(Board!Other(s)) = s
    /\ \A f \in Places : Turn(f) \in Places /\ (Turn(f) = "none" <=> f = "none")
  BY DEF Board!Sides, Board!Other, Places, Turn

LEMMA FlipTyped ==
    ASSUME NEW S, NEW f \in [Board!Sides -> S]
    PROVE  /\ Board!Flip(f) \in [Board!Sides -> S]
           /\ \A s \in Board!Sides : Board!Flip(f)[s] = f[Board!Other(s)]
  BY TurnTwice DEF Board!Flip

LEMMA LineFlips ==
    ASSUME NEW l \in Line
    PROVE  /\ Board!FlipLine(l) \in Line
           /\ Board!FlipLine(l).home = l.away /\ Board!FlipLine(l).away = l.home
           /\ Board!FlipLine(l).draw = l.draw /\ Board!FlipLine(l).source = l.source
<1>1. /\ l.home \in Nat /\ l.draw \in Nat /\ l.away \in Nat
      /\ l.source \in {"none", "prematch", "live"}
      /\ l = [home |-> l.home, draw |-> l.draw, away |-> l.away, source |-> l.source]
  BY DEF Line
<1> DEFINE l1 == [l EXCEPT !.home = l.away]
           l2 == [l1 EXCEPT !.away = l.home]
<1>2. Board!FlipLine(l) = l2
  BY DEF Board!FlipLine
<1>3. l1 = [home |-> l.away, draw |-> l.draw, away |-> l.away, source |-> l.source]
  BY <1>1
<1> HIDE DEF l1
<1>4. l2 = [home |-> l.away, draw |-> l.draw, away |-> l.home, source |-> l.source]
  BY <1>3
<1> HIDE DEF l2
<1> QED
  BY <1>1, <1>2, <1>4 DEF Line

LEMMA FavoriteIs ==
    ASSUME NEW l \in Line
    PROVE  Board!Favorite(l) =
             IF l.home = 0 \/ l.away = 0 THEN "none"
             ELSE IF l.home < l.away /\ (l.draw = 0 \/ l.home < l.draw) THEN "home"
             ELSE IF l.away < l.home /\ (l.draw = 0 \/ l.away < l.draw) THEN "away"
             ELSE "none"
<1> DEFINE Short(s) == /\ l.home # Board!Missing /\ l.away # Board!Missing
                       /\ l[s] < l[Board!Other(s)]
                       /\ l.draw = Board!Missing \/ l[s] < l.draw
<1>1. Board!Favorite(l) = IF \E s \in Board!Sides : Short(s)
                          THEN CHOOSE s \in Board!Sides : Short(s) ELSE "none"
  BY DEF Board!Favorite
<1>2. l.home \in Nat /\ l.draw \in Nat /\ l.away \in Nat
  BY DEF Line
<1>3. /\ Short("home") <=> /\ l.home # 0 /\ l.away # 0 /\ l.home < l.away
                           /\ l.draw = 0 \/ l.home < l.draw
      /\ Short("away") <=> /\ l.home # 0 /\ l.away # 0 /\ l.away < l.home
                           /\ l.draw = 0 \/ l.away < l.draw
  BY DEF Board!Missing, Board!Other
<1> HIDE DEF Short
<1>4. ~(Short("home") /\ Short("away"))
  BY <1>2, <1>3
<1>5. CASE Short("home")
  <2>1. Board!Favorite(l) = "home"
    BY <1>1, <1>4, <1>5 DEF Board!Sides
  <2> QED
    BY <2>1, <1>3, <1>5
<1>6. CASE Short("away")
  <2>1. Board!Favorite(l) = "away"
    BY <1>1, <1>4, <1>6 DEF Board!Sides
  <2> QED
    BY <2>1, <1>2, <1>3, <1>6
<1>7. CASE ~Short("home") /\ ~Short("away")
  <2>1. Board!Favorite(l) = "none"
    BY <1>1, <1>7 DEF Board!Sides
  <2> QED
    BY <2>1, <1>3, <1>7
<1> QED
  BY <1>5, <1>6, <1>7

LEMMA FavoriteFlips ==
    ASSUME NEW l \in Line
    PROVE  /\ Board!Favorite(l) \in Places
           /\ Board!Favorite(Board!FlipLine(l)) = Turn(Board!Favorite(l))
           /\ Board!FavoriteOdd(Board!FlipLine(l)) = Board!FavoriteOdd(l)
           /\ Board!FavoriteOdd(l) \in Nat
           /\ \A p \in Places : /\ Board!MatchFavorite(l, p) \in Places
                               /\ Board!MatchFavorite(Board!FlipLine(l), Turn(p))
                                    = Turn(Board!MatchFavorite(l, p))
<1>1. PICK r \in Line : r = Board!FlipLine(l)
  BY LineFlips
<1>2. r.home = l.away /\ r.away = l.home /\ r.draw = l.draw /\ r.source = l.source
  BY <1>1, LineFlips
<1>3. l.home \in Nat /\ l.draw \in Nat /\ l.away \in Nat
  BY DEF Line
<1>4. Board!Favorite(l) \in Places
  BY FavoriteIs DEF Places
<1>5. Board!Favorite(r) = Turn(Board!Favorite(l))
  BY <1>2, <1>3, FavoriteIs DEF Turn, Board!Other
<1>6. Board!FavoriteOdd(r) = Board!FavoriteOdd(l) /\ Board!FavoriteOdd(l) \in Nat
  BY <1>2, <1>3, <1>4, <1>5 DEF Board!FavoriteOdd, Board!Missing, Turn, Board!Other, Places
<1>7. ASSUME NEW p \in Places
      PROVE  /\ Board!MatchFavorite(l, p) \in Places
             /\ Board!MatchFavorite(r, Turn(p)) = Turn(Board!MatchFavorite(l, p))
  <2>1. Turn("none") = "none"
    BY DEF Turn
  <2> QED
    BY <1>2, <1>4, <1>5, <2>1, TurnTwice DEF Board!MatchFavorite, Places
<1> QED
  BY <1>1, <1>4, <1>5, <1>6, <1>7

LEMMA MatchFlips ==
    ASSUME NEW m \in Row
    PROVE  /\ Board!FlipMatch(m).status = m.status /\ Board!FlipMatch(m).extra = m.extra
           /\ \A s \in Board!Sides :
                /\ Board!FlipMatch(m).goals[s] = m.goals[Board!Other(s)]
                /\ Board!FlipMatch(m).events[s] = m.events[Board!Other(s)]
                /\ Board!FlipMatch(m).stats[s] = m.stats[Board!Other(s)]
<1> DEFINE g == Board!Flip(m.goals) e == Board!Flip(m.events) st == Board!Flip(m.stats)
           m1 == [m EXCEPT !.goals = g] m2 == [m1 EXCEPT !.events = e]
           m3 == [m2 EXCEPT !.stats = st]
<1>1. /\ m.goals \in [Board!Sides -> Int] /\ m.events \in [Board!Sides -> Int]
      /\ m.stats \in [Board!Sides -> Int]
  BY DEF Row
<1>2. \A s \in Board!Sides : /\ g[s] = m.goals[Board!Other(s)]
                             /\ e[s] = m.events[Board!Other(s)]
                             /\ st[s] = m.stats[Board!Other(s)]
  BY <1>1, FlipTyped
<1>3. g \in [Board!Sides -> Int] /\ e \in [Board!Sides -> Int] /\ st \in [Board!Sides -> Int]
  BY <1>1, FlipTyped
<1>4. Board!FlipMatch(m) = m3
  BY DEF Board!FlipMatch
<1> HIDE DEF g, e, st
<1>5. m1 \in Row /\ m1.goals = g /\ m1.status = m.status /\ m1.extra = m.extra
  BY <1>3 DEF Row
<1> HIDE DEF m1
<1>6. /\ m2 \in Row /\ m2.goals = g /\ m2.events = e
      /\ m2.status = m.status /\ m2.extra = m.extra
  BY <1>3, <1>5 DEF Row
<1> HIDE DEF m2
<1>7. /\ m3.goals = g /\ m3.events = e /\ m3.stats = st
      /\ m3.status = m.status /\ m3.extra = m.extra
  BY <1>3, <1>6 DEF Row
<1> HIDE DEF m3
<1> QED
  BY <1>2, <1>4, <1>7

LEMMA TieFlips ==
    ASSUME NEW t \in Tie
    PROVE  /\ Board!FlipTie(t).predicted = Turn(t.predicted)
           /\ Board!FlipTie(t).marked = t.marked
           /\ Board!FirstLeg(Board!FlipTie(t)).known = Board!FirstLeg(t).known
           /\ \A s \in Board!Sides :
                Board!LegGoals(Board!FirstLeg(Board!FlipTie(t)), s)
                  = Board!LegGoals(Board!FirstLeg(t), Board!Other(s))
<1> DEFINE g == Board!Flip(t.leg.goals)
           p == Turn(t.predicted)
           t1 == [t EXCEPT !.predicted = p]
           first == [t.leg EXCEPT !.goals = g]
           t2 == [t1 EXCEPT !.leg = first]
<1>1. t.leg \in Legged /\ t.predicted \in Places
  BY DEF Tie, Places
<1>2. t.leg.goals \in [Board!Sides -> Int]
  BY <1>1 DEF Legged
<1>3. g \in [Board!Sides -> Int] /\ \A s \in Board!Sides : g[s] = t.leg.goals[Board!Other(s)]
  BY <1>2, FlipTyped
<1>4. p \in Places
  BY <1>1, TurnTwice
<1>5. Board!FlipTie(t) = t2
  BY DEF Board!FlipTie, Turn, Tie
<1> HIDE DEF g, p
<1>6. /\ first \in Legged /\ first.goals = g
      /\ first.known = t.leg.known /\ first.swapped = t.leg.swapped
  BY <1>1, <1>3 DEF Legged
<1> HIDE DEF first
<1>7. /\ t1 \in Tie /\ t1.predicted = p /\ t1.marked = t.marked /\ t1.final = t.final
      /\ t1.sameRound = t.sameRound
  BY <1>4 DEF Tie, Places
<1> HIDE DEF t1
<1>8. /\ t2 \in Tie /\ t2.predicted = p /\ t2.marked = t.marked /\ t2.final = t.final
      /\ t2.sameRound = t.sameRound /\ t2.leg = first
  BY <1>6, <1>7 DEF Tie
<1> HIDE DEF t2
<1>9. ASSUME NEW u \in Tie
      PROVE  /\ Board!FirstLeg(u).known
                  = (u.leg.known /\ (u.marked \/ (u.sameRound /\ ~u.final)))
             /\ Board!FirstLeg(u).swapped = u.leg.swapped
             /\ Board!FirstLeg(u).goals = u.leg.goals
  BY DEF Tie, Legged, Board!FirstLeg
<1>10. \A s \in Board!Sides :
         Board!LegGoals(Board!FirstLeg(t2), s) = Board!LegGoals(Board!FirstLeg(t), Board!Other(s))
  <2>1. \A s \in Board!Sides : Board!LegGoals(Board!FirstLeg(t2), s)
                               = g[IF t.leg.swapped THEN Board!Other(s) ELSE s]
    BY <1>6, <1>8, <1>9 DEF Board!LegGoals
  <2>2. \A s \in Board!Sides :
          Board!LegGoals(Board!FirstLeg(t), Board!Other(s))
            = t.leg.goals[IF t.leg.swapped THEN Board!Other(Board!Other(s)) ELSE Board!Other(s)]
    BY <1>9 DEF Board!LegGoals
  <2> QED
    BY <2>1, <2>2, <1>3, TurnTwice
<1>11. Board!FirstLeg(t2).known = Board!FirstLeg(t).known
  BY <1>6, <1>8, <1>9
<1> QED
  BY <1>5, <1>8, <1>10, <1>11 DEF p

LEMMA ReasonsFlip ==
    ASSUME NEW m \in Row, NEW l \in Line, NEW t \in Tie, Board!ConstantsOK
    PROVE  Board!Reasons(Board!FlipMatch(m), Board!FlipLine(l), Board!FlipTie(t))
             = Board!Reasons(m, l, t)
<1> DEFINE m2 == Board!FlipMatch(m) l2 == Board!FlipLine(l) t2 == Board!FlipTie(t)
           fav == Board!MatchFavorite(l, t.predicted)
           fav2 == Board!MatchFavorite(l2, t2.predicted)
           first == Board!FirstLeg(t) first2 == Board!FirstLeg(t2)
<1>1. /\ m2.status = m.status /\ m2.extra = m.extra
      /\ \A s \in Board!Sides : /\ m2.goals[s] = m.goals[Board!Other(s)]
                                /\ m2.events[s] = m.events[Board!Other(s)]
                                /\ m2.stats[s] = m.stats[Board!Other(s)]
  BY MatchFlips
<1>2. /\ t2.marked = t.marked /\ t2.predicted = Turn(t.predicted) /\ first2.known = first.known
      /\ \A s \in Board!Sides :
           Board!LegGoals(first2, s) = Board!LegGoals(first, Board!Other(s))
  BY TieFlips
<1>3. fav \in Places /\ fav2 = Turn(fav)
  BY <1>2, FavoriteFlips DEF Tie, Places
<1>4. Board!FavoriteOdd(l2) = Board!FavoriteOdd(l)
  BY FavoriteFlips
<1> HIDE DEF m2, l2, t2, fav, fav2, first, first2
<1>5. \A s \in Board!Sides : Board!Reds(m2, s) = Board!Reds(m, Board!Other(s))
  BY <1>1 DEF Board!Reds
<1>6. \A s \in Board!Sides : m.goals[s] \in Int
  BY DEF Row
<1>7. Board!BoardPeriodGoals(m2) = Board!BoardPeriodGoals(m)
  <2>1. m2.goals["home"] = m.goals["away"] /\ m2.goals["away"] = m.goals["home"]
    BY <1>1 DEF Board!Sides, Board!Other
  <2>2. m.goals["home"] \in Int /\ m.goals["away"] \in Int
    BY <1>6 DEF Board!Sides
  <2> QED
    BY <1>1, <2>1, <2>2 DEF Board!BoardPeriodGoals
<1>8. Board!PassesGates(m2, l2) <=> Board!PassesGates(m, l)
  BY <1>4, <1>7 DEF Board!PassesGates
<1>9. fav # "none" => /\ fav \in Board!Sides /\ fav2 \in Board!Sides /\ fav2 # "none"
                      /\ fav2 = Board!Other(fav) /\ Board!Other(fav2) = fav
                      /\ Board!Other(fav) \in Board!Sides
  BY <1>3, TurnTwice DEF Turn, Places, Board!Sides
<1>10. fav = "none" => fav2 = "none"
  BY <1>3 DEF Turn
<1>11. Board!Outnumbered(m2, fav2) <=> Board!Outnumbered(m, fav)
  BY <1>5, <1>9, <1>10 DEF Board!Outnumbered
<1>12. Board!FavoriteLosing(m2, fav2) <=> Board!FavoriteLosing(m, fav)
  BY <1>1, <1>9, <1>10 DEF Board!FavoriteLosing
<1>13. Board!TieDeficit(m2, fav2, first2) <=> Board!TieDeficit(m, fav, first)
  BY <1>1, <1>2, <1>9, <1>10 DEF Board!TieDeficit
<1>14. /\ Board!Reasons(m, l, t) =
            IF Board!Outnumbered(m, fav) \/ ~Board!PassesGates(m, l) THEN {}
            ELSE {r \in {"favorite_losing", "tie_deficit"} :
                    \/ /\ r = "favorite_losing" /\ ~t.marked /\ ~first.known
                       /\ Board!FavoriteLosing(m, fav)
                    \/ r = "tie_deficit" /\ Board!TieDeficit(m, fav, first)}
       /\ Board!Reasons(m2, l2, t2) =
            IF Board!Outnumbered(m2, fav2) \/ ~Board!PassesGates(m2, l2) THEN {}
            ELSE {r \in {"favorite_losing", "tie_deficit"} :
                    \/ /\ r = "favorite_losing" /\ ~t2.marked /\ ~first2.known
                       /\ Board!FavoriteLosing(m2, fav2)
                    \/ r = "tie_deficit" /\ Board!TieDeficit(m2, fav2, first2)}
  BY Zenon DEF Board!Reasons, fav, fav2, first, first2
<1>15. Board!Reasons(m2, l2, t2) = Board!Reasons(m, l, t)
  BY <1>2, <1>8, <1>11, <1>12, <1>13, <1>14
<1> QED
  BY <1>15 DEF m2, l2, t2

\* The two counts of the goals of the period are one, and the gates of the board leave
\* nothing for those of the prompt to refuse.
LEMMA GatesLetThrough ==
    ASSUME NEW m \in Row, NEW l \in Line, Board!ConstantsOK, Board!PassesGates(m, l)
    PROVE  Board!GateMisses(m, l) = {}
<1>1. Board!BoardPeriodGoals(m) \in Int /\ Board!FavoriteOdd(l) \in Int
  <2>1. m.goals["home"] \in Int /\ m.goals["away"] \in Int /\ m.extra \in Int
    BY DEF Row, Board!Sides
  <2> QED
    BY <2>1, FavoriteFlips DEF Board!BoardPeriodGoals
<1>2. ~(Board!BoardPeriodGoals(m) > PeriodLimit)
  BY <1>1 DEF Board!PassesGates, Board!ConstantsOK
<1>3. ~(Board!FavoriteOdd(l) = Board!Missing \/ Board!FavoriteOdd(l) >= MaxFavoriteOdd)
  BY <1>1 DEF Board!PassesGates, Board!ConstantsOK
<1>4. Board!GateMisses(m, l) =
        {g \in {"PERIOD_GOALS", "FAVORITE_ODD"} :
           \/ g = "PERIOD_GOALS" /\ Board!BoardPeriodGoals(m) > PeriodLimit
           \/ g = "FAVORITE_ODD" /\ (Board!FavoriteOdd(l) = Board!Missing
                                     \/ Board!FavoriteOdd(l) >= MaxFavoriteOdd)}
  BY DEF Board!GateMisses, Board!BoardPeriodGoals
<1> QED
  BY <1>2, <1>3, <1>4

LEMMA BoardSound == ASSUME Board!ConstantsOK, BoardInv PROVE Board!SelectionIsSound
<1>1. match \in Row /\ odds \in Line /\ tie \in Tie
  BY DEF BoardInv
<1>2. Board!SidesAreAlike
  BY <1>1, ReasonsFlip DEF Board!SidesAreAlike
<1>3. ASSUME Board!OnBoard PROVE Board!PassesGates(match, odds)
  <2>1. Board!Reasons(match, odds, tie) # {}
    BY <1>3 DEF Board!OnBoard
  <2> QED
    BY <2>1, Zenon DEF Board!Reasons
<1>4. Board!BoardPassesTheGates
  BY <1>1, <1>3, GatesLetThrough DEF Board!BoardPassesTheGates
<1> QED
  BY <1>2, <1>4 DEF Board!SelectionIsSound

\* The reasons for which a match is on the board are those it would have with its teams
\* the other way round, and the gates of the prompt refuse no match the board shows, for
\* any bookmakers, prices and limits (next_goal_reasons, prompt_gate_misses).
THEOREM SelectionHolds == MCSpec => []SelectionIsSound
<1> USE BoardConstants
<1> DEFINE PartInv == part = "board" => BoardInv
<1>1. MCInit => PartInv
  BY BoardInit DEF MCInit
<1>2. PartInv /\ [MCNext]_allVars => PartInv'
  <2>1. ASSUME UNCHANGED <<part, boardVars>>, PartInv PROVE PartInv'
    BY <2>1 DEF boardVars, BoardInv, Board!TypeOK
  <2>2. [MCNext]_allVars =>
          UNCHANGED <<part, boardVars>> \/ (part = "board" /\ Board!Next /\ UNCHANGED part)
    BY DEF MCNext, allVars
  <2>3. ASSUME BoardInv, Board!Next, UNCHANGED part PROVE PartInv'
    BY <2>3, BoardStep
  <2> QED
    BY <2>1, <2>2, <2>3
<1>3. PartInv => SelectionIsSound
  BY BoardSound DEF SelectionIsSound, BoardInv
<1> QED
  BY <1>1, <1>2, <1>3, PTL DEF MCSpec
=============================================================================
