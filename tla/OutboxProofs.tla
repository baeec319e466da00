----------------------------- MODULE OutboxProofs -----------------------------
(***************************************************************************)
(* The outboxes of Outbox, for any notices and traces, any limit of        *)
(* attempts and any number of crashes: no message goes out more often than *)
(* the attempts on record, and the crashes, allow for.                     *)
(***************************************************************************)
EXTENDS MCAdvisorProgress, FiniteSetTheorems, WellFoundedInduction, TLAPS

PassTyped ==
    /\ DOMAIN pass \subseteq Notices
    /\ pass \in [DOMAIN pass -> Boxes!Rows]

Typed ==
    /\ notice \in [Notices -> Boxes!Rows] /\ trace \in [Traces -> Boxes!Rows]
    /\ PassTyped
    /\ posted \in [Notices -> Nat] /\ exported \in [Traces -> Nat]
    /\ claim = {} \/ \E t \in Traces : claim = {t}
    /\ answer \in {"none", "ok", "error"}
    /\ orphans \subseteq Traces /\ crashes \in 0 .. MaxCrashes

\* A notice in the pass has its attempt counted there, and until it is posted
\* this attempt is to spare.
PassIsCounted ==
    /\ \A n \in Notices : notice[n].status = "absent" => notice[n].attempts = 0
    /\ \A n \in DOMAIN pass :
          /\ pass[n].status # "absent"
          /\ pass[n].attempts = notice[n].attempts + 1
          /\ pass[n].status = "sending" => posted[n] <= notice[n].attempts + crashes

\* The claim on record is one attempt ahead of what was sent.
ClaimIsCounted ==
    \A t \in claim : answer = "none" => exported[t] < trace[t].attempts

Inv ==
    /\ Typed /\ PassIsCounted /\ ClaimIsCounted
    /\ Boxes!RepeatsNeedACrash /\ Boxes!ExportsAreOnRecord

LEMMA MinOfNats ==
    ASSUME NEW S \in SUBSET Nat, S # {}
    PROVE  Boxes!Min(S) \in S
<1>1. PICK m \in S : \A y \in S : <<y, m>> \notin OpToRel(<, Nat)
  BY NatLessThanWellFounded, WFMin, Zenon
<1>2. \A y \in S : <<y, m>> \in OpToRel(<, Nat) <=> y < m
  BY DEF OpToRel
<1>3. \A y \in S : ~(y < m)
  BY <1>1, <1>2, Zenon
<1>4. m \in Nat
  OBVIOUS
<1>5. \A y \in S : m <= y
  BY <1>3, <1>4
<1> QED
  BY <1>5 DEF Boxes!Min

LEMMA CountsAreNats ==
    ASSUME Boxes!ConstantsOK, Typed
    PROVE  /\ crashes \in Nat
           /\ \A n \in Notices : notice[n].attempts \in Nat /\ posted[n] \in Nat
           /\ \A t \in Traces : trace[t].attempts \in Nat /\ exported[t] \in Nat
<1>1. \A row \in Boxes!Rows : row.attempts \in Nat
  BY DEF Boxes!Rows, Boxes!ConstantsOK
<1>2. crashes \in Nat
  BY DEF Typed, Boxes!ConstantsOK
<1> QED
  BY <1>1, <1>2 DEF Typed

LEMMA NoPassIsEmpty == DOMAIN Boxes!NoPass = {} /\ Boxes!NoPass \in [{} -> Boxes!Rows]
  BY DEF Boxes!NoPass

LEMMA InitInv == ASSUME Boxes!ConstantsOK PROVE Boxes!Init => Inv
<1> SUFFICES ASSUME Boxes!Init PROVE Inv
  OBVIOUS
<1>1. Boxes!Absent \in Boxes!Rows /\ Boxes!Absent.status = "absent" /\ Boxes!Absent.attempts = 0
  BY DEF Boxes!Absent, Boxes!Row, Boxes!Rows, Boxes!ConstantsOK
<1>2. Typed
  BY <1>1, NoPassIsEmpty DEF Boxes!Init, Typed, PassTyped, Boxes!ConstantsOK
<1>3. PassIsCounted /\ Boxes!RepeatsNeedACrash
  BY <1>1, NoPassIsEmpty DEF Boxes!Init, PassIsCounted, Boxes!RepeatsNeedACrash
<1>4. ClaimIsCounted /\ Boxes!ExportsAreOnRecord
  BY <1>1 DEF Boxes!Init, ClaimIsCounted, Boxes!ExportsAreOnRecord
<1> QED
  BY <1>2, <1>3, <1>4 DEF Inv

(***************************************************************************)
(* Notices.                                                                *)
(***************************************************************************)
LEMMA EnqueueKeeps == ASSUME Boxes!ConstantsOK, Inv, Boxes!Enqueue PROVE Inv'
<1> USE DEF Inv
<1> DEFINE f == Boxes!Min(Boxes!Fresh)
<1>1. f \in Notices /\ notice[f].status = "absent"
  BY MinOfNats DEF Boxes!Enqueue, Boxes!Fresh, Boxes!ConstantsOK
<1>2. notice' = [notice EXCEPT ![f] = Boxes!Row("pending", 0)]
  BY DEF Boxes!Enqueue
<1>3. /\ pass = Boxes!NoPass
      /\ UNCHANGED <<pass, posted, trace, exported, claim, answer, orphans, crashes>>
  BY DEF Boxes!Enqueue, Boxes!Idle
<1> HIDE DEF f
<1>4. Boxes!Row("pending", 0) \in Boxes!Rows
  BY DEF Boxes!Row, Boxes!Rows, Boxes!ConstantsOK
<1>5. \A n \in Notices : notice'[n].attempts = notice[n].attempts
  BY <1>1, <1>2 DEF Typed, PassIsCounted, Boxes!Row
<1>6. Typed'
  BY <1>2, <1>3, <1>4 DEF Typed, PassTyped
<1>7. PassIsCounted'
  BY <1>2, <1>3, <1>5, NoPassIsEmpty DEF PassIsCounted, Typed, Boxes!Row
<1>8. Boxes!RepeatsNeedACrash'
  BY <1>3, <1>5 DEF Boxes!RepeatsNeedACrash
<1> QED
  BY <1>3, <1>6, <1>7, <1>8 DEF ClaimIsCounted, Boxes!ExportsAreOnRecord

LEMMA BeginKeeps ==
    ASSUME Boxes!ConstantsOK, Inv, NEW added \in SUBSET Boxes!Fresh, Boxes!BeginPass(added)
    PROVE  Inv'
<1> USE DEF Inv
<1> DEFINE due == added \cup {n \in Notices : notice[n].status = "pending"
                                              /\ notice[n].attempts < MaxAttempts}
           taken == Boxes!FirstOf(due)
<1>1. \A n \in due : n \in Notices /\ notice[n].attempts < MaxAttempts
  BY DEF Boxes!Fresh, Typed, Boxes!Rows, PassIsCounted, Boxes!ConstantsOK
<1>2. taken \subseteq due
  BY DEF Boxes!FirstOf
<1>3. pass' = [n \in taken |-> Boxes!Row("sending", notice[n].attempts + 1)]
  BY DEF Boxes!BeginPass
<1>4. /\ pass = Boxes!NoPass
      /\ UNCHANGED <<notice, posted, trace, exported, claim, answer, orphans, crashes>>
  BY DEF Boxes!BeginPass, Boxes!Idle
<1> HIDE DEF due, taken
<1>5. DOMAIN pass' = taken /\ taken \subseteq Notices
  BY <1>1, <1>2, <1>3
<1>6. \A n \in taken : /\ pass'[n] \in Boxes!Rows
                       /\ pass'[n].status = "sending"
                       /\ pass'[n].attempts = notice[n].attempts + 1
  <2> SUFFICES ASSUME NEW n \in taken
               PROVE  /\ pass'[n] \in Boxes!Rows
                      /\ pass'[n].status = "sending"
                      /\ pass'[n].attempts = notice[n].attempts + 1
    OBVIOUS
  <2>1. notice[n].attempts \in Nat /\ notice[n].attempts < MaxAttempts
    BY <1>1, <1>2, CountsAreNats
  <2>2. pass'[n] = [status |-> "sending", attempts |-> notice[n].attempts + 1]
    BY <1>3 DEF Boxes!Row
  <2> QED
    BY <2>1, <2>2 DEF Boxes!Rows, Boxes!ConstantsOK
<1>7. Typed'
  BY <1>3, <1>4, <1>5, <1>6 DEF Typed, PassTyped
<1>8. \A n \in Notices : posted[n] <= notice[n].attempts + crashes
  BY <1>4, NoPassIsEmpty DEF Boxes!RepeatsNeedACrash, Typed, Boxes!Rows
<1>9. PassIsCounted'
  BY <1>4, <1>5, <1>6, <1>8 DEF PassIsCounted
<1>10. Boxes!RepeatsNeedACrash'
  BY <1>4, <1>8 DEF Boxes!RepeatsNeedACrash, Typed, Boxes!Rows
<1> QED
  BY <1>4, <1>7, <1>9, <1>10 DEF ClaimIsCounted, Boxes!ExportsAreOnRecord

LEMMA PostKeeps == ASSUME Boxes!ConstantsOK, Inv, Boxes!PostOne PROVE Inv'
<1> USE DEF Inv
<1> DEFINE n == Boxes!Min(Boxes!Sending)
<1>1. n \in DOMAIN pass /\ n \in Notices /\ pass[n].status = "sending"
  <2>1. Boxes!Sending \in SUBSET Nat /\ Boxes!Sending # {}
    BY DEF Boxes!PostOne, Boxes!Sending, Typed, PassTyped, Boxes!ConstantsOK
  <2>2. n \in Boxes!Sending
    BY <2>1, MinOfNats
  <2> QED
    BY <2>2 DEF Boxes!Sending, Typed, PassTyped
<1>2. /\ \/ pass' = [pass EXCEPT ![n] = Boxes!Row("sent", @.attempts)]
         \/ pass' = [pass EXCEPT ![n] = Boxes!AfterFailure(@)]
      /\ posted' = posted \/ posted' = [posted EXCEPT ![n] = @ + 1]
  BY DEF Boxes!PostOne
<1>3. UNCHANGED <<notice, trace, exported, claim, answer, orphans, crashes>>
  BY DEF Boxes!PostOne
<1> HIDE DEF n
<1>4. PICK row \in Boxes!Rows :
        /\ pass' = [pass EXCEPT ![n] = row]
        /\ row.status \in {"sent", "abandoned", "pending"}
        /\ row.attempts = pass[n].attempts
  <2>1. \A st \in {"sent", "abandoned", "pending"} :
           /\ Boxes!Row(st, pass[n].attempts) \in Boxes!Rows
           /\ Boxes!Row(st, pass[n].attempts).status = st
           /\ Boxes!Row(st, pass[n].attempts).attempts = pass[n].attempts
    BY <1>1 DEF Boxes!Row, Boxes!Rows, Typed, PassTyped
  <2>2. PICK st \in {"sent", "abandoned", "pending"} :
           pass' = [pass EXCEPT ![n] = Boxes!Row(st, pass[n].attempts)]
    BY <1>2 DEF Boxes!AfterFailure
  <2> QED
    BY <2>1, <2>2
<1>5. /\ DOMAIN pass' = DOMAIN pass
      /\ pass'[n] = row
      /\ \A m \in DOMAIN pass : m # n => pass'[m] = pass[m]
  BY <1>1, <1>4
<1>6. /\ posted' \in [Notices -> Nat]
      /\ posted'[n] <= posted[n] + 1
      /\ \A m \in Notices : m # n => posted'[m] = posted[m]
  BY <1>1, <1>2 DEF Typed
<1>7. Typed'
  BY <1>3, <1>4, <1>6 DEF Typed, PassTyped
<1>8. PassIsCounted'
  BY <1>3, <1>4, <1>5, <1>6 DEF PassIsCounted, Typed, PassTyped
<1>9. Boxes!RepeatsNeedACrash'
  <2>1. posted[n] \in Nat /\ posted'[n] \in Nat /\ notice[n].attempts \in Nat /\ crashes \in Nat
    BY <1>1, <1>6, CountsAreNats
  <2>2. posted'[n] <= notice[n].attempts + crashes + 1
    BY <1>1, <1>6, <2>1 DEF PassIsCounted
  <2> QED
    BY <1>1, <1>3, <1>5, <1>6, <2>2 DEF Boxes!RepeatsNeedACrash
<1> QED
  BY <1>3, <1>7, <1>8, <1>9 DEF ClaimIsCounted, Boxes!ExportsAreOnRecord

LEMMA EndKeeps == ASSUME Boxes!ConstantsOK, Inv, Boxes!EndPass PROVE Inv'
<1> USE DEF Inv
<1>1. /\ notice' = [n \in Notices |-> IF n \in DOMAIN pass THEN pass[n] ELSE notice[n]]
      /\ pass' = Boxes!NoPass
      /\ UNCHANGED <<posted, trace, exported, claim, answer, orphans, crashes>>
  BY DEF Boxes!EndPass
<1>2. Typed'
  BY <1>1, NoPassIsEmpty DEF Typed, PassTyped
<1>3. PassIsCounted'
  BY <1>1, NoPassIsEmpty DEF PassIsCounted, Typed
<1>4. Boxes!RepeatsNeedACrash'
  <2> SUFFICES ASSUME NEW n \in Notices
               PROVE  posted[n] <= notice'[n].attempts + crashes
    BY <1>1, <1>2, NoPassIsEmpty DEF Boxes!RepeatsNeedACrash, Typed, Boxes!Rows
  <2>1. CASE n \in DOMAIN pass
    BY <1>1, <2>1 DEF PassIsCounted, Boxes!RepeatsNeedACrash, Typed, Boxes!Rows
  <2>2. CASE n \notin DOMAIN pass
    BY <1>1, <2>2 DEF Boxes!RepeatsNeedACrash, Typed, Boxes!Rows
  <2> QED
    BY <2>1, <2>2
<1> QED
  BY <1>1, <1>2, <1>3, <1>4 DEF ClaimIsCounted, Boxes!ExportsAreOnRecord

(***************************************************************************)
(* Traces, and the crash of the process.                                   *)
(***************************************************************************)
LEMMA TraceKeeps ==
    ASSUME Boxes!ConstantsOK, Inv, NEW t \in Traces,
           Boxes!BookCall(t) \/ Boxes!Claim(t) \/ Boxes!Mark(t)
    PROVE  Inv'
<1> USE DEF Inv
<1>1. UNCHANGED <<notice, pass, posted, exported, orphans, crashes>>
  BY DEF Boxes!BookCall, Boxes!Claim, Boxes!Mark
<1>2. trace[t].attempts \in 0 .. MaxAttempts /\ exported[t] \in Nat
      /\ exported[t] <= trace[t].attempts
  BY DEF Typed, Boxes!Rows, Boxes!ExportsAreOnRecord
<1>3. \A st \in {"pending", "sending", "sent", "abandoned"} : \A n \in 0 .. MaxAttempts :
         /\ Boxes!Row(st, n) \in Boxes!Rows
         /\ Boxes!Row(st, n).attempts = n
  BY DEF Boxes!Row, Boxes!Rows
<1>4. /\ trace'[t].attempts >= trace[t].attempts
      /\ Boxes!Claim(t) => trace'[t].attempts = trace[t].attempts + 1
      /\ \A s \in Traces : s # t => trace'[s] = trace[s]
      /\ trace' \in [Traces -> Boxes!Rows]
  <2>1. CASE Boxes!BookCall(t)
    <3>1. trace[t].attempts = 0 /\ 0 \in 0 .. MaxAttempts /\ ~Boxes!Claim(t)
      BY <2>1 DEF Boxes!BookCall, Boxes!Claim, Boxes!Absent, Boxes!Row, Boxes!ConstantsOK
    <3>2. trace' = [trace EXCEPT ![t] = Boxes!Row("pending", 0)]
      BY <2>1 DEF Boxes!BookCall
    <3> QED
      BY <1>3, <3>1, <3>2 DEF Typed
  <2>2. CASE Boxes!Claim(t)
    <3>1. trace[t].attempts + 1 \in 0 .. MaxAttempts
      BY <1>2, <2>2 DEF Boxes!Claim, Boxes!ConstantsOK
    <3>2. trace' = [trace EXCEPT ![t] = Boxes!Row("sending", trace[t].attempts + 1)]
      BY <2>2 DEF Boxes!Claim
    <3> QED
      BY <1>2, <1>3, <3>1, <3>2 DEF Typed
  <2>3. CASE Boxes!Mark(t)
    <3>1. PICK st \in {"sent", "pending", "abandoned"} :
             trace' = [trace EXCEPT ![t] = Boxes!Row(st, trace[t].attempts)]
      BY <2>3 DEF Boxes!Mark, Boxes!AfterFailure
    <3>2. ~Boxes!Claim(t)
      BY <2>3 DEF Boxes!Mark, Boxes!Claim, Boxes!Idle
    <3> QED
      BY <1>2, <1>3, <3>1, <3>2 DEF Typed
  <2> QED
    BY <2>1, <2>2, <2>3
<1>5. Boxes!ExportsAreOnRecord'
  <2>1. trace'[t].attempts \in Nat
    BY <1>4 DEF Boxes!Rows, Boxes!ConstantsOK
  <2> QED
    BY <1>1, <1>2, <1>4, <2>1 DEF Boxes!ExportsAreOnRecord
<1>6. /\ claim' = {} \/ claim' = {t} \/ claim' = claim
      /\ answer' = answer \/ answer' = "none"
  BY DEF Boxes!BookCall, Boxes!Claim, Boxes!Mark
<1>7. ClaimIsCounted'
  <2>1. CASE Boxes!Claim(t)
    <3>1. claim' = {t} /\ exported[t] < trace'[t].attempts
      BY <1>2, <1>4, <2>1 DEF Boxes!Claim
    <3> QED
      BY <1>1, <3>1 DEF ClaimIsCounted
  <2>2. CASE ~Boxes!Claim(t)
    <3>1. claim' = {}
      BY <2>2 DEF Boxes!BookCall, Boxes!Mark, Boxes!Idle
    <3> QED
      BY <3>1 DEF ClaimIsCounted
  <2> QED
    BY <2>1, <2>2
<1>8. Typed'
  BY <1>1, <1>4, <1>6 DEF Typed, PassTyped
<1> QED
  BY <1>1, <1>5, <1>7, <1>8 DEF PassIsCounted, Boxes!RepeatsNeedACrash

LEMMA SendKeeps ==
    ASSUME Boxes!ConstantsOK, Inv, NEW t \in Traces, Boxes!Send(t)
    PROVE  Inv'
<1> USE DEF Inv
<1>1. /\ UNCHANGED <<notice, pass, posted, trace, claim, orphans, crashes>>
      /\ answer' \in {"ok", "error"}
      /\ exported' = exported \/ exported' = [exported EXCEPT ![t] = @ + 1]
      /\ t \in claim /\ answer = "none"
  BY DEF Boxes!Send
<1>2. exported[t] < trace[t].attempts
  BY <1>1 DEF ClaimIsCounted
<1>3. /\ exported' \in [Traces -> Nat]
      /\ exported'[t] <= exported[t] + 1
      /\ \A s \in Traces : s # t => exported'[s] = exported[s]
  BY <1>1 DEF Typed
<1>4. Boxes!ExportsAreOnRecord'
  <2>1. exported[t] \in Nat /\ exported'[t] \in Nat /\ trace[t].attempts \in Nat
    BY <1>3, CountsAreNats
  <2> QED
    BY <1>1, <1>2, <1>3, <2>1 DEF Boxes!ExportsAreOnRecord
<1>5. Typed'
  BY <1>1, <1>3 DEF Typed, PassTyped
<1> QED
  BY <1>1, <1>4, <1>5 DEF PassIsCounted, Boxes!RepeatsNeedACrash, ClaimIsCounted

LEMMA CrashKeeps == ASSUME Boxes!ConstantsOK, Inv, Boxes!Crash PROVE Inv'
<1> USE DEF Inv
<1>1. /\ UNCHANGED <<notice, posted, trace, exported>>
      /\ pass' = Boxes!NoPass /\ claim' = {} /\ answer' = "none"
      /\ orphans' = orphans \cup claim
      /\ crashes < MaxCrashes /\ crashes' = crashes + 1
  BY DEF Boxes!Crash
<1>2. Typed'
  BY <1>1, NoPassIsEmpty DEF Typed, PassTyped, Boxes!ConstantsOK
<1>3. Boxes!RepeatsNeedACrash'
  <2>1. \A n \in Notices : posted[n] <= notice[n].attempts + crashes + 1
    BY CountsAreNats DEF Boxes!RepeatsNeedACrash
  <2> QED
    BY <1>1, <2>1, CountsAreNats, NoPassIsEmpty DEF Boxes!RepeatsNeedACrash
<1> QED
  BY <1>1, <1>2, <1>3, NoPassIsEmpty DEF PassIsCounted, ClaimIsCounted, Boxes!ExportsAreOnRecord

LEMMA NextInv == ASSUME Boxes!ConstantsOK PROVE Inv /\ [Boxes!Next]_(Boxes!vars) => Inv'
<1> SUFFICES ASSUME Inv, [Boxes!Next]_(Boxes!vars) PROVE Inv'
  OBVIOUS
<1>1. CASE Boxes!DeliverPending
  BY <1>1, BeginKeeps DEF Boxes!DeliverPending
<1>2. CASE Boxes!SummaryAndDeliver
  <2>1. Boxes!Fresh \in SUBSET Nat /\ Boxes!Fresh # {}
    BY <1>2 DEF Boxes!SummaryAndDeliver, Boxes!Fresh, Boxes!ConstantsOK
  <2>2. {Boxes!Min(Boxes!Fresh)} \in SUBSET Boxes!Fresh
    BY <2>1, MinOfNats
  <2> QED
    BY <1>2, <2>2, BeginKeeps DEF Boxes!SummaryAndDeliver
<1>3. CASE UNCHANGED Boxes!vars
  BY <1>3 DEF Boxes!vars, Inv, Typed, PassTyped, PassIsCounted, Boxes!RepeatsNeedACrash,
              ClaimIsCounted, Boxes!ExportsAreOnRecord
<1> QED
  BY <1>1, <1>2, <1>3, EnqueueKeeps, PostKeeps, EndKeeps, TraceKeeps, SendKeeps,
     CrashKeeps DEF Boxes!Next

\* Every reachable state is well typed; in particular no row is tried more often
\* than MaxAttempts.
LEMMA RowsAreTyped == ASSUME Inv PROVE Boxes!TypeOK
<1>1. \E taken \in SUBSET Notices : pass \in [taken -> Boxes!Rows]
  BY DEF Inv, Typed, PassTyped
<1>2. claim \subseteq Traces /\ Boxes!Cardinality(claim) <= 1
  <2>1. \A S : Boxes!Cardinality(S) = Cardinality(S)
    BY DEF Boxes!Cardinality, Cardinality
  <2>2. CASE claim = {}
    BY <2>1, <2>2, FS_EmptySet
  <2>3. ASSUME NEW t \in Traces, claim = {t}
        PROVE  claim \subseteq Traces /\ Boxes!Cardinality(claim) <= 1
    <3>1. Cardinality(claim) = 1
      BY <2>3, FS_Singleton
    <3> QED
      BY <2>1, <2>3, <3>1
  <2> QED
    BY <2>2, <2>3 DEF Inv, Typed
<1> QED
  BY <1>1, <1>2 DEF Inv, Typed, Boxes!TypeOK

\* However the process dies and comes back, a notice has reached the operator no
\* more often than its attempts on record and the crashes allow for, and a trace
\* never more often than its attempts (deliver_pending posts before it commits,
\* _deliver commits the claim before it sends); no row is tried more often than
\* MaxAttempts.
THEOREM SendingsCounted == MCSpec => []SendingsAreCounted
<1>1. MCInit => Inv
  BY BoxConstants, InitInv DEF MCInit
<1>2. [MCNext]_allVars => [Boxes!Next]_(Boxes!vars)
  BY DEF MCNext, allVars, boxVars, Boxes!vars
<1>3. Inv /\ [Boxes!Next]_(Boxes!vars) => Inv'
  BY BoxConstants, NextInv
<1>4. Inv => SendingsAreCounted
  BY RowsAreTyped DEF Inv, SendingsAreCounted, Boxes!SendingsAreCounted
<1> QED
  BY <1>1, <1>2, <1>3, <1>4, PTL DEF MCSpec
===============================================================================
