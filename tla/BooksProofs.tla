----------------------------- MODULE BooksProofs -----------------------------
(***************************************************************************)
(* The books of the advisor, for any number of advisors, coupons, bets and *)
(* matches and any amounts: cycles keep the daily budget among themselves, *)
(* what the daily summaries add is bounded, the sandbox book never owes    *)
(* money and agrees with the record of its decisions, a promotion rests on *)
(* a book that earns without a deep drop, and the operator's own bets are  *)
(* fair and settled one way.                                               *)
(***************************************************************************)
EXTENDS MCAdvisorRules, Sequences, FiniteSetTheorems, Recursion

(* The budget.                                                             *)

LEMMA SpentType ==
    ASSUME TypeOK, NEW d \in Days
    PROVE  Spent(d) \in Nat /\ CycleSpent(d) \in Nat /\ CycleSpent(d) <= Spent(d)
  BY DEF TypeOK, Spent, CycleSpent, Entries, Modes

LEMMA InitType == Init => TypeOK
<1> SUFFICES ASSUME Init PROVE TypeOK
  OBVIOUS
<1>1. ledger \in [Days -> [Entries -> Nat]]
  BY DEF Init
<1>2. pc \in [Advisors -> Labels] /\ mode \in [Advisors -> Modes]
  BY DEF Init, Labels, Modes
<1>3. now \in [Advisors -> Days] /\ today \in Days
  BY DaysAssumption DEF Init
<1>4. jobs \in [Advisors -> SUBSET Summarised] /\ holder \in Advisors \cup {NoOne}
  BY DEF Init
<1>5. /\ est \in [Advisors -> Nat] /\ seen \in [Advisors -> Nat]
      /\ cost \in [Advisors -> Nat]
      /\ unbooked \in BOOLEAN /\ cycled \in SUBSET Jobs /\ named \in SUBSET Jobs
  BY DEF Init
<1> QED
  BY <1>1, <1>2, <1>3, <1>4, <1>5 DEF TypeOK

LEMMA LeaveType ==
    ASSUME TypeOK, NEW a \in Advisors, Leave(a)
    PROVE  /\ pc' \in [Advisors -> Labels] /\ now' \in [Advisors -> Days]
           /\ mode' \in [Advisors -> Modes] /\ est' \in [Advisors -> Nat]
           /\ seen' \in [Advisors -> Nat] /\ cost' \in [Advisors -> Nat]
           /\ jobs' \in [Advisors -> SUBSET Summarised]
  BY DaysAssumption DEF TypeOK, Leave, Labels, InCycle, Modes

LEMMA CycleType ==
    ASSUME TypeOK, NEW a \in Advisors, Cycle(a)
    PROVE  TypeOK'
<1> USE DEF dbVars, Goto, Labels, InCycle
<1>1. CASE BeginCycle(a)
  BY <1>1, AmountsAssumption DEF BeginCycle, TypeOK
<1>2. CASE TakeLock(a)
  BY <1>2 DEF TakeLock, TypeOK
<1>3. CASE CheckBudget(a)
  <2>1. Spent(now[a]) \in Nat
    BY SpentType DEF TypeOK
  <2> QED
    BY <1>3, <2>1 DEF CheckBudget, TypeOK
<1>4. CASE CallReturns(a)
  BY <1>4, AmountsAssumption DEF CallReturns, TypeOK
<1>5. CASE CallFails(a)
  BY <1>5 DEF CallFails, TypeOK
<1>6. CASE CommitCycle(a)
  <2>1. ledger' \in [Days -> [Entries -> Nat]]
    <3>1. mode[a] \in Entries /\ now[a] \in Days /\ cost[a] \in Nat
      BY DEF TypeOK, Entries
    <3>2. ledger' = [ledger EXCEPT ![now[a]][mode[a]] = @ + cost[a]]
      BY <1>6 DEF CommitCycle, Insert
    <3> HIDE DEF Goto, Labels, InCycle
    <3> QED
      BY <3>1, <3>2 DEF TypeOK
  <2> QED
    BY <1>6, <2>1 DEF CommitCycle, TypeOK
<1>7. CASE Unlock(a)
  <2> USE <1>7 DEF Unlock
  <2> QED
    BY LeaveType DEF TypeOK
<1> QED
  BY <1>1, <1>2, <1>3, <1>4, <1>5, <1>6, <1>7 DEF Cycle

LEMMA SummaryType ==
    ASSUME TypeOK, NEW a \in Advisors, Summary(a)
    PROVE  TypeOK'
<1> USE DEF dbVars, Goto, Labels, InCycle
<1>1. CASE ListSummaries(a)
  <2>1. PICK d \in Days \cap {today - 1, today} :
        /\ now' = [now EXCEPT ![a] = d]
        /\ seen' = [seen EXCEPT ![a] =
                      IF d = today THEN Spent(d) ELSE Spent(d) + Spent(today)]
        /\ jobs' = [jobs EXCEPT ![a] =
                      {s \in Summarised : cycled \cap {<<s, d>>, <<s, today>>} = {}}]
    BY <1>1 DEF ListSummaries
  <2>2. Spent(d) \in Nat /\ Spent(today) \in Nat
    BY SpentType DEF TypeOK
  <2> HIDE DEF Spent
  <2>3. now' \in [Advisors -> Days] /\ seen' \in [Advisors -> Nat]
    BY <2>1, <2>2 DEF TypeOK
  <2>4. jobs' \in [Advisors -> SUBSET Summarised]
    BY <2>1 DEF TypeOK
  <2> QED
    BY <1>1, <2>3, <2>4 DEF ListSummaries, TypeOK
<1>2. CASE CheckSummary(a)
  <2>1. PICK e \in Estimates :
        \/ /\ Goto(a, "summing")
           /\ est' = [est EXCEPT ![a] = e]
           /\ UNCHANGED <<now, mode, seen, cost, jobs>>
        \/ Leave(a)
    BY <1>2 DEF CheckSummary
  <2>2. UNCHANGED <<today, ledger, cycled, named, unbooked, holder>>
    BY <1>2 DEF CheckSummary
  <2>3. CASE Leave(a)
    BY <2>2, <2>3, LeaveType DEF TypeOK
  <2>4. CASE ~Leave(a)
    BY <2>1, <2>2, <2>4, AmountsAssumption DEF TypeOK
  <2> QED
    BY <2>3, <2>4
<1>3. CASE SummaryReturns(a)
  BY <1>3, AmountsAssumption DEF SummaryReturns, TypeOK
<1>4. CASE EndSummaries(a)
  BY <1>4, LeaveType DEF EndSummaries, TypeOK
<1>5. ASSUME NEW s \in Summarised, SummaryFails(a, s) PROVE TypeOK'
  BY <1>5 DEF SummaryFails, TypeOK
<1>6. ASSUME NEW s \in Summarised, StoreSummary(a, s) PROVE TypeOK'
  <2>1. <<s, today>> \in Jobs /\ <<s, now[a]>> \in Jobs
    BY DEF TypeOK, Jobs
  <2>2. ledger' \in [Days -> [Entries -> Nat]]
    <3>1. \/ ledger' = ledger
          \/ ledger' = [ledger EXCEPT ![today]["summary"] = @ + cost[a]]
      BY <1>6 DEF StoreSummary, Insert
    <3>2. "summary" \in Entries /\ today \in Days /\ cost[a] \in Nat
      BY DEF TypeOK, Entries
    <3> QED
      BY <3>1, <3>2 DEF TypeOK
  <2>3. cycled' \in SUBSET Jobs /\ named' \in SUBSET Jobs /\ unbooked' \in BOOLEAN
    BY <1>6, <2>1 DEF StoreSummary, TypeOK
  <2>4. /\ jobs' \in [Advisors -> SUBSET Summarised] /\ pc' \in [Advisors -> Labels]
        /\ UNCHANGED <<today, holder, now, mode, est, seen, cost>>
    BY <1>6 DEF StoreSummary, TypeOK
  <2> QED
    BY <2>2, <2>3, <2>4 DEF TypeOK
<1> QED
  BY <1>1, <1>2, <1>3, <1>4, <1>5, <1>6 DEF Summary

LEMMA NextType == TypeOK /\ [Next]_vars => TypeOK'
<1> SUFFICES ASSUME TypeOK, [Next]_vars PROVE TypeOK'
  OBVIOUS
<1>1. CASE NextDay
  BY <1>1 DEF NextDay, TypeOK, dbVars, ownVars
<1>2. ASSUME NEW a \in Advisors, Crash(a) PROVE TypeOK'
  <2>1. unbooked' \in BOOLEAN /\ holder' \in Advisors \cup {NoOne}
    BY <1>2 DEF Crash, TypeOK
  <2> QED
    BY <1>2, <2>1, LeaveType DEF Crash, TypeOK, dbVars
<1>3. CASE UNCHANGED vars
  BY <1>3 DEF vars, TypeOK, dbVars, ownVars
<1> QED
  BY <1>1, <1>2, <1>3, CycleType, SummaryType DEF Next

\* Every reachable state is well typed; in particular no sum is negative.
THEOREM TypeCorrect == Spec => []TypeOK
  BY InitType, NextType, PTL DEF Spec

(***************************************************************************)
(* What a cycle knows of the other cycles' spending stays true until it    *)
(* has committed: the lock keeps them out, and summaries are entries of    *)
(* their own.                                                              *)
(***************************************************************************)
Asking == {"calling", "paid"}

CycleInv(a) ==
    /\ pc[a] \in InCycle => holder = a
    /\ pc[a] \in {"waiting", "locked"} \cup Asking => est[a] \in Estimates
    /\ pc[a] \in Asking => /\ CycleSpent(now[a]) <= seen[a]
                           /\ seen[a] + est[a] <= BudgetCap(mode[a])
    /\ pc[a] = "paid" => cost[a] <= est[a] + Overrun

BudgetInv ==
    /\ TypeOK
    /\ \A a \in Advisors : CycleInv(a)
    /\ CyclesStayInBudget
    /\ SandboxCyclesStayInShare

LEMMA InitBudget == Init => BudgetInv
<1> SUFFICES ASSUME Init PROVE BudgetInv
  OBVIOUS
<1>1. TypeOK
  BY InitType
<1>2. \A a \in Advisors : CycleInv(a)
  BY DEF Init, CycleInv, InCycle, Asking
<1>3. \A d \in Days : ledger[d]["sandbox"] = 0 /\ ledger[d]["recommendation"] = 0
  BY DEF Init, Entries, Modes
<1>4. CyclesStayInBudget /\ SandboxCyclesStayInShare
  BY <1>3, CapsAssumption, AmountsAssumption DEF CyclesStayInBudget, SandboxCyclesStayInShare,
     CycleSpent
<1> QED
  BY <1>1, <1>2, <1>4 DEF BudgetInv

SameCycles == \A d \in Days, m \in Modes : ledger'[d][m] = ledger[d][m]

\* A step of advisor a that leaves the cycles' entries and the lock alone concerns
\* only what a itself knows.
LEMMA OwnStep ==
    ASSUME BudgetInv, TypeOK', NEW a \in Advisors, SameCycles,
           \A b \in Advisors \ {a} :
              /\ pc'[b] = pc[b] /\ now'[b] = now[b] /\ mode'[b] = mode[b]
              /\ est'[b] = est[b] /\ seen'[b] = seen[b] /\ cost'[b] = cost[b]
              /\ pc[b] \in InCycle => holder' = b,
           CycleInv(a)'
    PROVE  BudgetInv'
<1>0. \A d \in Days : /\ CycleSpent(d)' = CycleSpent(d)
                     /\ ledger'[d]["sandbox"] = ledger[d]["sandbox"]
  BY DEF SameCycles, CycleSpent, Modes
<1>1. ASSUME NEW b \in Advisors, b # a PROVE CycleInv(b)'
  <2>1. now[b] \in Days /\ now'[b] = now[b]
    BY <1>1 DEF BudgetInv, TypeOK
  <2>2. CycleSpent(now[b])' = CycleSpent(now[b])
    BY <1>0, <2>1 DEF CycleSpent
  <2> QED
    BY <1>1, <2>1, <2>2 DEF BudgetInv, CycleInv, InCycle, Asking
<1>2. CyclesStayInBudget' /\ SandboxCyclesStayInShare'
  BY <1>0 DEF BudgetInv, CyclesStayInBudget, SandboxCyclesStayInShare
<1> QED
  BY <1>1, <1>2 DEF BudgetInv

LEMMA OthersAreOut ==
    ASSUME BudgetInv, NEW a \in Advisors, holder \in {a, NoOne},
           NEW b \in Advisors, b # a
    PROVE  pc[b] \notin InCycle
  BY AdvisorsAssumption DEF BudgetInv, CycleInv

LEMMA LeaveBudget ==
    ASSUME BudgetInv, TypeOK', NEW a \in Advisors, Leave(a), ledger' = ledger,
           holder' = holder \/ holder = a
    PROVE  BudgetInv'
<1>1. CycleInv(a)'
  BY DEF Leave, BudgetInv, TypeOK, CycleInv, InCycle, Asking
<1>2. ASSUME NEW b \in Advisors \ {a}
      PROVE  /\ pc'[b] = pc[b] /\ now'[b] = now[b] /\ mode'[b] = mode[b]
             /\ est'[b] = est[b] /\ seen'[b] = seen[b] /\ cost'[b] = cost[b]
             /\ pc[b] \in InCycle => holder' = b
  <2>1. pc[b] \in InCycle => holder = b
    BY DEF BudgetInv, CycleInv
  <2> QED
    BY <2>1 DEF Leave, BudgetInv, TypeOK
<1>3. SameCycles
  BY DEF SameCycles
<1> QED
  BY <1>1, <1>2, <1>3, OwnStep

LEMMA CommitBudget ==
    ASSUME BudgetInv, TypeOK', NEW a \in Advisors, CommitCycle(a)
    PROVE  BudgetInv'
<1>0. now[a] \in Days /\ mode[a] \in Modes /\ cost[a] \in Nat /\ est[a] \in Nat
  BY DEF BudgetInv, TypeOK
<1>d. PICK d \in Days : d = now[a]
  BY <1>0
<1>m. PICK m \in Modes : m = mode[a]
  BY <1>0
<1>c. PICK c \in Nat : c = cost[a]
  BY <1>0
<1>1. /\ pc[a] = "paid" /\ pc' = [pc EXCEPT ![a] = "done"]
      /\ ledger' = [ledger EXCEPT ![d][m] = @ + c]
      /\ UNCHANGED <<holder, now, mode, est, seen, cost>>
  BY <1>d, <1>m, <1>c DEF CommitCycle, Insert, Goto
<1>2. d \in Days /\ m \in Modes /\ c \in Nat /\ est[a] \in Nat /\ holder = a
  BY <1>0, <1>1 DEF BudgetInv, CycleInv, InCycle
<1>3. CycleSpent(d) + est[a] <= BudgetCap(m) /\ c <= est[a] + Overrun
  <2>1. CycleSpent(d) <= seen[a] /\ seen[a] + est[a] <= BudgetCap(m)
    BY <1>1, <1>d, <1>m DEF BudgetInv, CycleInv, Asking
  <2>2. CycleSpent(d) \in Nat /\ seen[a] \in Nat /\ BudgetCap(m) \in Nat
    BY SpentType, CapsAssumption DEF BudgetInv, TypeOK, BudgetCap
  <2>3. c <= est[a] + Overrun
    BY <1>1, <1>c DEF BudgetInv, CycleInv
  <2> QED
    BY <1>2, <2>1, <2>2, <2>3
<1>4. CycleSpent(d) + c <= BudgetCap(m) + Overrun
  <2>1. CycleSpent(d) \in Nat /\ BudgetCap(m) \in Nat /\ Overrun \in Nat
    BY <1>2, SpentType, CapsAssumption, AmountsAssumption DEF BudgetInv, BudgetCap
  <2> QED
    BY <1>2, <1>3, <2>1
<1>5. \A e \in Days : e # d => ledger'[e] = ledger[e]
  BY <1>1 DEF BudgetInv, TypeOK
<1>6. /\ ledger'[d][m] = ledger[d][m] + c
      /\ \A n \in Modes : n # m => ledger'[d][n] = ledger[d][n]
  BY <1>1, <1>2 DEF BudgetInv, TypeOK, Entries
<1>7. ledger[d]["sandbox"] \in Nat /\ ledger[d]["recommendation"] \in Nat
  BY <1>2 DEF BudgetInv, TypeOK, Entries, Modes
<1>8. CycleSpent(d)' = CycleSpent(d) + c
  BY <1>2, <1>6, <1>7 DEF CycleSpent, Modes
<1>9. CyclesStayInBudget'
  <2>1. CycleSpent(d)' <= Limit + Overrun
    BY <1>2, <1>4, <1>7, <1>8, CapsAssumption, AmountsAssumption DEF BudgetCap, CycleSpent
  <2>2. ASSUME NEW e \in Days, e # d PROVE CycleSpent(e)' <= Limit + Overrun
    BY <1>5, <2>2 DEF BudgetInv, CyclesStayInBudget, CycleSpent
  <2> QED
    BY <2>1, <2>2 DEF CyclesStayInBudget
<1>10. SandboxCyclesStayInShare'
  <2>1. ledger'[d]["sandbox"] <= SandboxCap + Overrun
    <3>1. CASE m = "sandbox"
      BY <1>2, <1>4, <1>6, <1>7, <3>1, CapsAssumption, AmountsAssumption
         DEF BudgetCap, CycleSpent
    <3>2. CASE m # "sandbox"
      BY <1>2, <1>6, <3>2 DEF BudgetInv, SandboxCyclesStayInShare, Modes
    <3> QED
      BY <3>1, <3>2
  <2>2. ASSUME NEW e \in Days, e # d
        PROVE  ledger'[e]["sandbox"] <= SandboxCap + Overrun
    BY <1>5, <2>2 DEF BudgetInv, SandboxCyclesStayInShare
  <2> QED
    BY <2>1, <2>2 DEF SandboxCyclesStayInShare
<1>11. CycleInv(a)'
  BY <1>1, <1>2 DEF CycleInv, InCycle, Asking, BudgetInv, TypeOK
<1>12. ASSUME NEW b \in Advisors, b # a PROVE CycleInv(b)'
  <2>1. pc[b] \notin InCycle
    BY <1>2, <1>12, OthersAreOut
  <2>2. pc'[b] = pc[b] /\ est'[b] = est[b]
    BY <1>1, <1>12 DEF BudgetInv, TypeOK
  <2> QED
    BY <2>1, <2>2 DEF BudgetInv, CycleInv, InCycle, Asking
<1> QED
  BY <1>9, <1>10, <1>11, <1>12 DEF BudgetInv

LEMMA CycleBudget ==
    ASSUME BudgetInv, TypeOK', NEW a \in Advisors, Cycle(a)
    PROVE  BudgetInv'
<1> DEFINE Rest == \A b \in Advisors \ {a} :
              /\ pc'[b] = pc[b] /\ now'[b] = now[b] /\ mode'[b] = mode[b]
              /\ est'[b] = est[b] /\ seen'[b] = seen[b] /\ cost'[b] = cost[b]
              /\ pc[b] \in InCycle => holder' = b
<1>0. \A b \in Advisors : pc[b] \in InCycle => holder = b
  BY DEF BudgetInv, CycleInv
<1>1. CASE BeginCycle(a)
  <2>1. Rest
    BY <1>0, <1>1 DEF BeginCycle, Goto, BudgetInv, TypeOK
  <2>2. CycleInv(a)' /\ ledger' = ledger
    BY <1>1 DEF BeginCycle, Goto, dbVars, BudgetInv, TypeOK, CycleInv, InCycle, Asking
  <2> QED
    BY <2>1, <2>2, OwnStep DEF SameCycles
<1>2. CASE TakeLock(a)
  <2>1. Rest
    BY <1>2, OthersAreOut DEF TakeLock, Goto, BudgetInv, TypeOK
  <2>2. CycleInv(a)' /\ ledger' = ledger
    BY <1>2 DEF TakeLock, Goto, dbVars, BudgetInv, TypeOK, CycleInv, InCycle, Asking
  <2> QED
    BY <2>1, <2>2, OwnStep DEF SameCycles
<1>3. CASE CheckBudget(a)
  <2>1. Rest
    BY <1>0, <1>3 DEF CheckBudget, Goto, BudgetInv, TypeOK
  <2>2. CycleSpent(now[a]) <= Spent(now[a])
    BY SpentType DEF BudgetInv, TypeOK
  <2>3. ledger' = ledger /\ CycleSpent(now[a])' = CycleSpent(now[a])
    BY <1>3 DEF CheckBudget, dbVars, CycleSpent
  <2>4. CycleInv(a)'
    BY <1>3, <2>2, <2>3 DEF CheckBudget, BudgetAllows, Goto, BudgetInv, TypeOK, CycleInv,
       InCycle, Asking
  <2> QED
    BY <2>1, <2>3, <2>4, OwnStep DEF SameCycles
<1>4. CASE CallReturns(a)
  <2>1. Rest
    BY <1>0, <1>4 DEF CallReturns, Goto, BudgetInv, TypeOK
  <2>2. CycleInv(a)' /\ ledger' = ledger
    BY <1>4, AmountsAssumption DEF CallReturns, Goto, dbVars, BudgetInv, TypeOK,
       CycleInv, InCycle, Asking, CycleSpent
  <2> QED
    BY <2>1, <2>2, OwnStep DEF SameCycles
<1>5. CASE CallFails(a)
  <2>1. Rest
    BY <1>0, <1>5 DEF CallFails, Goto, BudgetInv, TypeOK
  <2>2. CycleInv(a)' /\ ledger' = ledger
    BY <1>5, AmountsAssumption DEF CallFails, Goto, dbVars, BudgetInv, TypeOK,
       CycleInv, InCycle, Asking, CycleSpent
  <2> QED
    BY <2>1, <2>2, OwnStep DEF SameCycles
<1>6. CASE CommitCycle(a)
  BY <1>6, CommitBudget
<1>7. CASE Unlock(a)
  <2>1. holder = a
    BY <1>0, <1>7 DEF Unlock, InCycle
  <2> QED
    BY <1>7, <2>1, LeaveBudget DEF Unlock, dbVars
<1> QED
  BY <1>1, <1>2, <1>3, <1>4, <1>5, <1>6, <1>7 DEF Cycle

\* A summary's row adds to no cycle's entry.
LEMMA SummaryBudget ==
    ASSUME BudgetInv, TypeOK', NEW a \in Advisors, Summary(a)
    PROVE  BudgetInv'
<1> DEFINE Rest == \A b \in Advisors \ {a} :
              /\ pc'[b] = pc[b] /\ now'[b] = now[b] /\ mode'[b] = mode[b]
              /\ est'[b] = est[b] /\ seen'[b] = seen[b] /\ cost'[b] = cost[b]
              /\ pc[b] \in InCycle => holder' = b
<1>0. \A b \in Advisors : pc[b] \in InCycle => holder = b
  BY DEF BudgetInv, CycleInv
<1>1. ASSUME Rest, SameCycles, pc'[a] \in {"idle", "listed", "summing", "summed"}
      PROVE  BudgetInv'
  BY <1>1, OwnStep DEF CycleInv, InCycle, Asking
<1>2. CASE ListSummaries(a)
  <2>1. Rest /\ pc'[a] = "listed" /\ ledger' = ledger
    BY <1>0, <1>2 DEF ListSummaries, Goto, dbVars, BudgetInv, TypeOK
  <2> QED
    BY <1>1, <2>1 DEF SameCycles
<1>3. ASSUME Leave(a), UNCHANGED <<ledger, holder>> PROVE BudgetInv'
  BY <1>3, LeaveBudget DEF SameCycles
<1>4. CASE CheckSummary(a) /\ ~Leave(a)
  <2>1. Rest /\ pc'[a] = "summing" /\ ledger' = ledger
    BY <1>0, <1>4 DEF CheckSummary, Goto, dbVars, BudgetInv, TypeOK
  <2> QED
    BY <1>1, <2>1 DEF SameCycles
<1>5. CASE SummaryReturns(a)
  <2>1. Rest /\ pc'[a] = "summed" /\ ledger' = ledger
    BY <1>0, <1>5 DEF SummaryReturns, Goto, dbVars, BudgetInv, TypeOK
  <2> QED
    BY <1>1, <2>1 DEF SameCycles
<1>6. ASSUME NEW s \in Summarised, SummaryFails(a, s) PROVE BudgetInv'
  <2>1. Rest /\ pc'[a] = "listed" /\ ledger' = ledger
    BY <1>0, <1>6 DEF SummaryFails, Goto, dbVars, BudgetInv, TypeOK
  <2> QED
    BY <1>1, <2>1 DEF SameCycles
<1>7. ASSUME NEW s \in Summarised, StoreSummary(a, s) PROVE BudgetInv'
  <2>1. Rest /\ pc'[a] = "listed"
    BY <1>0, <1>7 DEF StoreSummary, Goto, BudgetInv, TypeOK
  <2>2. \/ ledger' = ledger
        \/ ledger' = [ledger EXCEPT ![today]["summary"] = @ + cost[a]]
    BY <1>7 DEF StoreSummary, Insert, dbVars
  <2>3. SameCycles
    BY <2>2 DEF SameCycles, BudgetInv, TypeOK, Entries, Modes
  <2> QED
    BY <1>1, <2>1, <2>3
<1>8. CASE EndSummaries(a) \/ (CheckSummary(a) /\ Leave(a))
  BY <1>3, <1>8 DEF EndSummaries, CheckSummary, dbVars
<1> QED
  BY <1>2, <1>4, <1>5, <1>6, <1>7, <1>8 DEF Summary

LEMMA NextBudget == BudgetInv /\ [Next]_vars => BudgetInv'
<1> SUFFICES ASSUME BudgetInv, [Next]_vars PROVE BudgetInv'
  OBVIOUS
<1>1. TypeOK'
  BY NextType DEF BudgetInv
<1>2. CASE UNCHANGED <<ledger, holder, ownVars>>
  BY <1>1, <1>2 DEF ownVars, BudgetInv, CycleInv, CyclesStayInBudget,
     SandboxCyclesStayInShare, CycleSpent
<1>3. ASSUME NEW a \in Advisors, Cycle(a) PROVE BudgetInv'
  BY <1>1, <1>3, CycleBudget
<1>4. ASSUME NEW a \in Advisors, Summary(a) PROVE BudgetInv'
  BY <1>1, <1>4, SummaryBudget
<1>5. ASSUME NEW a \in Advisors, Crash(a) PROVE BudgetInv'
  <2>1. Leave(a) /\ ledger' = ledger /\ (holder' = holder \/ holder = a)
    BY <1>5 DEF Crash, dbVars
  <2> QED
    BY <1>1, <2>1, LeaveBudget DEF SameCycles
<1>6. CASE NextDay \/ UNCHANGED vars
  BY <1>2, <1>6 DEF NextDay, vars, dbVars
<1> QED
  BY <1>3, <1>4, <1>5, <1>6 DEF Next

\* The sum a cycle was checked against holds all the spending of cycles its cost is
\* added to, and what cycles spend passes neither the day's limit nor the sandbox's
\* share by more than the overrun of one call: for any number of advisors and of
\* summaries made without the lock, with crashes and failed calls.
THEOREM CyclesHeld == Spec => []CyclesKeepTheBudget
<1>1. BudgetInv => CyclesKeepTheBudget
  BY DEF BudgetInv, CycleInv, CyclesKeepTheBudget, CyclesAreCounted, Asking
<1> QED
  BY <1>1, InitBudget, NextBudget, PTL DEF Spec

-----------------------------------------------------------------------------
(***************************************************************************)
(* With summaries, every day has a number of calls it may still be charged *)
(* for: of each advisor and strategy, those whose row is missing and those *)
(* on the advisor's list.  A summary that is stored uses one up, a list    *)
(* drawn up again names none that was used, and the day that begins has    *)
(* them all.                                                               *)
(***************************************************************************)
Pairs == Summarised \X Advisors

Due(d) == {p \in Pairs : \/ d > today
                         \/ d = today /\ (<<p[1], d>> \notin cycled \/ p[1] \in jobs[p[2]])}

Reserve(d) == Cardinality(Due(d)) * MaxCost
Whole == Cardinality(Pairs) * MaxCost

CallInv(a) ==
    /\ pc[a] \in InCycle => holder = a
    /\ pc[a] \in {"waiting", "locked"} \cup Asking => est[a] \in Estimates
    /\ pc[a] \in Asking => \A d \in Days : now[a] = d =>
                               Spent(d) + est[a] + Reserve(d) <= Limit + Whole
    /\ pc[a] = "paid" => cost[a] <= est[a] + Overrun
    /\ pc[a] = "summed" => cost[a] <= MaxCost

SummaryInv ==
    /\ TypeOK
    /\ \A a \in Advisors : CallInv(a)
    /\ \A d \in Days : Spent(d) + Reserve(d) <= Limit + Overrun + Whole

LEMMA MaxCostIsOne == MaxCost \in Costs /\ MaxCost \in Nat /\ \A c \in Costs : c <= MaxCost
  BY AmountsAssumption DEF MaxCost

LEMMA PairsAreFinite ==
    IsFiniteSet(Pairs) /\ Cardinality(Pairs) = Cardinality(Summarised) * Cardinality(Advisors)
  BY FiniteAssumption, FS_Product DEF Pairs

LEMMA Times == \A x, y, m \in Nat : x <= y => x * m \in Nat /\ x * m <= y * m
  OBVIOUS

LEMMA TimesMore == \A x, m \in Nat : (x + 1) * m = x * m + m
  OBVIOUS

LEMMA ReserveType ==
    ASSUME NEW d PROVE Reserve(d) \in Nat /\ Whole \in Nat /\ Reserve(d) <= Whole
<1>1. Due(d) \subseteq Pairs
  BY DEF Due
<1>2. /\ Cardinality(Due(d)) \in Nat /\ Cardinality(Pairs) \in Nat
      /\ Cardinality(Due(d)) <= Cardinality(Pairs)
  BY <1>1, PairsAreFinite, FS_Subset, FS_CardinalityType
<1> QED
  BY <1>2, MaxCostIsOne, Times DEF Reserve, Whole

LEMMA DueIsFinite == ASSUME NEW d PROVE IsFiniteSet(Due(d)) /\ Cardinality(Due(d)) \in Nat
<1>1. Due(d) \subseteq Pairs
  BY DEF Due
<1> QED
  BY <1>1, PairsAreFinite, FS_Subset, FS_CardinalityType

LEMMA ReserveStays == ASSUME NEW d PROVE Reserve(d)' \in Nat
<1>1. Due(d)' \subseteq Pairs
  BY DEF Due
<1>2. IsFiniteSet(Due(d)') /\ Cardinality(Due(d)') \in Nat
  BY <1>1, PairsAreFinite, FS_Subset, FS_CardinalityType
<1> QED
  BY <1>2, MaxCostIsOne, Times DEF Reserve

LEMMA LessIsDue == ASSUME NEW d, Due(d)' \subseteq Due(d) PROVE Reserve(d)' <= Reserve(d)
<1>1. IsFiniteSet(Due(d)') /\ Cardinality(Due(d)') <= Cardinality(Due(d))
  BY DueIsFinite, FS_Subset
<1>2. Cardinality(Due(d)') \in Nat /\ Cardinality(Due(d)) \in Nat
  BY <1>1, DueIsFinite, FS_CardinalityType
<1> QED
  BY <1>1, <1>2, MaxCostIsOne, Times DEF Reserve

LEMMA OneIsUsed ==
    ASSUME NEW d, NEW p \in Due(d), Due(d)' \subseteq Due(d) \ {p}
    PROVE  Reserve(d)' + MaxCost <= Reserve(d)
<1>1. /\ IsFiniteSet(Due(d) \ {p})
      /\ Cardinality(Due(d) \ {p}) = Cardinality(Due(d)) - 1
  BY DueIsFinite, FS_RemoveElement
<1>2. IsFiniteSet(Due(d)') /\ Cardinality(Due(d)') <= Cardinality(Due(d) \ {p})
  BY <1>1, FS_Subset
<1>3. Cardinality(Due(d)') \in Nat /\ Cardinality(Due(d)) \in Nat
  BY <1>2, DueIsFinite, FS_CardinalityType
<1>4. Cardinality(Due(d)') + 1 <= Cardinality(Due(d))
  BY <1>1, <1>2, <1>3
<1> DEFINE x == Cardinality(Due(d)') y == Cardinality(Due(d))
<1>5. x \in Nat /\ y \in Nat /\ x + 1 <= y
  BY <1>3, <1>4
<1>6. Reserve(d)' = x * MaxCost /\ Reserve(d) = y * MaxCost
  BY DEF Reserve
<1> HIDE DEF x, y
<1>7. (x + 1) * MaxCost <= y * MaxCost /\ (x + 1) * MaxCost = x * MaxCost + MaxCost
  BY <1>5, MaxCostIsOne, Times, TimesMore
<1> QED
  BY <1>6, <1>7

LEMMA InitSummary == Init => SummaryInv
<1> SUFFICES ASSUME Init PROVE SummaryInv
  OBVIOUS
<1>1. TypeOK
  BY InitType
<1>2. \A a \in Advisors : CallInv(a)
  BY DEF Init, CallInv, InCycle, Asking
<1>3. ASSUME NEW d \in Days PROVE Spent(d) + Reserve(d) <= Limit + Overrun + Whole
  <2>1. Spent(d) = 0
    BY DEF Init, Spent, CycleSpent, Entries, Modes
  <2> QED
    BY <2>1, ReserveType, CapsAssumption, AmountsAssumption
<1> QED
  BY <1>1, <1>2, <1>3 DEF SummaryInv

\* A step of advisor a that takes no more from a day than it gives back concerns only
\* what a itself knows.
LEMMA OwnCall ==
    ASSUME SummaryInv, TypeOK', NEW a,
           \A d \in Days : Spent(d)' + Reserve(d)' <= Spent(d) + Reserve(d),
           \A b \in Advisors \ {a} :
              /\ pc'[b] = pc[b] /\ now'[b] = now[b] /\ est'[b] = est[b]
              /\ cost'[b] = cost[b] /\ (pc[b] \in InCycle => holder' = b),
           a \in Advisors => CallInv(a)'
    PROVE  SummaryInv'
<1>0. /\ \A d \in Days : /\ Spent(d) \in Nat /\ Spent(d)' \in Nat
                         /\ Reserve(d) \in Nat /\ Reserve(d)' \in Nat
      /\ Whole \in Nat /\ Limit \in Nat /\ Overrun \in Nat
  <2>1. ASSUME NEW d \in Days PROVE Spent(d)' \in Nat
    BY SpentType, <2>1 DEF TypeOK, Spent, CycleSpent, Entries, Modes
  <2> QED
    BY <2>1, ReserveStays, SpentType, ReserveType, CapsAssumption, AmountsAssumption
       DEF SummaryInv
<1>1. ASSUME NEW b \in Advisors, b # a PROVE CallInv(b)'
  <2>1. /\ pc'[b] = pc[b] /\ now'[b] = now[b] /\ est'[b] = est[b] /\ cost'[b] = cost[b]
        /\ pc[b] \in InCycle => holder' = b
        /\ est[b] \in Nat
    BY <1>1 DEF SummaryInv, TypeOK
  <2>2. CallInv(b)
    BY DEF SummaryInv
  <2>3. ASSUME pc[b] \in Asking, NEW d \in Days, now[b] = d
        PROVE  Spent(d)' + est[b] + Reserve(d)' <= Limit + Whole
    <3>1. Spent(d) + est[b] + Reserve(d) <= Limit + Whole
      BY <2>2, <2>3 DEF CallInv
    <3> QED
      BY <1>0, <2>1, <3>1
  <2> QED
    BY <2>1, <2>2, <2>3 DEF CallInv
<1>2. ASSUME NEW d \in Days PROVE Spent(d)' + Reserve(d)' <= Limit + Overrun + Whole
  <2>1. Spent(d) + Reserve(d) <= Limit + Overrun + Whole
    BY DEF SummaryInv
  <2> QED
    BY <1>0, <2>1
<1> QED
  BY <1>1, <1>2 DEF SummaryInv

LEMMA SameBooks ==
    ASSUME SummaryInv, ledger' = ledger, \A d \in Days : Due(d)' \subseteq Due(d)
    PROVE  \A d \in Days : Spent(d)' + Reserve(d)' <= Spent(d) + Reserve(d)
<1> SUFFICES ASSUME NEW d \in Days PROVE Spent(d)' + Reserve(d)' <= Spent(d) + Reserve(d)
  OBVIOUS
<1>1. Spent(d)' = Spent(d) /\ Spent(d) \in Nat
  BY SpentType DEF Spent, CycleSpent, SummaryInv
<1>2. Reserve(d)' <= Reserve(d)
  BY LessIsDue
<1>3. Reserve(d) \in Nat
  BY ReserveType
<1>4. Reserve(d)' \in Nat
  BY ReserveStays
<1> QED
  BY <1>1, <1>2, <1>3, <1>4

\* The list of an advisor only shrinks, and the rows of today only grow.
LEMMA ListsShrink ==
    ASSUME SummaryInv, today' = today, cycled \subseteq cycled', ledger' = ledger,
           NEW a \in Advisors, \A b \in Advisors \ {a} : jobs'[b] = jobs[b],
           \A s \in jobs'[a] : s \in jobs[a] \/ <<s, today>> \notin cycled
    PROVE  \A d \in Days : Spent(d)' + Reserve(d)' <= Spent(d) + Reserve(d)
<1>1. \A d \in Days : Due(d)' \subseteq Due(d)
  BY DEF Due, Pairs
<1> QED
  BY <1>1, SameBooks

\* What the advisors other than a know.
LEMMA OthersKnow ==
    ASSUME SummaryInv, NEW a \in Advisors,
           \/ UNCHANGED holder
           \/ holder \in {a, NoOne},
           \A b \in Advisors \ {a} : /\ pc'[b] = pc[b] /\ now'[b] = now[b]
                                     /\ est'[b] = est[b] /\ cost'[b] = cost[b]
    PROVE  \A b \in Advisors \ {a} :
              /\ pc'[b] = pc[b] /\ now'[b] = now[b] /\ est'[b] = est[b]
              /\ cost'[b] = cost[b] /\ (pc[b] \in InCycle => holder' = b)
  BY AdvisorsAssumption DEF SummaryInv, CallInv

LEMMA LeaveCall ==
    ASSUME SummaryInv, TypeOK', NEW a \in Advisors, Leave(a),
           UNCHANGED <<today, ledger, cycled>>, holder' = holder \/ holder = a
    PROVE  SummaryInv'
<1> USE DEF SummaryInv, TypeOK
<1>1. CallInv(a)'
  BY DEF Leave, CallInv, InCycle, Asking
<1>2. \A b \in Advisors \ {a} : /\ pc'[b] = pc[b] /\ now'[b] = now[b] /\ jobs'[b] = jobs[b]
                                /\ est'[b] = est[b] /\ cost'[b] = cost[b]
  BY DEF Leave
<1>3. jobs'[a] = {}
  BY DEF Leave
<1>4. \A d \in Days : Spent(d)' + Reserve(d)' <= Spent(d) + Reserve(d)
  BY <1>2, <1>3, ListsShrink
<1> QED
  BY <1>1, <1>2, <1>4, OwnCall, OthersKnow

LEMMA CommitCall ==
    ASSUME SummaryInv, TypeOK', NEW a \in Advisors, CommitCycle(a)
    PROVE  SummaryInv'
<1>0. now[a] \in Days /\ mode[a] \in Modes /\ cost[a] \in Nat /\ est[a] \in Nat
  BY DEF SummaryInv, TypeOK
<1>d. PICK d \in Days : d = now[a]
  BY <1>0
<1>m. PICK m \in Modes : m = mode[a]
  BY <1>0
<1>c. PICK c \in Nat : c = cost[a]
  BY <1>0
<1>1. /\ pc[a] = "paid" /\ pc' = [pc EXCEPT ![a] = "done"]
      /\ ledger' = [ledger EXCEPT ![d][m] = @ + c]
      /\ UNCHANGED <<today, cycled, jobs, holder, now, est, cost>>
  BY <1>d, <1>m, <1>c DEF CommitCycle, Insert, Goto
<1>2. CallInv(a) /\ holder = a
  BY <1>1 DEF SummaryInv, CallInv, InCycle
<1>3. Spent(d) + est[a] + Reserve(d) <= Limit + Whole /\ c <= est[a] + Overrun
  BY <1>1, <1>2, <1>d, <1>c DEF CallInv, Asking
<1>4. \A e \in Days : e # d => ledger'[e] = ledger[e]
  BY <1>1 DEF SummaryInv, TypeOK
<1>5. /\ ledger'[d][m] = ledger[d][m] + c
      /\ \A n \in Entries : n # m => ledger'[d][n] = ledger[d][n]
  BY <1>1 DEF SummaryInv, TypeOK, Entries
<1>6. \A n \in Entries : ledger[d][n] \in Nat
  BY DEF SummaryInv, TypeOK
<1>7. Spent(d)' = Spent(d) + c
  BY <1>5, <1>6 DEF Spent, CycleSpent, Entries, Modes
<1>8. \A e \in Days : Reserve(e)' = Reserve(e)
  BY <1>1 DEF Reserve, Due
<1>9. ASSUME NEW e \in Days PROVE Spent(e)' + Reserve(e)' <= Limit + Overrun + Whole
  <2>1. CASE e = d
    <3>1. Spent(d) \in Nat
      BY SpentType DEF SummaryInv
    <3> QED
      BY <1>0, <1>3, <1>7, <1>8, <2>1, <3>1, ReserveType, CapsAssumption, AmountsAssumption
  <2>2. CASE e # d
    <3>1. Spent(e)' = Spent(e)
      BY <1>4, <2>2 DEF Spent, CycleSpent
    <3> QED
      BY <1>8, <3>1 DEF SummaryInv
  <2> QED
    BY <2>1, <2>2
<1>10. CallInv(a)'
  BY <1>1, <1>2 DEF CallInv, InCycle, Asking, SummaryInv, TypeOK
<1>11. ASSUME NEW b \in Advisors, b # a PROVE CallInv(b)'
  <2>1. CallInv(b) /\ pc[b] \notin InCycle
    BY <1>2, <1>11 DEF SummaryInv, CallInv
  <2>2. pc'[b] = pc[b] /\ est'[b] = est[b] /\ cost'[b] = cost[b]
    BY <1>1, <1>11 DEF SummaryInv, TypeOK
  <2> QED
    BY <2>1, <2>2 DEF CallInv, InCycle, Asking
<1> QED
  BY <1>9, <1>10, <1>11 DEF SummaryInv

\* The cycles: the sum is read again after the lock is taken, and the summaries stored
\* since then have used up their own reserve.
LEMMA CycleCall ==
    ASSUME SummaryInv, TypeOK', NEW a \in Advisors, Cycle(a)
    PROVE  SummaryInv'
<1> DEFINE Mine == \A b \in Advisors \ {a} :
              /\ pc'[b] = pc[b] /\ now'[b] = now[b] /\ est'[b] = est[b] /\ cost'[b] = cost[b]
           Kept == \A d \in Days : Spent(d)' + Reserve(d)' <= Spent(d) + Reserve(d)
<1>t. ASSUME UNCHANGED <<today, ledger, cycled, jobs>> PROVE Kept
  BY <1>t, SameBooks DEF Due
<1>1. CASE BeginCycle(a)
  <2>1. Mine /\ UNCHANGED <<today, ledger, cycled, jobs, holder>>
    BY <1>1 DEF BeginCycle, Goto, dbVars, SummaryInv, TypeOK
  <2>2. CallInv(a)'
    BY <1>1 DEF BeginCycle, Goto, SummaryInv, TypeOK, CallInv, InCycle, Asking
  <2> QED
    BY <2>1, <2>2, <1>t, OwnCall, OthersKnow
<1>2. CASE TakeLock(a)
  <2>1. Mine /\ UNCHANGED <<today, ledger, cycled, jobs>> /\ holder = NoOne /\ holder' = a
    BY <1>2 DEF TakeLock, Goto, dbVars, SummaryInv, TypeOK
  <2>2. CallInv(a)'
    BY <1>2 DEF TakeLock, Goto, SummaryInv, TypeOK, CallInv, InCycle, Asking
  <2> QED
    BY <2>1, <2>2, <1>t, OwnCall, OthersKnow
<1>3. CASE CheckBudget(a)
  <2>1. Mine /\ UNCHANGED <<today, ledger, cycled, jobs, holder>>
    BY <1>3 DEF CheckBudget, Goto, dbVars, SummaryInv, TypeOK
  <2>2. /\ pc[a] = "locked" /\ pc'[a] \in {"calling", "done"}
        /\ now'[a] = now[a] /\ est'[a] = est[a] /\ holder' = holder
        /\ pc'[a] = "calling" => Spent(now[a]) + est[a] <= BudgetCap(mode[a])
    BY <1>3 DEF CheckBudget, Goto, BudgetAllows, SummaryInv, TypeOK
  <2>3. /\ holder = a /\ est[a] \in Estimates /\ est[a] \in Nat /\ now[a] \in Days
        /\ BudgetCap(mode[a]) <= Limit /\ BudgetCap(mode[a]) \in Nat
    BY <2>2, CapsAssumption DEF SummaryInv, TypeOK, CallInv, InCycle, BudgetCap
  <2>4. ASSUME pc'[a] = "calling", NEW d \in Days, now'[a] = d
        PROVE  Spent(d)' + est'[a] + Reserve(d)' <= Limit + Whole
    <3>1. Spent(d)' = Spent(d) /\ Reserve(d)' = Reserve(d) /\ now[a] = d
      BY <2>1, <2>2, <2>4 DEF Spent, CycleSpent, Reserve, Due
    <3>2. Spent(d) \in Nat
      BY SpentType DEF SummaryInv
    <3>3. Spent(d) + est[a] <= Limit
      BY <2>2, <2>3, <2>4, <3>1, <3>2, CapsAssumption
    <3> QED
      BY <2>2, <2>3, <3>1, <3>2, <3>3, ReserveType, CapsAssumption
  <2>5. CallInv(a)'
    BY <2>2, <2>3, <2>4 DEF CallInv, InCycle, Asking
  <2> QED
    BY <2>1, <2>5, <1>t, OwnCall, OthersKnow
<1>4. CASE CallReturns(a) \/ CallFails(a)
  <2>1. Mine /\ UNCHANGED <<today, ledger, cycled, jobs, holder>>
    BY <1>4 DEF CallReturns, CallFails, Goto, dbVars, SummaryInv, TypeOK
  <2>2. /\ pc[a] = "calling" /\ pc'[a] = "paid" /\ now'[a] = now[a] /\ est'[a] = est[a]
        /\ cost'[a] \in Costs \cup {est[a]}
    BY <1>4 DEF CallReturns, CallFails, Goto, SummaryInv, TypeOK
  <2>3. CallInv(a) /\ est[a] \in Estimates /\ est[a] \in Nat
    BY <2>2 DEF SummaryInv, TypeOK, CallInv, Asking
  <2>4. cost'[a] <= est[a] + Overrun
    <3>1. CASE cost'[a] = est[a]
      BY <2>3, <3>1, AmountsAssumption
    <3>2. CASE cost'[a] \in Costs
      <4>1. \A c \in Costs : c <= est[a] + Overrun
        BY <2>3, AmountsAssumption
      <4> QED
        BY <3>2, <4>1
    <3> QED
      BY <2>2, <3>1, <3>2
  <2>5. \A d \in Days : Spent(d)' = Spent(d) /\ Reserve(d)' = Reserve(d)
    BY <2>1 DEF Spent, CycleSpent, Reserve, Due
  <2>6. CallInv(a)'
    BY <2>1, <2>2, <2>3, <2>4, <2>5 DEF CallInv, InCycle, Asking
  <2> QED
    BY <2>1, <2>6, <1>t, OwnCall, OthersKnow
<1>5. CASE CommitCycle(a)
  BY <1>5, CommitCall
<1>6. CASE Unlock(a)
  <2>1. holder = a
    BY <1>6 DEF Unlock, SummaryInv, CallInv, InCycle
  <2> QED
    BY <1>6, <2>1, LeaveCall DEF Unlock, dbVars
<1> QED
  BY <1>1, <1>2, <1>3, <1>4, <1>5, <1>6 DEF Cycle

\* A summary that is stored uses up the reserve of its strategy with its advisor.
LEMMA StoreCall ==
    ASSUME SummaryInv, TypeOK', NEW a \in Advisors, NEW s \in Summarised, StoreSummary(a, s)
    PROVE  SummaryInv'
<1>0. today \in Days /\ cost[a] \in Nat /\ jobs \in [Advisors -> SUBSET Summarised]
  BY DEF SummaryInv, TypeOK
<1>d. PICK d \in Days : d = today
  BY <1>0
<1>c. PICK c \in Nat : c = cost[a]
  BY <1>0
<1>1. /\ pc[a] = "summed" /\ s \in jobs[a] /\ pc' = [pc EXCEPT ![a] = "listed"]
      /\ jobs' = [jobs EXCEPT ![a] = @ \ {s}]
      /\ UNCHANGED <<today, holder, now, est, cost>>
  BY DEF StoreSummary, Goto
<1>2. \/ ledger' = [ledger EXCEPT ![d]["summary"] = @ + c] /\ cycled' = cycled \cup {<<s, d>>}
      \/ ledger' = ledger /\ cycled' = cycled
  BY <1>d, <1>c DEF StoreSummary, Insert, dbVars
<1>3. \A b \in Advisors \ {a} : /\ pc'[b] = pc[b] /\ now'[b] = now[b] /\ jobs'[b] = jobs[b]
                                /\ est'[b] = est[b] /\ cost'[b] = cost[b]
  BY <1>1 DEF SummaryInv, TypeOK
<1>4. jobs'[a] = jobs[a] \ {s}
  BY <1>0, <1>1
<1>5. CallInv(a)'
  BY <1>1 DEF SummaryInv, TypeOK, CallInv, InCycle, Asking
<1>6. CASE ledger' = ledger /\ cycled' = cycled
  <2>1. \A e \in Days : Spent(e)' + Reserve(e)' <= Spent(e) + Reserve(e)
    BY <1>1, <1>3, <1>4, <1>6, ListsShrink
  <2> QED
    BY <1>1, <1>3, <1>5, <2>1, OwnCall, OthersKnow
<1>7. CASE /\ ledger' = [ledger EXCEPT ![d]["summary"] = @ + c]
           /\ cycled' = cycled \cup {<<s, d>>}
  <2>1. Spent(d)' = Spent(d) + c /\ Spent(d) \in Nat
    BY <1>7 DEF SummaryInv, TypeOK, Spent, CycleSpent, Entries, Modes
  <2>2. Reserve(d)' + MaxCost <= Reserve(d)
    <3>1. <<s, a>> \in Due(d)
      BY <1>1, <1>d DEF Due, Pairs
    <3>2. <<s, a>> \notin Due(d)'
      <4>1. d \in Nat /\ today' = d
        BY <1>1, <1>d, DaysAssumption
      <4>2. s \notin jobs'[a] /\ <<s, d>> \in cycled'
        BY <1>4, <1>7
      <4> QED
        BY <4>1, <4>2 DEF Due
    <3>3. Due(d)' \subseteq Due(d)
      BY <1>1, <1>3, <1>4, <1>7, <1>d DEF Due, Pairs
    <3> QED
      BY <3>1, <3>2, <3>3, OneIsUsed
  <2>3. c <= MaxCost
    BY <1>1, <1>c DEF SummaryInv, CallInv
  <2>4. Reserve(d)' \in Nat
    BY ReserveStays
  <2>5. ASSUME NEW e \in Days PROVE Spent(e)' + Reserve(e)' <= Spent(e) + Reserve(e)
    <3>1. CASE e = d
      BY <2>1, <2>2, <2>3, <2>4, <3>1, ReserveType, MaxCostIsOne
    <3>2. CASE e # d
      <4>1. Spent(e)' = Spent(e) /\ Spent(e) \in Nat
        BY <1>7, <3>2 DEF SummaryInv, TypeOK, Spent, CycleSpent, Entries, Modes
      <4>2. Reserve(e)' = Reserve(e)
        BY <1>1, <1>7, <1>d, <3>2 DEF Reserve, Due
      <4> QED
        BY <4>1, <4>2, ReserveType
    <3> QED
      BY <3>1, <3>2
  <2> QED
    BY <1>1, <1>3, <1>5, <2>5, OwnCall, OthersKnow
<1> QED
  BY <1>2, <1>6, <1>7

LEMMA SummaryCall ==
    ASSUME SummaryInv, TypeOK', NEW a \in Advisors, Summary(a)
    PROVE  SummaryInv'
<1> DEFINE Mine == \A b \in Advisors \ {a} :
              /\ pc'[b] = pc[b] /\ now'[b] = now[b] /\ jobs'[b] = jobs[b]
              /\ est'[b] = est[b] /\ cost'[b] = cost[b]
<1>1. CASE ListSummaries(a)
  <2>1. /\ Mine /\ pc'[a] = "listed"
        /\ UNCHANGED <<today, ledger, cycled, holder>>
        /\ \A s \in jobs'[a] : <<s, today>> \notin cycled
    BY <1>1 DEF ListSummaries, Goto, dbVars, SummaryInv, TypeOK
  <2>2. CallInv(a)'
    BY <2>1 DEF CallInv, InCycle, Asking
  <2>3. \A d \in Days : Spent(d)' + Reserve(d)' <= Spent(d) + Reserve(d)
    BY <2>1, ListsShrink
  <2> QED
    BY <2>1, <2>2, <2>3, OwnCall, OthersKnow
<1>2. CASE CheckSummary(a) /\ ~Leave(a)
  <2>1. Mine /\ pc'[a] = "summing" /\ UNCHANGED <<today, ledger, cycled, holder, jobs>>
    BY <1>2 DEF CheckSummary, Goto, dbVars, SummaryInv, TypeOK
  <2>2. CallInv(a)'
    BY <2>1 DEF CallInv, InCycle, Asking
  <2>3. \A d \in Days : Spent(d)' + Reserve(d)' <= Spent(d) + Reserve(d)
    BY <2>1, ListsShrink
  <2> QED
    BY <2>1, <2>2, <2>3, OwnCall, OthersKnow
<1>3. CASE SummaryReturns(a)
  <2>1. /\ Mine /\ pc'[a] = "summed" /\ UNCHANGED <<today, ledger, cycled, holder, jobs>>
        /\ cost'[a] \in Costs
    BY <1>3 DEF SummaryReturns, Goto, dbVars, SummaryInv, TypeOK
  <2>2. CallInv(a)'
    BY <2>1, MaxCostIsOne DEF CallInv, InCycle, Asking
  <2>3. \A d \in Days : Spent(d)' + Reserve(d)' <= Spent(d) + Reserve(d)
    BY <2>1, ListsShrink
  <2> QED
    BY <2>1, <2>2, <2>3, OwnCall, OthersKnow
<1>4. ASSUME NEW s \in Summarised, SummaryFails(a, s) PROVE SummaryInv'
  <2>1. /\ Mine /\ pc'[a] = "listed" /\ UNCHANGED <<today, ledger, cycled, holder>>
        /\ jobs'[a] \subseteq jobs[a]
    BY <1>4 DEF SummaryFails, Goto, dbVars, SummaryInv, TypeOK
  <2>2. CallInv(a)'
    BY <2>1 DEF CallInv, InCycle, Asking
  <2>3. \A d \in Days : Spent(d)' + Reserve(d)' <= Spent(d) + Reserve(d)
    BY <2>1, ListsShrink
  <2> QED
    BY <2>1, <2>2, <2>3, OwnCall, OthersKnow
<1>5. ASSUME Leave(a), UNCHANGED <<today, dbVars, holder>> PROVE SummaryInv'
  BY <1>5, LeaveCall DEF dbVars
<1>6. CASE EndSummaries(a) \/ (CheckSummary(a) /\ Leave(a))
  BY <1>5, <1>6 DEF EndSummaries, CheckSummary
<1> QED
  BY <1>1, <1>2, <1>3, <1>4, <1>6, StoreCall DEF Summary

LEMMA NextSummary == SummaryInv /\ [Next]_vars => SummaryInv'
<1> SUFFICES ASSUME SummaryInv, [Next]_vars PROVE SummaryInv'
  OBVIOUS
<1>1. TypeOK'
  BY NextType DEF SummaryInv
<1>2. ASSUME UNCHANGED <<ledger, cycled, holder, ownVars>>, today' \in {today, today + 1}
      PROVE  SummaryInv'
  <2>1. \A d \in Days : Due(d)' \subseteq Due(d)
    <3>1. today \in Nat /\ Days \subseteq Nat
      BY DaysAssumption DEF SummaryInv, TypeOK
    <3>2. cycled' = cycled /\ jobs' = jobs
      BY <1>2 DEF ownVars
    <3>3. \A d \in Days : /\ d > today' => d > today
                          /\ d = today' => d = today \/ d > today
      BY <1>2, <3>1
    <3> QED
      BY <3>2, <3>3 DEF Due
  <2>2. \A d \in Days : Spent(d)' + Reserve(d)' <= Spent(d) + Reserve(d)
    BY <1>2, <2>1, SameBooks
  <2>3. \A b \in Advisors : /\ pc'[b] = pc[b] /\ now'[b] = now[b] /\ est'[b] = est[b]
                            /\ cost'[b] = cost[b] /\ (pc[b] \in InCycle => holder' = b)
    BY <1>2 DEF ownVars, SummaryInv, CallInv
  <2> QED
    BY <1>1, <2>2, <2>3, OwnCall, AdvisorsAssumption
<1>3. CASE NextDay \/ UNCHANGED vars
  BY <1>2, <1>3 DEF NextDay, vars, dbVars, ownVars
<1>4. ASSUME NEW a \in Advisors, Crash(a) PROVE SummaryInv'
  <2>1. Leave(a) /\ UNCHANGED <<today, ledger, cycled>> /\ (holder' = holder \/ holder = a)
    BY <1>4 DEF Crash, dbVars
  <2> QED
    BY <1>1, <2>1, LeaveCall
<1> QED
  BY <1>1, <1>3, <1>4, CycleCall, SummaryCall DEF Next

\* The unlocked summaries of a day add at most one call for each strategy and advisor
\* to what the cycles may spend, for any number of advisors, strategies and days, with
\* crashes at any point and lists that are worked off after midnight (_summarize,
\* store_summary).
THEOREM OneCallEach == Spec => []OneCallPerSummary
<1>1. SummaryInv => OneCallPerSummary
  <2> SUFFICES ASSUME SummaryInv, NEW d \in Days
               PROVE  Spent(d) <= Limit + Overrun + Whole
    BY PairsAreFinite DEF OneCallPerSummary, Whole
  <2>1. Spent(d) \in Nat
    BY SpentType DEF SummaryInv
  <2> QED
    BY <2>1, ReserveType, CapsAssumption, AmountsAssumption DEF SummaryInv
<1> QED
  BY <1>1, InitSummary, NextSummary, PTL DEF Spec

-----------------------------------------------------------------------------
(* Totals.                                                                 *)

\* The totals of the first amounts of s, none, one, two and so on.
Totals(s) == CHOOSE f : f = [i \in 0 .. Len(s) |-> IF i = 0 THEN 0 ELSE f[i - 1] + s[i]]

LEMMA TotalsOf ==
    ASSUME NEW s \in Seq(Int)
    PROVE  /\ Totals(s) \in [0 .. Len(s) -> Int]
           /\ Totals(s)[0] = 0
           /\ \A i \in 1 .. Len(s) : Totals(s)[i] = Totals(s)[i - 1] + s[i]
<1> DEFINE n == Len(s)
           zero == 0
           step == [i \in 1 .. n |-> [v \in Int |-> v + s[i]]]
<1>1. step \in [1 .. n -> [Int -> Int]] /\ n \in Nat /\ zero \in Int
      /\ \A i \in 1 .. n, v \in Int : step[i][v] = v + s[i]
  OBVIOUS
<1>2. PICK f : Recursive(f, Int, n, zero, step)
  <2> HIDE DEF step, n, zero
  <2> QED
    BY <1>1, RecursiveFunction
<1>3. f = [i \in 0 .. n |-> IF i = 0 THEN 0 ELSE f[i - 1] + s[i]]
  <2> HIDE DEF step
  <2>1. f = [i \in 0 .. n |-> f[i]]
    BY <1>2 DEF Recursive
  <2>2. ASSUME NEW i \in 0 .. n PROVE f[i] = IF i = 0 THEN 0 ELSE f[i - 1] + s[i]
    <3>1. CASE i = 0
      BY <1>2, <3>1 DEF Recursive
    <3>2. CASE i # 0
      <4>1. i \in 1 .. n /\ i - 1 \in 0 .. n
        BY <1>1, <3>2
      <4>2. f[i - 1] \in Int /\ f[i] = step[i][f[i - 1]]
        BY <1>2, <4>1 DEF Recursive
      <4> QED
        BY <1>1, <3>2, <4>1, <4>2
    <3> QED
      BY <3>1, <3>2
  <2> QED
    BY <2>1, <2>2
<1> DEFINE t == Totals(s)
<1>4. t = [i \in 0 .. Len(s) |-> IF i = 0 THEN 0 ELSE t[i - 1] + s[i]]
  BY <1>3 DEF Totals
<1> HIDE DEF t
<1>5. t[0] = 0 /\ \A i \in 1 .. n : t[i] = t[i - 1] + s[i]
  <2>1. 0 \in 0 .. n /\ \A i \in 1 .. n : i \in 0 .. n /\ i # 0
    BY <1>1
  <2> QED
    BY <1>4, <2>1
<1>6. \A i \in 0 .. n : t[i] \in Int
  <2>1. t[0] \in Int /\ \A i \in 1 .. n : t[i - 1] \in Int => t[i] \in Int
    BY <1>5
  <2> QED
    BY <1>1, <2>1, RecursiveStays
<1>7. t \in [0 .. Len(s) -> Int]
  BY <1>4, <1>6
<1> QED
  BY <1>5, <1>7 DEF t

LEMMA SumIsTotal ==
    /\ \A s : Promotion!Sum(s) = Totals(s)[Len(s)]
    /\ \A s : Sandbox!Sum(s) = Totals(s)[Len(s)]
  BY DEF Promotion!Sum, Sandbox!Sum, Totals

\* Lists that agree for a while have the same totals so far.
LEMMA SamePrefix ==
    ASSUME NEW s \in Seq(Int), NEW t \in Seq(Int), NEW n \in Nat, n <= Len(s), n <= Len(t),
           \A i \in 1 .. n : s[i] = t[i]
    PROVE  Totals(s)[n] = Totals(t)[n]
<1> DEFINE T == {i \in 0 .. n : Totals(s)[i] = Totals(t)[i]}
<1>1. 0 \in T
  BY TotalsOf
<1>2. \A i \in 1 .. n : i - 1 \in T => i \in T
  BY TotalsOf
<1> HIDE DEF T
<1>3. 0 .. n \subseteq T
  BY <1>1, <1>2, BoundedInduction
<1> QED
  BY <1>3 DEF T

\* Amounts that are no smaller add up to no less.
LEMMA TotalsGrow ==
    ASSUME NEW s \in Seq(Int), NEW t \in Seq(Int), Len(s) = Len(t),
           \A i \in 1 .. Len(s) : s[i] <= t[i]
    PROVE  Totals(s)[Len(s)] <= Totals(t)[Len(t)]
<1> DEFINE n == Len(s)
           T == {i \in 0 .. n : Totals(s)[i] <= Totals(t)[i]}
<1>0. n \in Nat
  OBVIOUS
<1>1. 0 \in T
  BY TotalsOf
<1>2. \A i \in 1 .. n : i - 1 \in T => i \in T
  <2> SUFFICES ASSUME NEW i \in 1 .. n, i - 1 \in T PROVE Totals(s)[i] <= Totals(t)[i]
    OBVIOUS
  <2>1. /\ Totals(s)[i] = Totals(s)[i - 1] + s[i] /\ Totals(t)[i] = Totals(t)[i - 1] + t[i]
        /\ Totals(s)[i - 1] \in Int /\ Totals(t)[i - 1] \in Int
    BY TotalsOf
  <2> QED
    BY <2>1
<1> HIDE DEF T, n
<1>3. 0 .. n \subseteq T
  BY <1>0, <1>1, <1>2, BoundedInduction
<1> QED
  BY <1>0, <1>3 DEF T, n

-----------------------------------------------------------------------------
(* Promotion.                                                              *)

PromotionInv == book \in Seq(Promotion!Coupon) /\ base \in Seq(Promotion!Coupon)

\* The settled coupons among the first ones of a book.
SettledUpTo(cs) ==
    CHOOSE f : f = [i \in 0 .. Len(cs) |->
                      IF i = 0 THEN <<>>
                      ELSE IF cs[i].status \in {"won", "lost"} THEN Append(f[i - 1], cs[i])
                      ELSE f[i - 1]]

LEMMA SettledIsABook ==
    ASSUME NEW cs \in Seq(Promotion!Coupon)
    PROVE  Promotion!Settled(cs) \in Seq(Promotion!Coupon)
<1> DEFINE V == Seq(Promotion!Coupon)
           n == Len(cs)
           empty == <<>>
           step == [i \in 1 .. n |-> [v \in V |->
                      IF cs[i].status \in {"won", "lost"} THEN Append(v, cs[i]) ELSE v]]
<1>1. /\ n \in Nat /\ empty \in V
      /\ \A i \in 1 .. n : cs[i] \in Promotion!Coupon
      /\ \A v \in V, c \in Promotion!Coupon : Append(v, c) \in V
  OBVIOUS
<1>2. step \in [1 .. n -> [V -> V]]
      /\ \A i \in 1 .. n, v \in V :
           step[i][v] = IF cs[i].status \in {"won", "lost"} THEN Append(v, cs[i]) ELSE v
  <2> HIDE DEF V, n
  <2> QED
    BY <1>1
<1>3. PICK f : Recursive(f, V, n, empty, step)
  <2> HIDE DEF step, n, empty, V
  <2> QED
    BY <1>1, <1>2, RecursiveFunction
<1> DEFINE t == SettledUpTo(cs)
<1>4. f = [i \in 0 .. n |-> IF i = 0 THEN <<>>
                            ELSE IF cs[i].status \in {"won", "lost"} THEN Append(f[i - 1], cs[i])
                            ELSE f[i - 1]]
  <2> HIDE DEF step, V
  <2>1. f = [i \in 0 .. n |-> f[i]]
    BY <1>3 DEF Recursive
  <2>2. ASSUME NEW i \in 0 .. n
        PROVE  f[i] = IF i = 0 THEN <<>>
                      ELSE IF cs[i].status \in {"won", "lost"} THEN Append(f[i - 1], cs[i])
                      ELSE f[i - 1]
    <3>1. CASE i = 0
      BY <1>3, <3>1 DEF Recursive
    <3>2. CASE i # 0
      <4>1. i \in 1 .. n /\ i - 1 \in 0 .. n
        BY <1>1, <3>2
      <4>2. f[i - 1] \in V /\ f[i] = step[i][f[i - 1]]
        BY <1>3, <4>1 DEF Recursive
      <4> QED
        BY <1>2, <3>2, <4>1, <4>2
    <3> QED
      BY <3>1, <3>2
  <2> QED
    BY <2>1, <2>2
<1>5. t = [i \in 0 .. Len(cs) |-> IF i = 0 THEN <<>>
                            ELSE IF cs[i].status \in {"won", "lost"} THEN Append(t[i - 1], cs[i])
                            ELSE t[i - 1]]
  BY <1>4 DEF SettledUpTo
<1> HIDE DEF t
<1>6. \A i \in 0 .. n : t[i] \in V
  <2>1. t[0] \in V
    BY <1>1, <1>5
  <2>2. ASSUME NEW i \in 1 .. n, t[i - 1] \in V PROVE t[i] \in V
    <3>1. t[i] = IF cs[i].status \in {"won", "lost"} THEN Append(t[i - 1], cs[i])
                 ELSE t[i - 1]
      <4>1. i \in 0 .. Len(cs) /\ i # 0
        BY <1>1
      <4> QED
        BY <1>5, <4>1
    <3> QED
      BY <1>1, <2>2, <3>1
  <2> QED
    BY <1>1, <2>1, <2>2, RecursiveStays
<1>7. Promotion!Settled(cs) = t[n]
  BY DEF Promotion!Settled, SettledUpTo, t
<1> QED
  BY <1>1, <1>6, <1>7

LEMMA PnlIsAnAmount ==
    ASSUME NEW c \in Promotion!Coupon
    PROVE  Promotion!Pnl(c) \in Int /\ c.stake \in {1, 2}
  BY DEF Promotion!Pnl, Promotion!Coupon

LEMMA PnlsAreAmounts ==
    ASSUME NEW cs \in Seq(Promotion!Coupon)
    PROVE  /\ Promotion!Pnls(cs) \in Seq(Int) /\ Len(Promotion!Pnls(cs)) = Len(cs)
           /\ \A i \in 1 .. Len(cs) : Promotion!Pnls(cs)[i] = Promotion!Pnl(cs[i])
<1>1. \A i \in 1 .. Len(cs) : Promotion!Pnl(cs[i]) \in Int
  <2>1. \A i \in 1 .. Len(cs) : cs[i] \in Promotion!Coupon
    OBVIOUS
  <2> QED
    BY <2>1, PnlIsAnAmount
<1>2. DOMAIN cs = 1 .. Len(cs) /\ Len(cs) \in Nat
  OBVIOUS
<1> QED
  BY <1>1, <1>2 DEF Promotion!Pnls

\* One coupon further: the equity, the peak and the worst drop so far.
Further(r, pnl) ==
    LET equity == r.equity + pnl
        peak == IF equity > r.peak THEN equity ELSE r.peak
    IN  [equity |-> equity, peak |-> peak,
         worst |-> IF peak - equity > r.worst THEN peak - equity ELSE r.worst]

DropsUpTo(cs) ==
    CHOOSE f : f = [i \in 0 .. Len(cs) |->
                      IF i = 0 THEN [equity |-> 0, peak |-> 0, worst |-> 0]
                      ELSE Further(f[i - 1], Promotion!Pnl(cs[i]))]

LEMMA DrawdownUnfolds == \A cs : Promotion!MaxDrawdown(cs) = DropsUpTo(cs)[Len(cs)].worst
  BY DEF Promotion!MaxDrawdown, DropsUpTo, Further

Drops == [equity : Int, peak : Int, worst : Int]

LEMMA FurtherBounds ==
    ASSUME NEW r \in Drops, NEW pnl \in Int
    PROVE  /\ Further(r, pnl) \in Drops
           /\ Further(r, pnl).equity = r.equity + pnl
           /\ Further(r, pnl).peak >= r.peak
           /\ Further(r, pnl).peak >= Further(r, pnl).equity
           /\ Further(r, pnl).worst >= r.worst
           /\ Further(r, pnl).worst >= Further(r, pnl).peak - Further(r, pnl).equity
  BY DEF Further, Drops

LEMMA DropsOf ==
    ASSUME NEW cs \in Seq(Promotion!Coupon)
    PROVE  /\ \A i \in 0 .. Len(cs) : DropsUpTo(cs)[i] \in Drops
           /\ DropsUpTo(cs)[0] = [equity |-> 0, peak |-> 0, worst |-> 0]
           /\ \A i \in 1 .. Len(cs) :
                 DropsUpTo(cs)[i] = Further(DropsUpTo(cs)[i - 1], Promotion!Pnl(cs[i]))
<1> DEFINE n == Len(cs)
           first == [equity |-> 0, peak |-> 0, worst |-> 0]
           step == [i \in 1 .. n |-> [v \in Drops |-> Further(v, Promotion!Pnl(cs[i]))]]
<1>1. /\ n \in Nat /\ first \in Drops
      /\ \A i \in 1 .. n : Promotion!Pnl(cs[i]) \in Int
  <2>1. \A i \in 1 .. Len(cs) : cs[i] \in Promotion!Coupon
    OBVIOUS
  <2> QED
    BY <2>1, PnlIsAnAmount DEF Drops
<1>2. step \in [1 .. n -> [Drops -> Drops]]
      /\ \A i \in 1 .. n, v \in Drops : step[i][v] = Further(v, Promotion!Pnl(cs[i]))
  <2> HIDE DEF n
  <2> QED
    BY <1>1, FurtherBounds
<1>3. PICK f : Recursive(f, Drops, n, first, step)
  <2> HIDE DEF step, n, first
  <2> QED
    BY <1>1, <1>2, RecursiveFunction
<1> DEFINE t == DropsUpTo(cs)
<1>4. f = [i \in 0 .. n |-> IF i = 0 THEN [equity |-> 0, peak |-> 0, worst |-> 0]
                            ELSE Further(f[i - 1], Promotion!Pnl(cs[i]))]
  <2> HIDE DEF step
  <2>1. f = [i \in 0 .. n |-> f[i]]
    BY <1>3 DEF Recursive
  <2>2. ASSUME NEW i \in 0 .. n
        PROVE  f[i] = IF i = 0 THEN [equity |-> 0, peak |-> 0, worst |-> 0]
                      ELSE Further(f[i - 1], Promotion!Pnl(cs[i]))
    <3>1. CASE i = 0
      BY <1>3, <3>1 DEF Recursive
    <3>2. CASE i # 0
      <4>1. i \in 1 .. n /\ i - 1 \in 0 .. n
        BY <1>1, <3>2
      <4>2. f[i - 1] \in Drops /\ f[i] = step[i][f[i - 1]]
        BY <1>3, <4>1 DEF Recursive
      <4> QED
        BY <1>2, <3>2, <4>1, <4>2
    <3> QED
      BY <3>1, <3>2
  <2> QED
    BY <2>1, <2>2
<1>5. t = [i \in 0 .. Len(cs) |-> IF i = 0 THEN [equity |-> 0, peak |-> 0, worst |-> 0]
                                  ELSE Further(t[i - 1], Promotion!Pnl(cs[i]))]
  BY <1>4 DEF DropsUpTo
<1> HIDE DEF t
<1>6. t[0] = first
  BY <1>1, <1>5
<1>7. ASSUME NEW i \in 1 .. n PROVE t[i] = Further(t[i - 1], Promotion!Pnl(cs[i]))
  <2>1. i \in 0 .. Len(cs) /\ i # 0
    BY <1>1
  <2> QED
    BY <1>5, <2>1
<1>8. \A i \in 0 .. n : t[i] \in Drops
  <2>1. \A i \in 1 .. n : t[i - 1] \in Drops => t[i] \in Drops
    BY <1>1, <1>7, FurtherBounds
  <2>2. t[0] \in Drops
    BY <1>1, <1>6
  <2> HIDE DEF n
  <2> QED
    BY <1>1, <2>1, <2>2, RecursiveStays
<1> QED
  BY <1>6, <1>7, <1>8 DEF t

\* No point of a book lies further under an earlier one than max_drawdown says.
LEMMA DropIsBounded ==
    ASSUME NEW cs \in Seq(Promotion!Coupon), NEW k \in 0 .. Len(cs), NEW j \in 0 .. Len(cs),
           k <= j
    PROVE  Totals(Promotion!Pnls(cs))[k] - Totals(Promotion!Pnls(cs))[j]
              <= Promotion!MaxDrawdown(cs)
<1> DEFINE n == Len(cs)
           s == Promotion!Pnls(cs)
           e == Totals(s)
           d == DropsUpTo(cs)
           T == {i \in 0 .. n : /\ d[i].equity = e[i]
                                /\ \A a \in 0 .. i : e[a] <= d[i].peak
                                /\ \A a, b \in 0 .. i : a <= b => e[a] - e[b] <= d[i].worst}
<1>1. /\ n \in Nat /\ s \in Seq(Int) /\ Len(s) = n
      /\ \A i \in 1 .. n : s[i] = Promotion!Pnl(cs[i])
  BY PnlsAreAmounts
<1> HIDE DEF s
<1>2. /\ e \in [0 .. n -> Int] /\ e[0] = 0
      /\ \A i \in 1 .. n : e[i] = e[i - 1] + s[i] /\ s[i] \in Int
  BY <1>1, TotalsOf
<1>3. /\ \A i \in 0 .. n : d[i] \in Drops
      /\ d[0] = [equity |-> 0, peak |-> 0, worst |-> 0]
      /\ \A i \in 1 .. n : d[i] = Further(d[i - 1], s[i])
  BY <1>1, DropsOf
<1> HIDE DEF n, e, d
<1>4. 0 \in T
  BY <1>1, <1>2, <1>3
<1>5. ASSUME NEW i \in 1 .. n, i - 1 \in T PROVE i \in T
  <2>1. d[i - 1] \in Drops /\ d[i] \in Drops /\ i - 1 \in 0 .. n /\ i \in 0 .. n /\ s[i] \in Int
        /\ e[i] = e[i - 1] + s[i]
    BY <1>1, <1>2, <1>3
  <2>2. /\ d[i].equity = d[i - 1].equity + s[i]
        /\ d[i].peak >= d[i - 1].peak /\ d[i].peak >= d[i].equity
        /\ d[i].worst >= d[i - 1].worst /\ d[i].worst >= d[i].peak - d[i].equity
    BY <1>3, <2>1, FurtherBounds
  <2>3. /\ d[i].peak \in Int /\ d[i].worst \in Int /\ d[i].equity \in Int
        /\ d[i - 1].peak \in Int /\ d[i - 1].worst \in Int
    BY <2>1 DEF Drops
  <2>4. /\ d[i - 1].equity = e[i - 1] /\ \A a \in 0 .. i - 1 : e[a] <= d[i - 1].peak
        /\ \A a, b \in 0 .. i - 1 : a <= b => e[a] - e[b] <= d[i - 1].worst
    BY <1>5
  <2>5. d[i].equity = e[i]
    BY <2>1, <2>2, <2>4
  <2>6. \A a \in 0 .. i : a \in 0 .. n /\ e[a] \in Int /\ (a = i \/ a \in 0 .. i - 1)
    BY <1>1, <1>2
  <2>7. \A a \in 0 .. i : e[a] <= d[i].peak
    <3> SUFFICES ASSUME NEW a \in 0 .. i PROVE e[a] <= d[i].peak
      OBVIOUS
    <3>1. e[a] \in Int /\ (a = i \/ e[a] <= d[i - 1].peak)
      BY <2>4, <2>6
    <3> QED
      BY <2>2, <2>3, <2>5, <3>1
  <2>8. \A a, b \in 0 .. i : a <= b => e[a] - e[b] <= d[i].worst
    <3> SUFFICES ASSUME NEW a \in 0 .. i, NEW b \in 0 .. i, a <= b
                 PROVE  e[a] - e[b] <= d[i].worst
      OBVIOUS
    <3>1. CASE b = i
      BY <2>2, <2>3, <2>5, <2>6, <2>7, <3>1
    <3>2. CASE b # i
      <4>1. a \in 0 .. i - 1 /\ b \in 0 .. i - 1
        BY <3>2
      <4>2. e[a] - e[b] <= d[i - 1].worst /\ e[a] \in Int /\ e[b] \in Int
        BY <2>4, <2>6, <4>1
      <4> QED
        BY <2>2, <2>3, <4>2
    <3> QED
      BY <3>1, <3>2
  <2> QED
    BY <2>1, <2>5, <2>7, <2>8
<1> HIDE DEF T
<1>6. 0 .. n \subseteq T
  BY <1>1, <1>4, <1>5, BoundedInduction
<1>7. n \in T
  BY <1>1, <1>6
<1>8. e[k] - e[j] <= d[n].worst
  BY <1>7 DEF T, n
<1> QED
  BY <1>8, DrawdownUnfolds DEF n, s, e, d

\* The stakes of a book that has a coupon.
LEMMA StakesOfABook ==
    ASSUME NEW cs \in Seq(Promotion!Coupon), Len(cs) # 0
    PROVE  Promotion!Stakes(cs) \in Nat \ {0}
<1> DEFINE n == Len(cs)
           s == [i \in DOMAIN cs |-> cs[i].stake]
           t == Totals(s)
           T == {i \in 0 .. n : t[i] >= i}
<1>1. n \in Nat \ {0} /\ DOMAIN cs = 1 .. n /\ \A i \in 1 .. n : cs[i] \in Promotion!Coupon
  OBVIOUS
<1>2. s \in Seq(Int) /\ Len(s) = n /\ \A i \in 1 .. n : s[i] \in {1, 2}
  BY <1>1, PnlIsAnAmount
<1> HIDE DEF s
<1>3. t \in [0 .. n -> Int] /\ t[0] = 0 /\ \A i \in 1 .. n : t[i] = t[i - 1] + s[i]
  BY <1>2, TotalsOf
<1> HIDE DEF n, t
<1>4. 0 \in T
  BY <1>1, <1>3
<1>5. ASSUME NEW i \in 1 .. n, i - 1 \in T PROVE i \in T
  <2>1. t[i] = t[i - 1] + s[i] /\ s[i] \in {1, 2} /\ i - 1 \in 0 .. n /\ i \in 0 .. n
    BY <1>1, <1>2, <1>3
  <2>2. t[i - 1] \in Int /\ t[i - 1] >= i - 1
    BY <1>3, <1>5, <2>1
  <2> QED
    BY <2>1, <2>2
<1> HIDE DEF T
<1>6. 0 .. n \subseteq T
  BY <1>1, <1>4, <1>5, BoundedInduction
<1>7. n \in 0 .. n /\ n \in T
  BY <1>1, <1>6
<1>8. t[n] \in Nat \ {0}
  BY <1>1, <1>3, <1>7 DEF T
<1>9. Promotion!Stakes(cs) = t[n]
  BY <1>2, SumIsTotal DEF Promotion!Stakes, n, s, t
<1> QED
  BY <1>8, <1>9

\* The yield of an amount on the stakes, as net_yield rounds it.
HalfUp(pnl, stakes) ==
    LET size == (2 * (IF pnl < 0 THEN - pnl ELSE pnl) * Rate + stakes) \div (2 * stakes)
    IN  IF pnl < 0 THEN - size ELSE size

LEMMA YieldRounds ==
    \A cs : Promotion!NetYield(cs) = HalfUp(Promotion!Sum(Promotion!Pnls(cs)),
                                            Promotion!Stakes(cs))
  BY DEF Promotion!NetYield, HalfUp

LEMMA RoundedSize ==
    ASSUME NEW p \in Nat, NEW s \in Nat \ {0}, NEW q, q = (2 * p * Rate + s) \div (2 * s)
    PROVE  q \in Nat /\ 2 * s * q <= 2 * p * Rate + s /\ 2 * p * Rate + s < 2 * s * (q + 1)
<1> DEFINE a == 2 * p * Rate + s
           b == 2 * s
<1>1. a \in Nat /\ b \in Nat \ {0}
  BY PromotionConstants
<1>2. q = a \div b
  OBVIOUS
<1>3. b * (q + 1) = 2 * s * (q + 1) /\ b * q = 2 * s * q
  OBVIOUS
<1> HIDE DEF a, b
<1>4. q \in Int /\ b * q <= a /\ a < b * (q + 1)
  BY <1>1, <1>2
<1>5. q \in Nat
  BY <1>1, <1>4
<1> QED
  BY <1>3, <1>4, <1>5 DEF a

LEMMA YieldOfAnEarner ==
    ASSUME NEW p \in Int, NEW s \in Nat \ {0}, HalfUp(p, s) > 0
    PROVE  p > 0
<1> USE PromotionConstants
<1>1. CASE p < 0
  <2> DEFINE q == (2 * (- p) * Rate + s) \div (2 * s)
  <2>1. HalfUp(p, s) = - q
    BY <1>1 DEF HalfUp
  <2>2. - p \in Nat
    BY <1>1
  <2>3. q \in Nat
    BY <2>2, RoundedSize
  <2> QED
    BY <2>1, <2>3
<1>2. CASE p = 0
  <2> DEFINE q == (2 * p * Rate + s) \div (2 * s)
  <2>1. HalfUp(p, s) = q
    BY <1>2 DEF HalfUp
  <2>2. q \in Nat /\ 2 * s * q <= 2 * p * Rate + s
    BY <1>2, RoundedSize
  <2> HIDE DEF q
  <2>3. 2 * s * q <= s
    BY <1>2, <2>2
  <2>4. q < 1
    BY <2>2, <2>3
  <2> QED
    BY <2>1, <2>2, <2>4
<1> QED
  BY <1>1, <1>2

\* A larger rounded size is a larger yield.
LEMMA LargerSize ==
    ASSUME NEW p1 \in Nat, NEW p2 \in Nat, NEW s1 \in Nat \ {0}, NEW s2 \in Nat \ {0},
           NEW q1 \in Nat, NEW q2 \in Nat, NEW r \in Nat \ {0},
           2 * s1 * q1 <= 2 * p1 * r + s1, 2 * p2 * r + s2 < 2 * s2 * (q2 + 1), q1 > q2
    PROVE  p1 * s2 > p2 * s1
  OBVIOUS

\* What is more after rounding was more before.
LEMMA YieldsCompare ==
    ASSUME NEW p1 \in Int, NEW p2 \in Int, NEW s1 \in Nat \ {0}, NEW s2 \in Nat \ {0},
           HalfUp(p1, s1) > HalfUp(p2, s2)
    PROVE  p1 * s2 > p2 * s1
<1> USE PromotionConstants
<1> DEFINE a1 == IF p1 < 0 THEN - p1 ELSE p1
           a2 == IF p2 < 0 THEN - p2 ELSE p2
           q1 == (2 * a1 * Rate + s1) \div (2 * s1)
           q2 == (2 * a2 * Rate + s2) \div (2 * s2)
<1>1. HalfUp(p1, s1) = (IF p1 < 0 THEN - q1 ELSE q1)
  BY DEF HalfUp
<1>2. HalfUp(p2, s2) = (IF p2 < 0 THEN - q2 ELSE q2)
  BY DEF HalfUp
<1>3. a1 \in Nat /\ a2 \in Nat
  OBVIOUS
<1>4. a1 = (IF p1 < 0 THEN - p1 ELSE p1) /\ a2 = (IF p2 < 0 THEN - p2 ELSE p2)
  OBVIOUS
<1> HIDE DEF a1, a2
<1>5. q1 \in Nat /\ 2 * s1 * q1 <= 2 * a1 * Rate + s1 /\ 2 * a1 * Rate + s1 < 2 * s1 * (q1 + 1)
  BY <1>3, RoundedSize
<1>6. q2 \in Nat /\ 2 * s2 * q2 <= 2 * a2 * Rate + s2 /\ 2 * a2 * Rate + s2 < 2 * s2 * (q2 + 1)
  BY <1>3, RoundedSize
<1> HIDE DEF q1, q2
<1>7. CASE p1 >= 0 /\ p2 >= 0
  <2>1. q1 > q2 /\ a1 = p1 /\ a2 = p2
    BY <1>1, <1>2, <1>4, <1>7
  <2> QED
    BY <1>3, <1>5, <1>6, <2>1, LargerSize
<1>8. CASE p1 < 0 /\ p2 < 0
  <2>1. q2 > q1 /\ a1 = - p1 /\ a2 = - p2
    BY <1>1, <1>2, <1>4, <1>5, <1>6, <1>8
  <2>2. a2 * s1 > a1 * s2
    BY <1>3, <1>5, <1>6, <2>1, LargerSize
  <2> QED
    BY <2>1, <2>2
<1>9. CASE p1 >= 0 /\ p2 < 0
  BY <1>9
<1>10. CASE p1 < 0 /\ p2 >= 0
  BY <1>1, <1>2, <1>5, <1>6, <1>10
<1> QED
  BY <1>7, <1>8, <1>9, <1>10

LEMMA BooksAreTyped == MCSpec => []PromotionInv
<1>1. MCInit => PromotionInv
  BY DEF MCInit, Promotion!Init, PromotionInv
<1>2. PromotionInv /\ [MCNext]_allVars => PromotionInv'
  <2> SUFFICES ASSUME PromotionInv, [MCNext]_allVars PROVE PromotionInv'
    OBVIOUS
  <2>1. CASE Promotion!Next
    <3>1. ASSUME NEW stake \in {1, 2}
          PROVE  [stake |-> stake, status |-> "open"] \in Promotion!Coupon
      BY DEF Promotion!Coupon
    <3>2. ASSUME NEW cs \in Seq(Promotion!Coupon), NEW i \in DOMAIN cs, NEW r \in {"won", "lost"}
          PROVE  [cs EXCEPT ![i].status = r] \in Seq(Promotion!Coupon)
      <4>1. cs[i] \in Promotion!Coupon
        OBVIOUS
      <4>2. [cs[i] EXCEPT !.status = r] \in Promotion!Coupon
        BY <4>1 DEF Promotion!Coupon
      <4> QED
        BY <4>2
    <3>3. CASE Promotion!Place
      BY <3>1, <3>3 DEF PromotionInv, Promotion!Place
    <3>4. CASE Promotion!PlaceBaseline
      BY <3>1, <3>4 DEF PromotionInv, Promotion!PlaceBaseline
    <3>5. CASE Promotion!Settle
      <4>1. ASSUME NEW i \in DOMAIN book, NEW r \in {"won", "lost"},
                   book' = [book EXCEPT ![i].status = r], UNCHANGED base
            PROVE  PromotionInv'
        BY <3>2, <4>1, Zenon DEF PromotionInv
      <4>2. ASSUME NEW i \in DOMAIN base, NEW r \in {"won", "lost"},
                   base' = [base EXCEPT ![i].status = r], UNCHANGED book
            PROVE  PromotionInv'
        BY <3>2, <4>2, Zenon DEF PromotionInv
      <4> QED
        BY <3>5, <4>1, <4>2, Zenon DEF Promotion!Settle
    <3>6. CASE UNCHANGED <<book, base>>
      BY <3>6 DEF PromotionInv
    <3> QED
      BY <2>1, <3>3, <3>4, <3>5, <3>6 DEF Promotion!Next, Promotion!Promote, Promotion!Withdraw
  <2>2. CASE UNCHANGED promotionVars
    BY <2>2 DEF PromotionInv, promotionVars
  <2>3. Promotion!Next \/ UNCHANGED promotionVars
    BY DEF MCNext, allVars
  <2> QED
    BY <2>1, <2>2, <2>3
<1> QED
  BY <1>1, <1>2, PTL DEF MCSpec

\* A strategy is promoted only on a book that earns, that earns more for its
\* stakes than the baseline's before any rounding, and that at no point lay
\* further than the allowed drop under an earlier point, whatever the sample, the
\* drop, the rounding and the length of the two books (promote_strategy,
\* promotion_block, net_yield, max_drawdown).
THEOREM PromotedHolds == MCSpec => PromotedBookHolds
<1>1. ASSUME PromotionInv, Promotion!Promote
      PROVE  LET own == Promotion!Settled(book)
                 other == Promotion!Settled(base)
                 Level(i) == Promotion!Sum(SubSeq(Promotion!Pnls(own), 1, i))
             IN  /\ Len(own) >= Sample /\ Promotion!Sum(Promotion!Pnls(own)) > 0
                 /\ Promotion!Sum(Promotion!Pnls(own)) * Promotion!Stakes(other)
                      > Promotion!Sum(Promotion!Pnls(other)) * Promotion!Stakes(own)
                 /\ \A i, j \in 0 .. Len(own) : i <= j => Level(i) - Level(j) <= MaxDrop
  <2> DEFINE own == Promotion!Settled(book)
             other == Promotion!Settled(base)
             p1 == Promotion!Sum(Promotion!Pnls(own))
             p2 == Promotion!Sum(Promotion!Pnls(other))
             s1 == Promotion!Stakes(own)
             s2 == Promotion!Stakes(other)
             Level(i) == Promotion!Sum(SubSeq(Promotion!Pnls(own), 1, i))
  <2>1. own \in Seq(Promotion!Coupon) /\ other \in Seq(Promotion!Coupon)
    BY <1>1, SettledIsABook DEF PromotionInv
  <2>2. /\ Len(own) >= Sample /\ own # <<>> /\ other # <<>>
        /\ Promotion!NetYield(own) > 0
        /\ Promotion!NetYield(own) > Promotion!NetYield(other)
        /\ Promotion!MaxDrawdown(own) <= MaxDrop
    BY <1>1 DEF Promotion!Promote, Promotion!MayPromote
  <2> HIDE DEF own, other
  <2>3. Len(own) # 0 /\ Len(other) # 0
    BY <2>1, <2>2
  <2>4. s1 \in Nat \ {0} /\ s2 \in Nat \ {0}
    BY <2>1, <2>3, StakesOfABook
  <2>5. /\ Promotion!Pnls(own) \in Seq(Int) /\ Len(Promotion!Pnls(own)) = Len(own)
        /\ Promotion!Pnls(other) \in Seq(Int)
    BY <2>1, PnlsAreAmounts
  <2>6. p1 \in Int /\ p2 \in Int
    <3>1. ASSUME NEW s \in Seq(Int) PROVE Promotion!Sum(s) \in Int
      <4>1. Len(s) \in 0 .. Len(s)
        OBVIOUS
      <4>2. Totals(s)[Len(s)] \in Int
        BY <4>1, TotalsOf
      <4> QED
        BY <4>2, SumIsTotal
    <3> QED
      BY <2>5, <3>1
  <2>7. Promotion!NetYield(own) = HalfUp(p1, s1) /\ Promotion!NetYield(other) = HalfUp(p2, s2)
    BY YieldRounds
  <2> HIDE DEF p1, p2, s1, s2
  <2>8. p1 > 0
    BY <2>2, <2>4, <2>6, <2>7, YieldOfAnEarner
  <2>9. p1 * s2 > p2 * s1
    BY <2>2, <2>4, <2>6, <2>7, YieldsCompare
  <2>10. ASSUME NEW i \in 0 .. Len(own) PROVE Level(i) = Totals(Promotion!Pnls(own))[i]
    <3> DEFINE s == Promotion!Pnls(own)
               t == SubSeq(s, 1, i)
    <3>1. s \in Seq(Int) /\ i \in Nat /\ i <= Len(s)
      BY <2>1, <2>5
    <3> HIDE DEF s
    <3>2. t \in Seq(Int) /\ Len(t) = i /\ \A k \in 1 .. i : t[k] = s[k]
      BY <3>1
    <3> HIDE DEF t
    <3>3. Totals(t)[i] = Totals(s)[i]
      BY <3>1, <3>2, SamePrefix
    <3>4. Level(i) = Totals(t)[Len(t)]
      BY SumIsTotal DEF t, s
    <3> QED
      BY <3>2, <3>3, <3>4 DEF s
  <2>11. ASSUME NEW i \in 0 .. Len(own), NEW j \in 0 .. Len(own), i <= j
         PROVE  Level(i) - Level(j) <= MaxDrop
    <3>1. Totals(Promotion!Pnls(own))[i] - Totals(Promotion!Pnls(own))[j]
             <= Promotion!MaxDrawdown(own)
      BY <2>1, <2>11, DropIsBounded
    <3>2. Totals(Promotion!Pnls(own))[i] \in Int /\ Totals(Promotion!Pnls(own))[j] \in Int
      BY <2>5, TotalsOf
    <3>3. Promotion!MaxDrawdown(own) \in Int
      <4>1. Len(own) \in 0 .. Len(own)
        BY <2>1
      <4>2. DropsUpTo(own)[Len(own)] \in Drops
        BY <2>1, <4>1, DropsOf
      <4> QED
        BY <4>2, DrawdownUnfolds DEF Drops
    <3> QED
      BY <2>2, <2>10, <3>1, <3>2, <3>3, PromotionConstants
  <2> QED
    BY <2>2, <2>8, <2>9, <2>11 DEF own, other, p1, p2, s1, s2
<1>2. PromotionInv /\ [MCNext]_allVars =>
        [status = "sandbox" /\ status' = "promoted" => Promotion!Promote]_(Promotion!vars)
  <2> SUFFICES ASSUME PromotionInv, [MCNext]_allVars, status = "sandbox", status' = "promoted"
               PROVE  Promotion!Promote
    OBVIOUS
  <2>1. Promotion!Next
    BY DEF MCNext, allVars, promotionVars
  <2> QED
    BY <2>1 DEF Promotion!Next, Promotion!Place, Promotion!PlaceBaseline, Promotion!Settle,
                Promotion!Withdraw
<1>3. PromotionInv /\ [MCNext]_allVars =>
        [status = "sandbox" /\ status' = "promoted" =>
         LET own == Promotion!Settled(book)
             other == Promotion!Settled(base)
             Level(i) == Promotion!Sum(SubSeq(Promotion!Pnls(own), 1, i))
         IN  /\ Len(own) >= Sample /\ Promotion!Sum(Promotion!Pnls(own)) > 0
             /\ Promotion!Sum(Promotion!Pnls(own)) * Promotion!Stakes(other)
                  > Promotion!Sum(Promotion!Pnls(other)) * Promotion!Stakes(own)
             /\ \A i, j \in 0 .. Len(own) : i <= j => Level(i) - Level(j) <= MaxDrop
        ]_(Promotion!vars)
  BY <1>1, <1>2, Zenon
<1> QED
  BY <1>3, BooksAreTyped, PTL DEF MCSpec, PromotedBookHolds, Promotion!PromotedBookHolds

-----------------------------------------------------------------------------
(* The sandbox book.                                                       *)

\* What the record of a decision says of its leg, in a book of the model.
LegAgrees(l) ==
    /\ l.status = "open" => l.goal = "none"
    /\ l.status = "won"  => l.goal = "yes"
    /\ l.status = "lost" => l.goal = "no"

BookLeg(k) == {l \in [n : 0 .. BookGoals, status : Sandbox!LegStatus,
                      goal : {"none", "yes", "no"}] : k = "llm" => LegAgrees(l)}
LegsOf(k) == UNION {[S -> BookLeg(k)] : S \in SUBSET BookMatches}
BookCoupon(k) == [stake : Nat, status : {"open", "won", "lost", "void"}, legs : LegsOf(k)]

SandboxInv ==
    /\ kind \in {"baseline", "llm"} /\ bookStatus \in {"sandbox", "paused"}
    /\ played \in [BookMatches -> [phase : Sandbox!Phases,
                                   goals : Sandbox!Goals \cup {Sandbox!NoTotal}]]
    /\ \A f \in BookMatches : played[f].goals = Sandbox!NoTotal => played[f].phase = "finished"
    /\ refreshed \subseteq BookMatches /\ late \subseteq BookMatches
    /\ slips \in Seq(BookCoupon(kind))
    /\ corrected \in BOOLEAN /\ moves \in 0 .. BookMoves
    /\ ~corrected => Sandbox!Balance(slips) >= 0

LEMMA CardinalityAlike == \A S : Sandbox!Cardinality(S) = Cardinality(S)
  BY DEF Sandbox!Cardinality, Cardinality

\* The powers of two up to 2^k.
Doubled(k) == CHOOSE f : f = [i \in 0 .. k |-> IF i = 0 THEN 1 ELSE 2 * f[i - 1]]

LEMMA OddIsPositive ==
    ASSUME NEW k \in Nat
    PROVE  Sandbox!CombinedOdd(k) \in Nat \ {0}
<1> DEFINE V == Nat \ {0}
           one == 1
           step == [i \in 1 .. k |-> [v \in V |-> 2 * v]]
           t == Doubled(k)
<1>1. one \in V /\ step \in [1 .. k -> [V -> V]] /\ \A i \in 1 .. k, v \in V : step[i][v] = 2 * v
  OBVIOUS
<1>2. PICK f : Recursive(f, V, k, one, step)
  <2> HIDE DEF step, one, V
  <2> QED
    BY <1>1, RecursiveFunction
<1>3. f = [i \in 0 .. k |-> IF i = 0 THEN 1 ELSE 2 * f[i - 1]]
  <2> HIDE DEF step, V
  <2>1. f = [i \in 0 .. k |-> f[i]]
    BY <1>2 DEF Recursive
  <2>2. ASSUME NEW i \in 0 .. k PROVE f[i] = IF i = 0 THEN 1 ELSE 2 * f[i - 1]
    <3>1. CASE i = 0
      BY <1>2, <3>1 DEF Recursive
    <3>2. CASE i # 0
      <4>1. i \in 1 .. k /\ i - 1 \in 0 .. k
        BY <3>2
      <4>2. f[i - 1] \in V /\ f[i] = step[i][f[i - 1]]
        BY <1>2, <4>1 DEF Recursive
      <4> QED
        BY <1>1, <3>2, <4>1, <4>2
    <3> QED
      BY <3>1, <3>2
  <2> QED
    BY <2>1, <2>2
<1>4. t = [i \in 0 .. k |-> IF i = 0 THEN 1 ELSE 2 * t[i - 1]]
  BY <1>3 DEF Doubled
<1> HIDE DEF t
<1>5. t[0] \in V
  BY <1>4
<1>6. ASSUME NEW i \in 1 .. k, t[i - 1] \in V PROVE t[i] \in V
  <2>1. i \in 0 .. k /\ i # 0
    OBVIOUS
  <2>2. t[i] = 2 * t[i - 1]
    BY <1>4, <2>1
  <2> QED
    BY <1>6, <2>2
<1>7. \A i \in 0 .. k : t[i] \in V
  <2> HIDE DEF V
  <2> QED
    BY <1>5, <1>6, RecursiveStays
<1>8. Sandbox!CombinedOdd(k) = t[k]
  BY DEF Sandbox!CombinedOdd, Doubled, t
<1> QED
  BY <1>7, <1>8

LEMMA PnlOfACoupon ==
    ASSUME NEW k, NEW c \in BookCoupon(k)
    PROVE  /\ Sandbox!Pnl(c) \in Int /\ c.stake \in Nat
           /\ c.status = "open" => Sandbox!Pnl(c) = - c.stake
           /\ Sandbox!Pnl(c) >= - c.stake
<1>1. c.stake \in Nat /\ c.status \in {"open", "won", "lost", "void"} /\ c.legs \in LegsOf(k)
  BY DEF BookCoupon
<1> DEFINE won == {f \in DOMAIN c.legs : c.legs[f].status = "won"}
           m == Cardinality(won)
           odd == Sandbox!CombinedOdd(m)
<1>2. odd \in Nat \ {0}
  <2>1. won \subseteq BookMatches
    BY <1>1 DEF LegsOf
  <2> HIDE DEF won
  <2>2. IsFiniteSet(won)
    BY <2>1, FS_Subset, BookConstants
  <2>3. m \in Nat
    BY <2>2, FS_CardinalityType
  <2> HIDE DEF m
  <2> QED
    BY <2>3, OddIsPositive
<1>3. Sandbox!WonPnl(c) = c.stake * (odd - 1)
  BY CardinalityAlike DEF Sandbox!WonPnl
<1> HIDE DEF odd
<1>4. Sandbox!WonPnl(c) \in Nat
  BY <1>1, <1>2, <1>3
<1>5. CASE c.status \in {"open", "lost"}
  BY <1>1, <1>5 DEF Sandbox!Pnl
<1>6. CASE c.status = "won"
  <2>1. Sandbox!Pnl(c) = Sandbox!WonPnl(c)
    BY <1>6 DEF Sandbox!Pnl
  <2> QED
    BY <1>1, <1>4, <1>6, <2>1
<1>7. CASE c.status = "void"
  BY <1>1, <1>7 DEF Sandbox!Pnl
<1> QED
  BY <1>1, <1>5, <1>6, <1>7

\* The profit and loss of each coupon of a book, as its balance adds them up.
BookPnls(cs) == [i \in DOMAIN cs |-> Sandbox!Pnl(cs[i])]

LEMMA BookPnlsAreAmounts ==
    ASSUME NEW k, NEW cs \in Seq(BookCoupon(k))
    PROVE  /\ BookPnls(cs) \in Seq(Int) /\ Len(BookPnls(cs)) = Len(cs)
           /\ \A i \in 1 .. Len(cs) : BookPnls(cs)[i] = Sandbox!Pnl(cs[i])
           /\ Sandbox!Balance(cs) \in Int
           /\ Sandbox!Balance(cs) = Bankroll + Totals(BookPnls(cs))[Len(cs)]
<1>1. \A i \in 1 .. Len(cs) : Sandbox!Pnl(cs[i]) \in Int
  <2>1. \A i \in 1 .. Len(cs) : cs[i] \in BookCoupon(k)
    OBVIOUS
  <2> QED
    BY <2>1, PnlOfACoupon
<1>2. DOMAIN cs = 1 .. Len(cs) /\ Len(cs) \in Nat
  OBVIOUS
<1>3. /\ BookPnls(cs) \in Seq(Int) /\ Len(BookPnls(cs)) = Len(cs)
      /\ \A i \in 1 .. Len(cs) : BookPnls(cs)[i] = Sandbox!Pnl(cs[i])
  BY <1>1, <1>2 DEF BookPnls
<1>4. Sandbox!Balance(cs) = Bankroll + Totals(BookPnls(cs))[Len(cs)]
  BY <1>3, SumIsTotal DEF Sandbox!Balance, BookPnls
<1>5. Totals(BookPnls(cs))[Len(cs)] \in Int
  <2>1. Len(cs) \in 0 .. Len(BookPnls(cs))
    BY <1>2, <1>3
  <2> QED
    BY <1>3, <2>1, TotalsOf
<1> QED
  BY <1>3, <1>4, <1>5, BookConstants

\* One more coupon.
LEMMA BalanceOfAppended ==
    ASSUME NEW k, NEW cs \in Seq(BookCoupon(k)), NEW c \in BookCoupon(k)
    PROVE  Sandbox!Balance(Append(cs, c)) = Sandbox!Balance(cs) + Sandbox!Pnl(c)
<1> DEFINE ds == Append(cs, c)
           n == Len(cs)
           s == BookPnls(cs)
           t == BookPnls(ds)
<1>1. /\ ds \in Seq(BookCoupon(k)) /\ Len(ds) = n + 1 /\ n \in Nat /\ ds[n + 1] = c
      /\ \A i \in 1 .. n : ds[i] = cs[i] /\ i \in 1 .. n + 1
  OBVIOUS
<1> HIDE DEF ds
<1>2. /\ s \in Seq(Int) /\ Len(s) = n /\ \A i \in 1 .. n : s[i] = Sandbox!Pnl(cs[i])
      /\ Sandbox!Balance(cs) = Bankroll + Totals(s)[n]
  BY BookPnlsAreAmounts
<1>3. /\ t \in Seq(Int) /\ Len(t) = n + 1
      /\ \A i \in 1 .. n + 1 : t[i] = Sandbox!Pnl(ds[i])
      /\ Sandbox!Balance(ds) = Bankroll + Totals(t)[n + 1]
  BY <1>1, BookPnlsAreAmounts
<1> HIDE DEF s, t, n
<1>4. n <= Len(s) /\ n <= Len(t) /\ \A i \in 1 .. n : s[i] = t[i]
  BY <1>1, <1>2, <1>3
<1>5. Totals(s)[n] = Totals(t)[n]
  BY <1>1, <1>2, <1>3, <1>4, SamePrefix
<1>6. n + 1 \in 1 .. Len(t) /\ (n + 1) - 1 = n /\ t[n + 1] = Sandbox!Pnl(c) /\ n \in 0 .. Len(t)
  BY <1>1, <1>3
<1>7. Totals(t)[n + 1] = Totals(t)[n] + t[n + 1] /\ Totals(t)[n] \in Int
  BY <1>3, <1>6, TotalsOf
<1>8. Sandbox!Pnl(c) \in Int
  BY PnlOfACoupon
<1> QED
  BY <1>2, <1>3, <1>5, <1>6, <1>7, <1>8, BookConstants DEF ds

\* Coupons that are worth no less make a balance that is no less.
LEMMA BalanceGrows ==
    ASSUME NEW k, NEW cs \in Seq(BookCoupon(k)), NEW ds \in Seq(BookCoupon(k)),
           Len(cs) = Len(ds), \A i \in 1 .. Len(cs) : Sandbox!Pnl(cs[i]) <= Sandbox!Pnl(ds[i])
    PROVE  Sandbox!Balance(cs) <= Sandbox!Balance(ds)
<1> DEFINE s == BookPnls(cs)
           t == BookPnls(ds)
<1>1. /\ s \in Seq(Int) /\ Len(s) = Len(cs) /\ \A i \in 1 .. Len(cs) : s[i] = Sandbox!Pnl(cs[i])
      /\ Sandbox!Balance(cs) = Bankroll + Totals(s)[Len(cs)]
  BY BookPnlsAreAmounts
<1>2. /\ t \in Seq(Int) /\ Len(t) = Len(cs) /\ \A i \in 1 .. Len(cs) : t[i] = Sandbox!Pnl(ds[i])
      /\ Sandbox!Balance(ds) = Bankroll + Totals(t)[Len(cs)]
  BY BookPnlsAreAmounts
<1> HIDE DEF s, t
<1>3. Totals(s)[Len(s)] <= Totals(t)[Len(t)]
  BY <1>1, <1>2, TotalsGrow
<1>4. Totals(s)[Len(s)] \in Int /\ Totals(t)[Len(t)] \in Int
  <2>1. Len(s) \in 0 .. Len(s) /\ Len(t) \in 0 .. Len(t)
    BY <1>1, <1>2
  <2> QED
    BY <1>1, <1>2, <2>1, TotalsOf
<1> QED
  BY <1>1, <1>2, <1>3, <1>4, BookConstants

LEMMA StakeIsAnAmount ==
    ASSUME NEW k, NEW cs \in Seq(BookCoupon(k))
    PROVE  Sandbox!StakeAfterWins(cs) \in Nat
<1> DEFINE won == {i \in DOMAIN cs : cs[i].status = "won"}
<1>1. won \subseteq 1 .. Len(cs) /\ Len(cs) \in Int /\ 1 \in Int
  OBVIOUS
<1> HIDE DEF won
<1>2. IsFiniteSet(won)
  <2>1. IsFiniteSet(1 .. Len(cs))
    BY <1>1, FS_Interval
  <2> QED
    BY <1>1, <2>1, FS_Subset
<1>3. Cardinality(won) \in Nat
  BY <1>2, FS_CardinalityType
<1>4. Sandbox!StakeAfterWins(cs) = 1 + StakeStep * Cardinality(won)
  BY CardinalityAlike DEF Sandbox!StakeAfterWins, won
<1> QED
  BY <1>3, <1>4, BookConstants

\* A slip costs its stake, or nothing when a leg of it is taken.
LEMMA InsertStep ==
    ASSUME SandboxInv, NEW cs \in Seq(BookCoupon(kind)), NEW stake \in Nat,
           NEW s \in SUBSET Sandbox!Playable
    PROVE  /\ Sandbox!InsertSlip(cs, s, stake) \in Seq(BookCoupon(kind))
           /\ Sandbox!Balance(Sandbox!InsertSlip(cs, s, stake)) >= Sandbox!Balance(cs) - stake
<1> DEFINE c == [stake |-> stake, status |-> "open",
                 legs |-> [f \in s |-> [n |-> played[f].goals, status |-> "open",
                                        goal |-> "none"]]]
<1>1. \A f \in s : f \in BookMatches /\ played[f].phase = "play"
  BY DEF Sandbox!Playable
<1>2. \A f \in s : played[f].goals \in 0 .. BookGoals
  BY <1>1 DEF SandboxInv, Sandbox!Goals
<1>3. \A f \in s : [n |-> played[f].goals, status |-> "open", goal |-> "none"] \in BookLeg(kind)
  BY <1>2 DEF BookLeg, LegAgrees, Sandbox!LegStatus
<1>4. c.legs \in [s -> BookLeg(kind)] /\ s \in SUBSET BookMatches
  BY <1>1, <1>3
<1>5. c.legs \in LegsOf(kind)
  BY <1>4, Zenon DEF LegsOf
<1>6. c \in BookCoupon(kind) /\ c.status = "open" /\ c.stake = stake
  BY <1>5 DEF BookCoupon
<1>7. Sandbox!InsertSlip(cs, s, stake) \in {cs, Append(cs, c)}
  BY DEF Sandbox!InsertSlip
<1> HIDE DEF c
<1>8. Sandbox!Balance(cs) \in Int
  BY BookPnlsAreAmounts
<1>9. CASE Sandbox!InsertSlip(cs, s, stake) = cs
  BY <1>8, <1>9
<1>10. CASE Sandbox!InsertSlip(cs, s, stake) = Append(cs, c)
  <2>1. Sandbox!Balance(Append(cs, c)) = Sandbox!Balance(cs) + Sandbox!Pnl(c)
    BY <1>6, BalanceOfAppended
  <2>2. Sandbox!Pnl(c) = - stake
    BY <1>6, PnlOfACoupon
  <2> QED
    BY <1>6, <1>8, <1>10, <2>1, <2>2
<1> QED
  BY <1>7, <1>9, <1>10

\* The book after each of the slips sl.
PlacedUpTo(sl) ==
    LET stake == Sandbox!StakeAfterWins(slips) IN
    CHOOSE f : f = [i \in 0 .. Len(sl) |->
                      IF i = 0 THEN slips
                      ELSE IF Sandbox!Balance(f[i - 1]) < stake THEN f[i - 1]
                      ELSE Sandbox!InsertSlip(f[i - 1], sl[i], stake)]

\* A batch of slips leaves a balance that the first of them found above zero there.
LEMMA SlipsPlaced ==
    ASSUME SandboxInv, NEW sl, Len(sl) \in Nat,
           \A i \in 1 .. Len(sl) : sl[i] \in SUBSET Sandbox!Playable
    PROVE  /\ Sandbox!PlaceSlips(sl) \in Seq(BookCoupon(kind))
           /\ Sandbox!Balance(slips) >= 0 => Sandbox!Balance(Sandbox!PlaceSlips(sl)) >= 0
<1> DEFINE V == {v \in Seq(BookCoupon(kind)) :
                    Sandbox!Balance(slips) >= 0 => Sandbox!Balance(v) >= 0}
           n == Len(sl)
           first == slips
           stake == Sandbox!StakeAfterWins(slips)
           After(v, i) == IF Sandbox!Balance(v) < stake THEN v
                             ELSE Sandbox!InsertSlip(v, sl[i], stake)
           step == [i \in 1 .. n |-> [v \in V |-> After(v, i)]]
           t == PlacedUpTo(sl)
<1>1. n \in Nat /\ first \in V
  BY DEF SandboxInv
<1>2. stake \in Nat
  BY StakeIsAnAmount DEF SandboxInv
<1>3. ASSUME NEW i \in 1 .. n, NEW v \in V PROVE After(v, i) \in V
  <2>1. v \in Seq(BookCoupon(kind)) /\ sl[i] \in SUBSET Sandbox!Playable
    OBVIOUS
  <2> DEFINE w == Sandbox!InsertSlip(v, sl[i], stake)
  <2>2. CASE Sandbox!Balance(v) < stake
    BY <2>2
  <2>3. CASE ~(Sandbox!Balance(v) < stake)
    <3>1. After(v, i) = w
      BY <2>3
    <3> HIDE DEF stake
    <3>2. w \in Seq(BookCoupon(kind)) /\ Sandbox!Balance(w) >= Sandbox!Balance(v) - stake
      BY <1>2, <2>1, InsertStep
    <3> HIDE DEF w
    <3>3. Sandbox!Balance(v) \in Int /\ Sandbox!Balance(w) \in Int
      BY <2>1, <3>2, BookPnlsAreAmounts
    <3>4. Sandbox!Balance(w) >= 0
      BY <1>2, <2>3, <3>2, <3>3
    <3> QED
      BY <3>1, <3>2, <3>4
  <2> QED
    BY <2>2, <2>3
<1>4. step \in [1 .. n -> [V -> V]] /\ \A i \in 1 .. n, v \in V : step[i][v] = After(v, i)
  <2> HIDE DEF V, n, After
  <2> QED
    BY <1>3
<1>5. PICK f : Recursive(f, V, n, first, step)
  <2> HIDE DEF step, n, first, V
  <2> QED
    BY <1>1, <1>4, RecursiveFunction
<1>6. f = [i \in 0 .. n |-> IF i = 0 THEN slips
                            ELSE IF Sandbox!Balance(f[i - 1]) < stake THEN f[i - 1]
                            ELSE Sandbox!InsertSlip(f[i - 1], sl[i], stake)]
  <2> HIDE DEF step, V, stake
  <2>1. f = [i \in 0 .. n |-> f[i]]
    BY <1>5 DEF Recursive
  <2>2. ASSUME NEW i \in 0 .. n
        PROVE  f[i] = IF i = 0 THEN slips
                      ELSE IF Sandbox!Balance(f[i - 1]) < stake THEN f[i - 1]
                      ELSE Sandbox!InsertSlip(f[i - 1], sl[i], stake)
    <3>1. CASE i = 0
      BY <1>5, <3>1 DEF Recursive
    <3>2. CASE i # 0
      <4>1. i \in 1 .. n /\ i - 1 \in 0 .. n
        BY <1>1, <3>2
      <4>2. f[i - 1] \in V /\ f[i] = step[i][f[i - 1]]
        BY <1>5, <4>1 DEF Recursive
      <4> QED
        BY <1>4, <3>2, <4>1, <4>2
    <3> QED
      BY <3>1, <3>2
  <2> QED
    BY <2>1, <2>2
<1>7. t = [i \in 0 .. Len(sl) |-> IF i = 0 THEN slips
                            ELSE IF Sandbox!Balance(t[i - 1]) < stake THEN t[i - 1]
                            ELSE Sandbox!InsertSlip(t[i - 1], sl[i], stake)]
  BY <1>6 DEF PlacedUpTo
<1>8. Sandbox!PlaceSlips(sl) = t[n]
  BY DEF Sandbox!PlaceSlips, PlacedUpTo
<1> HIDE DEF t
<1>9. t[0] \in V
  BY <1>1, <1>7
<1>10. ASSUME NEW i \in 1 .. n, t[i - 1] \in V PROVE t[i] \in V
  <2>1. i \in 0 .. Len(sl) /\ i # 0
    BY <1>1
  <2>2. t[i] = After(t[i - 1], i)
    BY <1>7, <2>1
  <2> HIDE DEF V, After
  <2> QED
    BY <1>3, <1>10, <2>2
<1>11. \A i \in 0 .. n : t[i] \in V
  <2> HIDE DEF V, n
  <2> QED
    BY <1>1, <1>9, <1>10, RecursiveStays
<1> QED
  BY <1>1, <1>8, <1>11

LEMMA BatchStep ==
    ASSUME SandboxInv, NEW sl, Len(sl) \in Nat,
           \A i \in 1 .. Len(sl) : sl[i] \in SUBSET Sandbox!Playable,
           Sandbox!PlaceSandboxCoupons(sl),
           UNCHANGED <<kind, played, refreshed, late, corrected, moves>>
    PROVE  SandboxInv'
<1>1. slips' = Sandbox!PlaceSlips(sl) /\ bookStatus' \in {"sandbox", "paused"}
  BY DEF Sandbox!PlaceSandboxCoupons, SandboxInv
<1>2. slips' \in Seq(BookCoupon(kind)) /\ (~corrected => Sandbox!Balance(slips') >= 0)
  BY <1>1, SlipsPlaced DEF SandboxInv
<1>3. BookCoupon(kind') = BookCoupon(kind)
  OBVIOUS
<1> QED
  BY <1>1, <1>2, <1>3 DEF SandboxInv

LEMMA BaselineStep ==
    ASSUME SandboxInv, Sandbox!PlaceBaseline
    PROVE  SandboxInv'
<1> DEFINE sl == Sandbox!BaselineSlips
           m == Cardinality(Sandbox!Playable)
<1>1. Sandbox!Playable \subseteq BookMatches
  BY DEF Sandbox!Playable
<1>2. IsFiniteSet(Sandbox!Playable)
  BY <1>1, FS_Subset, BookConstants
<1>3. m \in Nat
  BY <1>2, FS_CardinalityType
<1>4. sl = [i \in 1 .. m |-> {f \in Sandbox!Playable :
                  Sandbox!Cardinality({g \in Sandbox!Playable : g < f}) = i - 1}]
  BY CardinalityAlike DEF Sandbox!BaselineSlips
<1> HIDE DEF m
<1>5. \A i \in 1 .. m : sl[i] \in SUBSET Sandbox!Playable
  BY <1>4
<1>6. sl \in Seq(SUBSET Sandbox!Playable)
  BY <1>3, <1>4, <1>5
<1> HIDE DEF sl
<1>7. Len(sl) \in Nat /\ \A i \in 1 .. Len(sl) : sl[i] \in SUBSET Sandbox!Playable
  BY <1>6
<1>8. /\ Sandbox!PlaceSandboxCoupons(sl)
      /\ UNCHANGED <<kind, played, refreshed, late, corrected, moves>>
  BY DEF Sandbox!PlaceBaseline, sl
<1> QED
  BY <1>7, <1>8, BatchStep

LEMMA ReplyStep ==
    ASSUME SandboxInv, NEW sl \in Sandbox!Replies, Sandbox!PlaceReply(sl)
    PROVE  SandboxInv'
<1>1. Len(sl) \in Nat
  BY DEF Sandbox!Replies
<1>2. \A i \in 1 .. Len(sl) : sl[i] \in SUBSET Sandbox!Playable
  BY DEF Sandbox!PlaceReply
<1>3. /\ Sandbox!PlaceSandboxCoupons(sl)
      /\ UNCHANGED <<kind, played, refreshed, late, corrected, moves>>
  BY DEF Sandbox!PlaceReply
<1> QED
  BY <1>1, <1>2, <1>3, BatchStep

\* Settling a leg and recording its decision go together.
LEMMA SettledLegAgrees ==
    ASSUME SandboxInv, NEW l \in BookLeg(kind), NEW f \in BookMatches
    PROVE  LET s == Sandbox!SettledLeg(l, f) IN
           /\ kind = "baseline" => s \in BookLeg(kind)
           /\ kind = "llm" => Sandbox!RecordCounterfactual(s, f) \in BookLeg(kind)
<1> DEFINE new == Sandbox!Verdict(l.n, f)
           s == Sandbox!SettledLeg(l, f)
           r == Sandbox!RecordCounterfactual(s, f)
           Record == [n : 0 .. BookGoals, status : Sandbox!LegStatus,
                      goal : {"none", "yes", "no"}]
           known == /\ played[f].phase = "finished" /\ f \in refreshed
                    /\ played[f].goals # Sandbox!NoTotal
           after == played[f].goals > l.n
           kept == new = "pending" \/ (l.status # "open" /\ f \in late)
           told == known /\ (l.goal = "none" \/ f \notin late)
<1>1. l \in Record /\ (kind = "llm" => LegAgrees(l))
  BY DEF BookLeg
<1>2. played[f].phase \in Sandbox!Phases
  BY DEF SandboxInv
<1>3. /\ known => new = (IF after THEN "won" ELSE "lost")
      /\ ~known => new \in {"void", "manual", "pending"}
  <2>1. CASE played[f].phase = "irregular"
    BY <2>1 DEF Sandbox!Verdict, Sandbox!SettleLeg
  <2>2. CASE played[f].phase \in {"play", "off"}
    BY <2>2 DEF Sandbox!Verdict, Sandbox!SettleLeg
  <2>3. CASE played[f].phase = "finished"
    BY <2>3 DEF Sandbox!Verdict, Sandbox!SettleLeg
  <2> QED
    BY <1>2, <2>1, <2>2, <2>3 DEF Sandbox!Phases
<1>4. s = IF kept THEN l ELSE [l EXCEPT !.status = new]
  BY DEF Sandbox!SettledLeg
<1>5. r = IF known /\ (s.goal = "none" \/ f \notin late)
          THEN [s EXCEPT !.goal = IF played[f].goals > s.n THEN "yes" ELSE "no"]
          ELSE s
  BY DEF Sandbox!RecordCounterfactual
<1> HIDE DEF known, after, new, s, r
<1>6. CASE kept
  <2>1. s = l /\ r = IF told THEN [l EXCEPT !.goal = IF after THEN "yes" ELSE "no"] ELSE l
    BY <1>4, <1>5, <1>6 DEF after
  <2>2. s \in BookLeg(kind)
    BY <2>1
  <2>3. ASSUME kind = "llm", told PROVE r \in BookLeg(kind)
    <3>1. l.status # "open" /\ l.goal = "none"
      BY <1>3, <1>6, <2>3
    <3>2. r \in Record /\ r.status = l.status
      BY <1>1, <2>1, <2>3
    <3>3. LegAgrees(r)
      BY <1>1, <2>3, <3>1, <3>2 DEF LegAgrees
    <3> QED
      BY <3>2, <3>3 DEF BookLeg
  <2> QED
    BY <2>1, <2>2, <2>3 DEF s, r
<1>7. CASE ~kept
  <2>1. s = [l EXCEPT !.status = new] /\ new # "pending"
    BY <1>4, <1>7
  <2>2. new \in {"void", "manual", "won", "lost"}
    BY <1>3, <2>1
  <2>3. s \in Record /\ s.status = new /\ s.goal = l.goal /\ s.n = l.n
    BY <1>1, <2>1, <2>2 DEF Sandbox!LegStatus
  <2>4. r = IF told THEN [s EXCEPT !.goal = IF after THEN "yes" ELSE "no"] ELSE s
    BY <1>5, <2>3 DEF after
  <2>5. kind = "baseline" => s \in BookLeg(kind)
    BY <2>3 DEF BookLeg
  <2>6. ASSUME kind = "llm", told PROVE r \in BookLeg(kind)
    <3>1. r \in Record /\ r.status = new /\ r.goal = IF after THEN "yes" ELSE "no"
      BY <2>3, <2>4, <2>6
    <3>2. LegAgrees(r)
      BY <1>3, <2>6, <3>1 DEF LegAgrees
    <3> QED
      BY <3>1, <3>2 DEF BookLeg
  <2>7. ASSUME kind = "llm", ~told PROVE r \in BookLeg(kind)
    <3>1. r = s
      BY <2>4, <2>7
    <3>2. ~known
      BY <1>1, <1>7, <2>7 DEF LegAgrees
    <3>3. LegAgrees(s)
      BY <1>3, <2>3, <3>2 DEF LegAgrees
    <3> QED
      BY <2>3, <3>1, <3>3 DEF BookLeg
  <2> QED
    BY <2>5, <2>6, <2>7 DEF s, r
<1> QED
  BY <1>6, <1>7

\* A coupon that was open is worth no less once it is settled.
LEMMA SettledCouponStep ==
    ASSUME SandboxInv, NEW c \in BookCoupon(kind)
    PROVE  /\ Sandbox!SettledCoupon(c) \in BookCoupon(kind)
           /\ c.status = "open" => Sandbox!Pnl(c) <= Sandbox!Pnl(Sandbox!SettledCoupon(c))
<1> DEFINE legs == [f \in DOMAIN c.legs |-> Sandbox!SettledLeg(c.legs[f], f)]
           both == [f \in DOMAIN legs |-> Sandbox!RecordCounterfactual(legs[f], f)]
           kept == IF kind = "baseline" THEN legs ELSE both
           d == Sandbox!SettledCoupon(c)
<1>1. /\ c.stake \in Nat /\ c.status \in {"open", "won", "lost", "void"}
      /\ c.legs \in LegsOf(kind)
  BY DEF BookCoupon
<1>2. PICK S \in SUBSET BookMatches : c.legs \in [S -> BookLeg(kind)]
  BY <1>1 DEF LegsOf
<1>3. ASSUME NEW f \in S
      PROVE  /\ kind = "baseline" => legs[f] \in BookLeg(kind)
             /\ kind = "llm" => both[f] \in BookLeg(kind)
  <2>1. c.legs[f] \in BookLeg(kind) /\ f \in BookMatches /\ f \in DOMAIN c.legs
    BY <1>2
  <2>2. legs[f] = Sandbox!SettledLeg(c.legs[f], f)
        /\ both[f] = Sandbox!RecordCounterfactual(Sandbox!SettledLeg(c.legs[f], f), f)
    BY <2>1
  <2> HIDE DEF legs, both
  <2> QED
    BY <2>1, <2>2, SettledLegAgrees
<1>4. DOMAIN legs = S /\ DOMAIN both = S /\ legs = [f \in S |-> legs[f]]
      /\ both = [f \in S |-> both[f]]
  BY <1>2
<1> HIDE DEF legs, both
<1>5. kept \in [S -> BookLeg(kind)]
  BY <1>3, <1>4 DEF SandboxInv
<1> HIDE DEF kept
<1>6. kept \in LegsOf(kind)
  BY <1>5, Zenon DEF LegsOf
<1>7. \E st \in {"won", "lost", "void"} \cup {c.status} :
         d = [c EXCEPT !.legs = kept, !.status = st]
  BY DEF Sandbox!SettledCoupon, Sandbox!FinalResults, legs, both, kept
<1>8. PICK st \in {"won", "lost", "void"} \cup {c.status} :
         d = [c EXCEPT !.legs = kept, !.status = st]
  BY <1>7, Zenon
<1> HIDE DEF d
<1>9. d \in BookCoupon(kind) /\ d.stake = c.stake
  BY <1>1, <1>6, <1>8 DEF BookCoupon
<1>10. /\ Sandbox!Pnl(d) \in Int /\ Sandbox!Pnl(d) >= - d.stake
       /\ c.status = "open" => Sandbox!Pnl(c) = - c.stake
  BY <1>9, PnlOfACoupon
<1> QED
  BY <1>1, <1>9, <1>10 DEF d

LEMMA SettleBookStep ==
    ASSUME SandboxInv, Sandbox!SettleFinished
    PROVE  SandboxInv'
<1> DEFINE next == [i \in 1 .. Len(slips) |-> Sandbox!SettledCoupon(slips[i])]
<1>1. /\ slips' = next
      /\ UNCHANGED <<kind, bookStatus, played, refreshed, late, moves>>
      /\ corrected' = (corrected \/ \E i \in 1 .. Len(slips) :
                          /\ slips[i].status # "open"
                          /\ Sandbox!Pnl(slips'[i]) # Sandbox!Pnl(slips[i]))
  BY DEF Sandbox!SettleFinished
<1>2. slips \in Seq(BookCoupon(kind)) /\ Len(slips) \in Nat
      /\ \A i \in 1 .. Len(slips) : slips[i] \in BookCoupon(kind)
  BY DEF SandboxInv
<1>3. \A i \in 1 .. Len(slips) : next[i] = Sandbox!SettledCoupon(slips[i])
                                 /\ next[i] \in BookCoupon(kind)
  BY <1>2, SettledCouponStep
<1>4. next \in Seq(BookCoupon(kind)) /\ Len(next) = Len(slips)
  BY <1>2, <1>3
<1> HIDE DEF next
<1>5. ASSUME ~corrected' PROVE Sandbox!Balance(next) >= 0
  <2>1. ~corrected /\ \A i \in 1 .. Len(slips) : slips[i].status # "open"
                         => Sandbox!Pnl(next[i]) = Sandbox!Pnl(slips[i])
    BY <1>1, <1>5
  <2>2. \A i \in 1 .. Len(slips) : Sandbox!Pnl(slips[i]) <= Sandbox!Pnl(next[i])
    <3> SUFFICES ASSUME NEW i \in 1 .. Len(slips)
                 PROVE  Sandbox!Pnl(slips[i]) <= Sandbox!Pnl(next[i])
      OBVIOUS
    <3>1. slips[i] \in BookCoupon(kind) /\ next[i] = Sandbox!SettledCoupon(slips[i])
      BY <1>2, <1>3
    <3>2. Sandbox!Pnl(slips[i]) \in Int
      BY <3>1, PnlOfACoupon
    <3> QED
      BY <2>1, <3>1, <3>2, SettledCouponStep
  <2>3. Sandbox!Balance(slips) <= Sandbox!Balance(next)
    BY <1>2, <1>4, <2>2, BalanceGrows
  <2>4. Sandbox!Balance(slips) \in Int /\ Sandbox!Balance(next) \in Int
    BY <1>2, <1>4, BookPnlsAreAmounts
  <2> QED
    BY <2>1, <2>3, <2>4 DEF SandboxInv
<1>6. BookCoupon(kind') = BookCoupon(kind)
  BY <1>1
<1>7. corrected' \in BOOLEAN
  BY <1>1 DEF SandboxInv
<1> QED
  BY <1>1, <1>4, <1>5, <1>6, <1>7 DEF SandboxInv

LEMMA MatchesStep ==
    ASSUME SandboxInv, NEW f \in BookMatches,
           Sandbox!BoardMoves(f) \/ Sandbox!DetailRefreshed(f) \/ Sandbox!DayPasses(f)
    PROVE  SandboxInv'
<1>1. slips' = slips /\ kind' = kind /\ bookStatus' = bookStatus /\ corrected' = corrected
  BY DEF Sandbox!BoardMoves, Sandbox!DetailRefreshed, Sandbox!DayPasses
<1>2. BookCoupon(kind') = BookCoupon(kind)
  BY <1>1
<1>3. /\ slips' \in Seq(BookCoupon(kind')) /\ kind' \in {"baseline", "llm"}
      /\ bookStatus' \in {"sandbox", "paused"} /\ corrected' \in BOOLEAN
      /\ ~corrected' => Sandbox!Balance(slips') >= 0
  BY <1>1, <1>2 DEF SandboxInv
<1>4. CASE Sandbox!BoardMoves(f)
  <2>1. PICK phase \in Sandbox!Phases, goals \in Sandbox!Goals \cup {Sandbox!NoTotal} :
          /\ goals = Sandbox!NoTotal => phase = "finished"
          /\ played' = [played EXCEPT ![f] = [phase |-> phase, goals |-> goals]]
    BY <1>4 DEF Sandbox!BoardMoves
  <2>2. moves' \in 0 .. BookMoves /\ UNCHANGED <<refreshed, late>>
    BY <1>4, BookConstants DEF Sandbox!BoardMoves, SandboxInv
  <2> QED
    BY <1>3, <2>1, <2>2 DEF SandboxInv
<1>5. CASE Sandbox!DetailRefreshed(f)
  BY <1>3, <1>5 DEF SandboxInv, Sandbox!DetailRefreshed
<1>6. CASE Sandbox!DayPasses(f)
  BY <1>3, <1>6 DEF SandboxInv, Sandbox!DayPasses
<1> QED
  BY <1>4, <1>5, <1>6

LEMMA BookInvHolds == MCSpec => []SandboxInv
<1>1. MCInit => SandboxInv
  <2> SUFFICES ASSUME MCInit PROVE SandboxInv
    OBVIOUS
  <2>1. /\ kind \in {"baseline", "llm"} /\ bookStatus = "sandbox"
        /\ played = [f \in BookMatches |-> [phase |-> "play", goals |-> 0]]
        /\ refreshed = {} /\ late = {} /\ slips = <<>> /\ corrected = FALSE /\ moves = 0
    BY DEF MCInit, Sandbox!Init
  <2>2. slips \in Seq(BookCoupon(kind)) /\ Len(slips) = 0
    BY <2>1
  <2>3. Sandbox!Balance(slips) = Bankroll + Totals(BookPnls(slips))[0]
        /\ Totals(BookPnls(slips))[0] = 0
    BY <2>2, BookPnlsAreAmounts, TotalsOf
  <2>4. Sandbox!Balance(slips) >= 0 /\ moves \in 0 .. BookMoves
    BY <2>1, <2>3, BookConstants
  <2>5. /\ \A f \in BookMatches : played[f].goals # Sandbox!NoTotal
        /\ played \in [BookMatches -> [phase : Sandbox!Phases,
                                       goals : Sandbox!Goals \cup {Sandbox!NoTotal}]]
    BY <2>1, BookConstants DEF Sandbox!Phases, Sandbox!Goals, Sandbox!NoTotal
  <2> QED
    BY <2>1, <2>2, <2>4, <2>5 DEF SandboxInv
<1>2. SandboxInv /\ [MCNext]_allVars => SandboxInv'
  <2> SUFFICES ASSUME SandboxInv, [MCNext]_allVars PROVE SandboxInv'
    OBVIOUS
  <2>1. ASSUME UNCHANGED sandboxVars PROVE SandboxInv'
    BY <2>1 DEF SandboxInv, sandboxVars
  <2>2. CASE Sandbox!ReleaseFunded
    <3>1. UNCHANGED <<kind, played, refreshed, late, slips, corrected, moves>>
          /\ bookStatus' = "sandbox"
      BY <2>2 DEF Sandbox!ReleaseFunded
    <3> QED
      BY <3>1 DEF SandboxInv
  <2>3. CASE Sandbox!Next
    BY <2>2, <2>3, BaselineStep, SettleBookStep, ReplyStep, MatchesStep DEF Sandbox!Next
  <2>4. Sandbox!Next \/ UNCHANGED sandboxVars
    BY DEF MCNext, allVars
  <2> QED
    BY <2>1, <2>3, <2>4
<1> QED
  BY <1>1, <1>2, PTL DEF MCSpec

\* Until a settled coupon is corrected a sandbox book never owes money, and the
\* record of every decision of the model agrees with how its leg was settled,
\* whatever the bankroll, the stakes, the matches and the number of coupons
\* (place_sandbox_coupons, settle_finished, _record_counterfactuals).
THEOREM BookSound == MCSpec => []BookIsSound
<1>1. SandboxInv => BookIsSound
  <2> SUFFICES ASSUME SandboxInv PROVE Sandbox!TypeOK /\ Sandbox!BookIsSound
    BY DEF BookIsSound
  <2>1. ASSUME NEW i \in 1 .. Len(slips)
        PROVE  slips[i] \in BookCoupon(kind)
    BY DEF SandboxInv
  <2>2. ASSUME NEW i \in 1 .. Len(slips), NEW f \in DOMAIN slips[i].legs
        PROVE  slips[i].legs[f] \in BookLeg(kind)
    <3>1. slips[i].legs \in LegsOf(kind)
      BY <2>1 DEF BookCoupon
    <3> QED
      BY <3>1 DEF LegsOf
  <2>3. Sandbox!TypeOK
    <3>1. ASSUME NEW i \in 1 .. Len(slips)
          PROVE  /\ slips[i].stake \in Nat
                 /\ slips[i].status \in {"open", "won", "lost", "void"}
                 /\ \A f \in DOMAIN slips[i].legs :
                       slips[i].legs[f] \in [n : Sandbox!Goals, status : Sandbox!LegStatus,
                                             goal : {"none", "yes", "no"}]
      BY <2>1, <2>2 DEF BookCoupon, BookLeg, Sandbox!Goals
    <3> QED
      BY <3>1 DEF SandboxInv, Sandbox!TypeOK
  <2>4. Sandbox!BookIsFunded
    BY DEF SandboxInv, Sandbox!BookIsFunded
  <2>5. Sandbox!RecordAgreesWithLedger
    BY <2>2 DEF Sandbox!RecordAgreesWithLedger, BookLeg, LegAgrees
  <2> QED
    BY <2>3, <2>4, <2>5 DEF Sandbox!BookIsSound
<1> QED
  BY <1>1, BookInvHolds, PTL

-----------------------------------------------------------------------------
(* The operator's own bets.                                                *)

Settled == {"won", "lost", "void"}
Writes == UNION {[S -> Settled] : S \in SUBSET Bets}

Typed ==
    /\ pitch \in [goals : [OwnBets!Sides -> 0 .. BetGoals],
                  phase : {"live"} \cup OwnBets!Ended]
    /\ stored \in [goals : OwnBets!Scores, phase : {"live"} \cup OwnBets!Ended]
    /\ events \in [OwnBets!Sides -> 0 .. BetGoals]
    /\ bet \in [Bets -> [status : {"none", "open"} \cup Settled, snap : OwnBets!Scores,
                         by : {"nobody", "operator", "auto"}]]
    /\ tx \in [OwnBets!Processes -> [step : {"idle", "board", "place", "manual", "auto"},
                                     snap : OwnBets!Scores, writes : Writes]]

\* What is stored of the match has happened, but for a goal that is taken back.
StoredHappened ==
    /\ \A s \in OwnBets!Sides : events[s] <= pitch.goals[s]
    /\ stored.phase # "live" => stored = pitch

\* An outcome that stays right, whatever the match still brings.
Rightly(st, snap) ==
    \/ st = "won" /\ \E s \in OwnBets!Sides : pitch.goals[s] > snap[s]
    \/ /\ st = "lost" /\ pitch.phase = "finished"
       /\ \A s \in OwnBets!Sides : pitch.goals[s] <= snap[s]

AutoIsRight ==
    /\ \A p \in OwnBets!Processes : \A b \in DOMAIN tx[p].writes :
          /\ bet[b].status # "none"
          /\ tx[p].step # "manual" => Rightly(tx[p].writes[b], bet[b].snap)
    /\ \A b \in Bets : bet[b].by = "auto" => Rightly(bet[b].status, bet[b].snap)

OneOpen ==
    \A b, c \in Bets : bet[b].status = "open" /\ bet[c].status = "open" => b = c

Inv == Typed /\ StoredHappened /\ AutoIsRight /\ OneOpen

(***************************************************************************)
(* The helpers.                                                            *)
(***************************************************************************)
LEMMA FiniteAlike ==
    /\ \A S : OwnBets!Cardinality(S) = Cardinality(S)
    /\ \A S : OwnBets!IsFiniteSet(S) <=> IsFiniteSet(S)
<1>1. \A S : OwnBets!Cardinality(S) = Cardinality(S)
  BY DEF OwnBets!Cardinality, Cardinality
<1>2. \A S : OwnBets!IsFiniteSet(S) <=> IsFiniteSet(S)
  BY DEF OwnBets!IsFiniteSet, IsFiniteSet
<1> QED
  BY <1>1, <1>2

LEMMA MinOfNats ==
    ASSUME NEW S \in SUBSET Nat, S # {}
    PROVE  OwnBets!Min(S) \in S
  BY SmallestOf DEF OwnBets!Min

LEMMA WritesType ==
    /\ \A f \in Writes : /\ DOMAIN f \in SUBSET Bets
                         /\ \A b \in DOMAIN f : f[b] \in Settled
    /\ \A S \in SUBSET Bets : [S -> Settled] \subseteq Writes
  BY DEF Writes

LEMMA WinnerHasGoals ==
    ASSUME Typed, NEW snap \in OwnBets!Scores,
           \A s \in OwnBets!Sides : stored.goals[s] >= snap[s]
    PROVE  IF OwnBets!Total(stored.goals) > OwnBets!Total(snap)
           THEN \E s \in OwnBets!Sides : stored.goals[s] > snap[s]
           ELSE \A s \in OwnBets!Sides : stored.goals[s] <= snap[s]
<1>1. /\ stored.goals["home"] \in Nat /\ stored.goals["away"] \in Nat
      /\ snap["home"] \in Nat /\ snap["away"] \in Nat
  BY DEF Typed, OwnBets!Scores, OwnBets!Sides
<1> QED
  BY <1>1 DEF OwnBets!Total, OwnBets!Sides

\* What resolve_auto_outcome decides is right and stays so.
LEMMA ResolvesRightly ==
    ASSUME Typed, StoredHappened, NEW snap \in OwnBets!Scores,
           OwnBets!ResolveAutoOutcome(snap) # "open"
    PROVE  /\ OwnBets!ResolveAutoOutcome(snap) \in Settled
           /\ Rightly(OwnBets!ResolveAutoOutcome(snap), snap)
<1>1. CASE OwnBets!CountingGoal(snap)
  <2>1. OwnBets!ResolveAutoOutcome(snap) = "won"
    BY <1>1 DEF OwnBets!ResolveAutoOutcome
  <2>2. PICK s \in OwnBets!Sides : events[s] > snap[s]
    BY <1>1 DEF OwnBets!CountingGoal
  <2>3. pitch.goals[s] > snap[s]
    BY <2>2 DEF StoredHappened, Typed, OwnBets!Scores, OwnBets!Sides
  <2> QED
    BY <2>1, <2>3 DEF Rightly, Settled
<1>2. CASE ~OwnBets!CountingGoal(snap)
  <2>1. /\ stored.phase = "finished" /\ \A s \in OwnBets!Sides : stored.goals[s] >= snap[s]
        /\ OwnBets!ResolveAutoOutcome(snap) =
              IF OwnBets!Total(stored.goals) > OwnBets!Total(snap) THEN "won" ELSE "lost"
    BY <1>2 DEF OwnBets!ResolveAutoOutcome
  <2>2. stored = pitch
    BY <2>1 DEF StoredHappened
  <2> QED
    BY <2>1, <2>2, WinnerHasGoals DEF Rightly, Settled
<1> QED
  BY <1>1, <1>2

LEMMA DecidedRightly ==
    ASSUME Typed, StoredHappened
    PROVE  /\ OwnBets!Decided \in Writes
           /\ \A b \in DOMAIN OwnBets!Decided :
                 /\ b \in Bets /\ bet[b].status = "open"
                 /\ Rightly(OwnBets!Decided[b], bet[b].snap)
<1> DEFINE due == {b \in Bets : bet[b].status = "open"
                                /\ OwnBets!ResolveAutoOutcome(bet[b].snap) # "open"}
<1>1. OwnBets!Decided = [b \in due |-> OwnBets!ResolveAutoOutcome(bet[b].snap)]
  BY DEF OwnBets!Decided
<1>2. \A b \in due : bet[b].snap \in OwnBets!Scores
  BY DEF Typed
<1>3. \A b \in due : /\ OwnBets!ResolveAutoOutcome(bet[b].snap) \in Settled
                     /\ Rightly(OwnBets!ResolveAutoOutcome(bet[b].snap), bet[b].snap)
  BY <1>2, ResolvesRightly
<1>4. OwnBets!Decided \in [due -> Settled]
  BY <1>1, <1>3
<1>5. OwnBets!Decided \in Writes
  BY <1>4, WritesType
<1> QED
  BY <1>1, <1>3, <1>5

LEMMA WrittenType ==
    ASSUME Typed, NEW writes \in Writes, NEW by \in {"operator", "auto"}
    PROVE  /\ OwnBets!Written(writes, by) \in [Bets -> [status : {"none", "open"} \cup Settled,
                 snap : OwnBets!Scores, by : {"nobody", "operator", "auto"}]]
           /\ \A b \in Bets :
                 /\ OwnBets!Written(writes, by)[b].snap = bet[b].snap
                 /\ b \in DOMAIN writes => /\ OwnBets!Written(writes, by)[b].status = writes[b]
                                           /\ OwnBets!Written(writes, by)[b].by = by
                                           /\ writes[b] \in Settled
                 /\ b \notin DOMAIN writes => OwnBets!Written(writes, by)[b] = bet[b]
<1>1. \A b \in DOMAIN writes : writes[b] \in Settled
  BY WritesType
<1> QED
  BY <1>1 DEF Typed, OwnBets!Written

(***************************************************************************)
(* The match and its storing take nothing back.                            *)
(***************************************************************************)
LEMMA InitInv == ASSUME OwnBets!ConstantsOK PROVE OwnBets!Init => Inv
<1> SUFFICES ASSUME OwnBets!Init PROVE Inv
  OBVIOUS
<1>1. OwnBets!NoGoals \in [OwnBets!Sides -> 0 .. BetGoals] /\ OwnBets!NoGoals \in OwnBets!Scores
  BY DEF OwnBets!NoGoals, OwnBets!Scores, OwnBets!Sides, OwnBets!ConstantsOK
<1>2. OwnBets!NoTx.writes \in Writes /\ DOMAIN OwnBets!NoTx.writes = {}
  <2>1. OwnBets!NoTx.writes \in [{} -> Settled]
    BY DEF OwnBets!NoTx
  <2> QED
    BY <2>1, WritesType
<1>3. Typed
  BY <1>1, <1>2 DEF OwnBets!Init, Typed, OwnBets!NoBet, OwnBets!NoTx, Settled
<1>4. StoredHappened
  BY DEF OwnBets!Init, StoredHappened, OwnBets!NoGoals, OwnBets!Sides
<1>5. AutoIsRight
  BY <1>2 DEF OwnBets!Init, AutoIsRight, OwnBets!NoBet
<1>6. OneOpen
  BY DEF OwnBets!Init, OneOpen, OwnBets!NoBet
<1> QED
  BY <1>3, <1>4, <1>5, <1>6 DEF Inv

LEMMA RightStays ==
    ASSUME Typed, NEW st, NEW snap \in OwnBets!Scores, Rightly(st, snap),
           Typed',
           \A s \in OwnBets!Sides : pitch'.goals[s] >= pitch.goals[s],
           pitch.phase # "live" => pitch' = pitch
    PROVE  Rightly(st, snap)'
<1>1. CASE st = "won" /\ \E s \in OwnBets!Sides : pitch.goals[s] > snap[s]
  <2>1. PICK s \in OwnBets!Sides : pitch.goals[s] > snap[s]
    BY <1>1
  <2>2. pitch.goals[s] \in Nat /\ pitch'.goals[s] \in Nat /\ snap[s] \in Nat
    BY DEF Typed, OwnBets!Scores
  <2>3. pitch'.goals[s] > snap[s]
    BY <2>1, <2>2
  <2> QED
    BY <1>1, <2>3 DEF Rightly
<1>2. CASE /\ st = "lost" /\ pitch.phase = "finished"
           /\ \A s \in OwnBets!Sides : pitch.goals[s] <= snap[s]
  BY <1>2 DEF Rightly
<1> QED
  BY <1>1, <1>2 DEF Rightly

LEMMA MatchStep ==
    ASSUME OwnBets!ConstantsOK, Inv,
           \/ \E s \in OwnBets!Sides : OwnBets!Goal(s)
           \/ OwnBets!Ends \/ OwnBets!StoreScore \/ OwnBets!StoreEvents
    PROVE  Inv'
<1> USE DEF Inv
<1>1. UNCHANGED <<bet, tx>>
  BY DEF OwnBets!Goal, OwnBets!Ends, OwnBets!StoreScore, OwnBets!StoreEvents
<1>2. /\ pitch' \in [goals : [OwnBets!Sides -> 0 .. BetGoals],
                   phase : {"live"} \cup OwnBets!Ended]
      /\ \A s \in OwnBets!Sides : pitch'.goals[s] >= pitch.goals[s]
      /\ pitch.phase # "live" => pitch' = pitch
  <2>1. ASSUME NEW s \in OwnBets!Sides, OwnBets!Goal(s)
        PROVE  /\ pitch' \in [goals : [OwnBets!Sides -> 0 .. BetGoals],
                            phase : {"live"} \cup OwnBets!Ended]
               /\ \A x \in OwnBets!Sides : pitch'.goals[x] >= pitch.goals[x]
               /\ pitch.phase # "live" => pitch' = pitch
    <3>1. pitch.goals[s] + 1 \in 0 .. BetGoals
      <4>1. pitch.goals["home"] \in 0 .. BetGoals /\ pitch.goals["away"] \in 0 .. BetGoals
        BY DEF Typed, OwnBets!Sides
      <4> QED
        BY <2>1, <4>1 DEF OwnBets!Goal, OwnBets!Total, OwnBets!Sides, OwnBets!ConstantsOK
    <3> QED
      BY <2>1, <3>1 DEF OwnBets!Goal, Typed
  <2>2. CASE OwnBets!Ends
    BY <2>2 DEF OwnBets!Ends, Typed
  <2>3. CASE OwnBets!StoreScore \/ OwnBets!StoreEvents
    BY <2>3 DEF OwnBets!StoreScore, OwnBets!StoreEvents, Typed
  <2> QED
    BY <2>1, <2>2, <2>3
<1>3. /\ stored' \in [goals : OwnBets!Scores, phase : {"live"} \cup OwnBets!Ended]
      /\ stored'.phase # "live" => stored' = pitch'
  <2>1. CASE OwnBets!StoreScore
    <3>1. /\ pitch.goals \in OwnBets!Scores
          /\ [pitch.goals EXCEPT !["home"] = @ + 1] \in OwnBets!Scores
      BY DEF Typed, OwnBets!Scores, OwnBets!ConstantsOK, OwnBets!Sides
    <3> QED
      BY <2>1, <3>1 DEF OwnBets!StoreScore, Typed, OwnBets!Ended
  <2>2. CASE ~OwnBets!StoreScore
    <3>1. stored' = stored
      BY <2>2 DEF OwnBets!Goal, OwnBets!Ends, OwnBets!StoreEvents
    <3> QED
      BY <1>2, <3>1 DEF Typed, StoredHappened, OwnBets!Ended
  <2> QED
    BY <2>1, <2>2
<1>4. /\ events' \in [OwnBets!Sides -> 0 .. BetGoals]
      /\ \A s \in OwnBets!Sides : events'[s] <= pitch'.goals[s]
  <2>1. CASE OwnBets!StoreEvents
    BY <2>1 DEF OwnBets!StoreEvents, Typed, OwnBets!ConstantsOK
  <2>2. CASE ~OwnBets!StoreEvents
    <3>1. events' = events
      BY <2>2 DEF OwnBets!Goal, OwnBets!Ends, OwnBets!StoreScore
    <3> QED
      BY <1>2, <3>1 DEF Typed, StoredHappened
  <2> QED
    BY <2>1, <2>2
<1>5. Typed' /\ StoredHappened'
  BY <1>1, <1>2, <1>3, <1>4 DEF Typed, StoredHappened
<1>6. \A st : \A snap \in OwnBets!Scores : Rightly(st, snap) => Rightly(st, snap)'
  BY <1>2, <1>5, RightStays
<1>7. AutoIsRight'
  <2>1. \A p \in OwnBets!Processes : \A b \in DOMAIN tx[p].writes : b \in Bets
    BY WritesType DEF Typed
  <2>2. \A b \in Bets : bet[b].snap \in OwnBets!Scores
    BY DEF Typed
  <2>3. \A p \in OwnBets!Processes : \A b \in DOMAIN tx[p].writes :
           tx[p].step # "manual" => Rightly(tx[p].writes[b], bet[b].snap)'
    BY <1>1, <1>6, <2>1, <2>2 DEF AutoIsRight
  <2>4. \A b \in Bets : bet[b].by = "auto" => Rightly(bet[b].status, bet[b].snap)'
    BY <1>1, <1>6, <2>2 DEF AutoIsRight
  <2> QED
    BY <1>1, <2>3, <2>4 DEF AutoIsRight
<1> QED
  BY <1>1, <1>5, <1>7 DEF OneOpen

(***************************************************************************)
(* A transaction writes what is right of the rows it read, whatever was    *)
(* committed since.                                                        *)
(***************************************************************************)
LEMMA TxStep ==
    ASSUME Inv, NEW p \in OwnBets!Processes, NEW t,
           t \in [step : {"idle", "board", "place", "manual", "auto"},
                  snap : OwnBets!Scores, writes : Writes],
           tx' = [tx EXCEPT ![p] = t], UNCHANGED <<pitch, stored, events, bet>>,
           \A b \in DOMAIN t.writes :
               /\ bet[b].status # "none"
               /\ t.step # "manual" => Rightly(t.writes[b], bet[b].snap)
    PROVE  Inv'
<1> USE DEF Inv
<1>1. Typed' /\ StoredHappened' /\ OneOpen'
  BY DEF Typed, StoredHappened, OneOpen
<1>2. \A q \in OwnBets!Processes : tx'[q] = t \/ tx'[q] = tx[q]
  BY DEF Typed
<1>3. AutoIsRight'
  BY <1>2 DEF AutoIsRight, Rightly
<1> QED
  BY <1>1, <1>3

\* An idle transaction writes nothing.
LEMMA NoTxType ==
    /\ OwnBets!NoTx \in [step : {"idle"}, snap : {OwnBets!NoGoals}, writes : Writes]
    /\ DOMAIN OwnBets!NoTx.writes = {}
<1>1. [b \in {} |-> "open"] \in [{} -> Settled]
  OBVIOUS
<1>2. [b \in {} |-> "open"] \in Writes
  BY <1>1, WritesType
<1> QED
  BY <1>2 DEF OwnBets!NoTx

LEMMA NoGoalsType == ASSUME OwnBets!ConstantsOK PROVE OwnBets!NoGoals \in OwnBets!Scores
  BY DEF OwnBets!NoGoals, OwnBets!Scores, OwnBets!Sides, OwnBets!ConstantsOK

LEMMA ReadStep ==
    ASSUME OwnBets!ConstantsOK, Inv,
           \/ OwnBets!AutoRead
           \/ \E r \in Requests : OwnBets!PlaceReadsBoard(r) \/ OwnBets!PlaceChecks(r)
           \/ \E r \in Manual : OwnBets!ManualRead(r)
    PROVE  Inv'
<1> USE DEF Inv
<1>1. /\ OwnBets!Decided \in Writes
      /\ \A b \in DOMAIN OwnBets!Decided :
            /\ bet[b].status # "none"
            /\ Rightly(OwnBets!Decided[b], bet[b].snap)
  BY DecidedRightly
<1>2. CASE OwnBets!AutoRead
  <2> DEFINE t == [OwnBets!NoTx EXCEPT !.step = "auto", !.writes = OwnBets!Decided]
  <2>1. /\ t \in [step : {"auto"}, snap : OwnBets!Scores, writes : Writes]
        /\ t.writes = OwnBets!Decided
    BY <1>1, NoGoalsType DEF OwnBets!NoTx
  <2>2. /\ tx' = [tx EXCEPT !["worker"] = t]
        /\ UNCHANGED <<pitch, stored, events, bet>>
    BY <1>2 DEF OwnBets!AutoRead
  <2> HIDE DEF t
  <2> QED
    BY <1>1, <2>1, <2>2, TxStep DEF OwnBets!Processes
<1>3. ASSUME NEW r \in Requests, OwnBets!PlaceReadsBoard(r) PROVE Inv'
  <2> DEFINE t == [OwnBets!NoTx EXCEPT !.step = "board", !.snap = stored.goals]
  <2>1. /\ t \in [step : {"board"}, snap : OwnBets!Scores, writes : Writes]
        /\ DOMAIN t.writes = {}
    BY NoTxType DEF OwnBets!NoTx, Typed
  <2>2. /\ tx' = [tx EXCEPT ![r] = t]
        /\ UNCHANGED <<pitch, stored, events, bet>>
    BY <1>3 DEF OwnBets!PlaceReadsBoard
  <2> HIDE DEF t
  <2> QED
    BY <2>1, <2>2, TxStep DEF OwnBets!Processes
<1>4. ASSUME NEW r \in Requests, OwnBets!PlaceChecks(r) PROVE Inv'
  <2>1. UNCHANGED <<pitch, stored, events, bet>> /\ r \in OwnBets!Processes
    BY <1>4 DEF OwnBets!PlaceChecks, OwnBets!Processes
  <2>2. CASE tx' = [tx EXCEPT ![r] = OwnBets!NoTx]
    BY <2>1, <2>2, NoTxType, NoGoalsType, TxStep
  <2>3. CASE tx' = [tx EXCEPT ![r] = [@ EXCEPT !.step = "place", !.writes = OwnBets!Decided]]
    <3> DEFINE t == [tx[r] EXCEPT !.step = "place", !.writes = OwnBets!Decided]
    <3>1. /\ t \in [step : {"place"}, snap : OwnBets!Scores, writes : Writes]
          /\ t.writes = OwnBets!Decided
      BY <1>1, <2>1 DEF Typed
    <3>2. tx' = [tx EXCEPT ![r] = t]
      BY <2>3
    <3> HIDE DEF t
    <3> QED
      BY <1>1, <2>1, <3>1, <3>2, TxStep
  <2> QED
    BY <1>4, <2>2, <2>3 DEF OwnBets!PlaceChecks
<1>5. ASSUME NEW r \in Manual, OwnBets!ManualRead(r) PROVE Inv'
  <2>1. PICK b \in Bets, outcome \in Outcomes :
           /\ bet[b].status = "open"
           /\ tx' = [tx EXCEPT ![r] = [OwnBets!NoTx EXCEPT !.step = "manual",
                                                   !.writes = [x \in {b} |-> outcome]]]
    BY <1>5 DEF OwnBets!ManualRead
  <2> DEFINE t == [OwnBets!NoTx EXCEPT !.step = "manual", !.writes = [x \in {b} |-> outcome]]
  <2>2. [x \in {b} |-> outcome] \in [{b} -> Settled]
    BY DEF OwnBets!ConstantsOK, Settled
  <2>3. [x \in {b} |-> outcome] \in Writes
    BY <2>2, WritesType
  <2>4. /\ t \in [step : {"manual"}, snap : OwnBets!Scores, writes : Writes]
        /\ DOMAIN t.writes = {b} /\ t.step = "manual"
    BY <2>3, NoGoalsType DEF OwnBets!NoTx
  <2>5. UNCHANGED <<pitch, stored, events, bet>> /\ r \in OwnBets!Processes
    BY <1>5 DEF OwnBets!ManualRead, OwnBets!Processes
  <2> HIDE DEF t
  <2>6. tx' = [tx EXCEPT ![r] = t]
    BY <2>1 DEF t
  <2> QED
    BY <2>1, <2>4, <2>5, <2>6, TxStep
<1> QED
  BY <1>2, <1>3, <1>4, <1>5

LEMMA CommitStep ==
    ASSUME OwnBets!ConstantsOK, Inv, NEW p \in OwnBets!Processes, NEW by \in {"operator", "auto"},
           by = "auto" => tx[p].step # "manual",
           tx' = [tx EXCEPT ![p] = OwnBets!NoTx], UNCHANGED <<pitch, stored, events>>,
           bet' = OwnBets!Written(tx[p].writes, by)
    PROVE  Inv'
<1> USE DEF Inv
<1>1. tx[p].writes \in Writes
  BY DEF Typed
<1> HIDE DEF OwnBets!Written
<1>2. \A b \in Bets :
         /\ bet'[b].snap = bet[b].snap
         /\ b \in DOMAIN tx[p].writes => /\ bet'[b].status = tx[p].writes[b]
                                         /\ bet'[b].by = by
                                         /\ tx[p].writes[b] \in Settled
         /\ b \notin DOMAIN tx[p].writes => bet'[b] = bet[b]
  BY <1>1, WrittenType
<1>3. \A q \in OwnBets!Processes : tx'[q] = OwnBets!NoTx \/ tx'[q] = tx[q]
  BY DEF Typed
<1>4. \A q \in OwnBets!Processes : \A b \in DOMAIN tx[q].writes : b \in Bets
  BY WritesType DEF Typed
<1>5. Typed' /\ StoredHappened'
  <2>1. bet' \in [Bets -> [status : {"none", "open"} \cup Settled, snap : OwnBets!Scores,
                           by : {"nobody", "operator", "auto"}]]
    BY <1>1, WrittenType
  <2>2. tx' \in [OwnBets!Processes -> [step : {"idle", "board", "place", "manual", "auto"},
                               snap : OwnBets!Scores, writes : Writes]]
    BY NoTxType, NoGoalsType DEF Typed
  <2> QED
    BY <2>1, <2>2 DEF Typed, StoredHappened
<1>6. OneOpen'
  <2>1. \A b \in Bets : bet'[b].status = "open" => bet[b].status = "open"
    BY <1>2 DEF Settled
  <2> QED
    BY <2>1 DEF OneOpen
<1>7. AutoIsRight'
  <2>1. ASSUME NEW q \in OwnBets!Processes, NEW b \in DOMAIN tx'[q].writes
        PROVE  /\ bet'[b].status # "none"
               /\ tx'[q].step # "manual" => Rightly(tx[q].writes[b], bet[b].snap)'
    <3>1. tx'[q] = tx[q] /\ b \in DOMAIN tx[q].writes /\ b \in Bets
      BY <1>3, <1>4, <2>1, NoTxType
    <3>2. bet'[b].status # "none"
      BY <1>2, <3>1 DEF AutoIsRight, Settled
    <3>3. tx[q].step # "manual" => Rightly(tx[q].writes[b], bet[b].snap)
      BY <3>1 DEF AutoIsRight
    <3>4. bet'[b].snap = bet[b].snap
      BY <1>2, <3>1
    <3> QED
      BY <3>1, <3>2, <3>3, <3>4 DEF Rightly
  <2>2. ASSUME NEW b \in Bets, bet'[b].by = "auto"
        PROVE  Rightly(bet[b].status, bet[b].snap)'
    <3>1. CASE b \in DOMAIN tx[p].writes
      BY <1>2, <2>2, <3>1 DEF AutoIsRight, Rightly
    <3>2. CASE b \notin DOMAIN tx[p].writes
      BY <1>2, <2>2, <3>2 DEF AutoIsRight, Rightly
    <3> QED
      BY <3>1, <3>2
  <2> QED
    BY <2>1, <2>2 DEF AutoIsRight
<1> QED
  BY <1>5, <1>6, <1>7

\* The bet a request places, next to the settlements of its transaction.
LEMMA PlaceStep ==
    ASSUME OwnBets!ConstantsOK, Inv, NEW r \in Requests, OwnBets!PlaceCommits(r)
    PROVE  /\ Inv'
           /\ \A b \in Bets : bet[b].status # "none" => bet'[b].snap = bet[b].snap
<1> USE DEF Inv
<1> DEFINE settled == OwnBets!Written(tx[r].writes, "auto")
           new == [OwnBets!NoBet EXCEPT !.status = "open", !.snap = tx[r].snap]
<1>1. r \in OwnBets!Processes /\ tx[r].step = "place" /\ tx[r].writes \in Writes
  BY DEF OwnBets!PlaceCommits, Typed, OwnBets!Processes
<1>2. tx' = [tx EXCEPT ![r] = OwnBets!NoTx] /\ UNCHANGED <<pitch, stored, events>>
  BY DEF OwnBets!PlaceCommits
<1>3. /\ settled \in [Bets -> [status : {"none", "open"} \cup Settled,
                               snap : OwnBets!Scores, by : {"nobody", "operator", "auto"}]]
      /\ \A b \in Bets :
            /\ settled[b].snap = bet[b].snap
            /\ b \in DOMAIN tx[r].writes => /\ settled[b].status = tx[r].writes[b]
                                            /\ settled[b].by = "auto"
                                            /\ tx[r].writes[b] \in Settled
            /\ b \notin DOMAIN tx[r].writes => settled[b] = bet[b]
  BY <1>1, WrittenType
<1>4. new \in [status : {"open"}, snap : OwnBets!Scores, by : {"nobody"}]
  <2>1. tx[r].snap \in OwnBets!Scores
    BY <1>1 DEF Typed
  <2> QED
    BY <2>1 DEF OwnBets!NoBet
<1> HIDE DEF settled, new
<1>5. CASE UNCHANGED bet
  <2>1. tx' = [tx EXCEPT ![r] = OwnBets!NoTx] /\ UNCHANGED <<pitch, stored, events, bet>>
    BY <1>2, <1>5
  <2> QED
    BY <1>1, <1>5, <2>1, NoTxType, NoGoalsType, TxStep
<1>6. CASE bet' # bet
  <2>1. /\ OwnBets!IndexAllows(settled) /\ OwnBets!Free # {}
        /\ bet' = [settled EXCEPT ![OwnBets!Min(OwnBets!Free)] = new]
    BY <1>6 DEF OwnBets!PlaceCommits, settled, new
  <2> DEFINE f == OwnBets!Min(OwnBets!Free)
  <2>2. f \in Bets /\ bet[f] = OwnBets!NoBet
    <3>1. OwnBets!Free \in SUBSET Nat
      BY DEF OwnBets!Free, OwnBets!ConstantsOK
    <3> QED
      BY <2>1, <3>1, MinOfNats DEF OwnBets!Free
  <2>3. f \in Bets /\ bet[f].status = "none" /\ bet' = [settled EXCEPT ![f] = new]
    BY <2>1, <2>2 DEF OwnBets!NoBet
  <2> HIDE DEF f
  <2>4. \A b \in Bets : bet'[b] = IF b = f THEN new ELSE settled[b]
    BY <1>3, <2>3
  <2>5. \A q \in OwnBets!Processes : tx'[q] = OwnBets!NoTx \/ tx'[q] = tx[q]
    BY <1>2 DEF Typed
  <2>6. \A q \in OwnBets!Processes : \A b \in DOMAIN tx[q].writes : b \in Bets /\ b # f
    BY <2>3, WritesType DEF Typed, AutoIsRight
  <2>7. Typed' /\ StoredHappened'
    <3>1. bet' \in [Bets -> [status : {"none", "open"} \cup Settled, snap : OwnBets!Scores,
                             by : {"nobody", "operator", "auto"}]]
      BY <1>3, <1>4, <2>3
    <3>2. tx' \in [OwnBets!Processes -> [step : {"idle", "board", "place", "manual", "auto"},
                                 snap : OwnBets!Scores, writes : Writes]]
      BY <1>2, NoTxType, NoGoalsType DEF Typed
    <3> QED
      BY <1>2, <3>1, <3>2 DEF Typed, StoredHappened
  <2>8. OneOpen'
    <3> DEFINE open == {b \in Bets : settled[b].status = "open"}
    <3>1. IsFiniteSet(open)
      BY FS_Subset, FiniteAlike DEF OwnBets!ConstantsOK
    <3>2. open = {}
      BY <2>1, <3>1, FS_EmptySet, FiniteAlike DEF OwnBets!IndexAllows
    <3> QED
      BY <2>4, <3>2 DEF OneOpen
  <2>9. AutoIsRight'
    <3>1. ASSUME NEW q \in OwnBets!Processes, NEW b \in DOMAIN tx'[q].writes
          PROVE  /\ bet'[b].status # "none"
                 /\ tx'[q].step # "manual" => Rightly(tx[q].writes[b], bet[b].snap)'
      <4>1. tx'[q] = tx[q] /\ b \in DOMAIN tx[q].writes
        BY <2>5, <3>1, NoTxType
      <4>2. b \in Bets /\ bet'[b] = settled[b]
        BY <2>4, <2>6, <4>1
      <4>3. bet'[b].status # "none" /\ bet'[b].snap = bet[b].snap
        BY <1>3, <4>1, <4>2 DEF AutoIsRight, Settled
      <4>4. tx[q].step # "manual" => Rightly(tx[q].writes[b], bet[b].snap)
        BY <4>1 DEF AutoIsRight
      <4> QED
        BY <1>2, <4>1, <4>3, <4>4 DEF Rightly
    <3>2. ASSUME NEW b \in Bets, bet'[b].by = "auto"
          PROVE  Rightly(bet[b].status, bet[b].snap)'
      <4>1. bet'[b] = settled[b]
        BY <1>4, <2>4, <3>2
      <4>2. Rightly(settled[b].status, settled[b].snap)
        <5>1. CASE b \in DOMAIN tx[r].writes
          BY <1>1, <1>3, <5>1 DEF AutoIsRight
        <5>2. CASE b \notin DOMAIN tx[r].writes
          BY <1>3, <3>2, <4>1, <5>2 DEF AutoIsRight
        <5> QED
          BY <5>1, <5>2
      <4> QED
        BY <1>2, <4>1, <4>2 DEF Rightly
    <3> QED
      BY <3>1, <3>2 DEF AutoIsRight
  <2>10. \A b \in Bets : bet[b].status # "none" => bet'[b].snap = bet[b].snap
    BY <1>3, <2>3, <2>4
  <2> QED
    BY <2>7, <2>8, <2>9, <2>10
<1> QED
  BY <1>5, <1>6

LEMMA NextInv == ASSUME OwnBets!ConstantsOK PROVE Inv /\ [OwnBets!Next]_(OwnBets!vars) => Inv'
<1> SUFFICES ASSUME Inv, [OwnBets!Next]_(OwnBets!vars) PROVE Inv'
  OBVIOUS
<1>1. CASE OwnBets!AutoCommit
  <2>1. "worker" \in OwnBets!Processes
    BY DEF OwnBets!Processes
  <2> QED
    BY <1>1, <2>1, CommitStep DEF OwnBets!AutoCommit
<1>2. ASSUME NEW r \in Manual, OwnBets!ManualCommit(r) PROVE Inv'
  <2>1. r \in OwnBets!Processes
    BY DEF OwnBets!Processes
  <2> QED
    BY <1>2, <2>1, CommitStep DEF OwnBets!ManualCommit
<1>3. CASE UNCHANGED OwnBets!vars
  BY <1>3 DEF OwnBets!vars, Inv, Typed, StoredHappened, AutoIsRight, Rightly, OneOpen
<1> QED
  BY <1>1, <1>2, <1>3, MatchStep, ReadStep, PlaceStep DEF OwnBets!Next

LEMMA BetSteps == [MCNext]_allVars => [OwnBets!Next]_(OwnBets!vars)
  BY DEF MCNext, allVars, betVars, OwnBets!vars

LEMMA InvHolds == MCSpec => []Inv
<1>1. MCInit => Inv
  BY InitInv, BetConstants DEF MCInit
<1>2. Inv /\ [MCNext]_allVars => Inv'
  BY NextInv, BetSteps, BetConstants
<1> QED
  BY <1>1, <1>2, PTL DEF MCSpec

\* However requests, ticks and the operator overlap on rows none of them locks, a
\* match never has two open bets, and a bet the program counts as won has seen a
\* goal, though the stored score may show one too many (resolve_auto_outcome,
\* uq_operator_bets_open_fixture).
THEOREM BetsFair == MCSpec => []BetsAreFair
<1> USE BetConstants
<1>1. Inv => BetsAreFair
  <2> SUFFICES ASSUME Inv PROVE OwnBets!TypeOK /\ OwnBets!BetsAreFair
    BY DEF BetsAreFair
  <2>0. OwnBets!TypeOK
    <3>1. [OwnBets!Sides -> 0 .. BetGoals] \subseteq OwnBets!Scores
      <4>1. 0 .. BetGoals \subseteq 0 .. BetGoals + 1
        BY DEF OwnBets!ConstantsOK
      <4> QED
        BY <4>1 DEF OwnBets!Scores
    <3>2. /\ {pitch, stored} \subseteq [goals : OwnBets!Scores,
                                         phase : {"live"} \cup OwnBets!Ended]
          /\ events \in OwnBets!Scores
      BY <3>1 DEF Inv, Typed
    <3>3. \A p \in OwnBets!Processes :
            /\ tx[p].step \in {"idle", "board", "place", "manual", "auto"}
            /\ tx[p].snap \in OwnBets!Scores
            /\ DOMAIN tx[p].writes \subseteq Bets
      BY WritesType DEF Inv, Typed
    <3> QED
      BY <3>2, <3>3 DEF Inv, Typed, Settled, OwnBets!TypeOK
  <2>1. OwnBets!OneOpenBet
    <3> DEFINE open == {b \in Bets : bet[b].status = "open"}
    <3>1. IsFiniteSet(open)
      BY FS_Subset, FiniteAlike DEF OwnBets!ConstantsOK
    <3>2. CASE open = {}
      BY <3>2, FS_EmptySet, FiniteAlike DEF OwnBets!OneOpenBet
    <3>3. ASSUME NEW b \in open PROVE OwnBets!OneOpenBet
      <4>1. open = {b}
        BY <3>3 DEF Inv, OneOpen
      <4> HIDE DEF open
      <4>2. Cardinality(open) = 1
        BY <4>1, FS_Singleton, Zenon
      <4> QED
        BY <4>2, FiniteAlike DEF OwnBets!OneOpenBet, open
    <3> QED
      BY <3>2, <3>3
  <2>2. OwnBets!WonByAGoal
    BY DEF Inv, AutoIsRight, Rightly, OwnBets!WonByAGoal
  <2> QED
    BY <2>0, <2>1, <2>2 DEF OwnBets!BetsAreFair
<1> QED
  BY <1>1, InvHolds, PTL

\* A step leaves the snapshot of a bet alone.
LEMMA SnapStays ==
    ASSUME OwnBets!ConstantsOK, Inv, OwnBets!Next
    PROVE  \A b \in Bets : bet[b].status # "none" => bet'[b].snap = bet[b].snap
<1>1. ASSUME NEW p \in OwnBets!Processes, NEW by \in {"operator", "auto"},
             bet' = OwnBets!Written(tx[p].writes, by)
      PROVE  \A b \in Bets : bet'[b].snap = bet[b].snap
  BY <1>1, WrittenType DEF Inv, Typed
<1>2. CASE OwnBets!AutoCommit
  BY <1>1, <1>2 DEF OwnBets!AutoCommit, OwnBets!Processes
<1>3. ASSUME NEW r \in Manual, OwnBets!ManualCommit(r)
      PROVE  \A b \in Bets : bet'[b].snap = bet[b].snap
  BY <1>1, <1>3 DEF OwnBets!ManualCommit, OwnBets!Processes
<1>4. ASSUME NEW r \in Requests, OwnBets!PlaceCommits(r)
      PROVE  \A b \in Bets : bet[b].status # "none" => bet'[b].snap = bet[b].snap
  BY <1>4, PlaceStep
<1>5. ASSUME UNCHANGED bet PROVE \A b \in Bets : bet'[b].snap = bet[b].snap
  BY <1>5
<1> QED
  BY <1>2, <1>3, <1>4, <1>5
     DEF OwnBets!Next, OwnBets!Goal, OwnBets!Ends, OwnBets!StoreScore, OwnBets!StoreEvents,
         OwnBets!AutoRead, OwnBets!PlaceReadsBoard, OwnBets!PlaceChecks, OwnBets!ManualRead

\* What the program has decided of a bet it never decides otherwise: two
\* settlements that overlap agree, on rows that are written by key whatever has
\* become of them (settle_open_tickets).
THEOREM AutoAgrees == MCSpec => AutoNeverContradicts
<1> USE BetConstants
<1>1. ASSUME Inv, Inv', OwnBets!Next, NEW b \in Bets, bet[b].by = "auto", bet'[b].by = "auto"
      PROVE  bet'[b].status = bet[b].status
  <2>1. Rightly(bet[b].status, bet[b].snap) /\ Rightly(bet[b].status, bet[b].snap)'
    BY <1>1 DEF Inv, AutoIsRight
  <2>2. bet'[b].snap = bet[b].snap
    BY <1>1, <2>1, SnapStays DEF Rightly
  <2>3. CASE bet' = bet
    BY <2>3
  <2>4. CASE pitch' = pitch
    <3>1. bet[b].snap \in [OwnBets!Sides -> Nat] /\ pitch.goals \in [OwnBets!Sides -> Nat]
      BY <1>1 DEF Inv, Typed, OwnBets!Scores
    <3> QED
      BY <2>1, <2>2, <2>4, <3>1 DEF Rightly
  <2>5. bet' = bet \/ pitch' = pitch
    BY <1>1 DEF OwnBets!Next, OwnBets!Goal, OwnBets!Ends, OwnBets!StoreScore,
                OwnBets!StoreEvents, OwnBets!AutoRead, OwnBets!AutoCommit,
                OwnBets!PlaceReadsBoard, OwnBets!PlaceChecks, OwnBets!PlaceCommits,
                OwnBets!ManualRead, OwnBets!ManualCommit
  <2> QED
    BY <2>3, <2>4, <2>5
<1>2. Inv /\ Inv' /\ [MCNext]_allVars =>
        [\A b \in Bets : bet[b].by = "auto" /\ bet'[b].by = "auto"
                         => bet'[b].status = bet[b].status]_(OwnBets!vars)
  BY <1>1, BetSteps
<1> QED
  BY <1>2, InvHolds, PTL DEF MCSpec, AutoNeverContradicts, OwnBets!AutoNeverContradicts
===============================================================================
