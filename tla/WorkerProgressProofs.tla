------------------------ MODULE WorkerProgressProofs ------------------------
(***************************************************************************)
(* The parts of MCWorkerProgress for every value of their constants.  The  *)
(* writer lock, for any finite set of processes and any tasks, crashes,    *)
(* stops and cut sessions: who is past the lock without holding it, whose  *)
(* the open run rows are, and that the processes behave as one writer      *)
(* while no session is cut.  The price requests, for any matches,          *)
(* strategies, polls and failures.                                         *)
(***************************************************************************)
EXTENDS MCWorkerProgress, FiniteSetTheorems, WellFoundedInduction, TLAPS

-----------------------------------------------------------------------------
(* The writer lock.                                                        *)

\* The loop's row in etl_runs has been written and not been closed.
Recorded(w) == pc[w] \in {"running", "ending"}

Typed ==
    /\ pc \in [Workers -> Phases]
    /\ holder \in Workers \cup {None, Ghost}
    /\ queue \in [Tasks -> {"pending", "in_progress", "complete"}]
    /\ mine \in [Workers -> Tasks \cup {None}]
    /\ openRuns \in [Workers -> Nat]
    /\ ready \in {"idle", "held", "free", "ready", "not_ready"}
    /\ faults \in 0..MaxFaults /\ stops \in 0..MaxStops /\ drops \in 0..MaxDrops

\* A process leaves a row open only when it dies or its last transaction fails.
RunsAreCounted ==
    \A w \in Workers :
        /\ Recorded(w) => openRuns[w] >= 1
        /\ openRuns[w] <= faults + (IF Recorded(w) THEN 1 ELSE 0)

\* The processes past the lock that do not hold it.
Unlocked == {w \in Inside : holder # w}

LEMMA InitTyped == ASSUME ConstantsOK PROVE Init => Typed /\ RunsAreCounted
  BY DEF ConstantsOK, Init, Typed, Phases, RunsAreCounted, Recorded

LEMMA WorkTyped ==
    ASSUME ConstantsOK, Typed, RunsAreCounted, NEW w \in Workers, Work(w) \/ Fault(w)
    PROVE  Typed'
<1> USE DEF Typed, Phases, Goto
<1>1. CASE Boot(w)
  BY <1>1 DEF Boot
<1>2. CASE TryAcquire(w)
  BY <1>2 DEF TryAcquire
<1>3. CASE LeaveBusy(w)
  BY <1>3 DEF LeaveBusy
<1>4. CASE StartRun(w)
  BY <1>4 DEF StartRun, record_run_start, RequeueOrphans
<1>5. CASE Finish(w)
  BY <1>5 DEF Finish
<1>6. CASE EndRun(w)
  <2>1. openRuns[w] \in Nat \ {0}
    BY <1>6 DEF EndRun, RunsAreCounted, Recorded
  <2> QED
    BY <1>6, <2>1 DEF EndRun, record_run_end
<1>7. CASE Release(w)
  BY <1>7 DEF Release
<1>8. ASSUME NEW t \in Tasks, Take(w, t) PROVE Typed'
  BY <1>8 DEF Take
<1>9. CASE StartFails(w)
  BY <1>9 DEF StartFails, ConstantsOK
<1>10. CASE EndRunFails(w)
  BY <1>10 DEF EndRunFails, ConstantsOK
<1>11. CASE Stop(w)
  BY <1>11 DEF Stop, ConstantsOK
<1>12. CASE Crash(w)
  BY <1>12 DEF Crash, ConstantsOK
<1>13. CASE DropSession(w)
  BY <1>13 DEF DropSession, ConstantsOK
<1> QED
  BY <1>1, <1>2, <1>3, <1>4, <1>5, <1>6, <1>7, <1>8, <1>9, <1>10, <1>11, <1>12,
     <1>13 DEF Work, Fault

LEMMA WorkCounted ==
    ASSUME ConstantsOK, Typed, RunsAreCounted, NEW w \in Workers, Work(w) \/ Fault(w)
    PROVE  RunsAreCounted'
<1> USE DEF Typed, Phases, Goto, RunsAreCounted, Recorded
<1>1. CASE Boot(w)
  BY <1>1 DEF Boot
<1>2. CASE TryAcquire(w)
  BY <1>2 DEF TryAcquire
<1>3. CASE LeaveBusy(w)
  BY <1>3 DEF LeaveBusy
<1>4. CASE StartRun(w)
  BY <1>4 DEF StartRun, record_run_start
<1>5. CASE Finish(w)
  BY <1>5 DEF Finish
<1>6. CASE EndRun(w)
  BY <1>6 DEF EndRun, record_run_end
<1>7. CASE Release(w)
  BY <1>7 DEF Release
<1>8. ASSUME NEW t \in Tasks, Take(w, t) PROVE RunsAreCounted'
  BY <1>8 DEF Take
<1>9. CASE StartFails(w)
  BY <1>9 DEF StartFails
<1>10. CASE EndRunFails(w)
  BY <1>10 DEF EndRunFails
<1>11. CASE Stop(w)
  BY <1>11 DEF Stop
<1>12. CASE Crash(w)
  BY <1>12 DEF Crash
<1>13. CASE DropSession(w)
  BY <1>13 DEF DropSession
<1> QED
  BY <1>1, <1>2, <1>3, <1>4, <1>5, <1>6, <1>7, <1>8, <1>9, <1>10, <1>11, <1>12,
     <1>13 DEF Work, Fault

LEMMA NextTyped ==
    ASSUME ConstantsOK
    PROVE  Typed /\ RunsAreCounted /\ [Next]_vars => (Typed /\ RunsAreCounted)'
<1> SUFFICES ASSUME Typed, RunsAreCounted, [Next]_vars PROVE (Typed /\ RunsAreCounted)'
  OBVIOUS
<1> USE DEF Typed, RunsAreCounted, Recorded
<1>1. CASE ServerNotices
  BY <1>1 DEF ServerNotices
<1>2. CASE ReadLock
  BY <1>2 DEF ReadLock
<1>3. CASE ReadRuns
  BY <1>3 DEF ReadRuns
<1>4. CASE UNCHANGED vars
  BY <1>4 DEF vars
<1> QED
  BY <1>1, <1>2, <1>3, <1>4, WorkTyped, WorkCounted DEF Next

\* Every reachable state is well typed; in particular no process leaves more run
\* rows open than there were faults.
THEOREM TypeCorrect == ASSUME ConstantsOK PROVE Spec => []TypeOK
<1>1. Typed /\ RunsAreCounted => TypeOK
  BY DEF ConstantsOK, Typed, RunsAreCounted, TypeOK
<1> QED
  BY <1>1, InitTyped, NextTyped, PTL DEF Spec

(***************************************************************************)
(* A process enters through a lock nobody held and loses it only to a cut. *)
(***************************************************************************)
LEMMA UnlockedFinite ==
    ASSUME ConstantsOK
    PROVE  IsFiniteSet(Unlocked) /\ IsFiniteSet(Unlocked')
<1>1. Unlocked \in SUBSET Workers /\ Unlocked' \in SUBSET Workers
  BY DEF Unlocked, Inside
<1> QED
  BY <1>1, FS_Subset DEF ConstantsOK

LEMMA StepKeepsUnlocked ==
    ASSUME ConstantsOK, Typed, NEW w \in Workers, Work(w) \/ Fault(w)
    PROVE  \/ Unlocked' \subseteq Unlocked /\ drops' = drops
           \/ Unlocked' \subseteq Unlocked \cup {w} /\ drops' = drops + 1
<1> USE DEF Typed, Phases, Goto, Unlocked, Inside
<1>1. CASE Boot(w)
  BY <1>1 DEF Boot
<1>2. CASE TryAcquire(w)
  BY <1>2 DEF TryAcquire, ConstantsOK
<1>3. CASE LeaveBusy(w)
  BY <1>3 DEF LeaveBusy
<1>4. CASE StartRun(w)
  BY <1>4 DEF StartRun
<1>5. CASE Finish(w)
  BY <1>5 DEF Finish
<1>6. CASE EndRun(w)
  BY <1>6 DEF EndRun
<1>7. CASE Release(w)
  BY <1>7 DEF Release
<1>8. ASSUME NEW t \in Tasks, Take(w, t) PROVE Unlocked' \subseteq Unlocked /\ drops' = drops
  BY <1>8 DEF Take
<1>9. CASE StartFails(w)
  BY <1>9 DEF StartFails
<1>10. CASE EndRunFails(w)
  BY <1>10 DEF EndRunFails
<1>11. CASE Stop(w)
  BY <1>11 DEF Stop
<1>12. CASE Crash(w)
  BY <1>12 DEF Crash
<1>13. CASE DropSession(w)
  BY <1>13 DEF DropSession
<1> QED
  BY <1>1, <1>2, <1>3, <1>4, <1>5, <1>6, <1>7, <1>8, <1>9, <1>10, <1>11, <1>12,
     <1>13 DEF Work, Fault

LEMMA NextKeepsCut ==
    ASSUME ConstantsOK
    PROVE  Typed /\ WritersNeedACut /\ [Next]_vars => WritersNeedACut'
<1> SUFFICES ASSUME Typed, WritersNeedACut, [Next]_vars PROVE WritersNeedACut'
  OBVIOUS
<1>1. /\ IsFiniteSet(Unlocked) /\ IsFiniteSet(Unlocked')
      /\ Cardinality(Unlocked) \in Nat /\ Cardinality(Unlocked') \in Nat
  BY UnlockedFinite, FS_CardinalityType
<1>2. drops \in Nat /\ Cardinality(Unlocked) <= drops
  BY DEF Typed, WritersNeedACut, Unlocked
<1>3. CASE Unlocked' \subseteq Unlocked /\ drops' = drops
  <2>1. Cardinality(Unlocked') <= Cardinality(Unlocked)
    BY <1>1, <1>3, FS_Subset
  <2> QED
    BY <1>1, <1>2, <1>3, <2>1 DEF WritersNeedACut, Unlocked
<1>4. ASSUME NEW w \in Workers,
             Unlocked' \subseteq Unlocked \cup {w}, drops' = drops + 1
      PROVE  WritersNeedACut'
  <2>1. /\ IsFiniteSet(Unlocked \cup {w})
        /\ Cardinality(Unlocked \cup {w}) <= Cardinality(Unlocked) + 1
    <3> HIDE DEF Unlocked
    <3>1. IsFiniteSet(Unlocked \cup {w})
      BY <1>1, FS_AddElement
    <3>2. Cardinality(Unlocked \cup {w}) =
            IF w \in Unlocked THEN Cardinality(Unlocked) ELSE Cardinality(Unlocked) + 1
      BY <1>1, FS_AddElement
    <3> QED
      BY <1>1, <3>1, <3>2
  <2>2. Cardinality(Unlocked') <= Cardinality(Unlocked \cup {w})
    BY <1>4, <2>1, FS_Subset
  <2>3. Cardinality(Unlocked') <= drops'
    <3>1. Cardinality(Unlocked \cup {w}) \in Nat
      BY <2>1, FS_CardinalityType
    <3> QED
      BY <1>1, <1>2, <1>4, <2>1, <2>2, <3>1
  <2> QED
    BY <2>3 DEF WritersNeedACut, Unlocked
<1>5. ASSUME NEW w \in Workers, Work(w) \/ Fault(w) PROVE WritersNeedACut'
  BY <1>3, <1>4, <1>5, StepKeepsUnlocked
<1>6. CASE ServerNotices \/ ReadLock \/ ReadRuns \/ UNCHANGED vars
  <2>1. Unlocked' \subseteq Unlocked /\ drops' = drops
    BY <1>6 DEF ServerNotices, ReadLock, ReadRuns, vars, Unlocked, Inside, ConstantsOK
  <2> QED
    BY <1>3, <2>1
<1> QED
  BY <1>5, <1>6 DEF Next

LEMMA InitCut == ASSUME ConstantsOK PROVE Init => WritersNeedACut
<1> SUFFICES ASSUME Init PROVE WritersNeedACut
  OBVIOUS
<1>1. {w \in Inside : holder # w} = {}
  BY DEF Init, Inside
<1> QED
  BY <1>1, FS_EmptySet DEF Init, WritersNeedACut

\* However processes start, stop and die, those past the lock without holding
\* it are no more than the sessions that were cut under a live one: losing the
\* session is the only way to a second loop (lock.py try_acquire).
THEOREM CutsAreNeeded == ASSUME ConstantsOK PROVE Spec => []WritersNeedACut
<1>1. Typed /\ RunsAreCounted /\ WritersNeedACut /\ [Next]_vars
        => (Typed /\ RunsAreCounted /\ WritersNeedACut)'
  BY NextTyped, NextKeepsCut
<1> QED
  BY <1>1, InitTyped, InitCut, PTL DEF Spec

LEMMA NoCutNoUnlocked ==
    ASSUME ConstantsOK, WritersNeedACut, drops = 0
    PROVE  \A w \in Inside : holder = w
<1>1. IsFiniteSet(Unlocked) /\ Cardinality(Unlocked) \in Nat
  BY UnlockedFinite, FS_CardinalityType
<1>2. Cardinality(Unlocked) = 0
  BY <1>1 DEF WritersNeedACut, Unlocked
<1>3. Unlocked = {}
  BY <1>1, <1>2, FS_EmptySet
<1> QED
  BY <1>3 DEF Unlocked

\* Until the first fault, an open row of etl_runs is the row of the process that
\* holds the lock: what the readiness probe reads in two connections belongs
\* together (record_run_end runs before lock.release()).
THEOREM OpenRunHeld == ASSUME ConstantsOK PROVE Spec => []OpenRunHoldsLock
<1>1. RunsAreCounted /\ Typed /\ WritersNeedACut => OpenRunHoldsLock
  <2> SUFFICES ASSUME RunsAreCounted, Typed, WritersNeedACut, faults = 0, drops = 0,
                      NEW w \in Workers, openRuns[w] > 0
               PROVE  holder = w
    BY DEF OpenRunHoldsLock
  <2>1. Recorded(w)
    BY DEF RunsAreCounted, Typed
  <2> QED
    BY <2>1, NoCutNoUnlocked DEF Recorded, Inside
<1>2. Typed /\ RunsAreCounted /\ WritersNeedACut /\ [Next]_vars
        => (Typed /\ RunsAreCounted /\ WritersNeedACut)'
  BY NextTyped, NextKeepsCut
<1> QED
  BY <1>1, <1>2, InitTyped, InitCut, PTL DEF Spec
(***************************************************************************)
(* While no session is cut, the lock implements SingleWriter.              *)
(***************************************************************************)
\* A task is worked on by a running process, and is in progress meanwhile.
TasksInHand ==
    \A w \in Workers : mine[w] # None => /\ pc[w] = "running"
                                         /\ queue[mine[w]] = "in_progress"

HolderInside == \A w \in Inside : holder = w

LEMMA InitInHand == Init => TasksInHand
  BY DEF Init, TasksInHand

LEMMA NextInHand ==
    ASSUME ConstantsOK, Typed, HolderInside, TasksInHand, [Next]_vars
    PROVE  TasksInHand'
<1> USE DEF Typed, Phases, Goto, TasksInHand
<1>1. ASSUME NEW w \in Workers, Boot(w) \/ TryAcquire(w) \/ LeaveBusy(w)
      PROVE  TasksInHand'
  BY <1>1 DEF Boot, TryAcquire, LeaveBusy
<1>2. ASSUME NEW w \in Workers, StartRun(w) PROVE TasksInHand'
  <2>1. \A v \in Workers : pc[v] # "running"
    BY <1>2 DEF StartRun, HolderInside, Inside
  <2>2. \A v \in Workers : mine'[v] = None
    BY <1>2, <2>1 DEF StartRun
  <2> QED
    BY <2>2
<1>3. ASSUME NEW w \in Workers, NEW t \in Tasks, Take(w, t) PROVE TasksInHand'
  BY <1>3 DEF Take
<1>4. ASSUME NEW w \in Workers, Finish(w) PROVE TasksInHand'
  <2>1. \A v \in Workers : v # w => mine[v] = None
    BY <1>4 DEF Finish, HolderInside, Inside
  <2> QED
    BY <1>4, <2>1 DEF Finish
<1>5. ASSUME NEW w \in Workers, EndRun(w) \/ Release(w) \/ StartFails(w) \/ EndRunFails(w)
      PROVE  TasksInHand'
  BY <1>5 DEF EndRun, Release, StartFails, EndRunFails
<1>6. ASSUME NEW w \in Workers, Stop(w) \/ Crash(w) \/ DropSession(w)
      PROVE  TasksInHand'
  BY <1>6 DEF Stop, Crash, DropSession
<1>7. CASE ServerNotices \/ ReadLock \/ ReadRuns \/ UNCHANGED vars
  BY <1>7 DEF ServerNotices, ReadLock, ReadRuns, vars
<1> QED
  BY <1>1, <1>2, <1>3, <1>4, <1>5, <1>6, <1>7 DEF Next, Work, Fault

LEMMA OneRuns ==
    ASSUME HolderInside
    PROVE  \A v, w \in Running : v = w
  BY DEF HolderInside, Inside, Running

LEMMA WriterIs ==
    /\ Running = {} => writer = None
    /\ \A w \in Workers : Running = {w} => writer = w
<1>1. ASSUME NEW w \in Workers, Running = {w} PROVE writer = w
  <2>1. writer = CHOOSE v \in {w} : TRUE
    BY <1>1 DEF writer
  <2> QED
    BY <2>1
<1> QED
  BY <1>1 DEF writer

\* What a step does to the set of running processes is what it does to the writer.
LEMMA WriterMoves ==
    ASSUME HolderInside, NEW w \in Workers
    PROVE  /\ w \in Running => Running = {w} /\ writer = w
           /\ Running' = {} => writer' = None
           /\ Running' = {w} => writer' = w
<1>1. w \in Running => Running = {w}
  BY OneRuns
<1>2. w \in Running => writer = w
  BY <1>1, WriterIs
<1>3. (Running' = {} => writer' = None) /\ (Running' = {w} => writer' = w)
  <2>1. Running' = {} => writer' = None
    BY DEF writer
  <2>2. ASSUME Running' = {w} PROVE writer' = w
    <3>1. writer' = CHOOSE v \in {w} : TRUE
      BY <2>2 DEF writer
    <3> QED
      BY <3>1
  <2> QED
    BY <2>1, <2>2
<1> QED
  BY <1>1, <1>2, <1>3

LEMMA Stutters ==
    ASSUME Running' = Running, UNCHANGED queue
    PROVE  UNCHANGED Abstract!vars
  BY DEF writer, Abstract!vars

LEMMA InitMaps == Init => Abstract!Init
<1> SUFFICES ASSUME Init PROVE Abstract!Init
  OBVIOUS
<1>1. Running = {}
  BY DEF Init, Running
<1> QED
  BY <1>1, WriterIs DEF Init, Abstract!Init

LEMMA StepMaps ==
    ASSUME ConstantsOK, Typed, HolderInside, TasksInHand, [Next]_vars
    PROVE  [Abstract!Next]_(Abstract!vars)
<1> USE DEF Typed, Phases, Goto
<1>1. ASSUME NEW w \in Workers,
             \/ Boot(w) \/ TryAcquire(w) \/ LeaveBusy(w) \/ EndRun(w) \/ Release(w)
             \/ StartFails(w) \/ EndRunFails(w) \/ DropSession(w)
      PROVE  UNCHANGED Abstract!vars
  <2>1. Running' = Running /\ UNCHANGED queue
    BY <1>1 DEF Running, Boot, TryAcquire, LeaveBusy, EndRun, Release, StartFails,
                EndRunFails, DropSession
  <2> QED
    BY <2>1, Stutters
<1>2. ASSUME NEW w \in Workers, StartRun(w) PROVE Abstract!Begin(w)
  <2>1. Running = {} /\ Running' = {w}
    BY <1>2 DEF StartRun, HolderInside, Inside, Running
  <2>2. writer = None /\ writer' = w
    BY <2>1, WriterIs, WriterMoves
  <2> QED
    BY <1>2, <2>2 DEF StartRun, RequeueOrphans, Abstract!Begin
<1>3. ASSUME NEW w \in Workers, NEW t \in Tasks, Take(w, t) PROVE Abstract!Take(w, t)
  <2>1. w \in Running /\ Running' = Running
    BY <1>3 DEF Take, Running
  <2>2. writer = w /\ writer' = writer
    BY <2>1, WriterMoves DEF writer
  <2> QED
    BY <1>3, <2>2 DEF Take, Abstract!Take
<1>4. ASSUME NEW w \in Workers, Finish(w)
      PROVE  \E t \in Tasks : Abstract!Finish(w, t)
  <2>1. w \in Running /\ Running' = Running
    BY <1>4 DEF Finish, Running
  <2>2. writer = w /\ writer' = writer
    BY <2>1, WriterMoves DEF writer
  <2>3. mine[w] \in Tasks /\ queue[mine[w]] = "in_progress"
    BY <1>4 DEF Finish, TasksInHand
  <2>4. Abstract!Finish(w, mine[w])
    BY <1>4, <2>2, <2>3 DEF Finish, Abstract!Finish
  <2> QED
    BY <2>3, <2>4
<1>5. ASSUME NEW w \in Workers, Stop(w) \/ Crash(w)
      PROVE  Abstract!End(w) \/ UNCHANGED Abstract!vars
  <2>1. CASE w \in Running
    <3>1. Running = {w} /\ writer = w
      BY <2>1, WriterMoves
    <3>2. Running' = {} /\ UNCHANGED queue
      BY <1>5, <3>1 DEF Stop, Crash, Running
    <3>3. writer' = None
      BY <3>2, WriterMoves
    <3> QED
      BY <3>1, <3>2, <3>3 DEF Abstract!End
  <2>2. CASE w \notin Running
    <3>1. Running' = Running /\ UNCHANGED queue
      BY <1>5, <2>2 DEF Stop, Crash, Running
    <3> QED
      BY <3>1, Stutters
  <2> QED
    BY <2>1, <2>2
<1>6. CASE ServerNotices \/ ReadLock \/ ReadRuns \/ UNCHANGED vars
  <2>1. Running' = Running /\ UNCHANGED queue
    BY <1>6 DEF ServerNotices, ReadLock, ReadRuns, vars, Running
  <2> QED
    BY <2>1, Stutters
<1> QED
  BY <1>1, <1>2, <1>3, <1>4, <1>5, <1>6 DEF Next, Work, Fault, Abstract!Next

\* As long as no lock session is cut, the processes together behave as the one
\* writer of SingleWriter, however often they start, stop, die and are replaced:
\* a loop begins only when no other runs, puts back what was left in progress,
\* and a task is taken and closed by that loop alone.
THEOREM OneWriter ==
    ASSUME ConstantsOK, MaxDrops = 0
    PROVE  Spec => Abstract!Spec
<1> DEFINE Inv == /\ Typed /\ RunsAreCounted /\ WritersNeedACut
                  /\ HolderInside /\ TasksInHand
<1>1. Typed /\ WritersNeedACut => HolderInside
  BY NoCutNoUnlocked DEF Typed, HolderInside
<1>2. Init => Inv
  BY <1>1, InitTyped, InitCut, InitInHand
<1>3. Inv /\ [Next]_vars => Inv'
  <2> SUFFICES ASSUME Inv, [Next]_vars PROVE Inv'
    OBVIOUS
  <2>1. (Typed /\ RunsAreCounted /\ WritersNeedACut)'
    BY NextTyped, NextKeepsCut
  <2>2. drops' = 0
    BY <2>1 DEF Typed
  <2>3. HolderInside'
    <3>1. IsFiniteSet(Unlocked') /\ Cardinality(Unlocked') \in Nat
      BY UnlockedFinite, FS_CardinalityType
    <3>2. Cardinality(Unlocked') = 0
      BY <2>1, <2>2, <3>1 DEF WritersNeedACut, Unlocked
    <3>3. Unlocked' = {}
      BY <3>1, <3>2, FS_EmptySet
    <3> QED
      BY <3>3 DEF Unlocked, HolderInside
  <2> QED
    BY <2>1, <2>3, NextInHand
<1>4. Init => Abstract!Init
  BY InitMaps
<1>5. Inv /\ [Next]_vars => [Abstract!Next]_(Abstract!vars)
  BY StepMaps
<1> QED
  BY <1>2, <1>3, <1>4, <1>5, PTL DEF Spec, Abstract!Spec

-----------------------------------------------------------------------------
(* The prices of a call.                                                   *)

LEMMA MinOfNats ==
    ASSUME NEW S \in SUBSET Nat, S # {}
    PROVE  Odds!Min(S) \in S
<1>1. PICK m \in S : \A y \in S : <<y, m>> \notin OpToRel(<, Nat)
  BY NatLessThanWellFounded, WFMin, Zenon
<1>2. \A y \in S : <<y, m>> \in OpToRel(<, Nat) <=> y < m
  BY DEF OpToRel
<1>3. \A y \in S : ~(y < m)
  BY <1>1, <1>2, Zenon
<1>4. m \in Nat
  OBVIOUS
<1>5. \A y \in S : m <= y
  BY <1>3, <1>4
<1> QED
  BY <1>5 DEF Odds!Min

PriceRows == [Fixtures -> Odds!Scores]

OddsTyped ==
    /\ goals \in PriceRows /\ feed \in PriceRows /\ scores \in PriceRows
    /\ stamp \in PriceRows /\ made \in PriceRows
    /\ selected \in PriceRows /\ quotes \in PriceRows
    /\ wanted \in SUBSET Fixtures /\ ids \in SUBSET Fixtures
    /\ unserved \in SUBSET wanted /\ again \in SUBSET wanted
    /\ unfetched \in SUBSET ids
    /\ event \in BOOLEAN /\ deaf \in BOOLEAN
    /\ drainer \in {"idle", "score", "price", "store", "clear"}
    /\ drainer \in {"score", "price"} <=> unfetched # {}
    /\ got \in [score : PriceRows, price : PriceRows]
    /\ advisor \in {"idle", "quotes", "book", "wait", "recheck"}
    /\ book \in 1 .. Books /\ cands \in [1 .. Books -> SUBSET Fixtures]
    /\ polls \in 0 .. MaxPolls /\ errored \in 0 .. MaxFailures
    /\ called \in SUBSET (Fixtures \X Odds!Scores \X Odds!Scores)

\* A stored price is stamped with the score it was made at, by each of the
\* three ways a price comes in.
PricesInv == OddsTyped /\ stamp = made /\ Odds!PricedAtItsScore

LEMMA OddsInit == Odds!Init => PricesInv
<1> SUFFICES ASSUME Odds!Init PROVE PricesInv
  OBVIOUS
<1> USE DEF Odds!Init
<1>1. Odds!Nowhere \in PriceRows
  BY OddsConstants DEF Odds!Nowhere, Odds!Scores, PriceRows, Odds!ConstantsOK
<1>2. Odds!Nothing \in [score : PriceRows, price : PriceRows]
  BY <1>1 DEF Odds!Nothing
<1>3. /\ book \in 1 .. Books /\ cands \in [1 .. Books -> SUBSET Fixtures]
      /\ polls \in 0 .. MaxPolls /\ errored \in 0 .. MaxFailures
  BY OddsConstants DEF Odds!ConstantsOK
<1> QED
  BY <1>1, <1>2, <1>3 DEF PricesInv, OddsTyped, Odds!PricedAtItsScore

LEMMA NextBookTyped ==
    ASSUME OddsTyped, Odds!NextBook
    PROVE  /\ advisor' \in {"idle", "book"} /\ book' \in 1 .. Books
           /\ cands' \in [1 .. Books -> SUBSET Fixtures]
<1>1. book \in 1 .. Books /\ Books \in Nat \ {0} /\ cands \in [1 .. Books -> SUBSET Fixtures]
  BY OddsConstants DEF OddsTyped, Odds!ConstantsOK
<1>2. CASE book = Books
  BY <1>1, <1>2 DEF Odds!NextBook
<1>3. CASE book # Books
  BY <1>1, <1>3 DEF Odds!NextBook
<1> QED
  BY <1>2, <1>3

\* The matches and the worker.
LEMMA WorkerTyped ==
    ASSUME PricesInv, UNCHANGED Odds!asking,
           \/ \E f \in Fixtures : Odds!Goal(f) \/ Odds!FeedCatchesUp(f)
           \/ Odds!ScorePoll \/ Odds!OddsPoll \/ Odds!Deafen
           \/ Odds!DrainOnWake \/ Odds!DrainOnTick
           \/ Odds!FetchScore \/ Odds!FetchPrice \/ Odds!StoreBoth \/ Odds!DrainFails
           \/ Odds!Clear
    PROVE  OddsTyped'
<1> USE DEF PricesInv, OddsTyped, Odds!asking, Odds!requests
<1>1. ASSUME NEW f \in Fixtures, Odds!Goal(f) PROVE OddsTyped'
  <2>1. goals' \in PriceRows
    <3>1. goals[f] \in 0 .. MaxGoals /\ MaxGoals \in Nat
      BY OddsConstants DEF PriceRows, Odds!Scores, Odds!ConstantsOK
    <3>2. goals[f] + 1 \in Odds!Scores
      BY <1>1, <3>1 DEF Odds!Goal, Odds!Scores
    <3> QED
      BY <1>1, <3>2 DEF Odds!Goal, PriceRows
  <2> QED
    BY <1>1, <2>1 DEF Odds!Goal, Odds!store, Odds!drain
<1>2. ASSUME NEW f \in Fixtures, Odds!FeedCatchesUp(f) PROVE OddsTyped'
  <2>1. feed' \in PriceRows
    BY <1>2 DEF Odds!FeedCatchesUp, PriceRows
  <2> QED
    BY <1>2, <2>1 DEF Odds!FeedCatchesUp, Odds!store, Odds!drain
<1>3. CASE Odds!ScorePoll \/ Odds!OddsPoll \/ Odds!Deafen
  BY <1>3 DEF Odds!ScorePoll, Odds!OddsPoll, Odds!Deafen, Odds!store, Odds!drain
<1>4. CASE Odds!DrainOnWake \/ Odds!DrainOnTick
  BY <1>4 DEF Odds!DrainOnWake, Odds!DrainOnTick, Odds!DrainWith, Odds!store
<1>5. ASSUME drainer \in {"score", "price"} PROVE Odds!Min(unfetched) \in Fixtures
  BY <1>5, OddsConstants, MinOfNats DEF Odds!ConstantsOK
<1>6. CASE Odds!FetchScore
  <2>1. goals[Odds!Min(unfetched)] \in Odds!Scores
    BY <1>5, <1>6 DEF Odds!FetchScore, PriceRows
  <2>2. got' \in [score : PriceRows, price : PriceRows]
    BY <1>6, <2>1 DEF Odds!FetchScore, PriceRows
  <2> QED
    BY <1>6, <2>2 DEF Odds!FetchScore, Odds!store
<1>7. CASE Odds!FetchPrice
  <2>1. feed[Odds!Min(unfetched)] \in Odds!Scores
    BY <1>5, <1>7 DEF Odds!FetchPrice, PriceRows
  <2>2. got' \in [score : PriceRows, price : PriceRows]
    BY <1>7, <2>1 DEF Odds!FetchPrice, PriceRows
  <2> QED
    BY <1>7, <2>2 DEF Odds!FetchPrice, Odds!store
<1>8. Odds!Nothing \in [score : PriceRows, price : PriceRows]
  BY OddsConstants DEF Odds!Nothing, Odds!Nowhere, Odds!Scores, PriceRows, Odds!ConstantsOK
<1>9. CASE Odds!StoreBoth
  <2>1. scores' \in PriceRows /\ stamp' \in PriceRows /\ made' \in PriceRows
    BY <1>9 DEF Odds!StoreBoth, PriceRows
  <2> QED
    BY <1>8, <1>9, <2>1 DEF Odds!StoreBoth
<1>10. CASE Odds!DrainFails
  BY <1>8, <1>10, OddsConstants DEF Odds!DrainFails, Odds!store, Odds!ConstantsOK
<1>11. CASE Odds!Clear
  <2>1. drainer = "clear" /\ unfetched' = unfetched /\ ids' = {}
    BY <1>11 DEF Odds!Clear
  <2> QED
    BY <1>11, <2>1 DEF Odds!Clear, Odds!store
<1> QED
  BY <1>1, <1>2, <1>3, <1>4, <1>6, <1>7, <1>9, <1>10, <1>11

\* The advisor.
LEMMA AdvisorTyped ==
    ASSUME PricesInv, UNCHANGED <<goals, feed, Odds!store, Odds!drain, deaf, errored>>,
           \/ Odds!ReadBoard \/ Odds!ReadQuotes \/ Odds!AskForPrices \/ Odds!SkipBook
           \/ Odds!PollQuotes \/ Odds!CallModel
    PROVE  OddsTyped'
<1> USE DEF PricesInv, OddsTyped, Odds!store, Odds!drain, Odds!requests
<1>1. CASE Odds!ReadBoard
  BY <1>1 DEF Odds!ReadBoard
<1>2. CASE Odds!ReadQuotes
  <2>1. cands' \in [1 .. Books -> SUBSET Fixtures]
    BY <1>2 DEF Odds!ReadQuotes, Odds!Fitting
  <2> QED
    BY <1>2, <2>1 DEF Odds!ReadQuotes
<1>3. CASE Odds!AskForPrices
  <2>1. cands[book] \in SUBSET Fixtures /\ MaxPolls \in 0 .. MaxPolls
    BY OddsConstants DEF Odds!ConstantsOK
  <2>2. /\ wanted' \in SUBSET Fixtures /\ unserved' \in SUBSET wanted'
        /\ again' \in SUBSET wanted'
        /\ event' \in BOOLEAN /\ polls' \in 0 .. MaxPolls
    BY <1>3, <2>1 DEF Odds!AskForPrices, Odds!Needing
  <2> QED
    BY <1>3, <2>2 DEF Odds!AskForPrices
<1>4. CASE Odds!SkipBook
  BY <1>4, NextBookTyped DEF Odds!SkipBook
<1>5. CASE Odds!PollQuotes
  <2>1. MaxPolls \in Nat /\ polls \in 0 .. MaxPolls
    BY OddsConstants DEF Odds!ConstantsOK
  <2>2. CASE Odds!Needing(scores, stamp) = {}
    BY <1>5, <2>1, <2>2 DEF Odds!PollQuotes
  <2>3. CASE Odds!Needing(scores, stamp) # {} /\ polls = 0
    BY <1>5, <2>3, NextBookTyped DEF Odds!PollQuotes
  <2>4. CASE Odds!Needing(scores, stamp) # {} /\ polls # 0
    <3>1. polls' \in 0 .. MaxPolls
      BY <1>5, <2>1, <2>4 DEF Odds!PollQuotes
    <3> QED
      BY <1>5, <2>4, <3>1 DEF Odds!PollQuotes
  <2> QED
    BY <2>2, <2>3, <2>4
<1>6. CASE Odds!CallModel
  <2>1. called' \in SUBSET (Fixtures \X Odds!Scores \X Odds!Scores)
    BY <1>6 DEF Odds!CallModel, Odds!Fitting, PriceRows
  <2>2. quotes' \in PriceRows
    BY <1>6 DEF Odds!CallModel
  <2> QED
    BY <1>6, <2>1, <2>2, NextBookTyped DEF Odds!CallModel
<1> QED
  BY <1>1, <1>2, <1>3, <1>4, <1>5, <1>6

LEMMA OddsNext == PricesInv /\ [Odds!Next]_(Odds!vars) => PricesInv'
<1> SUFFICES ASSUME PricesInv, [Odds!Next]_(Odds!vars) PROVE PricesInv'
  OBVIOUS
<1>1. OddsTyped'
  <2>1. CASE UNCHANGED Odds!vars
    BY <2>1 DEF PricesInv, OddsTyped, Odds!vars, Odds!store, Odds!requests, Odds!drain,
                Odds!asking
  <2>2. CASE \/ \E f \in Fixtures : Odds!Goal(f) \/ Odds!FeedCatchesUp(f)
             \/ Odds!ScorePoll \/ Odds!OddsPoll \/ Odds!Deafen
             \/ Odds!DrainOnWake \/ Odds!DrainOnTick
             \/ Odds!FetchScore \/ Odds!FetchPrice \/ Odds!StoreBoth \/ Odds!DrainFails
             \/ Odds!Clear
    <3>1. UNCHANGED Odds!asking
      BY <2>2 DEF Odds!Goal, Odds!FeedCatchesUp, Odds!ScorePoll, Odds!OddsPoll, Odds!Deafen,
                  Odds!DrainOnWake, Odds!DrainOnTick, Odds!DrainWith, Odds!FetchScore,
                  Odds!FetchPrice, Odds!StoreBoth, Odds!DrainFails, Odds!Clear, Odds!asking
    <3> QED
      BY <2>2, <3>1, WorkerTyped
  <2>3. CASE \/ Odds!ReadBoard \/ Odds!ReadQuotes \/ Odds!AskForPrices \/ Odds!SkipBook
             \/ Odds!PollQuotes \/ Odds!CallModel
    <3>1. UNCHANGED <<goals, feed, Odds!store, Odds!drain, deaf, errored>>
      BY <2>3 DEF Odds!ReadBoard, Odds!ReadQuotes, Odds!AskForPrices, Odds!SkipBook,
                  Odds!PollQuotes, Odds!CallModel
    <3> QED
      BY <2>3, <3>1, AdvisorTyped
  <2> QED
    BY <2>1, <2>2, <2>3 DEF Odds!Next
<1>2. (stamp = made /\ Odds!PricedAtItsScore)'
  <2> USE DEF PricesInv, Odds!PricedAtItsScore
  <2>1. ASSUME UNCHANGED <<stamp, made, called>>
        PROVE  (stamp = made /\ Odds!PricedAtItsScore)'
    BY <2>1
  <2>2. CASE UNCHANGED Odds!vars
    BY <2>1, <2>2 DEF Odds!vars, Odds!store, Odds!asking
  <2>3. ASSUME NEW f \in Fixtures, Odds!Goal(f) \/ Odds!FeedCatchesUp(f) 
        PROVE  (stamp = made /\ Odds!PricedAtItsScore)'
    BY <2>1, <2>3 DEF Odds!Goal, Odds!FeedCatchesUp, Odds!store, Odds!asking
  <2>4. CASE Odds!ScorePoll \/ Odds!Deafen
    BY <2>1, <2>4 DEF Odds!ScorePoll, Odds!Deafen, Odds!store, Odds!asking
  <2>5. CASE Odds!OddsPoll
    BY <2>5 DEF Odds!OddsPoll, Odds!asking
  <2>6. CASE Odds!DrainOnWake \/ Odds!DrainOnTick
    BY <2>1, <2>6 DEF Odds!DrainOnWake, Odds!DrainOnTick, Odds!DrainWith, Odds!store, Odds!asking
  <2>7. CASE Odds!FetchScore \/ Odds!FetchPrice \/ Odds!DrainFails \/ Odds!Clear
    BY <2>1, <2>7
       DEF Odds!FetchScore, Odds!FetchPrice, Odds!DrainFails, Odds!Clear, Odds!store, Odds!asking
  <2>8. CASE Odds!StoreBoth
    BY <2>8 DEF Odds!StoreBoth, Odds!asking
  <2>9. CASE Odds!ReadBoard \/ Odds!ReadQuotes \/ Odds!AskForPrices
    BY <2>1, <2>9 DEF Odds!ReadBoard, Odds!ReadQuotes, Odds!AskForPrices, Odds!store
  <2>10. CASE Odds!SkipBook \/ Odds!PollQuotes
    BY <2>1, <2>10 DEF Odds!SkipBook, Odds!PollQuotes, Odds!store
  <2>11. CASE Odds!CallModel
    <3>1. UNCHANGED <<stamp, made>>
      BY <2>11 DEF Odds!CallModel, Odds!store
    <3>2. \A f \in Odds!Fitting(selected, stamp) : selected[f] = made[f]
      BY DEF Odds!Fitting
    <3>3. \/ called' = {<<f, selected[f], made[f]>> : f \in Odds!Fitting(selected, stamp)}
          \/ called' = called
      BY <2>11 DEF Odds!CallModel
    <3> QED
      BY <3>1, <3>2, <3>3
  <2> QED
    BY <2>2, <2>3, <2>4, <2>5, <2>6, <2>7, <2>8, <2>9, <2>10, <2>11 DEF Odds!Next
<1> QED
  BY <1>1, <1>2 DEF PricesInv

(***************************************************************************)
(* A call shows the model prices made at the score it is told, for any     *)
(* matches, strategies, polls and failures (_refresh_before_llm), and the  *)
(* worker and the advisor leave every table in its types.                  *)
(***************************************************************************)
THEOREM CallsArePriced == MCSpec => []PricedAtItsScore
<1>1. MCInit => Odds!Init
  BY DEF MCInit
<1>2. [MCNext]_allVars => [Odds!Next]_(Odds!vars)
  BY DEF MCNext, allVars, oddsVars, Odds!vars, Odds!store, Odds!requests, Odds!drain,
         Odds!asking
<1>3. PricesInv => PricedAtItsScore
  <2> SUFFICES ASSUME PricesInv PROVE Odds!TypeOK /\ Odds!PricedAtItsScore
    BY DEF PricedAtItsScore
  <2> QED
    BY DEF PricesInv, OddsTyped, PriceRows, Odds!TypeOK
<1> QED
  BY <1>1, <1>2, <1>3, OddsInit, OddsNext, PTL DEF MCSpec
===============================================================================
