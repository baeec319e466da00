---------------------------- MODULE EtlQueueProofs ----------------------------
(***************************************************************************)
(* Proofs about EtlQueue, for any matches, league seasons, kinds of task   *)
(* and limits.  The inductive invariant adds to ClaimsAreOwned that a      *)
(* worker that is down is fetching nothing: a restart then leaves no task  *)
(* in progress without an owner, and no owner without its task.            *)
(***************************************************************************)
EXTENDS EtlQueue, TLAPS

\* A worker that is down has no fetch in flight.
DownIsIdle == lane = "down" => \A t \in Tasks : job[t] = "none"

\* What every step keeps.
IndInv == TypeOK /\ ClaimsAreOwned /\ DownIsIdle

\* A task of kind detail belongs to a match.
LEMMA DetailTask ==
    ASSUME NEW t \in Tasks, Kind(t) = "detail"
    PROVE  t[2] \in Matches
BY DEF Tasks, MatchTasks, LeagueTasks, Kind

\* Detail(m), where it exists, is the task of kind detail of the match m.
LEMMA DetailKind ==
    ASSUME NEW m
    PROVE  Kind(Detail(m)) = "detail"
BY DEF Kind, Detail

\* Followups gives every task a status.
LEMMA FollowupsType ==
    ASSUME status \in [Tasks -> Status], NEW found, NEW U, NEW V
    PROVE  Followups(found, U, V) \in [Tasks -> Status]
BY DEF Followups, Ensured, Status, Open, Claimable, Terminal

\* Followups starts and ends no fetch: a task in progress is retired or kept.
LEMMA FollowupsKeepsClaims ==
    ASSUME status \in [Tasks -> Status], NEW found, NEW U, NEW V, NEW t \in Tasks
    PROVE  Followups(found, U, V)[t] = "in_progress" => status[t] = "in_progress"
BY DEF Followups, Ensured, Status, Open, Claimable, Terminal

\* The counters stay under their bounds.
LEMMA CountType ==
    ASSUME NEW limit \in Nat, NEW n \in 0 .. limit
    PROVE  Count(n, limit) \in 0 .. limit
BY DEF Count

\* Nothing that is closed for good is opened by Followups.
LEMMA FollowupsKeepsClosed ==
    ASSUME status \in [Tasks -> Status], NEW found, NEW U, NEW V, NEW t \in Tasks,
           status[t] \in Terminal
    PROVE  Followups(found, U, V)[t] = status[t]
BY DEF Followups, Ensured, Status, Open, Claimable, Terminal

-----------------------------------------------------------------------------
\* The invariant holds before the worker has ever started.
LEMMA InitInv == Init => IndInv
BY LimitsAssumption
   DEF Init, IndInv, TypeOK, ClaimsAreOwned, DownIsIdle, Status, Open, Claimable,
       Terminal, Modes, Phases

\* A start and an end of the process keep it.
LEMMA LifeKeeps ==
    ASSUME IndInv, Start \/ Crash \/ SwitchLane
    PROVE  IndInv'
<1> USE DEF IndInv, TypeOK, ClaimsAreOwned, DownIsIdle, Status, Open, Claimable,
            Terminal, Modes, taskVars, matchVars
<1>1. CASE Start
  <2>1. PICK stored \in SUBSET {t \in Tasks : Kind(t) = "global"
                                  /\ status[t] \in {"pending", "in_progress"}} :
          status' = [t \in Tasks |-> IF t \in stored THEN "complete"
                                     ELSE IF status[t] = "in_progress" THEN "pending"
                                     ELSE status[t]]
    BY <1>1 DEF Start
  <2>2. \A t \in Tasks : status'[t] # "in_progress" /\ job[t] = "none"
    BY <1>1, <2>1 DEF Start
  <2>3. status' \in [Tasks -> Status]
    BY <2>1
  <2> QED BY <1>1, <2>2, <2>3 DEF Start
<1>2. CASE Crash
  BY <1>2 DEF Crash, Dies
<1>3. CASE SwitchLane
  BY <1>3 DEF SwitchLane, Idle
<1> QED BY <1>1, <1>2, <1>3

\* So does everything that moves tasks without a fetch.
LEMMA HousekeepingKeeps ==
    ASSUME IndInv,
           \/ Polls
           \/ \E m \in Matches : \/ CloseStale(m) \/ PruneFinishing(m)
                                 \/ \E p \in Phases, U \in SUBSET Matches,
                                       V \in SUBSET Leagues : IngestDay(m, p, U, V)
           \/ \E t \in Tasks : SkipLookup(t)
    PROVE  IndInv'
<1> USE DEF IndInv, TypeOK, ClaimsAreOwned, DownIsIdle, Idle
<1>1. CASE Polls
  <2>1. PICK L \in SUBSET Matches, U \in SUBSET Matches, V \in SUBSET Leagues :
          Poll(L, U, V)
    BY <1>1 DEF Polls
  <2>2. status' \in [Tasks -> Status]
    BY <2>1, FollowupsType DEF Poll
  <2>3. \A t \in Tasks : job'[t] = "none"
                         /\ (status'[t] = "in_progress" => status[t] = "in_progress")
    BY <2>1, FollowupsKeepsClaims DEF Poll
  <2>4. /\ phase' \in [Matches -> Phases]
        /\ listed' \in [Matches -> {"off", "live", "finishing"}]
    BY <2>1 DEF Poll, Phases
  <2> QED BY <2>1, <2>2, <2>3, <2>4 DEF Poll
<1>2. ASSUME NEW m \in Matches, CloseStale(m) PROVE IndInv'
  BY <1>2 DEF CloseStale, matchVars, Status, Terminal
<1>3. ASSUME NEW m \in Matches, PruneFinishing(m) PROVE IndInv'
  BY <1>3 DEF PruneFinishing, taskVars
<1>4. ASSUME NEW m \in Matches, NEW p \in Phases, NEW U \in SUBSET Matches,
             NEW V \in SUBSET Leagues, IngestDay(m, p, U, V)
      PROVE  IndInv'
  <2>1. PICK found : status' = Followups(found, U, V)
    BY <1>4 DEF IngestDay
  <2>2. status' \in [Tasks -> Status]
    BY <2>1, FollowupsType
  <2>3. \A t \in Tasks : job'[t] = "none"
                         /\ (status'[t] = "in_progress" => status[t] = "in_progress")
    BY <1>4, <2>1, FollowupsKeepsClaims DEF IngestDay
  <2> QED BY <1>4, <2>2, <2>3 DEF IngestDay
<1>5. ASSUME NEW t \in Tasks, SkipLookup(t) PROVE IndInv'
  BY <1>5 DEF SkipLookup, matchVars, Status, Terminal
<1> QED BY <1>1, <1>2, <1>3, <1>4, <1>5

\* A claim marks the task and starts its fetch in one step.
LEMMA ClaimKeeps ==
    ASSUME IndInv, NEW tasks \in SUBSET Tasks, NEW mode \in Modes,
           lane # "down", Claim(tasks, mode)
    PROVE  IndInv'
BY DEF IndInv, TypeOK, ClaimsAreOwned, DownIsIdle, Claim, matchVars, Status, Open,
       Modes

\* Every way a fetch can end gives the task back or leaves it in `dropped'.
LEMMA JobEndsKeeps ==
    ASSUME IndInv, NEW t \in Tasks, JobEnds(t)
    PROVE  IndInv'
<1> USE DEF IndInv
<1>0. job[t] # "none" /\ lane # "down" /\ retries[t] \in 0 .. RetryLimit + 1
      /\ empties[t] \in 0 .. EmptyLimit /\ RetryLimit \in Nat /\ EmptyLimit \in Nat
  BY LimitsAssumption
     DEF JobEnds, Answered, FetchOk, DetailOk, SkipIrregular, FetchEmpty, FetchFails,
         QuotaOut, GivesUp, WindowCloses, Dropped, Fetches, TypeOK, DownIsIdle
<1>1. ASSUME NEW st \in Status \ {"in_progress"}, Ends(t, st), lane' = lane
      PROVE  /\ status' \in [Tasks -> Status]
             /\ job' \in [Tasks -> Modes \cup {"none"}]
             /\ dropped' = dropped /\ ClaimsAreOwned' /\ DownIsIdle'
  BY <1>0, <1>1 DEF TypeOK, Ends, ClaimsAreOwned, DownIsIdle
<1>2. ASSUME NEW p \in Phases, Kind(t) = "detail", Stamp(t, p)
      PROVE  finalAt' \in SUBSET Matches
  BY <1>2, DetailTask DEF Stamp, TypeOK
<1>3. CASE SkipIrregular(t)
  <2>1. finalAt' \in SUBSET Matches
    BY <1>2, <1>3 DEF SkipIrregular, Phases
  <2> QED BY <1>1, <1>3, <2>1 DEF SkipIrregular, TypeOK, Status, Terminal
<1>4. ASSUME NEW p \in Phases, DetailOk(t, p) PROVE IndInv'
  <2>1. t[2] \in Matches
    BY <1>4, DetailTask DEF DetailOk
  <2>2. PICK st \in {"complete", "coverage_empty"},
             half \in {{}, {<<"half", t[2]>>} \cap Tasks} :
               status' = [Ensured(status, half) EXCEPT ![t] = st]
    BY <1>4 DEF DetailOk
  <2>3. /\ status' \in [Tasks -> Status]
        /\ \A u \in Tasks : u # t =>
             (status'[u] = "in_progress" <=> status[u] = "in_progress")
        /\ status'[t] # "in_progress"
    BY <2>2 DEF TypeOK, Ensured, Status, Open, Claimable, Terminal
  <2>4. job' \in [Tasks -> Modes \cup {"none"}] /\ ClaimsAreOwned' /\ DownIsIdle'
    BY <1>0, <1>4, <2>3 DEF TypeOK, DetailOk, ClaimsAreOwned, DownIsIdle
  <2>5. /\ phase' \in [Matches -> Phases]
        /\ control' \in [Matches -> {"unset", "armed", "done"}]
        /\ seenFinal' \in SUBSET Matches
    BY <1>4, <2>1 DEF TypeOK, DetailOk, ControlAfter
  <2>6. finalAt' \in SUBSET Matches
    BY <1>2, <1>4 DEF DetailOk
  <2> QED BY <1>4, <2>3, <2>4, <2>5, <2>6 DEF TypeOK, DetailOk
<1>5. CASE FetchOk(t)
  BY <1>1, <1>5 DEF FetchOk, TypeOK, Status, Terminal, matchVars
<1>6. CASE FetchEmpty(t)
  <2>1. finalAt' \in SUBSET Matches
    BY <1>2, <1>6, DetailTask DEF FetchEmpty, TypeOK
  <2>2. CASE job[t] = "scoped"
    <3>1. EmptyStatus(empties[t] + 1) \in Status \ {"in_progress"}
      BY DEF EmptyStatus, Status, Open, Claimable, Terminal
    <3>2. Count(empties[t], EmptyLimit) \in 0 .. EmptyLimit
      BY <1>0, CountType
    <3>3. empties' \in [Tasks -> 0 .. EmptyLimit]
      BY <1>6, <2>2, <3>2 DEF FetchEmpty, TypeOK
    <3> QED BY <1>1, <1>6, <2>1, <2>2, <3>1, <3>3 DEF FetchEmpty, TypeOK
  <2>3. CASE job[t] # "scoped"
    BY <1>1, <1>6, <2>1, <2>3 DEF FetchEmpty, TypeOK, Status, Terminal
  <2> QED BY <2>2, <2>3
<1>7. CASE FetchFails(t)
  <2>1. FailStatus(retries[t] + 1) \in Status \ {"in_progress"}
    BY DEF FailStatus, Status, Open, Claimable, Terminal
  <2>2. RetryLimit + 1 \in Nat
    BY <1>0
  <2>3. Count(retries[t], RetryLimit + 1) \in 0 .. RetryLimit + 1
    BY <1>0, <2>2, CountType
  <2>4. retries' \in [Tasks -> 0 .. RetryLimit + 1]
    BY <1>7, <2>3 DEF FetchFails, TypeOK
  <2> QED BY <1>1, <1>7, <2>1, <2>4 DEF FetchFails, TypeOK, matchVars
<1>8. CASE QuotaOut(t) \/ GivesUp(t)
  BY <1>1, <1>8 DEF QuotaOut, GivesUp, TypeOK, Status, Open, Claimable, Terminal,
                    matchVars
<1>9. CASE WindowCloses(t)
  <2>1. CASE Kind(t) = "rounds"
    BY <1>0, <1>9, <2>1 DEF WindowCloses, LeftBehind, TypeOK, ClaimsAreOwned, DownIsIdle,
                            matchVars
  <2>2. CASE Kind(t) = "injuries"
    BY <1>9, <2>2 DEF WindowCloses, Dies, TypeOK, ClaimsAreOwned, DownIsIdle, Status,
                      Open, Claimable, matchVars
  <2>3. CASE Kind(t) \notin {"rounds", "injuries"}
    BY <1>1, <1>9, <2>3 DEF WindowCloses, TypeOK, Status, Open, Claimable, matchVars
  <2> QED BY <2>1, <2>2, <2>3
<1>10. CASE Dropped(t)
  BY <1>0, <1>10 DEF Dropped, LeftBehind, TypeOK, ClaimsAreOwned, DownIsIdle, matchVars
<1> QED BY <1>3, <1>4, <1>5, <1>6, <1>7, <1>8, <1>9, <1>10 DEF JobEnds, Answered

\* Every step of the queue keeps the invariant.
LEMMA NextKeeps ==
    ASSUME IndInv, [Next]_vars
    PROVE  IndInv'
<1>1. CASE Start \/ Crash \/ SwitchLane
  BY <1>1, LifeKeeps
<1>2. CASE Polls
  BY <1>2, HousekeepingKeeps
<1>3. ASSUME NEW m \in Matches,
             \/ CloseStale(m) \/ PruneFinishing(m)
             \/ \E p \in Phases, U \in SUBSET Matches, V \in SUBSET Leagues :
                  IngestDay(m, p, U, V)
      PROVE  IndInv'
  BY <1>3, HousekeepingKeeps
<1>4. ASSUME NEW m \in Matches, ClaimLive(m) \/ ClaimControl(m)
      PROVE  IndInv'
  <2>1. {Detail(m)} \in SUBSET Tasks /\ lane # "down"
    BY <1>4 DEF ClaimLive, ClaimControl, Idle
  <2>2. \E mode \in Modes : Claim({Detail(m)}, mode)
    BY <1>4 DEF ClaimLive, ClaimControl, Modes
  <2> QED BY <2>1, <2>2, ClaimKeeps
<1>5. ASSUME NEW tasks \in SUBSET {t \in Tasks : Kind(t) = "global"},
             ClaimGlobals(tasks)
      PROVE  IndInv'
  <2>1. tasks \in SUBSET Tasks
    OBVIOUS
  <2> QED BY <1>5, <2>1, ClaimKeeps DEF ClaimGlobals, Idle, Modes
<1>6. ASSUME NEW t \in Tasks, SkipLookup(t) PROVE IndInv'
  BY <1>6, HousekeepingKeeps
<1>7. ASSUME NEW t \in Tasks, ClaimScoped(t) \/ ClaimOne(t) PROVE IndInv'
  <2>1. {t} \in SUBSET Tasks /\ lane # "down"
    BY <1>7 DEF ClaimScoped, ClaimOne, Idle
  <2>2. \E mode \in Modes : Claim({t}, mode)
    BY <1>7 DEF ClaimScoped, ClaimOne, Modes
  <2> QED BY <2>1, <2>2, ClaimKeeps
<1>8. ASSUME NEW t \in Tasks, JobEnds(t) PROVE IndInv'
  BY <1>8, JobEndsKeeps
<1>9. CASE UNCHANGED vars
  BY <1>9 DEF vars, taskVars, matchVars, IndInv, TypeOK, ClaimsAreOwned, DownIsIdle
<1> QED BY <1>1, <1>2, <1>3, <1>4, <1>5, <1>6, <1>7, <1>8, <1>9 DEF Next

\* The queue's state is well formed in every reachable state: the retry and
\* empty counters stay under their limits even for a task the live lane opens
\* again after it was given up.
THEOREM TypeCorrect == Spec => []TypeOK
<1>1. IndInv /\ [Next]_vars => IndInv'
  BY NextKeeps
<1>2. IndInv => TypeOK
  BY DEF IndInv
<1> QED BY InitInv, <1>1, <1>2, PTL DEF Spec

\* While the worker runs, a task in progress is being fetched, or was left behind by a
\* batch that dropped its error or by a window that closed on rounds: fail_task,
\* finish_task, release_in_progress_task and requeue_orphans between them leave no
\* other claim behind, and what is being fetched is in progress.
THEOREM ClaimsOwned == Spec => []ClaimsAreOwned
<1>1. IndInv /\ [Next]_vars => IndInv'
  BY NextKeeps
<1>2. IndInv => ClaimsAreOwned
  BY DEF IndInv
<1> QED BY InitInv, <1>1, <1>2, PTL DEF Spec
-----------------------------------------------------------------------------
\* A step, and a task it takes out of a status it was closed with.
LEMMA Reopening ==
    ASSUME IndInv, Next, NEW t \in Tasks,
           status[t] \in {"coverage_empty", "not_supported", "permanent_error"},
           status'[t] # status[t]
    PROVE  \E m \in Matches : t = Detail(m) /\ ClaimLive(m)
<1> USE DEF IndInv
<1>0. status[t] \in Terminal /\ status[t] \notin Open /\ status[t] # "complete"
      /\ status[t] # "none" /\ job[t] = "none"
  BY DEF Terminal, Open, Claimable, ClaimsAreOwned
<1>1. ~(Start \/ Crash \/ SwitchLane)
  BY <1>0 DEF Start, Crash, SwitchLane, TypeOK, taskVars, Open, Claimable
<1>2. ~Polls
  BY <1>0, FollowupsKeepsClosed DEF Polls, Poll, TypeOK
<1>3. ASSUME NEW m \in Matches,
             \/ CloseStale(m) \/ PruneFinishing(m)
             \/ \E p \in Phases, U \in SUBSET Matches, V \in SUBSET Leagues :
                  IngestDay(m, p, U, V)
      PROVE  FALSE
  BY <1>0, <1>3, FollowupsKeepsClosed
     DEF CloseStale, PruneFinishing, IngestDay, TypeOK, taskVars
<1>4. ASSUME NEW m \in Matches, ClaimControl(m)
      PROVE  FALSE
  BY <1>0, <1>4 DEF ClaimControl, Claim, TypeOK, Open
<1>5. ASSUME NEW m \in Matches, ClaimLive(m)
      PROVE  t = Detail(m)
  BY <1>5 DEF ClaimLive, Claim, TypeOK
<1>6. ASSUME NEW tasks \in SUBSET {u \in Tasks : Kind(u) = "global"},
             ClaimGlobals(tasks)
      PROVE  FALSE
  BY <1>0, <1>6 DEF ClaimGlobals, Claim, TypeOK, Open
<1>7. ASSUME NEW u \in Tasks, SkipLookup(u) \/ ClaimScoped(u) \/ ClaimOne(u)
      PROVE  FALSE
  BY <1>0, <1>7 DEF SkipLookup, ClaimScoped, ClaimOne, Claim, TypeOK, Open
<1>8. ASSUME NEW u \in Tasks, JobEnds(u)
      PROVE  FALSE
  <2>1. u # t
    BY <1>0, <1>8
       DEF JobEnds, Answered, FetchOk, DetailOk, SkipIrregular, FetchEmpty, FetchFails,
           QuotaOut, GivesUp, WindowCloses, Dropped, Fetches
  <2>2. ASSUME NEW p \in Phases, DetailOk(u, p)
        PROVE  FALSE
    BY <1>0, <2>1, <2>2 DEF DetailOk, Ensured, TypeOK
  <2>3. CASE WindowCloses(u)
    BY <2>1, <2>3 DEF WindowCloses, LeftBehind, Ends, TypeOK
  <2>4. CASE FetchEmpty(u)
    BY <2>1, <2>4 DEF FetchEmpty, Ends, TypeOK
  <2> QED BY <1>8, <2>1, <2>2, <2>3, <2>4
          DEF JobEnds, Answered, FetchOk, SkipIrregular, FetchFails, QuotaOut, GivesUp,
              Dropped, LeftBehind, Ends, TypeOK
<1> QED BY <1>1, <1>2, <1>3, <1>4, <1>5, <1>6, <1>7, <1>8 DEF Next

\* A task that was given up, closed as empty or retired is opened again only by
\* the live lane, and only the detail task of a match on its lists.
THEOREM GivenUpHolds == Spec => GivenUpStays
<1>1. ASSUME IndInv, [Next]_vars, NEW t \in Tasks,
             status[t] \in {"coverage_empty", "not_supported", "permanent_error"},
             status'[t] # status[t]
      PROVE  Kind(t) = "detail" /\ lane = "tick" /\ listed[t[2]] # "off"
  <2>1. Next
    BY <1>1 DEF vars, taskVars
  <2>2. PICK m \in Matches : t = Detail(m) /\ ClaimLive(m)
    BY <1>1, <2>1, Reopening
  <2> QED BY <2>2, DetailKind DEF ClaimLive, Detail
<1>2. IndInv /\ [Next]_vars =>
        [\A t \in Tasks :
           /\ status[t] \in {"coverage_empty", "not_supported", "permanent_error"}
           /\ status'[t] # status[t]
           => Kind(t) = "detail" /\ lane = "tick" /\ listed[t[2]] # "off"]_vars
  BY <1>1
<1>3. IndInv /\ [Next]_vars => IndInv'
  BY NextKeeps
<1> QED BY InitInv, <1>2, <1>3, PTL DEF Spec, GivenUpStays
===============================================================================
