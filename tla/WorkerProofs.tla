----------------------------- MODULE WorkerProofs -----------------------------
(***************************************************************************)
(* What the worker stores, for every value of the constants: the catalog   *)
(* it explores, the days it backfills, its queue of tasks, the rows beside *)
(* a match and in the dictionaries, the plan of its day and its readings   *)
(* of the quota (the parts of MCWorkerRules).                              *)
(***************************************************************************)
EXTENDS MCWorkerRules, Sequences, FiniteSetTheorems, Recursion

-----------------------------------------------------------------------------
(* The catalog.                                                            *)

Venue == <<"/venues", Ground>>
TeamTask(t) == <<"/teams", t>>
Asked == task[Venue] \in {"open", "running"}

\* Until /venues answers, the stadium has a country as soon as one of its teams is
\* stored, and it is that of one of them; so is any that a transaction has read.
StadiumHasACountry ==
    ~answered =>
        /\ stadium = Blank <=> team = {}
        /\ \A c \in Countries :
             (stadium = c \/ \E t \in Teams : seen[t] = c) => \E u \in team : vendor.home[u] = c

\* A team that has read the stadium is in the batch.
ReadersAreInTheBatch == \A t \in Teams : seen[t] # "unread" => TeamTask(t) \in batch

\* Until the stadium is asked about, its country is that of all its teams, unless a
\* conflict was overlooked; once asked, it is asked about until the answer comes, and
\* its teams do differ.
AskedWhileShared ==
    ~answered =>
        /\ task[Venue] = "none" /\ ~overlooked => \A t \in team : vendor.home[t] = stadium
        /\ task[Venue] # "none" => Asked /\ Shared

\* The stadium is claimed only once its row is there.
VenueHasARow == Venue \in batch => task[Venue] # "none"

CatalogInv ==
    /\ TypeOK /\ StadiumHasACountry /\ ReadersAreInTheBatch
    /\ AskedWhileShared /\ VenueHasARow

LEMMA KeysAreTyped ==
    /\ Venue \in Keys /\ \A t \in Teams : TeamTask(t) \in Keys
    /\ \A k \in Keys : k[1] = "/teams" => k[2] \in Teams /\ k = TeamTask(k[2])
  BY DEF Keys, Venue, TeamTask

LEMMA EnsureRows ==
    ASSUME NEW rows \in [Keys -> {"none", "open", "running", "done"}], NEW namesOf
    PROVE  /\ Ensure(rows, namesOf) \in [Keys -> {"none", "open", "running", "done"}]
           /\ Venue \notin namesOf => Ensure(rows, namesOf)[Venue] = rows[Venue]
           /\ rows[Venue] # "none" => Ensure(rows, namesOf)[Venue] = rows[Venue]
           /\ Venue \in namesOf /\ rows[Venue] = "none" => Ensure(rows, namesOf)[Venue] = "open"
  BY KeysAreTyped DEF Ensure

LEMMA NamesAreNotVenues ==
    /\ \A ts : Venue \notin ForMatch(ts)
    /\ \A ps : Venue \notin PlayerFacts(ps) /\ Venue \notin ProfileIfNeeded(ps)
    /\ \A cs : Venue \notin CoachCatalog(cs)
  BY DEF Venue, ForMatch, PlayerFacts, ProfileIfNeeded, CoachCatalog

LEMMA CatalogInit == ASSUME ConstantsOK, Init PROVE CatalogInv
<1>1. TypeOK
  <2>1. vendor \in [home : [Teams -> Countries], squad : [Teams -> SUBSET Players],
                   ground : Countries]
    BY DEF Init
  <2>2. /\ task \in [Keys -> {"none", "open", "running", "done"}]
        /\ seen \in [Teams -> Countries \cup {Blank, "unread"}]
        /\ player \in [Players -> {"none", "stub", "full"}]
    BY DEF Init
  <2>3. faults \in 0 .. MaxFaults /\ restarts \in 0 .. MaxRestarts
    BY DEF Init, ConstantsOK
  <2> QED
    BY <2>1, <2>2, <2>3 DEF Init, TypeOK
<1>2. task[Venue] = "none"
  BY KeysAreTyped DEF Init
<1> QED
  BY <1>1, <1>2 DEF Init, CatalogInv, StadiumHasACountry, ReadersAreInTheBatch,
                    AskedWhileShared, VenueHasARow, ConstantsOK

\* A step that leaves teams and stadium alone and does not end the question.
LEMMA QuietStep ==
    ASSUME ConstantsOK, CatalogInv, TypeOK',
           UNCHANGED <<vendor, team, stadium, answered, overlooked>>,
           batch' \subseteq batch,
           \A t \in Teams : seen'[t] # "unread" => seen'[t] = seen[t] /\ TeamTask(t) \in batch',
           task'[Venue] = task[Venue] \/ (task[Venue] # "none" /\ Asked')
    PROVE  CatalogInv'
<1> USE DEF CatalogInv
<1>1. StadiumHasACountry'
  <2>1. ASSUME NEW c \in Countries, NEW t \in Teams, seen'[t] = c
        PROVE  seen[t] = c
    BY <2>1 DEF ConstantsOK
  <2> QED
    BY <2>1 DEF StadiumHasACountry
<1>2. ReadersAreInTheBatch'
  BY DEF ReadersAreInTheBatch
<1>3. Shared' = Shared
  BY DEF Shared
<1>4. AskedWhileShared'
  BY <1>3 DEF AskedWhileShared, Asked
<1>5. VenueHasARow'
  BY DEF VenueHasARow, Asked
<1> QED
  BY <1>1, <1>2, <1>4, <1>5

-----------------------------------------------------------------------------
\* Queueing asks about no stadium.
LEMMA QueueKeeps ==
    ASSUME ConstantsOK, CatalogInv,
           \/ \E ts \in SUBSET Teams : Discover(ts)
           \/ \E ps \in SUBSET Players, cs \in SUBSET Coaches : Detail(ps, cs)
    PROVE  CatalogInv'
<1>1. /\ UNCHANGED <<vendor, batch, lost, seen, team, stadium, answered, overlooked, counters>>
      /\ \E namesOf : Venue \notin namesOf /\ task' = Ensure(task, namesOf)
      /\ player' = player \/ \E ps : player' = Fill(ps, "stub")
  BY NamesAreNotVenues DEF Discover, Detail, stored
<1>2. task \in [Keys -> {"none", "open", "running", "done"}]
  BY DEF CatalogInv, TypeOK
<1>3. /\ task' \in [Keys -> {"none", "open", "running", "done"}]
      /\ task'[Venue] = task[Venue]
  BY <1>1, <1>2, EnsureRows
<1>4. player' \in [Players -> {"none", "stub", "full"}]
  BY <1>1 DEF CatalogInv, TypeOK, Fill
<1>5. TypeOK'
  BY <1>1, <1>3, <1>4 DEF CatalogInv, TypeOK, counters
<1>6. \A t \in Teams : seen'[t] # "unread" => seen'[t] = seen[t] /\ TeamTask(t) \in batch'
  BY <1>1 DEF CatalogInv, ReadersAreInTheBatch
<1> QED
  BY <1>1, <1>3, <1>5, <1>6, QuietStep

\* A claim stores nothing.
LEMMA ClaimKeeps == ASSUME CatalogInv, ClaimBatch PROVE CatalogInv'
<1> USE DEF CatalogInv
<1>1. PICK ks \in SUBSET Open :
        /\ batch' = ks
        /\ task' = [k \in Keys |-> IF k \in ks THEN "running" ELSE task[k]]
  BY DEF ClaimBatch
<1>2. batch = {} /\ UNCHANGED <<vendor, lost, stored, counters>>
  BY DEF ClaimBatch
<1>3. ks \subseteq Keys /\ \A k \in ks : task[k] = "open"
  BY DEF Open
<1>4. TypeOK'
  BY <1>1, <1>2, <1>3 DEF TypeOK, stored, counters
<1>5. \A t \in Teams : seen[t] = "unread"
  BY <1>2 DEF ReadersAreInTheBatch
<1>6. ReadersAreInTheBatch' /\ StadiumHasACountry'
  BY <1>2, <1>5 DEF ReadersAreInTheBatch, StadiumHasACountry, stored
<1>7. task'[Venue] = task[Venue] \/ (task[Venue] = "open" /\ task'[Venue] = "running")
  BY <1>1, <1>3, KeysAreTyped DEF TypeOK
<1>8. AskedWhileShared'
  BY <1>2, <1>7 DEF AskedWhileShared, Asked, Shared, stored
<1>9. VenueHasARow'
  BY <1>1, KeysAreTyped DEF VenueHasARow
<1> QED
  BY <1>4, <1>6, <1>8, <1>9

\* A task other than a team's or the stadium's is closed, and what it namesOf is
\* queued.
LEMMA CloseKeeps ==
    ASSUME ConstantsOK, CatalogInv, NEW k \in Keys, k[1] \notin {"/teams", "/venues"},
           NEW namesOf, Venue \notin namesOf, Stored(k, namesOf),
           player' \in [Players -> {"none", "stub", "full"}],
           UNCHANGED <<vendor, lost, seen, team, stadium, answered, overlooked, counters>>
    PROVE  CatalogInv'
<1>1. /\ batch' = batch \ {k}
      /\ task' = Ensure([task EXCEPT ![k] = "done"], namesOf)
  BY DEF Stored
<1>2. /\ [task EXCEPT ![k] = "done"] \in [Keys -> {"none", "open", "running", "done"}]
      /\ [task EXCEPT ![k] = "done"][Venue] = task[Venue]
  BY KeysAreTyped DEF CatalogInv, TypeOK, Venue
<1>3. /\ task' \in [Keys -> {"none", "open", "running", "done"}]
      /\ task'[Venue] = task[Venue]
  BY <1>1, <1>2, EnsureRows
<1>4. TypeOK'
  BY <1>1, <1>3 DEF CatalogInv, TypeOK, counters
<1>5. \A t \in Teams : seen[t] # "unread" => TeamTask(t) \in batch /\ TeamTask(t) # k
  <2>1. \A t \in Teams : seen[t] # "unread" => TeamTask(t) \in batch
    BY DEF CatalogInv, ReadersAreInTheBatch
  <2>2. \A t \in Teams : TeamTask(t) # k
    BY DEF TeamTask
  <2> QED
    BY <2>1, <2>2
<1>6. \A t \in Teams : seen'[t] # "unread" => seen'[t] = seen[t] /\ TeamTask(t) \in batch'
  BY <1>1, <1>5
<1> QED
  BY <1>1, <1>3, <1>4, <1>6, QuietStep

LEMMA FillIsTyped ==
    ASSUME TypeOK, NEW ps, NEW level \in {"stub", "full"}
    PROVE  Fill(ps, level) \in [Players -> {"none", "stub", "full"}]
  BY DEF TypeOK, Fill

\* The endpoints that are neither a team nor the stadium.
LEMMA StoreKeeps ==
    ASSUME ConstantsOK, CatalogInv, NEW k \in Keys,
           \/ k[1] = "facts" /\ (StoreStatistics(k[2]) \/ StorePlayerFacts(k[2])
                                  \/ StoreCoachFacts(k[2]))
           \/ k[1] = "/standings" /\ StoreStandings
           \/ k[1] = "/players" /\ StorePlayers
           \/ k[1] = "/squads" /\ StoreSquad(k[2])
           \/ k[1] = "/profiles" /\ StoreProfile(k[2])
           \/ k[1] = "/coachs" /\ StoreCoach(k[2])
    PROVE  CatalogInv'
<1>0. player \in [Players -> {"none", "stub", "full"}] /\ TypeOK
  BY DEF CatalogInv, TypeOK
<1>1. CASE k[1] = "facts" /\ (StoreStatistics(k[2]) \/ StorePlayerFacts(k[2])
                              \/ StoreCoachFacts(k[2]))
  <2>1. Stored(<<"facts", k[2]>>, {}) /\ UNCHANGED <<vendor, lost, stored, counters>>
    BY <1>1 DEF StoreStatistics, StorePlayerFacts, StoreCoachFacts, StoreFacts
  <2>2. <<"facts", k[2]>> \in Keys
    BY <2>1 DEF Stored, CatalogInv, TypeOK
  <2> QED
    BY <1>0, <2>1, <2>2, CloseKeeps DEF stored
<1>2. CASE k[1] = "/standings" /\ StoreStandings
  <2>1. <<"/standings", League>> \in Keys
    BY DEF Keys
  <2> QED
    BY <1>0, <1>2, <2>1, NamesAreNotVenues, CloseKeeps DEF StoreStandings, stored
<1>3. CASE k[1] = "/players" /\ StorePlayers
  <2>1. <<"/players", League>> \in Keys
    BY DEF Keys
  <2>2. player' \in [Players -> {"none", "stub", "full"}]
    BY <1>0, <1>3 DEF StorePlayers
  <2> QED
    BY <1>3, <2>1, <2>2, NamesAreNotVenues, CloseKeeps DEF StorePlayers
<1>4. CASE k[1] = "/squads" /\ StoreSquad(k[2])
  <2>1. <<"/squads", k[2]>> \in Keys
    BY <1>4 DEF StoreSquad, Stored, CatalogInv, TypeOK
  <2>2. player' \in [Players -> {"none", "stub", "full"}]
    BY <1>0, <1>4, FillIsTyped DEF StoreSquad
  <2>3. Venue \notin PlayerFacts(vendor.squad[k[2]]) \cup ProfileIfNeeded(vendor.squad[k[2]])
    BY NamesAreNotVenues
  <2> QED
    BY <1>4, <2>1, <2>2, <2>3, CloseKeeps DEF StoreSquad
<1>5. CASE k[1] = "/profiles" /\ StoreProfile(k[2])
  <2>1. <<"/profiles", k[2]>> \in Keys
    BY <1>5 DEF StoreProfile, Stored, CatalogInv, TypeOK
  <2>2. player' \in [Players -> {"none", "stub", "full"}]
    BY <1>0, <1>5, FillIsTyped DEF StoreProfile
  <2> QED
    BY <1>5, <2>1, <2>2, CloseKeeps DEF StoreProfile
<1>6. CASE k[1] = "/coachs" /\ StoreCoach(k[2])
  <2>1. <<"/coachs", k[2]>> \in Keys
    BY <1>6 DEF StoreCoach, Stored, CatalogInv, TypeOK
  <2> QED
    BY <1>0, <1>6, <2>1, NamesAreNotVenues, CloseKeeps DEF StoreCoach, stored
<1> QED
  BY <1>1, <1>2, <1>3, <1>4, <1>5, <1>6

\* A call that fails, brings nothing, or whose exception is dropped.
LEMMA FailKeeps ==
    ASSUME ConstantsOK, CatalogInv, NEW k \in Keys, Fails(k) \/ Empty(k) \/ Lose(k)
    PROVE  CatalogInv'
<1> USE DEF CatalogInv
<1>1. /\ batch' = batch \ {k} /\ k \in batch
      /\ UNCHANGED <<vendor, team, stadium, player, answered, overlooked, restarts>>
  BY DEF Fails, Empty, Lose, Leaves, stored, counters
<1>2. lost' \subseteq Keys
  BY DEF Fails, Empty, Lose, TypeOK, counters
<1>3. faults' \in 0 .. MaxFaults
  BY DEF Fails, Empty, Lose, TypeOK, counters, ConstantsOK
<1>4. \/ seen' = seen /\ k[1] # "/teams"
      \/ k[1] = "/teams" /\ seen' = [seen EXCEPT ![k[2]] = "unread"]
  BY DEF Fails, Empty, Lose, stored
<1>5. seen' \in [Teams -> Countries \cup {Blank, "unread"}]
  BY <1>4 DEF TypeOK
<1>6. \/ task' = task
      \/ task' = [task EXCEPT ![k] = "open"]
      \/ task' = [task EXCEPT ![k] = "done"] /\ k # Venue
  BY DEF Fails, Empty, Lose, Leaves, Venue
<1>7. task' \in [Keys -> {"none", "open", "running", "done"}]
  BY <1>6 DEF TypeOK
<1>8. TypeOK'
  BY <1>1, <1>2, <1>3, <1>5, <1>7 DEF TypeOK
<1>9. \A t \in Teams : seen[t] # "unread" => TeamTask(t) \in batch
  BY DEF ReadersAreInTheBatch
<1>10. \A t \in Teams : seen'[t] # "unread" => seen'[t] = seen[t] /\ TeamTask(t) \in batch'
  <2>1. CASE seen' = seen /\ k[1] # "/teams"
    <3>1. \A t \in Teams : TeamTask(t) # k
      BY <2>1 DEF TeamTask
    <3> QED
      BY <1>1, <1>9, <2>1, <3>1
  <2>2. CASE k[1] = "/teams" /\ seen' = [seen EXCEPT ![k[2]] = "unread"]
    <3>1. k[2] \in Teams /\ k = TeamTask(k[2])
      BY <2>2, KeysAreTyped
    <3>2. seen'[k[2]] = "unread" /\ \A t \in Teams \ {k[2]} : seen'[t] = seen[t]
      BY <2>2, <3>1 DEF TypeOK
    <3>3. \A t \in Teams \ {k[2]} : TeamTask(t) # k
      BY <3>1 DEF TeamTask
    <3> QED
      BY <1>1, <1>9, <3>1, <3>2, <3>3
  <2> QED
    BY <1>4, <2>1, <2>2
<1>11. task'[Venue] = task[Venue] \/ (task[Venue] # "none" /\ Asked')
  <2>1. task'[Venue] = task[Venue] \/ (k = Venue /\ task'[Venue] = "open")
    BY <1>6, KeysAreTyped DEF TypeOK
  <2> QED
    BY <1>1, <2>1 DEF VenueHasARow, Asked
<1> QED
  BY <1>1, <1>8, <1>10, <1>11, QuietStep

-----------------------------------------------------------------------------
\* A transaction that reads the stadium reads it as it is.
LEMMA ReadKeeps == ASSUME CatalogInv, NEW t \in Teams, ReadStadium(t) PROVE CatalogInv'
<1> USE DEF CatalogInv
<1>1. /\ TeamTask(t) \in batch /\ seen' = [seen EXCEPT ![t] = stadium]
      /\ UNCHANGED <<vendor, task, batch, lost, team, stadium, player, answered, overlooked,
                     counters>>
  BY DEF ReadStadium, TeamTask
<1>2. TypeOK'
  BY <1>1 DEF TypeOK, counters
<1>3. seen'[t] = stadium /\ \A u \in Teams \ {t} : seen'[u] = seen[u]
  BY <1>1 DEF TypeOK
<1>4. ReadersAreInTheBatch'
  BY <1>1, <1>3 DEF ReadersAreInTheBatch
<1>5. Shared' = Shared
  BY <1>1 DEF Shared
<1>6. StadiumHasACountry' /\ AskedWhileShared' /\ VenueHasARow'
  BY <1>1, <1>5 DEF StadiumHasACountry, AskedWhileShared, VenueHasARow, Asked
<1> QED
  BY <1>2, <1>4, <1>6

\* A team is stored: it agrees with the teams before it, or the stadium is asked
\* about.
LEMMA TeamKeeps ==
    ASSUME ConstantsOK, CatalogInv, NEW t \in Teams, StoreTeam(t)
    PROVE  CatalogInv'
<1> USE DEF CatalogInv
<1> DEFINE namesOf == IF Stamp(t).refresh THEN {Venue} ELSE {}
           closed == [task EXCEPT ![TeamTask(t)] = "done"]
<1>1. /\ seen[t] # "unread" /\ TeamTask(t) \in batch /\ batch' = batch \ {TeamTask(t)}
      /\ task' = Ensure(closed, namesOf) /\ stadium' = Stamp(t).country
      /\ team' = team \cup {t} /\ seen' = [seen EXCEPT ![t] = "unread"]
      /\ overlooked' = (~Stamp(t).refresh /\ (overlooked \/ Overlooks(t)))
      /\ UNCHANGED <<vendor, lost, player, answered, counters>>
  BY DEF StoreTeam, Stored, TeamTask, Venue
<1>2. /\ vendor.home[t] \in Countries /\ seen[t] \in Countries \cup {Blank}
      /\ \A u \in Teams : vendor.home[u] \in Countries
  BY <1>1 DEF TypeOK
<1>3. \/ /\ seen[t] # Blank /\ seen[t] # vendor.home[t]
         /\ stadium' = seen[t] /\ namesOf = {Venue}
      \/ /\ seen[t] = Blank \/ seen[t] = vendor.home[t]
         /\ stadium' = vendor.home[t] /\ namesOf = {}
  BY <1>1 DEF Stamp
<1>4. stadium' \in Countries
  BY <1>2, <1>3
<1>5. closed \in [Keys -> {"none", "open", "running", "done"}] /\ closed[Venue] = task[Venue]
  <2>1. Venue # TeamTask(t)
    BY DEF Venue, TeamTask
  <2> QED
    BY <2>1, KeysAreTyped DEF TypeOK
<1>6. /\ task' \in [Keys -> {"none", "open", "running", "done"}]
      /\ task[Venue] # "none" \/ namesOf = {} => task'[Venue] = task[Venue]
      /\ namesOf = {Venue} /\ task[Venue] = "none" => task'[Venue] = "open"
  <2> HIDE DEF closed, namesOf
  <2> QED
    BY <1>1, <1>5, EnsureRows
<1>7. seen'[t] = "unread" /\ \A u \in Teams \ {t} : seen'[u] = seen[u]
  BY <1>1 DEF TypeOK
<1> HIDE DEF namesOf, closed
<1>8. TypeOK'
  <2>1. overlooked' \in BOOLEAN
    BY <1>1
  <2> QED
    BY <1>1, <1>4, <1>6, <2>1 DEF TypeOK, counters
<1>9. StadiumHasACountry'
  <2> SUFFICES ASSUME ~answered' PROVE StadiumHasACountry'
    BY DEF StadiumHasACountry
  <2>1. stadium' # Blank /\ team' # {}
    BY <1>1, <1>4 DEF ConstantsOK
  <2>2. ASSUME NEW c \in Countries, stadium' = c \/ \E u \in Teams : seen'[u] = c
        PROVE  \E u \in team' : vendor'.home[u] = c
    <3>1. c # "unread"
      BY DEF ConstantsOK
    <3>2. c = vendor.home[t] \/ \E u \in Teams : seen[u] = c
      BY <1>3, <1>7, <2>2, <3>1
    <3>3. c = vendor.home[t] \/ \E u \in team : vendor.home[u] = c
      BY <1>1, <3>2 DEF StadiumHasACountry
    <3> QED
      BY <1>1, <3>3
  <2> QED
    BY <2>1, <2>2 DEF StadiumHasACountry
<1>10. ReadersAreInTheBatch'
  <2>1. \A u \in Teams \ {t} : TeamTask(u) # TeamTask(t)
    BY DEF TeamTask
  <2> QED
    BY <1>1, <1>7, <2>1 DEF ReadersAreInTheBatch
<1>11. AskedWhileShared'
  <2> SUFFICES ASSUME ~answered' PROVE AskedWhileShared'
    BY DEF AskedWhileShared
  <2>1. ~answered
    BY <1>1
  <2>2. CASE task[Venue] # "none"
    <3>1. Asked' /\ Shared'
      BY <1>1, <1>6, <2>1, <2>2 DEF AskedWhileShared, Asked, Shared
    <3> QED
      BY <3>1 DEF AskedWhileShared, Asked
  <2>3. CASE task[Venue] = "none" /\ namesOf = {Venue}
    <3>1. Asked'
      BY <1>6, <2>3 DEF Asked
    <3>2. PICK u \in team : vendor.home[u] = seen[t]
      BY <1>2, <1>3, <2>1, <2>3 DEF StadiumHasACountry
    <3>3. seen[t] # vendor.home[t]
      BY <1>3, <2>3
    <3>4. Shared'
      BY <1>1, <3>2, <3>3 DEF Shared
    <3> QED
      BY <3>1, <3>4 DEF AskedWhileShared, Asked
  <2>4. CASE task[Venue] = "none" /\ namesOf = {}
    <3>1. stadium' = vendor.home[t] /\ ~Stamp(t).refresh
      BY <1>3, <2>4 DEF namesOf
    <3>2. task'[Venue] = "none"
      BY <1>6, <2>4
    <3>3. ASSUME ~overlooked' PROVE \A u \in team : vendor.home[u] = stadium'
      <4>1. ~overlooked /\ stadium \in {Blank, vendor.home[t]}
        BY <2>4, <3>1, <3>3 DEF StoreTeam, Overlooks, Venue
      <4> QED
        BY <2>1, <2>4, <3>1, <4>1 DEF AskedWhileShared, StadiumHasACountry
    <3> QED
      BY <1>1, <3>1, <3>2, <3>3 DEF AskedWhileShared
  <2> QED
    BY <1>3, <2>2, <2>3, <2>4
<1>12. VenueHasARow'
  BY <1>1, <1>6 DEF VenueHasARow
<1> QED
  BY <1>8, <1>9, <1>10, <1>11, <1>12

\* The answer ends the question.
LEMMA AnswerKeeps == ASSUME CatalogInv, StoreVenue PROVE CatalogInv'
<1> USE DEF CatalogInv
<1>1. /\ batch' = batch \ {Venue} /\ task' = Ensure([task EXCEPT ![Venue] = "done"], {})
      /\ stadium' = vendor.ground /\ answered' = TRUE
      /\ UNCHANGED <<vendor, lost, seen, team, player, overlooked, counters>>
  BY DEF StoreVenue, Stored, Venue
<1>2. [task EXCEPT ![Venue] = "done"] \in [Keys -> {"none", "open", "running", "done"}]
  BY DEF TypeOK
<1>3. task' \in [Keys -> {"none", "open", "running", "done"}]
  BY <1>1, <1>2, EnsureRows
<1>4. TypeOK'
  BY <1>1, <1>3 DEF TypeOK, counters
<1>5. \A t \in Teams : TeamTask(t) # Venue
  BY DEF TeamTask, Venue
<1>6. ReadersAreInTheBatch'
  BY <1>1, <1>5 DEF ReadersAreInTheBatch
<1>7. StadiumHasACountry' /\ AskedWhileShared' /\ VenueHasARow'
  BY <1>1 DEF StadiumHasACountry, AskedWhileShared, VenueHasARow
<1> QED
  BY <1>4, <1>6, <1>7

\* A start requeues the question, and closes it only where it is not asked.
LEMMA RestartKeeps == ASSUME ConstantsOK, CatalogInv, Restart PROVE CatalogInv'
<1> USE DEF CatalogInv
<1>1. /\ batch' = {} /\ lost' = {} /\ seen' = [t \in Teams |-> "unread"]
      /\ restarts' \in 0 .. MaxRestarts
      /\ UNCHANGED <<vendor, team, stadium, player, answered, overlooked, faults>>
  BY DEF Restart, TypeOK, ConstantsOK
<1>2. /\ task' \in [Keys -> {"none", "open", "running", "done"}]
      /\ task[Venue] = "none" => task'[Venue] = "none"
      /\ task[Venue] \in {"open", "running"} /\ Shared => task'[Venue] = "open"
  BY KeysAreTyped DEF Restart, RequeueOrphans, CloseStadium, TypeOK, Venue
<1>3. TypeOK'
  BY <1>1, <1>2 DEF TypeOK
<1>4. ReadersAreInTheBatch' /\ VenueHasARow' /\ StadiumHasACountry'
  BY <1>1 DEF ReadersAreInTheBatch, VenueHasARow, StadiumHasACountry, ConstantsOK
<1>5. Shared' = Shared
  BY <1>1 DEF Shared
<1>6. AskedWhileShared'
  BY <1>1, <1>2, <1>5 DEF AskedWhileShared, Asked
<1> QED
  BY <1>3, <1>4, <1>6

\* A stadium shared by teams of two countries is asked about until /venues has
\* answered, in whatever order and batches the teams came, whatever fails and whenever
\* the worker starts again; unless a team was stored over a country that was written
\* after its transaction had read the stadium.
THEOREM SharedIsAsked ==
    ASSUME ConstantsOK PROVE Spec => [](TypeOK /\ SharedStadiumIsAsked)
<1>1. Init => CatalogInv
  BY CatalogInit
<1>2. CatalogInv /\ [Next]_vars => CatalogInv'
  <2> SUFFICES ASSUME CatalogInv, [Next]_vars PROVE CatalogInv'
    OBVIOUS
  <2>1. CASE \/ \E ts \in SUBSET Teams : Discover(ts)
             \/ \E ps \in SUBSET Players, cs \in SUBSET Coaches : Detail(ps, cs)
    BY <2>1, QueueKeeps
  <2>2. CASE ClaimBatch
    BY <2>2, ClaimKeeps
  <2>3. CASE Restart
    BY <2>3, RestartKeeps
  <2>4. ASSUME NEW k \in Keys, Ends(k) \/ Lose(k) PROVE CatalogInv'
    <3>1. CASE Fails(k) \/ Empty(k) \/ Lose(k)
      BY <3>1, FailKeeps
    <3>2. CASE k[1] = "/teams" /\ (ReadStadium(k[2]) \/ StoreTeam(k[2]))
      BY <3>2, KeysAreTyped, ReadKeeps, TeamKeeps
    <3>3. CASE StoreVenue
      BY <3>3, AnswerKeeps
    <3> QED
      BY <2>4, <3>1, <3>2, <3>3, StoreKeeps DEF Ends
  <2>5. CASE UNCHANGED vars
    BY <2>5 DEF vars, CatalogInv, TypeOK, StadiumHasACountry, ReadersAreInTheBatch,
                AskedWhileShared, VenueHasARow, Asked, Shared
  <2> QED
    BY <2>1, <2>2, <2>3, <2>4, <2>5 DEF Next
<1>3. CatalogInv => TypeOK /\ SharedStadiumIsAsked
  <2> SUFFICES ASSUME CatalogInv, Shared, ~overlooked, ~answered PROVE Asked
    BY DEF CatalogInv, SharedStadiumIsAsked, Asked, Venue
  <2> QED
    BY DEF CatalogInv, AskedWhileShared, Shared
<1> QED
  BY <1>1, <1>2, <1>3, PTL DEF Spec

-----------------------------------------------------------------------------
(* The backfill.                                                           *)

\* The day at hand is the cursor's from the gate on, and where it has passed the
\* check its list is stored and its played match has a detail task; the lanes that
\* go on meanwhile only move a task forward.
BackfillInv ==
    /\ dayTask \in [PastDays -> {"none", "pending", "retryable_error", "permanent_error",
                          "complete"}]
    /\ kept \in [PastDays -> {"none", "stale", "final"}]
    /\ said \in [PastDays -> {"stale", "final"}]
    /\ detail \in [PastDays -> {"none", "open", "closed"}]
    /\ cursor \in PastDays \cup {0}
    /\ step \in {"ingest", "check", "advance"} => day = cursor /\ day \in PastDays
    /\ step = "advance" =>
          /\ dayTask[day] = "complete"
          /\ kept[day] = "final" => detail[day] # "none"

PassedWithDetails(d) ==
    cursor = d /\ cursor' < d =>
        /\ dayTask[d] = "complete"
        /\ kept[d] = "final" => detail[d] # "none"

LEMMA BackfillInit == ASSUME Past!ConstantsOK, Past!Init PROVE BackfillInv
<1>1. Past!LastDay \in PastDays
  BY DEF Past!ConstantsOK
<1> QED
  BY <1>1 DEF Past!Init, BackfillInv

\* A day's list is stored, or its fetch fails.
LEMMA ListIsStored ==
    ASSUME BackfillInv, NEW d, NEW historical \in BOOLEAN, Past!StoreDay(d, historical)
    PROVE  /\ dayTask' \in [PastDays -> {"none", "pending", "retryable_error", "permanent_error",
                                  "complete"}]
           /\ kept' \in [PastDays -> {"none", "stale", "final"}]
           /\ detail' \in [PastDays -> {"none", "open", "closed"}]
<1>1. /\ dayTask' = [dayTask EXCEPT ![d] = "complete"]
      /\ kept' = [kept EXCEPT ![d] = said[d]]
      /\ detail' = detail \/ detail' = [detail EXCEPT ![d] = Past!Ensure(@)]
  BY DEF Past!StoreDay, Past!Followups
<1> QED
  BY <1>1 DEF BackfillInv, Past!Ensure

LEMMA FetchIsFailed ==
    ASSUME BackfillInv, NEW d, Past!FetchFails(d)
    PROVE  dayTask' \in [PastDays -> {"none", "pending", "retryable_error", "permanent_error",
                               "complete"}]
<1>1. dayTask' = dayTask \/ dayTask' = [dayTask EXCEPT ![d] = "permanent_error"]
                   \/ dayTask' = [dayTask EXCEPT ![d] = "retryable_error"]
  BY DEF Past!FetchFails, Past!FailDay, Past!lists
<1> QED
  BY <1>1 DEF BackfillInv

\* The steps of a pass.
LEMMA PassKeeps ==
    ASSUME Past!ConstantsOK, BackfillInv, Past!Pass \/ Past!RepairFails \/ Past!IngestFails
    PROVE  BackfillInv' /\ \A d \in PastDays : PassedWithDetails(d)
<1> USE DEF Past!lists, Past!matches, Past!today, Past!faults
<1>0. PastDays \subseteq Nat
  BY DEF Past!ConstantsOK
<1>1. CASE Past!ReadStaleDays \/ Past!RepairsDone \/ Past!StopAtGate \/ Past!SkipDay
  BY <1>0, <1>1 DEF BackfillInv, PassedWithDetails, Past!ReadStaleDays, Past!RepairsDone,
                    Past!StopAtGate, Past!SkipDay
<1>2. CASE Past!RepairDay
  <2>1. Past!StoreDay(Head(todo), FALSE) /\ UNCHANGED <<day, said, cursor>>
        /\ step' \in {"close", "check"} /\ (step' = "check" => step = "ingest")
    BY <1>2 DEF Past!RepairDay
  <2>2. /\ dayTask' \in [PastDays -> {"none", "pending", "retryable_error", "permanent_error",
                               "complete"}]
        /\ kept' \in [PastDays -> {"none", "stale", "final"}]
        /\ detail' \in [PastDays -> {"none", "open", "closed"}]
    BY <2>1, ListIsStored
  <2> QED
    BY <1>0, <2>1, <2>2 DEF BackfillInv, PassedWithDetails
<1>3. CASE Past!RepairFails
  BY <1>0, <1>3, FetchIsFailed DEF BackfillInv, PassedWithDetails, Past!RepairFails
<1>4. CASE Past!CloseStale
  <2>1. detail' \in [PastDays -> {"none", "open", "closed"}]
    BY <1>4 DEF BackfillInv, Past!CloseStale
  <2> QED
    BY <1>0, <1>4, <2>1 DEF BackfillInv, PassedWithDetails, Past!CloseStale
<1>5. CASE Past!PassGate
  BY <1>0, <1>5 DEF BackfillInv, PassedWithDetails, Past!PassGate
<1>6. CASE Past!IngestDay
  <2>1. Past!StoreDay(day, TRUE) /\ UNCHANGED <<day, said, cursor>>
        /\ step' \in {"close", "check"} /\ (step' = "check" => step = "ingest")
    BY <1>6 DEF Past!IngestDay
  <2>2. /\ dayTask' \in [PastDays -> {"none", "pending", "retryable_error", "permanent_error",
                               "complete"}]
        /\ kept' \in [PastDays -> {"none", "stale", "final"}]
        /\ detail' \in [PastDays -> {"none", "open", "closed"}]
    BY <2>1, ListIsStored
  <2> QED
    BY <1>0, <2>1, <2>2 DEF BackfillInv, PassedWithDetails
<1>7. CASE Past!IngestFails
  BY <1>0, <1>7, FetchIsFailed DEF BackfillInv, PassedWithDetails, Past!IngestFails
<1>8. CASE Past!CheckDay
  BY <1>0, <1>8 DEF BackfillInv, PassedWithDetails, Past!CheckDay, Past!DayIsComplete,
                    Past!Blocked
<1>9. CASE Past!Advance
  <2>1. cursor' \in PastDays \cup {0}
    <3>1. Past!LastDay \in Nat \ {0} /\ PastDays = 1 .. Past!LastDay
      BY DEF Past!ConstantsOK
    <3> QED
      BY <1>9, <3>1 DEF BackfillInv, Past!Advance
  <2> QED
    BY <1>0, <1>9, <2>1 DEF BackfillInv, PassedWithDetails, Past!Advance
<1> QED
  BY <1>1, <1>2, <1>3, <1>4, <1>5, <1>6, <1>7, <1>8, <1>9 DEF Past!Pass

\* The other lanes, the calendar, the vendor and a restart.
LEMMA LanesKeep ==
    ASSUME Past!ConstantsOK, BackfillInv,
           \/ Past!Restart \/ Past!ForwardDone \/ Past!Midnight
           \/ \E d \in PastDays : Past!CloseDetail(d) \/ Past!CloseKids(d) \/ Past!Age(d)
                              \/ Past!VendorCorrects(d)
    PROVE  BackfillInv' /\ \A d \in PastDays : PassedWithDetails(d)
<1> USE DEF Past!pass, Past!lists, Past!matches, Past!today, Past!faults
<1>0. PastDays \subseteq Nat
  BY DEF Past!ConstantsOK
<1>1. CASE Past!Restart \/ Past!ForwardDone \/ Past!Midnight
  BY <1>0, <1>1 DEF BackfillInv, PassedWithDetails, Past!Restart, Past!ForwardDone,
                    Past!Midnight
<1>2. ASSUME NEW d \in PastDays, Past!CloseKids(d) \/ Past!Age(d) \/ Past!VendorCorrects(d)
      PROVE  BackfillInv' /\ \A e \in PastDays : PassedWithDetails(e)
  BY <1>0, <1>2 DEF BackfillInv, PassedWithDetails, Past!CloseKids, Past!Age,
                    Past!VendorCorrects
<1>3. ASSUME NEW d \in PastDays, Past!CloseDetail(d)
      PROVE  BackfillInv' /\ \A e \in PastDays : PassedWithDetails(e)
  BY <1>0, <1>3 DEF BackfillInv, PassedWithDetails, Past!CloseDetail
<1> QED
  BY <1>1, <1>2, <1>3

\* The cursor passes no day whose list is missing or whose played match has no
\* detail task: old work may hold the follow-ups of a day back between any two
\* steps of a pass (refresh_backfill, enqueue_fixture_followups).
THEOREM PassedDays == MCSpec => PassedDaysHaveDetails
<1>1. MCInit => BackfillInv
  BY BackfillInit, PastConstants DEF MCInit
<1>2. [MCNext]_allVars => [Past!Next]_(Past!vars)
  BY DEF MCNext, allVars, pastVars, Past!vars, Past!pass, Past!lists, Past!matches,
         Past!today, Past!faults
<1>3. BackfillInv /\ [Past!Next]_(Past!vars) =>
        BackfillInv' /\ [\A d \in PastDays : PassedWithDetails(d)]_(Past!vars)
  <2>1. CASE Past!Pass \/ Past!RepairFails \/ Past!IngestFails
    BY <2>1, PassKeeps, PastConstants
  <2>2. CASE \/ Past!Restart \/ Past!ForwardDone \/ Past!Midnight
             \/ \E d \in PastDays : Past!CloseDetail(d) \/ Past!CloseKids(d) \/ Past!Age(d)
                                \/ Past!VendorCorrects(d)
    BY <2>2, LanesKeep, PastConstants
  <2>3. CASE UNCHANGED Past!vars
    BY <2>3 DEF BackfillInv, Past!vars, Past!pass, Past!lists, Past!matches
  <2> QED
    BY <2>1, <2>2, <2>3 DEF Past!Next
<1>4. MCSpec => [][\A d \in PastDays : PassedWithDetails(d)]_(Past!vars)
  BY <1>1, <1>2, <1>3, PTL DEF MCSpec
<1> QED
  BY <1>4 DEF PassedDaysHaveDetails, Past!PassedDaysHaveDetails, PassedWithDetails

-----------------------------------------------------------------------------
(* The rows of a match and the dictionaries.                               *)

DetailInv == Details!TypeOK /\ Details!DetailIsWhole

LEMMA DetailInit == Details!Init => DetailInv
  BY DEF Details!Init, DetailInv, Details!TypeOK, Details!DetailIsWhole,
         Details!RowsHaveTheirParents, Details!FullTimeFromDetail

\* An answer stores whoever it names before the rows that name them.
LEMMA StoreDetailKeeps ==
    ASSUME DetailInv, NEW a \in Details!Answer, Details!StoreDetail(a)
    PROVE  DetailInv'
<1> USE DEF DetailInv, Details!TypeOK, Details!DetailIsWhole, Details!RowsHaveTheirParents,
            Details!FullTimeFromDetail
<1> DEFINE people == Details!CollectPeople(a)
<1>1. /\ a.lineup \subseteq LineupPlayers /\ a.seen \subseteq LineupPlayers
      /\ \A i \in DOMAIN a.events : a.events[i] \in Details!Event
  BY DEF Details!Answer, Details!SeqOf
<1>2. /\ names' = [p \in LineupPlayers |-> IF p \in people
                                           THEN Details!Stub(names[p], a.named) ELSE names[p]]
      /\ clubs' = clubs \cup Details!NestedClubs(a)
      /\ events' = [i \in {j \in DOMAIN a.events : a.events[j].kind # "unusable"} |->
                       a.events[i]]
      /\ lineup' = lineup \cup a.lineup /\ figures' = figures \cup a.seen
      /\ stats' = [k \in DOMAIN stats |-> IF k \in {} \/ (TRUE /\ k = "FT") THEN "detail"
                                          ELSE stats[k]]
  BY DEF Details!StoreDetail, Details!ReplaceEvents, Details!Usable, Details!UpsertLineups,
         Details!UpsertFigures, Details!UpsertStats
<1>3. people \subseteq LineupPlayers /\ a.lineup \cup a.seen \subseteq people
  BY <1>1 DEF Details!CollectPeople
<1>4. \A i \in DOMAIN a.events :
        /\ {a.events[i].player, a.events[i].assist} \ {Nobody} \subseteq people
        /\ a.events[i].kind = "guest" => "guest" \in Details!NestedClubs(a)
  BY <1>1 DEF Details!Event, Details!CollectPeople, Details!NestedClubs
<1> HIDE DEF people
<1>5. /\ names' \in [LineupPlayers -> {"absent", "blank", "named"}]
      /\ \A p \in people : names'[p] # "absent"
      /\ \A p \in LineupPlayers : names[p] # "absent" => names'[p] # "absent"
  BY <1>2, <1>3 DEF Details!Stub
<1>6. lineup' \subseteq LineupPlayers /\ figures' \subseteq LineupPlayers
      /\ \A p \in lineup' \cup figures' : names'[p] # "absent"
  BY <1>1, <1>2, <1>3, <1>5
<1>7. \A i \in DOMAIN events' :
        /\ \A p \in {events'[i].player, events'[i].assist} \ {Nobody} : names'[p] # "absent"
        /\ events'[i].kind = "guest" => "guest" \in clubs'
  <2> SUFFICES ASSUME NEW i \in DOMAIN events'
               PROVE  /\ \A p \in {events'[i].player, events'[i].assist} \ {Nobody} :
                            names'[p] # "absent"
                      /\ events'[i].kind = "guest" => "guest" \in clubs'
    OBVIOUS
  <2>1. i \in DOMAIN a.events /\ events'[i] = a.events[i]
    BY <1>2
  <2> QED
    BY <1>2, <1>4, <1>5, <2>1
<1>8. stats' \in [{"FT", "1H", "2H"} -> {"none", "detail", "halves"}] /\ stats'["FT"] # "halves"
  BY <1>2
<1> QED
  BY <1>5, <1>6, <1>7, <1>8

LEMMA DetailKeeps == DetailInv /\ [Details!Next]_(Details!vars) => DetailInv'
<1> SUFFICES ASSUME DetailInv, [Details!Next]_(Details!vars) PROVE DetailInv'
  OBVIOUS
<1>1. ASSUME NEW periods \in SUBSET {"1H", "2H"}, Details!StoreHalves(periods)
      PROVE  DetailInv'
  BY <1>1 DEF DetailInv, Details!TypeOK, Details!DetailIsWhole,
              Details!RowsHaveTheirParents, Details!FullTimeFromDetail,
              Details!StoreHalves, Details!UpsertStats
<1>2. CASE UNCHANGED Details!vars
  BY <1>2 DEF DetailInv, Details!TypeOK, Details!DetailIsWhole, Details!vars,
              Details!RowsHaveTheirParents, Details!FullTimeFromDetail
<1> QED
  BY <1>1, <1>2, StoreDetailKeeps DEF Details!Next

\* The tables beside the detail are functions on the matches.
ExtrasInv ==
    /\ DOMAIN oddsTask = MappedMatches /\ DOMAIN links = MappedMatches
    /\ mapping \subseteq MappedMatches
    /\ Extras!ExtrasAreWhole

LEMMA ExtrasInit == Extras!Init => ExtrasInv
  BY DEF Extras!Init, ExtrasInv, Extras!ExtrasAreWhole, Extras!RowsHaveTheirMatch,
         Extras!MappedMatchIsAskedFor, Extras!LinksAreKeys, Extras!ToSet,
         Extras!IsInjective

\* Of the places of a meeting the last one is kept.
LEMMA LinkIsAKey ==
    ASSUME NEW past \in Seq(MappedMatches)
    PROVE  /\ Extras!IsInjective(Extras!Link(past))
           /\ Extras!ToSet(Extras!Link(past)) \subseteq Extras!ToSet(past)
<1> DEFINE places == {i \in DOMAIN past : \A j \in DOMAIN past : past[j] = past[i] => j <= i}
<1>1. Extras!Link(past) = [i \in places |-> past[i]]
  BY DEF Extras!Link
<1>2. \A i, j \in places : past[i] = past[j] => i = j
  <2>1. DOMAIN past \subseteq Nat
    OBVIOUS
  <2> QED
    BY <2>1
<1> QED
  BY <1>1, <1>2 DEF Extras!IsInjective, Extras!ToSet

LEMMA ExtrasKeeps == ExtrasInv /\ [Extras!Next]_(Extras!vars) => ExtrasInv'
<1> SUFFICES ASSUME ExtrasInv, [Extras!Next]_(Extras!vars) PROVE ExtrasInv'
  OBVIOUS
<1> USE DEF ExtrasInv, Extras!ExtrasAreWhole, Extras!RowsHaveTheirMatch,
            Extras!MappedMatchIsAskedFor, Extras!LinksAreKeys
<1>1. ASSUME NEW S \in SUBSET MappedMatches, Extras!StoreMatches(S) PROVE ExtrasInv'
  BY <1>1 DEF Extras!StoreMatches, Extras!EnsureOdds
<1>2. ASSUME NEW S \in SUBSET MappedMatches, Extras!RefreshMapping(S) PROVE ExtrasInv'
  BY <1>2 DEF Extras!RefreshMapping, Extras!EnsureOdds, Extras!Mapped
<1>3. ASSUME NEW S \in SUBSET MappedMatches, NEW m \in MappedMatches,
             Extras!StorePrices(m, S)
      PROVE  ExtrasInv'
  BY <1>3 DEF Extras!StorePrices
<1>4. CASE Extras!MappingFails \/ Extras!MappingIsDue \/ UNCHANGED Extras!vars
  BY <1>4 DEF Extras!MappingFails, Extras!MappingIsDue, Extras!vars
<1>5. ASSUME NEW m \in MappedMatches, NEW past \in Extras!SeqOf(MappedMatches, MaxLinks),
             Extras!StorePrediction(m, past)
      PROVE  ExtrasInv'
  <2>1. past \in Seq(MappedMatches)
    BY DEF Extras!SeqOf
  <2>2. links' = [links EXCEPT ![m] = Extras!Link(past)]
        /\ known' = known \cup Extras!ToSet(past)
        /\ UNCHANGED <<stubs, mapping, oddsTask, priced, injuries>>
    BY <1>5 DEF Extras!StorePrediction
  <2>3. \A n \in MappedMatches : /\ Extras!ToSet(links'[n]) \subseteq known'
                                 /\ Extras!IsInjective(links'[n])
    BY <2>1, <2>2, LinkIsAKey
  <2> QED
    BY <2>2, <2>3
<1>6. ASSUME NEW rows \in SUBSET (MappedMatches \X InjuredPlayers), Extras!StoreInjuries(rows)
      PROVE  ExtrasInv'
  BY <1>6 DEF Extras!StoreInjuries
<1> QED
  BY <1>1, <1>2, <1>3, <1>4, <1>5, <1>6 DEF Extras!Next

DictionaryInv == Dictionary!TypeOK /\ Dictionary!LeagueHasItsCountry

LEMMA DictionaryInit == Dictionary!Init => DictionaryInv
  BY DEF Dictionary!Init, DictionaryInv, Dictionary!TypeOK, Dictionary!LeagueHasItsCountry

LEMMA DictionaryKeeps ==
    DictionaryInv /\ [Dictionary!Next]_(Dictionary!vars) => DictionaryInv'
<1> SUFFICES ASSUME DictionaryInv, [Dictionary!Next]_(Dictionary!vars) PROVE DictionaryInv'
  OBVIOUS
<1> DEFINE steps == <<"countries", "leagues", "live_bets">>
<1> USE DEF DictionaryInv, Dictionary!TypeOK, Dictionary!LeagueHasItsCountry,
            Dictionary!tasks, Dictionary!tables
<1>1. place \in 0 .. 3 /\ Len(steps) = 3
  OBVIOUS
<1>2. ASSUME Dictionary!Onward PROVE place' \in 0 .. 3
  BY <1>1, <1>2 DEF Dictionary!Onward
<1>3. CASE Dictionary!StartPass \/ Dictionary!StopForQuota
  BY <1>1, <1>3 DEF Dictionary!StartPass, Dictionary!StopForQuota
<1>8. CASE Dictionary!QuotaSpent
  BY <1>8 DEF Dictionary!QuotaSpent
<1>10. CASE Dictionary!Midnight
  BY <1>1, <1>10 DEF Dictionary!Midnight
<1>9. CASE UNCHANGED Dictionary!vars
  BY <1>9 DEF Dictionary!vars
<1>4. CASE Dictionary!SkipStep
  BY <1>2, <1>4 DEF Dictionary!SkipStep
<1>5. CASE Dictionary!FetchStep
  <2>1. ASSUME NEW e, Dictionary!Persist(e)
        PROVE  \/ country' = "known" /\ coverage' \in {"known", coverage}
               \/ UNCHANGED <<country, league, coverage>>
    BY <2>1 DEF Dictionary!Persist, Dictionary!UpsertLeagues, Dictionary!UpsertCountries
  <2>2. Dictionary!Persist(steps[place]) /\ Dictionary!Onward
        /\ endpoints' = [endpoints EXCEPT ![steps[place]] = "complete"]
        /\ today' = [today EXCEPT ![steps[place]] = TRUE]
    BY <1>5, Zenon DEF Dictionary!FetchStep
  <2>3. country' \in {"absent", "blank", "known"} /\ coverage' \in {"absent", "unknown", "known"}
        /\ (league' => country' # "absent")
    BY <2>1, <2>2
  <2> QED
    BY <1>2, <2>2, <2>3
<1>6. CASE Dictionary!StepFails \/ Dictionary!QuotaRefuses
  BY <1>2, <1>6 DEF Dictionary!StepFails, Dictionary!QuotaRefuses
<1>7. CASE Dictionary!StoreList
  BY <1>7 DEF Dictionary!StoreList, Dictionary!ListSeason
<1> QED
  BY <1>3, <1>4, <1>5, <1>6, <1>7, <1>8, <1>9, <1>10 DEF Dictionary!Next, Dictionary!Pass

RowsInv ==
    /\ part = "detail" => DetailInv
    /\ part = "extras" => ExtrasInv
    /\ part = "dictionaries" => DictionaryInv

\* Whatever the vendor answers, in whatever order and with whatever blanks, every
\* row stored finds the match, the player, the club or the country it names
\* (persist_fixture_detail, replace_odds_mapping, persist_prediction,
\* persist_injuries, upsert_leagues).
THEOREM ParentsAreStored == MCSpec => []RowsHaveTheirParents
<1>1. MCInit => RowsInv
  BY DetailInit, ExtrasInit, DictionaryInit DEF MCInit, RowsInv
<1>2. RowsInv /\ [MCNext]_allVars => RowsInv'
  <2> SUFFICES ASSUME RowsInv, [MCNext]_allVars PROVE RowsInv'
    OBVIOUS
  <2>1. part' = part
    BY DEF MCNext, allVars
  <2>2. ASSUME part = "detail" PROVE DetailInv'
    <3>1. [Details!Next]_(Details!vars)
      BY <2>2 DEF MCNext, allVars, detailVars, Details!vars
    <3> QED
      BY <2>2, <3>1, DetailKeeps DEF RowsInv
  <2>3. ASSUME part = "extras" PROVE ExtrasInv'
    <3>1. [Extras!Next]_(Extras!vars)
      BY <2>3 DEF MCNext, allVars, extraVars, Extras!vars
    <3> QED
      BY <2>3, <3>1, ExtrasKeeps DEF RowsInv
  <2>4. ASSUME part = "dictionaries" PROVE DictionaryInv'
    <3>1. [Dictionary!Next]_(Dictionary!vars)
      BY <2>4 DEF MCNext, allVars, dictionaryVars, Dictionary!vars, Dictionary!tasks,
                  Dictionary!tables
    <3> QED
      BY <2>4, <3>1, DictionaryKeeps DEF RowsInv
  <2> QED
    BY <2>1, <2>2, <2>3, <2>4 DEF RowsInv
<1>3. RowsInv => RowsHaveTheirParents
  BY DEF RowsInv, RowsHaveTheirParents, DetailInv, ExtrasInv, DictionaryInv
<1> QED
  BY <1>1, <1>2, <1>3, PTL DEF MCSpec

-----------------------------------------------------------------------------
(* The plan of the day.                                                    *)

LEMMA QuotaCardinality == \A S : Quota!Cardinality(S) = Cardinality(S)
  BY DEF Quota!Cardinality, Cardinality

LEMMA QuotaMin ==
    ASSUME NEW S \in SUBSET Nat, S # {}
    PROVE  Quota!Min(S) \in S
  BY SmallestOf DEF Quota!Min

LEMMA Units ==
    /\ DayEnd \in Nat \ {0} /\ Target \in Nat \ {0} /\ IdlePoll \in Nat \ {0}
    /\ Fast \in Nat \ {0} /\ Span \in Nat \ {0} /\ Scale \in Nat \ {0}
    /\ CreditTicks \in Nat \ {0}
    /\ DayBuffer \in Nat /\ Oneshots \in Nat /\ FewOneshots \in Nat /\ FinalCalls \in Nat
    /\ ContextCap \in Nat
    /\ Kickoffs \subseteq 0 .. DayEnd - 1
    /\ MaxMatches \in Nat /\ DayCalls \in Nat /\ MinuteCap \in Nat /\ MaxUnplanned \in Nat
    /\ Batch \in Nat \ {0}
  BY QuotaConstants DEF Quota!PlanConstantsOK, Quota!ConstantsOK

\* The totals of f over the instants of S before each instant.
Before(f, S) ==
    CHOOSE g : g = [u \in 0 .. DayEnd |->
        IF u = 0 THEN 0 ELSE g[u - 1] + (IF u - 1 \in S THEN f[u - 1] ELSE 0)]

LEMMA TotalIsBefore == \A f, S : Quota!TotalOver(f, S) = Before(f, S)[DayEnd]
  BY DEF Quota!TotalOver, Before

LEMMA TotalSteps ==
    ASSUME NEW f, NEW S, \A k \in S \cap (0 .. DayEnd - 1) : f[k] \in Nat
    PROVE  /\ \A u \in 0 .. DayEnd : Before(f, S)[u] \in Nat
           /\ Before(f, S)[0] = 0
           /\ \A u \in 1 .. DayEnd :
                 Before(f, S)[u] = Before(f, S)[u - 1] + (IF u - 1 \in S THEN f[u - 1] ELSE 0)
<1> DEFINE zero == 0
           n == DayEnd
           more == [u \in 1 .. n |-> [v \in Nat |-> v + (IF u - 1 \in S THEN f[u - 1] ELSE 0)]]
           t == Before(f, S)
<1>1. /\ n \in Nat /\ zero \in Nat /\ more \in [1 .. n -> [Nat -> Nat]]
      /\ \A u \in 1 .. n, v \in Nat :
            /\ more[u][v] = v + (IF u - 1 \in S THEN f[u - 1] ELSE 0)
            /\ more[u][v] \in Nat
  <2>1. \A u \in 1 .. n : (IF u - 1 \in S THEN f[u - 1] ELSE 0) \in Nat
    <3> SUFFICES ASSUME NEW u \in 1 .. n, u - 1 \in S PROVE f[u - 1] \in Nat
      OBVIOUS
    <3>1. u - 1 \in 0 .. n - 1
      BY Units
    <3> QED
      BY <3>1
  <2> QED
    BY <2>1, Units
<1>2. PICK g : Recursive(g, Nat, n, zero, more)
  <2> HIDE DEF more, n, zero
  <2> QED
    BY <1>1, RecursiveFunction
<1>3. g = [u \in 0 .. n |->
              IF u = 0 THEN 0 ELSE g[u - 1] + (IF u - 1 \in S THEN f[u - 1] ELSE 0)]
  <2> HIDE DEF more
  <2>1. g = [u \in 0 .. n |-> g[u]]
    BY <1>2 DEF Recursive
  <2>2. ASSUME NEW u \in 0 .. n
        PROVE  g[u] = IF u = 0 THEN 0 ELSE g[u - 1] + (IF u - 1 \in S THEN f[u - 1] ELSE 0)
    <3>1. CASE u = 0
      BY <1>2, <3>1 DEF Recursive
    <3>2. CASE u # 0
      <4>1. u \in 1 .. n /\ u - 1 \in 0 .. n
        BY <1>1, <3>2
      <4>2. g[u - 1] \in Nat /\ g[u] = more[u][g[u - 1]]
        BY <1>2, <4>1 DEF Recursive
      <4> QED
        BY <1>1, <3>2, <4>1, <4>2
    <3> QED
      BY <3>1, <3>2
  <2> QED
    BY <2>1, <2>2
<1>4. t = [u \in 0 .. DayEnd |->
              IF u = 0 THEN 0 ELSE t[u - 1] + (IF u - 1 \in S THEN f[u - 1] ELSE 0)]
  BY <1>3 DEF Before
<1> HIDE DEF t
<1>5. /\ t[0] = 0
      /\ \A u \in 1 .. n : t[u] = t[u - 1] + (IF u - 1 \in S THEN f[u - 1] ELSE 0)
  <2>1. 0 \in 0 .. n /\ \A u \in 1 .. n : u \in 0 .. n /\ u # 0
    BY <1>1
  <2> QED
    BY <1>4, <2>1
<1>6. \A u \in 0 .. n : t[u] \in Nat
  <2>1. t[0] \in Nat /\ \A u \in 1 .. n : t[u - 1] \in Nat => t[u] \in Nat
    <3> SUFFICES ASSUME NEW u \in 1 .. n, t[u - 1] \in Nat PROVE t[u] \in Nat
      BY <1>5
    <3>1. t[u] = more[u][t[u - 1]]
      BY <1>1, <1>5
    <3> HIDE DEF more, n
    <3>2. more[u][t[u - 1]] \in Nat
      BY <1>1
    <3> QED
      BY <3>1, <3>2
  <2> QED
    BY <1>1, <2>1, RecursiveStays
<1> QED
  BY <1>5, <1>6 DEF t

LEMMA TotalIsNat ==
    ASSUME NEW f, NEW S, \A k \in S \cap (0 .. DayEnd - 1) : f[k] \in Nat
    PROVE  Quota!TotalOver(f, S) \in Nat
<1>1. DayEnd \in 0 .. DayEnd
  BY Units
<1> QED
  BY <1>1, TotalSteps, TotalIsBefore

\* Instants that do not overlap, within others.
LEMMA TotalsAdd ==
    ASSUME NEW f, NEW S, NEW T, NEW W, S \cap T = {}, S \cup T \subseteq W,
           \A k \in W \cap (0 .. DayEnd - 1) : f[k] \in Nat
    PROVE  Quota!TotalOver(f, S) + Quota!TotalOver(f, T) <= Quota!TotalOver(f, W)
<1> DEFINE s == Before(f, S)
           t == Before(f, T)
           w == Before(f, W)
           n == DayEnd
           U == {u \in 0 .. n : s[u] + t[u] <= w[u]}
<1>1. /\ \A u \in 0 .. n : s[u] \in Nat /\ s[0] = 0
      /\ \A u \in 1 .. n : s[u] = s[u - 1] + (IF u - 1 \in S THEN f[u - 1] ELSE 0)
  BY TotalSteps
<1>2. /\ \A u \in 0 .. n : t[u] \in Nat /\ t[0] = 0
      /\ \A u \in 1 .. n : t[u] = t[u - 1] + (IF u - 1 \in T THEN f[u - 1] ELSE 0)
  BY TotalSteps
<1>3. /\ \A u \in 0 .. n : w[u] \in Nat /\ w[0] = 0
      /\ \A u \in 1 .. n : w[u] = w[u - 1] + (IF u - 1 \in W THEN f[u - 1] ELSE 0)
  BY TotalSteps
<1>4. n \in Nat
  BY Units
<1> HIDE DEF s, t, w
<1>5. 0 \in U
  BY <1>1, <1>2, <1>3, <1>4
<1>6. ASSUME NEW u \in 1 .. n, u - 1 \in U PROVE u \in U
  <2>1. u - 1 \in 0 .. n - 1 /\ u \in 0 .. n /\ u - 1 \in 0 .. n
    BY <1>4
  <2>2. /\ s[u - 1] \in Nat /\ t[u - 1] \in Nat /\ w[u - 1] \in Nat
        /\ s[u - 1] + t[u - 1] <= w[u - 1]
    BY <1>1, <1>2, <1>3, <1>6, <2>1
  <2>3. CASE u - 1 \in W
    <3>1. f[u - 1] \in Nat /\ ~(u - 1 \in S /\ u - 1 \in T)
      BY <2>1, <2>3
    <3>2. w[u] = w[u - 1] + f[u - 1]
      BY <1>3, <2>3
    <3>3. CASE u - 1 \in S
      BY <1>1, <1>2, <2>1, <2>2, <3>1, <3>2, <3>3
    <3>4. CASE u - 1 \notin S
      BY <1>1, <1>2, <2>1, <2>2, <3>1, <3>2, <3>4
    <3> QED
      BY <3>3, <3>4
  <2>4. CASE u - 1 \notin W
    BY <1>1, <1>2, <1>3, <2>1, <2>2, <2>4
  <2> QED
    BY <2>3, <2>4
<1> HIDE DEF U
<1>7. 0 .. n \subseteq U
  BY <1>4, <1>5, <1>6, BoundedInduction
<1>8. n \in U
  BY <1>4, <1>7
<1> QED
  BY <1>8, TotalIsBefore DEF U, s, t, w

\* No more matches end than there are.
LEMMA TotalIsBounded ==
    ASSUME NEW f \in [Kickoffs -> 0 .. MaxMatches], NEW S \in SUBSET Kickoffs
    PROVE  Quota!TotalOver(f, S) <= MaxMatches * Cardinality(Kickoffs)
<1> DEFINE s == Before(f, S)
           n == DayEnd
           C(u) == {k \in Kickoffs : k < u}
           U == {u \in 0 .. n : s[u] <= MaxMatches * Cardinality(C(u))}
<1>1. /\ \A u \in 0 .. n : s[u] \in Nat /\ s[0] = 0
      /\ \A u \in 1 .. n : s[u] = s[u - 1] + (IF u - 1 \in S THEN f[u - 1] ELSE 0)
  <2>1. \A k \in S \cap (0 .. DayEnd - 1) : f[k] \in Nat
    BY Units
  <2> QED
    BY <2>1, TotalSteps
<1> HIDE DEF s
<1>2. n \in Nat /\ Kickoffs \subseteq 0 .. n - 1 /\ MaxMatches \in Nat
  BY Units
<1>3. IsFiniteSet(Kickoffs)
  <2>1. IsFiniteSet(0 .. n - 1)
    BY <1>2, FS_Interval
  <2> QED
    BY <1>2, <2>1, FS_Subset
<1>4. \A u \in 0 .. n : IsFiniteSet(C(u)) /\ Cardinality(C(u)) \in Nat
  <2>1. \A u \in 0 .. n : C(u) \subseteq Kickoffs
    OBVIOUS
  <2> HIDE DEF C
  <2> QED
    BY <1>3, <2>1, FS_Subset, FS_CardinalityType
<1>5. 0 \in U
  <2>1. Cardinality(C(0)) \in Nat
    BY <1>2, <1>4
  <2> HIDE DEF C
  <2> QED
    BY <1>1, <1>2, <2>1
<1>6. ASSUME NEW u \in 1 .. n, u - 1 \in U PROVE u \in U
  <2>1. u - 1 \in 0 .. n - 1 /\ u \in 0 .. n /\ u - 1 \in 0 .. n
    BY <1>2
  <2>2. s[u - 1] \in Nat /\ s[u - 1] <= MaxMatches * Cardinality(C(u - 1))
    BY <1>1, <1>6, <2>1
  <2>3. CASE u - 1 \in S
    <3>1. C(u) = C(u - 1) \cup {u - 1} /\ u - 1 \notin C(u - 1)
      <4>1. u - 1 \in Kickoffs
        BY <2>3
      <4>2. \A k \in Kickoffs : k < u <=> k < u - 1 \/ k = u - 1
        BY <1>2, <2>1
      <4> QED
        BY <2>1, <4>1, <4>2
    <3>2. Cardinality(C(u)) = Cardinality(C(u - 1)) + 1
      <4> HIDE DEF C
      <4> QED
        BY <1>4, <2>1, <3>1, FS_AddElement
    <3>3. s[u] = s[u - 1] + f[u - 1] /\ f[u - 1] \in 0 .. MaxMatches
      BY <1>1, <2>1, <2>3
    <3>4. Cardinality(C(u - 1)) \in Nat
      BY <1>4, <2>1
    <3> DEFINE c == Cardinality(C(u - 1))
               d == Cardinality(C(u))
    <3> HIDE DEF C, c, d
    <3>5. s[u] <= MaxMatches * (c + 1)
      BY <1>2, <2>2, <3>3, <3>4 DEF c
    <3>6. d = c + 1
      BY <3>2 DEF c, d
    <3> QED
      BY <2>1, <3>5, <3>6 DEF c, d
  <2>4. CASE u - 1 \notin S
    <3>1. C(u - 1) \subseteq C(u)
      <4>1. \A k \in Kickoffs : k < u - 1 => k < u
        BY <1>2, <2>1
      <4> QED
        BY <4>1
    <3>2. Cardinality(C(u - 1)) <= Cardinality(C(u))
      <4> HIDE DEF C
      <4> QED
        BY <1>4, <2>1, <3>1, FS_Subset
    <3>3. s[u] = s[u - 1]
      BY <1>1, <2>1, <2>2, <2>4
    <3>4. Cardinality(C(u - 1)) \in Nat /\ Cardinality(C(u)) \in Nat
      BY <1>4, <2>1
    <3> DEFINE c == Cardinality(C(u - 1))
               d == Cardinality(C(u))
    <3> HIDE DEF C, c, d
    <3>5. c \in Nat /\ d \in Nat /\ c <= d /\ s[u - 1] <= MaxMatches * c
      BY <2>2, <3>2, <3>4 DEF c, d
    <3>6. MaxMatches * c <= MaxMatches * d
      BY <1>2, <3>5
    <3>7. s[u] <= MaxMatches * d
      BY <1>2, <2>2, <3>3, <3>5, <3>6
    <3> QED
      BY <2>1, <3>7 DEF d
  <2> QED
    BY <2>3, <2>4
<1> HIDE DEF U
<1>7. 0 .. n \subseteq U
  BY <1>2, <1>5, <1>6, BoundedInduction
<1>8. n \in U
  BY <1>2, <1>7
<1>9. C(n) = Kickoffs
  <2>1. \A k \in Kickoffs : k < n
    BY <1>2
  <2> QED
    BY <2>1
<1>10. s[n] <= MaxMatches * Cardinality(Kickoffs)
  BY <1>8, <1>9 DEF U
<1> QED
  BY <1>10, TotalIsBefore DEF s

LEMMA Products == \A a, b \in Nat : a * b \in Nat
  OBVIOUS

LEMMA Quotients == \A a \in Nat, b \in Nat \ {0} : a \div b \in Nat
  OBVIOUS

LEMMA QuotientsUp == \A a \in Nat, b \in Nat \ {0} : Quota!CeilDiv(a, b) \in Nat
<1> SUFFICES ASSUME NEW a \in Nat, NEW b \in Nat \ {0} PROVE Quota!CeilDiv(a, b) \in Nat
  OBVIOUS
<1>1. a + b - 1 \in Nat
  OBVIOUS
<1> QED
  BY <1>1, Quotients DEF Quota!CeilDiv

LEMMA PolledCalls ==
    \A m \in Nat, i \in Nat \ {0} : Quota!CallsFor(m, i) \in Nat
<1> SUFFICES ASSUME NEW m \in Nat, NEW i \in Nat \ {0} PROVE Quota!CallsFor(m, i) \in Nat
  OBVIOUS
<1>1. 4 * i \in Nat \ {0}
  OBVIOUS
<1>2. Quota!CeilDiv(m, 4 * i) \in Nat
  BY <1>1, QuotientsUp
<1> QED
  BY <1>2 DEF Quota!CallsFor

LEMMA IntervalIsPositive ==
    ASSUME NEW m \in Nat, NEW b \in Int, NEW r \in Nat
    PROVE  Quota!IntervalFor(m, b, r) \in Nat \ {0}
<1> DEFINE top == Quota!Largest(Fast, r)
           low == Quota!Largest(Fast, Quota!CeilDiv(m, 4 * b))
           S == {i \in low .. top : Quota!CallsFor(m, i) <= b} \cup {top}
<1>1. top \in Nat \ {0}
  BY Units DEF Quota!Largest
<1>2. CASE m <= 0 \/ b <= 0
  BY <1>1, <1>2 DEF Quota!IntervalFor
<1>3. CASE ~(m <= 0 \/ b <= 0)
  <2>1. 4 * b \in Nat \ {0}
    BY <1>3
  <2>2. Quota!CeilDiv(m, 4 * b) \in Nat
    BY <2>1, QuotientsUp
  <2>3. low \in Nat \ {0}
    BY <2>2, Units DEF Quota!Largest
  <2>4. S \subseteq Nat \ {0} /\ S # {}
    <3> HIDE DEF low, top
    <3> QED
      BY <1>1, <2>3
  <2>5. Quota!Min(S) \in S
    <3> HIDE DEF S
    <3> QED
      BY <2>4, QuotaMin
  <2>6. Quota!IntervalFor(m, b, r) = Quota!Min(S)
    BY <1>3 DEF Quota!IntervalFor
  <2> HIDE DEF S
  <2> QED
    BY <2>4, <2>5, <2>6
<1> QED
  BY <1>2, <1>3

\* A quality of live work with whole amounts, which costs no more than `most'.
Quality(q, most) ==
    /\ q.interval \in Nat \ {0} /\ q.relaxed \in Nat \ {0}
    /\ q.detail \in Nat /\ q.odds \in Nat /\ q.oneshots \in Nat /\ q.reserve \in Nat
    /\ Quota!Cost(q) <= most

LEMMA StretchedFits ==
    ASSUME NEW i \in Nat \ {0}, NEW j \in Nat \ {0}, NEW d \in Nat, NEW b \in Int, d <= b
    PROVE  Quality(Quota!Stretched(i, j, d), b)
  BY DEF Quality, Quota!Stretched, Quota!Quality, Quota!Cost

LEMMA TieredFits ==
    ASSUME NEW m \in Nat, NEW e \in Nat, NEW b \in Nat, NEW r \in Nat
    PROVE  Quality(Quota!Tiered(m, e, b, r), b)
<1> DEFINE finish == Quota!Smallest(e, b)
           body == b - finish
           quickly == Quota!CallsFor(m, Fast)
           top == Quota!Largest(Fast, r)
<1>1. finish \in Nat /\ body \in Nat /\ body + finish = b /\ 3 * m \in Nat
  BY DEF Quota!Smallest
<1>2. top \in Nat \ {0} /\ Fast \in Nat \ {0}
  BY Units DEF Quota!Largest
<1>3. quickly \in Nat
  BY <1>2, PolledCalls
<1>4. CASE b <= 0
  <2>1. Quota!Tiered(m, e, b, r) = Quota!Stretched(top, top, finish)
    BY <1>4 DEF Quota!Tiered
  <2> HIDE DEF finish, body, top
  <2> QED
    BY <1>1, <1>2, <2>1, StretchedFits
<1>5. CASE ~(b <= 0) /\ (m <= 0 \/ body <= 0)
  <2>1. Quota!Tiered(m, e, b, r) = Quota!Stretched(Fast, Fast, finish)
    BY <1>5 DEF Quota!Tiered
  <2> HIDE DEF finish, body
  <2> QED
    BY <1>1, <1>2, <2>1, StretchedFits
<1>6. CASE ~(b <= 0) /\ ~(m <= 0 \/ body <= 0) /\ quickly <= body
  <2> DEFINE rest == body - quickly
             slow == Quota!IntervalFor(3 * m, rest, r)
             after == Quota!Smallest(rest, Quota!CallsFor(3 * m, slow))
  <2>1. rest \in Nat /\ rest \in Int
    BY <1>1, <1>3, <1>6
  <2>2. slow \in Nat \ {0}
    <3> HIDE DEF rest
    <3> QED
      BY <1>1, <2>1, IntervalIsPositive
  <2>3. Quota!CallsFor(3 * m, slow) \in Nat
    BY <1>1, <2>2, PolledCalls
  <2>4. after \in Nat /\ after <= rest
    BY <2>1, <2>3 DEF Quota!Smallest
  <2>5. Quota!Largest(Fast, slow) \in Nat \ {0}
    BY <1>2, <2>2 DEF Quota!Largest
  <2>6. Quota!Tiered(m, e, b, r)
          = Quota!Stretched(Fast, Quota!Largest(Fast, slow), quickly + after + finish)
    BY <1>6 DEF Quota!Tiered
  <2>7. quickly + after + finish \in Nat /\ quickly + after + finish <= b
    <3> HIDE DEF after, quickly, finish
    <3> QED
      BY <1>1, <1>3, <2>1, <2>4
  <2> HIDE DEF slow, after, quickly, finish
  <2> QED
    BY <1>2, <2>5, <2>6, <2>7, StretchedFits
<1>7. CASE ~(b <= 0) /\ ~(m <= 0 \/ body <= 0) /\ ~(quickly <= body)
  <2> DEFINE most == Quota!Largest(1, body \div 2)
             rest == body - most
             quick == Quota!IntervalFor(m, most, r)
             late == Quota!IntervalFor(3 * m, Quota!Largest(1, rest), r)
             slow == Quota!Largest(quick, late)
             early == Quota!Smallest(most, Quota!CallsFor(m, quick))
             after == Quota!Smallest(rest, Quota!CallsFor(3 * m, slow))
  <2>1. most \in Nat /\ most \in Int /\ most <= body
    <3> HIDE DEF body
    <3> QED
      BY <1>1, <1>7 DEF Quota!Largest
  <2>2. rest \in Nat /\ Quota!Largest(1, rest) \in Nat /\ Quota!Largest(1, rest) \in Int
    BY <1>1, <2>1 DEF Quota!Largest
  <2>3. quick \in Nat \ {0} /\ late \in Nat \ {0}
    <3> HIDE DEF most, rest
    <3> QED
      BY <1>1, <2>1, <2>2, IntervalIsPositive
  <2>4. slow \in Nat \ {0}
    BY <2>3 DEF Quota!Largest
  <2>5. Quota!CallsFor(m, quick) \in Nat /\ Quota!CallsFor(3 * m, slow) \in Nat
    BY <1>1, <2>3, <2>4, PolledCalls
  <2>6. early \in Nat /\ early <= most /\ after \in Nat /\ after <= rest
    BY <2>1, <2>2, <2>5 DEF Quota!Smallest
  <2>7. Quota!Tiered(m, e, b, r) = Quota!Stretched(quick, slow, early + after + finish)
    BY <1>7 DEF Quota!Tiered
  <2>8. early + after + finish \in Nat /\ early + after + finish <= b
    <3> HIDE DEF early, after, most, finish
    <3> QED
      BY <1>1, <2>1, <2>2, <2>6
  <2> HIDE DEF quick, slow, early, after, finish
  <2> QED
    BY <2>3, <2>4, <2>7, <2>8, StretchedFits
<1> QED
  BY <1>4, <1>5, <1>6, <1>7

\* What is in play in each unit left of the day.
IsLoad(load) == \E u \in 0 .. DayEnd - 1 : load \in [u .. DayEnd - 1 -> Nat]

LEMMA LoadIsTyped ==
    ASSUME NEW u \in 0 .. DayEnd - 1, NEW live \in Nat, NEW forecast,
           \A k \in DOMAIN forecast : forecast[k] \in Nat
    PROVE  IsLoad(Quota!Load(u, live, forecast))
<1> DEFINE Due(v) == {k \in DOMAIN forecast : k <= v /\ v < k + Span}
<1>1. \A v \in u .. DayEnd - 1 : Quota!TotalOver(forecast, Due(v)) \in Nat
  <2> SUFFICES ASSUME NEW v \in u .. DayEnd - 1
               PROVE  Quota!TotalOver(forecast, Due(v)) \in Nat
    OBVIOUS
  <2>1. \A k \in Due(v) \cap (0 .. DayEnd - 1) : forecast[k] \in Nat
    OBVIOUS
  <2> HIDE DEF Due
  <2> QED
    BY <2>1, TotalIsNat
<1>2. Quota!Load(u, live, forecast)
        = [v \in u .. DayEnd - 1 |->
              (IF v < u + Span THEN live ELSE 0) + Quota!TotalOver(forecast, Due(v))]
  BY DEF Quota!Load
<1> HIDE DEF Due
<1>3. \A v \in u .. DayEnd - 1 : (IF v < u + Span THEN live ELSE 0)
                                 + Quota!TotalOver(forecast, Due(v)) \in Nat
  BY <1>1
<1>4. Quota!Load(u, live, forecast) \in [u .. DayEnd - 1 -> Nat]
  BY <1>2, <1>3
<1> QED
  BY <1>4 DEF IsLoad

LEMMA LoadAmounts ==
    ASSUME NEW load, IsLoad(load)
    PROVE  /\ Quota!MatchSeconds(load) \in Nat
           /\ Quota!BusySeconds(load) \in Nat
           /\ Quota!Cardinality(DOMAIN load) \in Nat
           /\ Quota!BusySeconds(load) <= Quota!Cardinality(DOMAIN load)
           /\ Quota!ScorePolls(load) \in Nat /\ Quota!OddsPolls(load) \in Nat
<1>1. PICK u \in 0 .. DayEnd - 1 : load \in [u .. DayEnd - 1 -> Nat]
  BY DEF IsLoad
<1> DEFINE units == DOMAIN load
           busy == {k \in units : load[k] > 0}
<1>2. DayEnd \in Nat \ {0} /\ Target \in Nat \ {0} /\ IdlePoll \in Nat \ {0}
  BY Units
<1>3. Quota!MatchSeconds(load) \in Nat
  <2>1. \A k \in units \cap (0 .. DayEnd - 1) : load[k] \in Nat
    BY <1>1
  <2>2. Quota!TotalOver(load, units) \in Nat
    <3> HIDE DEF units
    <3> QED
      BY <2>1, TotalIsNat
  <2> QED
    BY <2>2 DEF Quota!MatchSeconds
<1>4. IsFiniteSet(units)
  <2>1. u \in Int /\ DayEnd - 1 \in Int
    BY <1>2
  <2>2. IsFiniteSet(u .. DayEnd - 1)
    BY <2>1, FS_Interval
  <2>3. units = u .. DayEnd - 1
    BY <1>1
  <2> QED
    BY <2>2, <2>3
<1>5. /\ Cardinality(units) \in Nat /\ Cardinality(busy) \in Nat
      /\ Cardinality(busy) <= Cardinality(units)
  <2>1. busy \subseteq units
    OBVIOUS
  <2> HIDE DEF busy, units
  <2>2. IsFiniteSet(busy) /\ Cardinality(busy) <= Cardinality(units)
    BY <1>4, <2>1, FS_Subset
  <2> QED
    BY <1>4, <2>2, FS_CardinalityType
<1> DEFINE b == Cardinality(busy)
           c == Cardinality(units)
<1>6. Quota!BusySeconds(load) = b /\ Quota!Cardinality(DOMAIN load) = c
  BY QuotaCardinality DEF Quota!BusySeconds
<1>7. b \in Nat /\ c \in Nat /\ b <= c
  BY <1>5
<1> HIDE DEF b, c
<1>8. Quota!ScorePolls(load) \in Nat
  <2>1. Quota!ScorePolls(load)
          = Quota!CeilDiv(b * IdlePoll + (c - b) * Target, Target * IdlePoll)
    BY <1>6 DEF Quota!ScorePolls
  <2>2. c - b \in Nat
    BY <1>7
  <2>3. b * IdlePoll \in Nat /\ (c - b) * Target \in Nat
    BY <1>2, <1>7, <2>2, Products
  <2>4. b * IdlePoll + (c - b) * Target \in Nat
    BY <2>3
  <2>5. Target * IdlePoll \in Nat \ {0}
    BY <1>2
  <2> QED
    BY <2>1, <2>4, <2>5, QuotientsUp
<1>9. Quota!OddsPolls(load) \in Nat
  BY <1>2, <1>6, <1>7, QuotientsUp DEF Quota!OddsPolls
<1> QED
  BY <1>3, <1>6, <1>7, <1>8, <1>9

LEMMA LevelsAreTyped ==
    ASSUME NEW d \in Nat, NEW o \in Nat, NEW b \in Nat
    PROVE  /\ DOMAIN Quota!Levels(d, o, b) = 1 .. 4
           /\ \A i \in 1 .. 4 :
                LET q == Quota!Levels(d, o, b)[i] IN Quality(q, Quota!Cost(q))
<1> DEFINE Level(polls, ones) ==
        Quota!Quality(Fast, Fast, d, polls, ones, Quota!CeilDiv(ones * b, Target), polls < o)
<1>1. ASSUME NEW p \in Nat, NEW ones \in Nat
      PROVE  Quality(Level(p, ones), Quota!Cost(Level(p, ones)))
  <2>1. ones * b \in Nat
    OBVIOUS
  <2>2. Quota!CeilDiv(ones * b, Target) \in Nat
    BY <2>1, Units, QuotientsUp
  <2> DEFINE c == Quota!CeilDiv(ones * b, Target)
  <2> HIDE DEF c
  <2>3. c \in Nat
    BY <2>2 DEF c
  <2> DEFINE q == Quota!Quality(Fast, Fast, d, p, ones, c, p < o)
  <2>4. /\ q.interval \in Nat \ {0} /\ q.relaxed \in Nat \ {0}
        /\ q.detail \in Nat /\ q.odds \in Nat /\ q.oneshots \in Nat /\ q.reserve \in Nat
    BY <2>3, Units DEF Quota!Quality
  <2>5. Quota!Cost(q) \in Nat
    <3> HIDE DEF q
    <3> QED
      BY <2>4 DEF Quota!Cost
  <2>6. q = Level(p, ones)
    BY DEF c
  <2> HIDE DEF q, Level
  <2>7. Quality(q, Quota!Cost(q))
    BY <2>4, <2>5 DEF Quality
  <2> QED
    BY <2>6, <2>7
<1>2. Quota!Levels(d, o, b)
        = << Level(o, Oneshots), Level(o, FewOneshots), Level(o, 0), Level(0, 0) >>
  BY DEF Quota!Levels
<1> HIDE DEF Level
<1>3. /\ Quality(Level(o, Oneshots), Quota!Cost(Level(o, Oneshots)))
      /\ Quality(Level(o, FewOneshots), Quota!Cost(Level(o, FewOneshots)))
      /\ Quality(Level(o, 0), Quota!Cost(Level(o, 0)))
      /\ Quality(Level(0, 0), Quota!Cost(Level(0, 0)))
  <2>1. Oneshots \in Nat /\ FewOneshots \in Nat /\ 0 \in Nat
    BY Units
  <2> QED
    BY <1>1, <2>1
<1> DEFINE a1 == Level(o, Oneshots)
           a2 == Level(o, FewOneshots)
           a3 == Level(o, 0)
           a4 == Level(0, 0)
           L == Quota!Levels(d, o, b)
<1>4. L = <<a1, a2, a3, a4>>
  BY <1>2
<1>5. /\ Quality(a1, Quota!Cost(a1)) /\ Quality(a2, Quota!Cost(a2))
      /\ Quality(a3, Quota!Cost(a3)) /\ Quality(a4, Quota!Cost(a4))
  BY <1>3
<1> HIDE DEF a1, a2, a3, a4, L
<1>6. DOMAIN L = 1 .. 4 /\ L[1] = a1 /\ L[2] = a2 /\ L[3] = a3 /\ L[4] = a4
  BY <1>4
<1>7. \A i \in 1 .. 4 : Quality(L[i], Quota!Cost(L[i]))
  <2> SUFFICES ASSUME NEW i \in 1 .. 4 PROVE Quality(L[i], Quota!Cost(L[i]))
    OBVIOUS
  <2>1. i = 1 \/ i = 2 \/ i = 3 \/ i = 4
    OBVIOUS
  <2> QED
    BY <1>5, <1>6, <2>1
<1> QED
  BY <1>6, <1>7 DEF L

LEMMA FittedQuality ==
    ASSUME NEW load, IsLoad(load), NEW e \in Nat, NEW b \in Nat
    PROVE  Quality(Quota!FitQuality(b, load, e), b)
<1> DEFINE m == Quota!MatchSeconds(load)
           d == Quota!DetailCalls(m, e, Fast)
           L == Quota!Levels(d, Quota!OddsPolls(load), Quota!BusySeconds(load))
           S == {i \in DOMAIN L : Quota!Cost(L[i]) <= b}
<1>1. /\ m \in Nat /\ Quota!BusySeconds(load) \in Nat /\ Quota!OddsPolls(load) \in Nat
      /\ Quota!Cardinality(DOMAIN load) \in Nat
  BY LoadAmounts
<1>2. d \in Nat
  <2>1. 4 * m \in Nat /\ Fast \in Nat \ {0}
    BY <1>1, Units
  <2>2. Quota!CallsFor(4 * m, Fast) \in Nat
    BY <2>1, PolledCalls
  <2> QED
    BY <2>2 DEF Quota!DetailCalls
<1>3. DOMAIN L = 1 .. 4 /\ \A i \in 1 .. 4 : Quality(L[i], Quota!Cost(L[i]))
  BY <1>1, <1>2, LevelsAreTyped
<1>4. Quota!FitQuality(b, load, e)
        = IF S # {} THEN L[Quota!Min(S)]
          ELSE Quota!Tiered(m, e, b, Quota!Cardinality(DOMAIN load))
  BY DEF Quota!FitQuality
<1> HIDE DEF L, m
<1>5. CASE S # {}
  <2>1. S \subseteq Nat /\ S \subseteq 1 .. 4
    BY <1>3
  <2>2. Quota!Min(S) \in S
    <3> HIDE DEF S
    <3> QED
      BY <1>5, <2>1, QuotaMin
  <2> DEFINE q == L[Quota!Min(S)]
  <2>3. Quality(q, Quota!Cost(q)) /\ Quota!Cost(q) <= b
    BY <1>3, <2>1, <2>2
  <2>4. Quality(q, b)
    <3> HIDE DEF q
    <3> QED
      BY <2>3 DEF Quality
  <2> QED
    BY <1>4, <1>5, <2>4
<1>6. CASE ~(S # {})
  <2> HIDE DEF S
  <2> QED
    BY <1>1, <1>4, <1>6, TieredFits
<1> QED
  BY <1>5, <1>6

\* The most context calls of a tick, in parts of Scale.
MostContext == ContextCap * Scale

LEMMA RateIsBounded ==
    ASSUME NEW q, NEW b, Quality(q, b), NEW live \in Nat, NEW e \in Nat, NEW tick \in Nat
    PROVE  Quota!ContextRate(q, live, e, tick) \in 0 .. MostContext
<1> DEFINE quickly == (live * tick * Scale) \div (4 * q.interval)
           slowly == (3 * live * tick * Scale) \div (4 * q.relaxed)
           closing == (e * tick * Scale) \div q.interval
           matches == IF live = 0 THEN 0 ELSE quickly + slowly
           final == IF q.detail = 0 THEN 0 ELSE Quota!Smallest(FinalCalls * Scale, closing)
           extra == IF live = 0 THEN 0 ELSE q.oneshots * Scale
<1>1. /\ Scale \in Nat /\ 4 * q.interval \in Nat \ {0} /\ 4 * q.relaxed \in Nat \ {0}
      /\ q.interval \in Nat \ {0} /\ q.oneshots \in Nat
      /\ FinalCalls \in Nat /\ ContextCap \in Nat
  BY Units DEF Quality
<1>2. live * tick * Scale \in Nat /\ 3 * live * tick * Scale \in Nat /\ e * tick * Scale \in Nat
  <2>1. live * tick \in Nat /\ e * tick \in Nat /\ 3 * live \in Nat
    BY Products
  <2>2. 3 * live * tick \in Nat
    BY <2>1, Products
  <2> QED
    BY <1>1, <2>1, <2>2, Products
<1>3. quickly \in Nat /\ slowly \in Nat /\ closing \in Nat
  BY <1>1, <1>2, Quotients
<1>4. FinalCalls * Scale \in Nat /\ q.oneshots * Scale \in Nat /\ MostContext \in Nat
  BY <1>1, Products DEF MostContext
<1> HIDE DEF quickly, slowly, closing
<1>5. matches \in Nat /\ final \in Nat /\ extra \in Nat
  BY <1>3, <1>4 DEF Quota!Smallest
<1>6. Quota!ContextRate(q, live, e, tick)
        = Quota!Smallest(MostContext, matches + final + extra)
  BY DEF Quota!ContextRate, MostContext, quickly, slowly, closing
<1> HIDE DEF matches, final, extra, MostContext
<1> QED
  BY <1>4, <1>5, <1>6 DEF Quota!Smallest

\* A plan with whole amounts, which keeps no more than `most' calls.
Planned(plan, most) ==
    /\ plan.score \in Nat /\ plan.detail \in Nat /\ plan.odds \in Nat /\ plan.reserve \in Nat
    /\ plan.rate \in 0 .. MostContext
    /\ plan.sleep[1] \in Nat /\ plan.sleep[2] \in Nat \ {0}
    /\ Quota!FullReserve(plan) + plan.reserve <= most

LEMMA BareFits ==
    ASSUME NEW b \in Nat, NEW most \in Nat, b <= most, NEW i, NEW p \in Nat,
           NEW q \in Nat \ {0}
    PROVE  Planned(Quota!Bare(b, i, <<p, q>>), most)
<1> DEFINE plan == Quota!Bare(b, i, <<p, q>>)
<1>1. /\ plan.score = b /\ plan.detail = 0 /\ plan.odds = 0 /\ plan.reserve = 0
      /\ plan.rate = 0 /\ plan.sleep = <<p, q>>
  BY DEF Quota!Bare
<1>2. MostContext \in Nat
  BY Units, Products DEF MostContext
<1>3. plan.sleep[1] = p /\ plan.sleep[2] = q
  BY <1>1
<1>4. 0 \in 0 .. MostContext
  BY <1>2
<1> HIDE DEF plan
<1>5. Planned(plan, most)
  BY <1>1, <1>3, <1>4 DEF Planned, Quota!FullReserve
<1> QED
  BY <1>5 DEF plan

LEMMA AssembledFits ==
    ASSUME NEW s \in Nat, NEW b \in Nat, NEW q, Quality(q, b), NEW tick \in Nat,
           NEW live \in Nat, NEW e \in Nat
    PROVE  Planned(Quota!Assembled(s, q, tick, live, e), s + b)
<1> DEFINE plan == Quota!Assembled(s, q, tick, live, e)
           rate == Quota!ContextRate(q, live, e, tick)
<1>1. /\ plan.score = s /\ plan.detail = q.detail /\ plan.odds = q.odds
      /\ plan.reserve = q.reserve /\ plan.rate = rate /\ plan.sleep = <<tick, 1>>
  BY DEF Quota!Assembled
<1>2. rate \in 0 .. MostContext
  BY RateIsBounded
<1>3. plan.sleep[1] = tick /\ plan.sleep[2] = 1
  BY <1>1
<1>4. /\ q.detail \in Nat /\ q.odds \in Nat /\ q.reserve \in Nat
      /\ q.detail + q.odds + q.reserve <= b
  BY DEF Quality, Quota!Cost
<1> HIDE DEF plan, rate
<1>5. Quota!FullReserve(plan) + plan.reserve <= s + b
  BY <1>1, <1>4 DEF Quota!FullReserve
<1>6. Planned(plan, s + b)
  BY <1>1, <1>2, <1>3, <1>4, <1>5 DEF Planned
<1> QED
  BY <1>6 DEF plan

LEMMA PlanKeeps ==
    ASSUME NEW u \in 0 .. DayEnd - 1, NEW live \in Nat, NEW e \in Nat, NEW forecast,
           \A k \in DOMAIN forecast : forecast[k] \in Nat, NEW rest \in Nat
    PROVE  Planned(Quota!Plan(u, live, e, forecast, rest),
                   Quota!Largest(0, rest - DayBuffer))
<1> DEFINE load == Quota!Load(u, live, forecast)
           usable == Quota!Largest(0, rest - DayBuffer)
           ideal == Quota!ScorePolls(load)
           ahead == DayEnd - u
           base == IF live > 0 THEN Target ELSE IdlePoll
           plan == Quota!Plan(u, live, e, forecast, rest)
<1>1. usable \in Nat /\ ahead \in Nat /\ base \in Nat
  BY Units DEF Quota!Largest
<1>2. IsLoad(load)
  BY LoadIsTyped
<1>3. ideal \in Nat
  <2> HIDE DEF load
  <2> QED
    BY <1>2, LoadAmounts
<1>4. plan = IF usable = 0 THEN Quota!Bare(0, Fast, <<ahead, 1>>)
             ELSE IF ideal > usable
             THEN Quota!Bare(usable, Quota!Largest(Fast, ahead), <<base * ideal, usable>>)
             ELSE Quota!Assembled(ideal, Quota!FitQuality(usable - ideal, load, e),
                                  base, live, e)
  BY DEF Quota!Plan
<1> SUFFICES Planned(plan, usable)
  OBVIOUS
<1> HIDE DEF load, usable, ideal, ahead, base, plan
<1>5. CASE usable = 0
  BY <1>1, <1>4, <1>5, BareFits
<1>6. CASE usable # 0 /\ ideal > usable
  <2>1. base * ideal \in Nat /\ usable \in Nat \ {0} /\ usable <= usable
    BY <1>1, <1>3, <1>6, Products
  <2> QED
    BY <1>1, <1>4, <1>6, <2>1, BareFits
<1>7. CASE usable # 0 /\ ~(ideal > usable)
  <2> DEFINE b == usable - ideal
             q == Quota!FitQuality(b, load, e)
  <2>1. b \in Nat /\ ideal + b = usable
    BY <1>1, <1>3, <1>7
  <2>2. plan = Quota!Assembled(ideal, q, base, live, e)
    BY <1>4, <1>7
  <2> HIDE DEF b
  <2>3. Quality(q, b)
    BY <1>2, <2>1, FittedQuality
  <2> HIDE DEF q
  <2>4. Planned(plan, ideal + b)
    BY <1>1, <1>3, <2>1, <2>2, <2>3, AssembledFits
  <2> QED
    BY <2>1, <2>4
<1> QED
  BY <1>5, <1>6, <1>7

\* The context calls a tick may make, within its room; the credit stays bounded.
MostCredit == CreditTicks * MostContext

LEMMA CreditIsBounded ==
    /\ MostCredit \in Nat /\ MostContext \in Nat
    /\ \A rate \in 0 .. MostContext :
          CreditTicks * rate \in Nat /\ CreditTicks * rate <= MostCredit
<1>1. CreditTicks \in Nat /\ MostContext \in Nat
  BY Units, Products DEF MostContext
<1> HIDE DEF MostContext
<1>2. MostCredit \in Nat
  BY <1>1, Products DEF MostCredit
<1>3. ASSUME NEW rate \in 0 .. MostContext
      PROVE  CreditTicks * rate \in Nat /\ CreditTicks * rate <= CreditTicks * MostContext
  <2>1. rate \in Nat /\ rate <= MostContext
    BY <1>1
  <2> QED
    BY <1>1, <2>1, Products
<1> QED
  BY <1>1, <1>2, <1>3 DEF MostCredit

LEMMA RefundIsBounded ==
    ASSUME NEW b \in 0 .. MostCredit, NEW unused \in Int, NEW rate \in 0 .. MostContext
    PROVE  Quota!Refunded(b, unused, rate) \in 0 .. MostCredit
<1>1. CASE unused <= 0 \/ rate <= 0
  BY <1>1 DEF Quota!Refunded
<1>2. CASE ~(unused <= 0 \/ rate <= 0)
  <2> DEFINE top == CreditTicks * rate
             back == unused * Scale
  <2>1. top \in Nat /\ top <= MostCredit /\ MostCredit \in Nat
    BY CreditIsBounded
  <2>2. back \in Nat
    <3>1. unused \in Nat /\ Scale \in Nat
      BY <1>2, Units
    <3> QED
      BY <3>1, Products
  <2>3. Quota!Refunded(b, unused, rate) = Quota!Smallest(top, b + back)
    BY <1>2 DEF Quota!Refunded
  <2> HIDE DEF top, back
  <2> QED
    BY <2>1, <2>2, <2>3 DEF Quota!Smallest
<1> QED
  BY <1>1, <1>2

LEMMA AllowanceFits ==
    ASSUME NEW b \in 0 .. MostCredit, NEW rate \in 0 .. MostContext, NEW space \in Int
    PROVE  LET grant == Quota!ContextAllowance(b, rate, space)
           IN  /\ grant.calls \in Nat /\ grant.calls <= Quota!Largest(0, space)
               /\ grant.balance \in 0 .. MostCredit
<1> DEFINE drawn == Quota!Drawn(b, rate)
           allowed == Quota!Smallest(drawn.calls, Quota!Largest(0, space))
           filled == Quota!Smallest(CreditTicks * rate, b + rate)
<1>1. drawn.calls \in Nat /\ drawn.balance \in 0 .. MostCredit
  <2>1. MostCredit \in Nat /\ MostContext \in Nat /\ Scale \in Nat \ {0}
    BY CreditIsBounded, Units
  <2>2. CASE rate <= 0
    BY <2>1, <2>2 DEF Quota!Drawn
  <2>3. CASE ~(rate <= 0)
    <3>1. filled \in Nat /\ filled <= MostCredit
      <4> DEFINE top == CreditTicks * rate
      <4>1. top \in Nat /\ top <= MostCredit
        BY CreditIsBounded
      <4> HIDE DEF top
      <4>2. Quota!Smallest(top, b + rate) \in Nat /\ Quota!Smallest(top, b + rate) <= MostCredit
        BY <2>1, <4>1 DEF Quota!Smallest
      <4> QED
        BY <4>2 DEF top
    <3>2. drawn = [calls |-> filled \div Scale, balance |-> filled % Scale]
      BY <2>3 DEF Quota!Drawn
    <3> HIDE DEF drawn, filled
    <3>3. filled \div Scale \in Nat /\ filled % Scale \in Nat /\ filled % Scale <= filled
      <4>1. filled \div Scale \in Nat
        BY <2>1, <3>1, Quotients
      <4>2. /\ filled = Scale * (filled \div Scale) + (filled % Scale)
            /\ filled % Scale \in 0 .. Scale - 1
        BY <2>1, <3>1
      <4>3. Scale * (filled \div Scale) \in Nat
        BY <2>1, <4>1, Products
      <4> QED
        BY <2>1, <3>1, <4>1, <4>2, <4>3
    <3> QED
      BY <2>1, <3>1, <3>2, <3>3
  <2> QED
    BY <2>2, <2>3
<1>2. Quota!ContextAllowance(b, rate, space)
        = [calls |-> allowed,
           balance |-> Quota!Refunded(drawn.balance, drawn.calls - allowed, rate)]
  BY DEF Quota!ContextAllowance
<1> HIDE DEF drawn
<1>3. allowed \in Nat /\ allowed <= Quota!Largest(0, space)
  BY <1>1 DEF Quota!Smallest, Quota!Largest
<1> HIDE DEF allowed
<1>4. Quota!Refunded(drawn.balance, drawn.calls - allowed, rate) \in 0 .. MostCredit
  <2>1. drawn.calls - allowed \in Int
    BY <1>1, <1>3
  <2> QED
    BY <1>1, <2>1, RefundIsBounded
<1> QED
  BY <1>2, <1>3, <1>4

LEMMA HistoryFits ==
    ASSUME NEW surplus \in Int, NEW ahead \in Int, NEW sleep, sleep[1] \in Nat,
           sleep[2] \in Nat \ {0}, NEW cap \in Nat
    PROVE  /\ Quota!HistoryAllowance(surplus, ahead, sleep, cap) \in Nat
           /\ surplus >= 0 => Quota!HistoryAllowance(surplus, ahead, sleep, cap) <= surplus
<1>1. CASE surplus <= 0 \/ ahead <= 0 \/ sleep[1] <= 0
  BY <1>1 DEF Quota!HistoryAllowance
<1>2. CASE ~(surplus <= 0 \/ ahead <= 0 \/ sleep[1] <= 0)
  <2> DEFINE p == sleep[1]
             q == sleep[2]
             share == Quota!CeilDiv(surplus * p, ahead * q)
             paced == IF ahead * q <= p THEN surplus ELSE Quota!Smallest(surplus, share)
  <2>1. surplus \in Nat /\ ahead \in Nat \ {0} /\ p \in Nat /\ q \in Nat \ {0}
    BY <1>2
  <2>2. share \in Nat
    <3> HIDE DEF p, q
    <3>1. surplus * p \in Nat /\ ahead * q \in Nat \ {0}
      BY <2>1, Products
    <3> QED
      BY <3>1, QuotientsUp
  <2>3. Quota!HistoryAllowance(surplus, ahead, sleep, cap)
          = IF cap > 0 THEN Quota!Smallest(paced, cap) ELSE paced
    BY <1>2 DEF Quota!HistoryAllowance
  <2> HIDE DEF share
  <2>4. paced \in Nat /\ paced <= surplus
    <3> DEFINE early == ahead * q <= p
    <3>1. paced = IF early THEN surplus ELSE Quota!Smallest(surplus, share)
      OBVIOUS
    <3> HIDE DEF early, p, q
    <3> QED
      BY <2>1, <2>2, <3>1 DEF Quota!Smallest
  <2> HIDE DEF paced
  <2> QED
    BY <2>1, <2>3, <2>4 DEF Quota!Smallest
<1> QED
  BY <1>1, <1>2

-----------------------------------------------------------------------------
(* The day under its plan.                                                 *)

\* The matches over by an instant.
Over(u) == Quota!TotalOver(schedule, {k \in Kickoffs : k + Span <= u})

\* A day that is not over has units left; a tick only looks at the present and the
\* past, so it counts no match twice as ended.
DayInv ==
    /\ schedule \in [Kickoffs -> 0 .. MaxMatches]
    /\ now \in 0 .. DayEnd /\ clock \in Nat
    /\ left \in 0 .. DayCalls
    /\ polled \in -1 .. DayEnd - 1 /\ polled <= now
    /\ finishing \in Nat /\ finishing <= Over(polled)
    /\ balance \in 0 .. MostCredit
    /\ unplanned \in 0 .. MaxUnplanned /\ overdrawn \in Nat
    /\ window \in -1 .. DayCalls
    /\ pc \in {"idle", "score", "context", "odds", "residual", "history", "over"}
    /\ pc # "over" => now < DayEnd
    /\ fitted \in BOOLEAN

LEMMA OverIsTyped ==
    ASSUME schedule \in [Kickoffs -> 0 .. MaxMatches]
    PROVE  /\ \A S \in SUBSET Kickoffs : Quota!TotalOver(schedule, S) \in Nat
           /\ \A u : Over(u) \in Nat /\ Over(u) <= MaxMatches * Cardinality(Kickoffs)
<1>1. \A k \in Kickoffs : schedule[k] \in Nat
  BY Units
<1>2. \A S \in SUBSET Kickoffs : Quota!TotalOver(schedule, S) \in Nat
  <2> SUFFICES ASSUME NEW S \in SUBSET Kickoffs PROVE Quota!TotalOver(schedule, S) \in Nat
    OBVIOUS
  <2>1. \A k \in S \cap (0 .. DayEnd - 1) : schedule[k] \in Nat
    BY <1>1
  <2> QED
    BY <2>1, TotalIsNat
<1>3. \A u : Over(u) <= MaxMatches * Cardinality(Kickoffs)
  <2> SUFFICES ASSUME NEW u PROVE Over(u) <= MaxMatches * Cardinality(Kickoffs)
    OBVIOUS
  <2>1. {k \in Kickoffs : k + Span <= u} \in SUBSET Kickoffs
    OBVIOUS
  <2> QED
    BY <2>1, TotalIsBounded DEF Over
<1>4. \A u : Over(u) \in Nat
  <2> SUFFICES ASSUME NEW u PROVE Over(u) \in Nat
    OBVIOUS
  <2>1. {k \in Kickoffs : k + Span <= u} \in SUBSET Kickoffs
    OBVIOUS
  <2> QED
    BY <1>2, <2>1 DEF Over
<1> QED
  BY <1>2, <1>3, <1>4

LEMMA DayIsTyped == DayInv => Quota!TypeOK
<1> SUFFICES ASSUME DayInv PROVE Quota!TypeOK
  OBVIOUS
<1> DEFINE most == MaxMatches * Cardinality(Kickoffs)
<1>1. finishing \in 0 .. most
  <2>1. most \in Nat
    <3>1. IsFiniteSet(0 .. DayEnd - 1)
      <4>1. 0 \in Int /\ DayEnd - 1 \in Int
        BY Units
      <4> QED
        BY <4>1, FS_Interval
    <3>2. Cardinality(Kickoffs) \in Nat
      BY <3>1, Units, FS_Subset, FS_CardinalityType
    <3> QED
      BY <3>2, Units, Products
  <2>2. Over(polled) \in Nat /\ Over(polled) <= most
    BY OverIsTyped DEF DayInv
  <2> HIDE DEF most
  <2> QED
    BY <2>1, <2>2 DEF DayInv
<1>2. MostCredit = CreditTicks * ContextCap * Scale
  BY Units DEF MostCredit, MostContext
<1>3. balance \in 0 .. CreditTicks * ContextCap * Scale
  BY <1>2 DEF DayInv
<1>4. finishing \in 0 .. MaxMatches * Quota!Cardinality(Kickoffs)
  BY <1>1, QuotaCardinality
<1> QED
  BY <1>3, <1>4 DEF DayInv, Quota!TypeOK

\* The plan at every instant of the day.
LEMMA PresentPlan ==
    ASSUME DayInv, now < DayEnd
    PROVE  Planned(Quota!CurrentPlan, Quota!Largest(0, left - DayBuffer))
<1>1. now \in 0 .. DayEnd - 1 /\ finishing \in Nat /\ left \in Nat
  BY Units DEF DayInv
<1>2. Quota!LiveNow \in Nat
  <2>1. {k \in Kickoffs : k <= polled /\ polled < k + Span} \in SUBSET Kickoffs
    OBVIOUS
  <2>2. Quota!InPlay(polled) \in Nat
    BY <2>1, OverIsTyped DEF DayInv, Quota!InPlay
  <2> QED
    BY <2>2 DEF Quota!LiveNow
<1>3. \A k \in DOMAIN Quota!Expected : Quota!Expected[k] \in Nat
  <2>1. \A k \in Kickoffs : schedule[k] \in Nat
    BY Units DEF DayInv
  <2> QED
    BY <2>1 DEF Quota!Expected
<1> QED
  BY <1>1, <1>2, <1>3, PlanKeeps DEF Quota!CurrentPlan

\* What a handler takes of the reserve is counted up.
LEMMA BeyondCounts ==
    ASSUME DayInv, now < DayEnd, NEW n \in Int
    PROVE  Quota!Beyond(n) \in Nat
<1> DEFINE score == Quota!CurrentPlan.score
<1>1. score \in Nat /\ left \in Nat /\ DayBuffer \in Nat
  BY PresentPlan, Units DEF Planned, DayInv
<1>2. Quota!Beyond(n) = Quota!Largest(0, Quota!Smallest(n - 1, DayBuffer + score + n - left))
  BY DEF Quota!Beyond
<1> HIDE DEF score
<1> QED
  BY <1>1, <1>2 DEF Quota!Largest, Quota!Smallest

LEMMA DayBegins == Quota!Init => DayInv
<1> SUFFICES ASSUME Quota!Init PROVE DayInv
  OBVIOUS
<1>1. Over(-1) \in Nat
  BY OverIsTyped DEF Quota!Init
<1>2. 0 \in 0 .. MostCredit
  BY CreditIsBounded
<1>3. /\ schedule \in [Kickoffs -> 0 .. MaxMatches]
      /\ now = 0 /\ clock = 0 /\ left \in 0 .. DayCalls
      /\ polled = -1 /\ finishing = 0 /\ balance = 0 /\ window = -1
      /\ unplanned = 0 /\ overdrawn = 0
      /\ pc = "idle" /\ fitted \in BOOLEAN
  BY DEF Quota!Init
<1>4. finishing \in Nat /\ finishing <= Over(polled)
  BY <1>1, <1>3
<1> QED
  BY <1>2, <1>3, <1>4, Units DEF DayInv

\* What a step leaves of the matches that ended.
LEMMA SameEnded ==
    ASSUME DayInv, schedule' = schedule, polled' = polled
    PROVE  schedule' \in [Kickoffs -> 0 .. MaxMatches] /\ Over(polled)' = Over(polled)
           /\ Over(polled) \in Nat
  BY OverIsTyped DEF DayInv, Over, Quota!TotalOver

LEMMA UnplannedKeeps == DayInv /\ Quota!Unplanned => DayInv'
<1> SUFFICES ASSUME DayInv, Quota!Unplanned PROVE DayInv'
  OBVIOUS
<1>1. Over(polled)' = Over(polled)
  BY SameEnded DEF Quota!Unplanned, Quota!given, Quota!taken
<1> QED
  BY <1>1, Units DEF DayInv, Quota!Unplanned, Quota!given, Quota!taken

LEMMA BeginKeeps == DayInv /\ Quota!BeginTick => DayInv'
<1> SUFFICES ASSUME DayInv, Quota!BeginTick PROVE DayInv'
  OBVIOUS
<1>1. Over(polled)' = Over(polled)
  BY SameEnded DEF Quota!BeginTick, Quota!given, Quota!taken
<1> QED
  BY <1>1, Units DEF DayInv, Quota!BeginTick, Quota!given, Quota!taken

LEMMA PollKeeps == DayInv /\ Quota!ScorePoll => DayInv'
<1> SUFFICES ASSUME DayInv, Quota!ScorePoll PROVE DayInv'
  OBVIOUS
<1> DEFINE S == {k \in Kickoffs : k + Span <= polled}
           T == {k \in Kickoffs : k <= polled /\ polled < k + Span /\ k + Span <= now}
           W == {k \in Kickoffs : k + Span <= now}
           s == Quota!TotalOver(schedule, S)
           t == Quota!TotalOver(schedule, T)
           w == Quota!TotalOver(schedule, W)
<1>1. left > DayBuffer /\ DayBuffer \in Nat /\ now < DayEnd /\ polled <= now
  BY Units DEF DayInv, Quota!ScorePoll, Quota!QuotaAllows
<1>2. s + t <= w /\ s \in Nat /\ t \in Nat /\ w \in Nat
  <2>1. Kickoffs \subseteq Int /\ Span \in Nat /\ polled \in Int /\ now \in Int
    BY Units DEF DayInv
  <2>2. S \cap T = {} /\ S \cup T \subseteq W
    <3>1. \A k : ~(k \in S /\ k \in T) /\ (k \in S \cup T => k \in W)
      <4> SUFFICES ASSUME NEW k \in Kickoffs
                   PROVE  ~(k \in S /\ k \in T) /\ (k \in S \cup T => k \in W)
        OBVIOUS
      <4>1. ~(k + Span <= polled /\ polled < k + Span)
        BY <2>1
      <4>2. k + Span <= polled => k + Span <= now
        BY <1>1, <2>1
      <4>3. ~(k \in S /\ k \in T)
        BY <4>1
      <4>4. k \in S \cup T => k \in W
        BY <4>2
      <4> QED
        BY <4>3, <4>4
    <3> HIDE DEF S, T, W
    <3> QED
      BY <3>1
  <2>3. \A k \in W \cap (0 .. DayEnd - 1) : schedule[k] \in Nat
    BY Units DEF DayInv
  <2>4. S \in SUBSET Kickoffs /\ T \in SUBSET Kickoffs /\ W \in SUBSET Kickoffs
    OBVIOUS
  <2> HIDE DEF S, T, W
  <2>5. s + t <= w
    BY <2>2, <2>3, TotalsAdd
  <2> QED
    BY <2>4, <2>5, OverIsTyped DEF DayInv
<1>3. finishing' = finishing + t /\ polled' = now /\ finishing \in Nat /\ finishing <= s
  BY DEF DayInv, Quota!ScorePoll, Over
<1>4. schedule' = schedule
  BY DEF Quota!ScorePoll, Quota!given, Quota!taken
<1>5. Over(polled)' = w
  BY <1>3, <1>4 DEF Over, Quota!TotalOver
<1> HIDE DEF s, t, w
<1>6. finishing' \in Nat /\ finishing' <= Over(polled)'
  BY <1>2, <1>3, <1>5
<1> QED
  BY <1>1, <1>3, <1>6, Units DEF DayInv, Quota!ScorePoll, Quota!given, Quota!taken

LEMMA SlotsKeep ==
    DayInv /\ (Quota!SkipScore \/ Quota!Odds \/ Quota!Residual) => DayInv'
<1>1. ASSUME DayInv, Quota!SkipScore PROVE DayInv'
  <2>1. Over(polled)' = Over(polled)
    BY <1>1, SameEnded DEF Quota!SkipScore, Quota!given, Quota!taken
  <2> QED
    BY <1>1, <2>1, Units DEF DayInv, Quota!SkipScore, Quota!given, Quota!taken
<1>2. ASSUME DayInv, Quota!Odds PROVE DayInv'
  <2>1. Over(polled)' = Over(polled)
    BY <1>2, SameEnded DEF Quota!Odds, Quota!given, Quota!taken
  <2>2. left' = left \/ (left > DayBuffer /\ left' = left - 1)
    BY <1>2 DEF Quota!Odds, Quota!QuotaAllows
  <2>3. left' \in 0 .. DayCalls
    BY <1>2, <2>2, Units DEF DayInv
  <2> QED
    BY <1>2, <2>1, <2>3, Units DEF DayInv, Quota!Odds, Quota!given, Quota!taken
<1>3. ASSUME DayInv, Quota!Residual PROVE DayInv'
  <2>1. Over(polled)' = Over(polled)
    BY <1>3, SameEnded DEF Quota!Residual, Quota!given, Quota!taken
  <2>2. PICK c \in 1 .. Batch : /\ left' = Quota!Largest(0, left - c)
                               /\ overdrawn' = overdrawn + Quota!Beyond(c)
    BY <1>3 DEF Quota!Residual
  <2>3. left' \in 0 .. DayCalls
    BY <1>3, <2>2, Units DEF DayInv, Quota!Largest
  <2>4. overdrawn' \in Nat
    <3>1. now < DayEnd /\ c \in Int /\ overdrawn \in Nat
      BY <1>3, Units DEF DayInv, Quota!Residual
    <3> QED
      BY <1>3, <2>2, <3>1, BeyondCounts
  <2> QED
    BY <1>3, <2>1, <2>3, <2>4, Units DEF DayInv, Quota!Residual, Quota!given, Quota!taken
<1> QED
  BY <1>1, <1>2, <1>3

LEMMA ContextKeeps == DayInv /\ Quota!Context => DayInv'
<1> SUFFICES ASSUME DayInv, Quota!Context PROVE DayInv'
  OBVIOUS
<1> DEFINE plan == Quota!CurrentPlan
           grant == Quota!ContextAllowance(balance, plan.rate, left - DayBuffer - 1)
<1>1. Over(polled)' = Over(polled) /\ Over(polled) \in Nat
  BY SameEnded DEF Quota!Context, Quota!given, Quota!taken
<1>2. now < DayEnd
  BY DEF DayInv, Quota!Context
<1>3. plan.rate \in 0 .. MostContext
  BY <1>2, PresentPlan DEF Planned
<1>4. /\ grant.calls \in Nat /\ grant.calls <= Quota!Largest(0, left - DayBuffer - 1)
      /\ grant.balance \in 0 .. MostCredit
  <2>1. balance \in 0 .. MostCredit /\ left - DayBuffer - 1 \in Int
    BY Units DEF DayInv
  <2> HIDE DEF plan
  <2> QED
    BY <1>3, <2>1, AllowanceFits
<1>5. CASE Quota!QuotaAllows(3, left, plan)
  <2>1. PICK spent \in 0 .. grant.calls :
          /\ left' = left - spent
          /\ overdrawn' = overdrawn + Quota!Beyond(spent)
          /\ balance' = Quota!Refunded(grant.balance, grant.calls - spent, plan.rate)
          /\ finishing' \in {finishing, Quota!Largest(0, finishing - spent)}
    BY <1>5 DEF Quota!Context
  <2>2. left > DayBuffer
    BY <1>5 DEF Quota!QuotaAllows
  <2> HIDE DEF plan, grant
  <2>3. left' \in 0 .. DayCalls
    BY <1>4, <2>1, <2>2, Units DEF DayInv, Quota!Largest
  <2>4. balance' \in 0 .. MostCredit
    <3>1. grant.calls - spent \in Int
      BY <1>4
    <3> QED
      BY <1>3, <1>4, <2>1, <3>1, RefundIsBounded
  <2>5. finishing' \in Nat /\ finishing' <= Over(polled)
    BY <1>1, <1>4, <2>1 DEF DayInv, Quota!Largest
  <2>6. overdrawn' \in Nat
    <3>1. spent \in Int /\ overdrawn \in Nat
      BY <1>4 DEF DayInv
    <3> QED
      BY <1>2, <2>1, <3>1, BeyondCounts
  <2> QED
    BY <1>1, <1>2, <2>3, <2>4, <2>5, <2>6, Units
       DEF DayInv, Quota!Context, Quota!given, Quota!taken, MostCredit
<1>6. CASE ~Quota!QuotaAllows(3, left, plan)
  <2>1. UNCHANGED <<left, overdrawn, balance, finishing>>
    BY <1>6 DEF Quota!Context
  <2> QED
    BY <1>1, <1>2, <2>1, Units DEF DayInv, Quota!Context, Quota!given, Quota!taken
<1> QED
  BY <1>5, <1>6

LEMMA EndKeeps == DayInv /\ Quota!EndTick => DayInv'
<1> SUFFICES ASSUME DayInv, Quota!EndTick PROVE DayInv'
  OBVIOUS
<1>1. Over(polled)' = Over(polled)
  BY SameEnded DEF Quota!EndTick, Quota!given, Quota!taken
<1>2. now < DayEnd
  BY DEF DayInv, Quota!EndTick
<1>3. Quota!Pause(Quota!CurrentPlan) \in Nat
  <2> DEFINE plan == Quota!CurrentPlan
  <2>1. plan.sleep[1] \in Nat /\ plan.sleep[2] \in Nat \ {0}
    BY <1>2, PresentPlan DEF Planned
  <2> HIDE DEF plan
  <2>2. Quota!Pause(plan) \in Nat
    BY <2>1, QuotientsUp DEF Quota!Pause
  <2> QED
    BY <2>2 DEF plan
<1>4. clock' = now + (IF left <= DayBuffer THEN IdlePoll ELSE Quota!Pause(Quota!CurrentPlan))
  BY DEF Quota!EndTick
<1>5. clock' \in Nat
  BY <1>3, <1>4, Units DEF DayInv
<1> QED
  BY <1>1, <1>2, <1>5, Units DEF DayInv, Quota!EndTick, Quota!given, Quota!taken

LEMMA WindowsKeep ==
    DayInv /\ (Quota!OpenWindow \/ Quota!HistoryCalls \/ Quota!CloseWindow) => DayInv'
<1>1. ASSUME DayInv, Quota!OpenWindow PROVE DayInv'
  <2> DEFINE plan == Quota!CurrentPlan
             share == Quota!HistoryAllowance(Quota!Surplus, DayEnd - now, plan.sleep, MinuteCap)
  <2>1. Over(polled)' = Over(polled)
    BY <1>1, SameEnded DEF Quota!OpenWindow, Quota!given, Quota!taken
  <2>2. now < DayEnd
    BY <1>1 DEF DayInv, Quota!OpenWindow
  <2>3. Planned(plan, Quota!Largest(0, left - DayBuffer))
    BY <1>1, <2>2, PresentPlan
  <2>4. window' = share /\ share > 0
    BY <1>1 DEF Quota!OpenWindow
  <2>5. Quota!Surplus = left - DayBuffer - Quota!FullReserve(plan)
    BY DEF Quota!Surplus
  <2> HIDE DEF plan
  <2>6. Quota!FullReserve(plan) \in Nat /\ Quota!Surplus \in Int /\ Quota!Surplus <= left
    <3>1. plan.score \in Nat /\ plan.detail \in Nat /\ plan.odds \in Nat
      BY <2>3 DEF Planned
    <3>2. Quota!FullReserve(plan) \in Nat
      BY <3>1 DEF Quota!FullReserve
    <3> HIDE DEF Quota!Surplus
    <3> QED
      BY <1>1, <2>5, <3>2, Units DEF DayInv
  <2>7. /\ share \in Nat
        /\ Quota!Surplus >= 0 => share <= Quota!Surplus
        /\ Quota!Surplus < 0 => share = 0
    <3>1. DayEnd - now \in Int /\ plan.sleep[1] \in Nat /\ plan.sleep[2] \in Nat \ {0}
      BY <1>1, <2>3, Units DEF DayInv, Planned
    <3>2. Quota!Surplus < 0 => share = 0
      BY <2>6 DEF Quota!HistoryAllowance
    <3> HIDE DEF Quota!Surplus
    <3> QED
      BY <2>6, <3>1, <3>2, Units, HistoryFits
  <2> HIDE DEF share
  <2>8. window' \in -1 .. DayCalls
    BY <1>1, <2>4, <2>6, <2>7, Units DEF DayInv
  <2> QED
    BY <1>1, <2>1, <2>2, <2>8, Units DEF DayInv, Quota!OpenWindow, Quota!given, Quota!taken
<1>2. ASSUME DayInv, Quota!HistoryCalls PROVE DayInv'
  <2>1. Over(polled)' = Over(polled)
    BY <1>2, SameEnded DEF Quota!HistoryCalls, Quota!given, Quota!taken
  <2>2. PICK c \in 1 .. Quota!Smallest(window, Quota!Smallest(left, Batch)) :
          /\ left' = left - c /\ window' = window - c
          /\ overdrawn' = overdrawn + Quota!Beyond(c)
    BY <1>2 DEF Quota!HistoryCalls
  <2>3. left' \in 0 .. DayCalls /\ window' \in -1 .. DayCalls
    BY <1>2, <2>2, Units DEF DayInv, Quota!Smallest
  <2>4. overdrawn' \in Nat
    <3>1. now < DayEnd /\ c \in Int /\ overdrawn \in Nat
      BY <1>2, Units DEF DayInv, Quota!HistoryCalls
    <3> QED
      BY <1>2, <2>2, <3>1, BeyondCounts
  <2> QED
    BY <1>2, <2>1, <2>3, <2>4, Units DEF DayInv, Quota!HistoryCalls, Quota!given, Quota!taken
<1>3. ASSUME DayInv, Quota!CloseWindow PROVE DayInv'
  <2>1. Over(polled)' = Over(polled)
    BY <1>3, SameEnded DEF Quota!CloseWindow, Quota!given, Quota!taken
  <2> QED
    BY <1>3, <2>1, Units DEF DayInv, Quota!CloseWindow, Quota!given, Quota!taken
<1> QED
  BY <1>1, <1>2, <1>3

LEMMA TimeKeeps == DayInv /\ Quota!Pass => DayInv'
<1> SUFFICES ASSUME DayInv, Quota!Pass PROVE DayInv'
  OBVIOUS
<1>1. Over(polled)' = Over(polled)
  BY SameEnded DEF Quota!Pass, Quota!given, Quota!taken
<1> QED
  BY <1>1, Units DEF DayInv, Quota!Pass, Quota!given, Quota!taken

\* At whatever hour, for whatever board and forecast, the planner promises no more
\* than is left above the buffer, and no match is counted twice as ended
\* (plan_live_budget, _fit_quality, _tiered_intervals, refresh_live_fixtures).
THEOREM PlanKept == MCSpec => []PlanIsKept
<1>1. MCInit => DayInv
  BY DayBegins DEF MCInit
<1>2. DayInv /\ [MCNext]_allVars => DayInv'
  <2> SUFFICES ASSUME DayInv, [MCNext]_allVars PROVE DayInv'
    OBVIOUS
  <2>1. CASE Quota!Next
    BY <2>1, UnplannedKeeps, BeginKeeps, PollKeeps, SlotsKeep, ContextKeeps, EndKeeps,
       WindowsKeep, TimeKeeps DEF Quota!Next
  <2>2. CASE UNCHANGED quotaVars
    <3>1. Over(polled)' = Over(polled)
      BY <2>2, SameEnded DEF quotaVars
    <3> QED
      BY <2>2, <3>1 DEF DayInv, quotaVars
  <2> QED
    BY <2>1, <2>2 DEF MCNext, allVars
<1>3. DayInv => PlanIsKept
  <2> SUFFICES ASSUME DayInv PROVE Quota!TypeOK /\ Quota!PlanFits
    BY DEF PlanIsKept
  <2>1. Quota!TypeOK
    BY DayIsTyped
  <2>2. Quota!PlanFits
    BY PresentPlan DEF Quota!PlanFits, Planned
  <2> QED
    BY <2>1, <2>2
<1> QED
  BY <1>1, <1>2, <1>3, PTL DEF MCSpec

-----------------------------------------------------------------------------
(* The readings of the quota.  A refusal arms the client: until a probe    *)
(* later or the next day it refuses by itself, or the vendor has begun to  *)
(* count the new day and too few calls fit in the probe to spend it.       *)

LEMMA ResetUnits ==
    /\ DayLength \in Nat \ {0} /\ Probe \in Nat \ {0} /\ IdleCap \in Nat \ {0}
    /\ Limit \in Nat /\ ResetBuffer \in Nat /\ ResetCalls \in Nat
    /\ Lags \subseteq {"none", "header", "both"}
    /\ ResetCalls * Probe <= Limit
  BY ResetConstants DEF Reset!ConstantsOK

LEMMA DaysFollow ==
    ASSUME NEW u \in Nat
    PROVE  Reset!Day(u) \in Nat /\ Reset!Day(u) <= Reset!Day(u + 1)
<1> DEFINE d == DayLength
           q == u \div d
           r == u % d
           p == (u + 1) \div d
           o == (u + 1) % d
<1>1. d \in Nat \ {0}
  BY ResetUnits
<1> HIDE DEF d
<1>2. q \in Int /\ r \in 0 .. d - 1 /\ u = d * q + r
  BY <1>1
<1>3. p \in Int /\ o \in 0 .. d - 1 /\ u + 1 = d * p + o
  BY <1>1
<1>4. q >= 0
  BY <1>1
<1> HIDE DEF q, r, p, o
<1>5. q <= p
  <2> SUFFICES ASSUME p + 1 <= q PROVE FALSE
    BY <1>2, <1>3
  <2>1. d * (p + 1) <= d * q
    BY <1>1, <1>2, <1>3
  <2>2. d * (p + 1) = d * p + d
    BY <1>1, <1>3
  <2>3. d * q \in Int /\ d * p \in Int
    BY <1>1, <1>2, <1>3
  <2> QED
    BY <1>1, <1>2, <1>3, <2>1, <2>2, <2>3
<1> QED
  BY <1>2, <1>4, <1>5 DEF Reset!Day, q, p, d

LEMMA CallsFollow ==
    ASSUME NEW m \in Int, NEW n \in Int, m <= n
    PROVE  /\ ResetCalls * m \in Int /\ ResetCalls * n \in Int
           /\ ResetCalls * m <= ResetCalls * n
<1> DEFINE c == ResetCalls
<1>1. c \in Nat
  BY ResetUnits
<1> HIDE DEF c
<1>2. c * m \in Int /\ c * n \in Int /\ c * m <= c * n
  BY <1>1
<1> QED
  BY <1>2 DEF c

\* What a reading is good for here: its instant and the calls left.
IsReading(r) == r.at \in Int /\ r.left \in Nat

\* The last refusal is of this day and less than a probe ago.
Armed ==
    /\ refused # Reset!Never
    /\ instant - refused < Probe
    /\ Reset!Day(instant) = Reset!Day(refused)

\* The client refuses further calls; the day's calls are spent, or none is made
\* as long as the vendor reports yesterday's.
Held == Reset!Blocks(client) /\ used \in {0, Limit}

\* The vendor has begun to count the new day: since then every instant has had at
\* most one tick, and the present one has made `made' calls.
Ticks == IF at = "idle" /\ next <= instant THEN instant - refused - 1
         ELSE instant - refused
Counting == ~(lag = "both" /\ carried = Limit) /\ used <= ResetCalls * Ticks + made

ResetInv ==
    /\ instant \in Nat /\ next \in Int
    /\ used \in 0 .. Limit /\ carried \in 0 .. Limit
    /\ lag \in {"none", "header", "both"}
    /\ IsReading(client) /\ IsReading(quota) /\ IsReading(answer)
    /\ made \in 0 .. ResetCalls
    /\ at \in {"idle", "status", "plan", "work"}
    /\ at = "status" => made = 0
    /\ refused = Reset!Never \/ (refused \in Nat /\ refused <= instant
                                 /\ Reset!Day(refused) <= Reset!Day(instant))
    /\ lag = "both" /\ carried = Limit => used = 0
    /\ Armed => Held \/ Counting

RefusedAgain ==
    refused' # refused /\ refused # Reset!Never =>
        refused' - refused >= Probe \/ Reset!Day(refused') > Reset!Day(refused)

LEMMA NeverIsBefore == Reset!Never \in Int /\ Reset!Never < 0
  BY ResetUnits DEF Reset!Never

LEMMA ResetBegins == Reset!Init => ResetInv
<1> SUFFICES ASSUME Reset!Init PROVE ResetInv
  OBVIOUS
<1>1. IsReading(Reset!None)
  BY NeverIsBefore DEF IsReading, Reset!None
<1>2. ~Armed
  BY DEF Armed, Reset!Init
<1> QED
  BY <1>1, <1>2, ResetUnits DEF ResetInv, Reset!Init

\* Every pause is a unit at least.
LEMMA SleepIsPositive ==
    ASSUME instant \in Nat, NEW r, r.left \in Nat
    PROVE  Reset!SleepAfter(r) \in Nat \ {0}
<1>1. Reset!UntilMidnight \in Nat \ {0}
  <2>1. instant % DayLength \in 0 .. DayLength - 1
    BY ResetUnits
  <2> QED
    BY <2>1, ResetUnits DEF Reset!UntilMidnight
<1> DEFINE ahead == Reset!UntilMidnight
           above == r.left - ResetBuffer
<1>2. \A k \in Nat \ {0} : Reset!Least(k, ahead) \in Nat \ {0}
  BY <1>1 DEF Reset!Least
<1>3. CASE Reset!Probing(answer)
  BY <1>2, <1>3, ResetUnits DEF Reset!SleepAfter
<1>4. CASE ~Reset!Probing(answer) /\ Reset!ConfirmsBuffer(answer)
  BY <1>2, <1>4, ResetUnits DEF Reset!SleepAfter
<1>5. CASE /\ ~Reset!Probing(answer) /\ ~Reset!ConfirmsBuffer(answer)
           /\ Reset!InsideBuffer(r)
  <2>1. ~Reset!SpentToday(answer)
    BY <1>5 DEF Reset!ConfirmsBuffer
  <2> QED
    BY <1>2, <1>5, <2>1, ResetUnits DEF Reset!SleepAfter
<1>6. CASE /\ ~Reset!Probing(answer) /\ ~Reset!ConfirmsBuffer(answer)
           /\ ~Reset!InsideBuffer(r)
  <2>1. Reset!SleepAfter(r) = (ahead + above - 1) \div above
    <3>1. Reset!SleepAfter(r) = (ahead + r.left - ResetBuffer - 1) \div (r.left - ResetBuffer)
      BY <1>6 DEF Reset!SleepAfter
    <3>2. ahead + r.left - ResetBuffer - 1 = ahead + above - 1
      <4> HIDE DEF ahead
      <4> QED
        BY <1>1, ResetUnits DEF ahead
    <3> QED
      BY <3>1, <3>2
  <2>2. above \in Nat \ {0}
    BY <1>6, ResetUnits DEF Reset!InsideBuffer
  <2> HIDE DEF ahead, above
  <2>3. ahead \in Nat \ {0}
    BY <1>1 DEF ahead
  <2>4. ahead + above - 1 \in Nat /\ ahead + above - 1 >= above
    BY <2>2, <2>3
  <2>5. (ahead + above - 1) \div above \in Nat \ {0}
    BY <2>2, <2>4
  <2> QED
    BY <2>1, <2>5
<1> QED
  BY <1>3, <1>4, <1>5, <1>6

\* A step within an instant, after which the client is as it was, the vendor's
\* counters have not moved, and no tick has become due.
LEMMA QuietKeeps ==
    ASSUME ResetInv, UNCHANGED <<instant, used, carried, client, refused>>,
           lag' \in {"none", "header", "both"}, lag' = "both" => lag = "both",
           IsReading(quota'), IsReading(answer'), next' \in Int,
           at' \in {"idle", "status", "plan", "work"},
           made' = made, at' = "status" => made = 0,
           at' = "idle" /\ next' <= instant => at = "idle" /\ next <= instant
    PROVE  ResetInv'
<1>1. Armed' => Armed
  BY DEF Armed, Reset!Day, Reset!Never
<1>2. Held => Held'
  BY DEF Held, Reset!Blocks, Reset!IsToday, Reset!IsApi, Reset!Day
<1>3. ASSUME Armed, Counting PROVE Counting'
  <2>1. refused \in Nat /\ instant \in Nat /\ made \in Nat /\ used \in Nat
    BY <1>3 DEF ResetInv, Armed
  <2>2. Ticks \in Int /\ Ticks' \in Int /\ Ticks <= Ticks'
    BY <2>1 DEF Ticks, ResetInv
  <2>3. ResetCalls * Ticks <= ResetCalls * Ticks'
    BY <2>2, CallsFollow
  <2>4. ResetCalls * Ticks \in Int /\ ResetCalls * Ticks' \in Int
    BY <2>2, ResetUnits
  <2>5. used <= ResetCalls * Ticks' + made
    <3> HIDE DEF Ticks
    <3> DEFINE a == ResetCalls * Ticks
               b == ResetCalls * Ticks'
    <3>1. used <= a + made /\ a <= b /\ a \in Int /\ b \in Int
      BY <1>3, <2>3, <2>4 DEF Counting
    <3> HIDE DEF a, b
    <3>2. used <= b + made
      BY <2>1, <3>1
    <3> QED
      BY <3>2 DEF b
  <2> QED
    BY <1>3, <2>5 DEF Counting
<1>4. Armed' => (Held \/ Counting)'
  BY <1>1, <1>2, <1>3 DEF ResetInv
<1>5. (lag = "both" /\ carried = Limit => used = 0)'
  BY DEF ResetInv
<1>6. (refused = Reset!Never \/ (refused \in Nat /\ refused <= instant
                                 /\ Reset!Day(refused) <= Reset!Day(instant)))'
  BY DEF ResetInv, Reset!Day, Reset!Never
<1> QED
  BY <1>4, <1>5, <1>6 DEF ResetInv, IsReading

\* A request: it is refused a probe after the last refusal at the earliest, and
\* keeps the invariant if a refusal leaves the next tick to come.
LEMMA SendKeeps ==
    ASSUME ResetInv, Reset!Send, ~Reset!Blocks(client), at \in {"idle", "work"},
           UNCHANGED <<instant, carried, lag>>, at' \in {"idle", "work"},
           IsReading(quota'), answer' = answer, next' \in Int,
           at' = "idle" /\ next' <= instant => at = "idle" /\ next <= instant
    PROVE  ResetInv' /\ RefusedAgain
<1>1. /\ made < ResetCalls /\ made' = made + 1 /\ made' \in 0 .. ResetCalls
      /\ instant \in Nat /\ made \in Nat /\ used \in Nat
  BY ResetUnits DEF ResetInv, Reset!Send
<1>2. ASSUME Armed PROVE Counting /\ refused \in Nat /\ refused <= instant
  BY <1>2 DEF ResetInv, Armed, Held
<1>3. ASSUME Armed PROVE used < Limit /\ ~Reset!Refuses
  <2>1. Ticks \in Int /\ Ticks <= Probe - 1
    BY <1>1, <1>2, <1>3, ResetUnits DEF Ticks, Armed
  <2>2. ResetCalls * Ticks <= ResetCalls * (Probe - 1)
    BY <2>1, ResetUnits
  <2>3. ResetCalls * (Probe - 1) = ResetCalls * Probe - ResetCalls
    BY ResetUnits
  <2>4. ResetCalls * Ticks \in Int /\ ResetCalls * Probe \in Int
    BY <2>1, ResetUnits
  <2>5. used < Limit
    <3> DEFINE a == ResetCalls * Ticks
               b == ResetCalls * Probe
    <3>1. used <= a + made /\ a <= b - ResetCalls /\ a \in Int /\ b \in Int /\ b <= Limit
      BY <1>2, <1>3, <2>2, <2>3, <2>4, ResetUnits DEF Counting
    <3> HIDE DEF a, b
    <3> QED
      BY <1>1, <3>1, ResetUnits
  <2>6. ~(lag = "both" /\ carried = Limit)
    BY <1>2, <1>3 DEF Counting
  <2> QED
    BY <1>1, <2>5, <2>6, ResetUnits DEF Reset!Refuses, Reset!ReportedUsed
<1>4. CASE Reset!Refuses
  <2>1. client' = Reset!Exhausted /\ refused' = instant /\ used' = used
    BY <1>4 DEF Reset!Send
  <2>2. ~Armed
    BY <1>3, <1>4
  <2>3. used \in {0, Limit}
    BY <1>4 DEF ResetInv, Reset!Refuses, Reset!ReportedUsed
  <2>4. Held'
    BY <2>1, <2>3 DEF Held, Reset!Blocks, Reset!IsToday, Reset!IsApi, Reset!Exhausted,
                      Reset!Day
  <2>5. IsReading(client')
    BY <1>1, <2>1 DEF IsReading, Reset!Exhausted
  <2>6. RefusedAgain
    <3> SUFFICES ASSUME refused # Reset!Never, ~(instant - refused >= Probe)
                 PROVE  Reset!Day(instant) > Reset!Day(refused)
      BY <2>1 DEF RefusedAgain
    <3>1. refused \in Nat /\ Reset!Day(refused) <= Reset!Day(instant)
      BY DEF ResetInv
    <3>2. Reset!Day(instant) # Reset!Day(refused)
      BY <1>1, <2>2, <3>1, ResetUnits DEF Armed
    <3>3. Reset!Day(instant) \in Nat /\ Reset!Day(refused) \in Nat
      BY <1>1, <3>1, DaysFollow
    <3> QED
      BY <3>1, <3>2, <3>3
  <2>7. (refused = Reset!Never \/ (refused \in Nat /\ refused <= instant
                                   /\ Reset!Day(refused) <= Reset!Day(instant)))'
    <3>1. Reset!Day(instant) \in Nat
      BY <1>1, DaysFollow
    <3>2. Reset!Day(instant) <= Reset!Day(instant)
      BY <3>1
    <3> QED
      BY <1>1, <2>1, <3>2 DEF Reset!Day
  <2> QED
    BY <1>1, <2>1, <2>4, <2>5, <2>6, <2>7 DEF ResetInv
<1>5. CASE ~Reset!Refuses
  <2>1. used' = used + 1 /\ refused' = refused
        /\ \/ client' = [Reset!Reading("header") EXCEPT
                           !.left = Limit - (IF lag = "none" THEN used' ELSE carried)]
           \/ client' = client
    BY <1>4, <1>5 DEF Reset!Send
  <2>2. used # Limit /\ ~(lag = "both" /\ carried = Limit)
    BY <1>5 DEF Reset!Refuses, Reset!ReportedUsed
  <2>3. used' \in 0 .. Limit
    BY <1>1, <2>1, <2>2, ResetUnits DEF ResetInv
  <2>4. IsReading(client')
    <3>1. CASE client' = client
      BY <3>1 DEF ResetInv
    <3>2. CASE client' = [Reset!Reading("header") EXCEPT
                           !.left = Limit - (IF lag = "none" THEN used' ELSE carried)]
      <4>1. client'.at = instant
            /\ client'.left = Limit - (IF lag = "none" THEN used' ELSE carried)
        BY <3>2 DEF Reset!Reading
      <4>2. used' \in Int /\ used' <= Limit /\ carried \in Int /\ carried <= Limit
        BY <2>3, ResetUnits DEF ResetInv
      <4>3. CASE lag = "none"
        <5>1. client'.left = Limit - used'
          BY <4>1, <4>3
        <5>2. Limit \in Nat
          BY ResetUnits
        <5>3. Limit - used' \in Nat
          <6> DEFINE u == used'
          <6>1. u \in Int /\ u <= Limit
            BY <4>2
          <6> HIDE DEF u
          <6>2. Limit - u \in Nat
            BY <5>2, <6>1
          <6> QED
            BY <6>2 DEF u
        <5>4. client'.at \in Int
          BY <1>1, <4>1
        <5> QED
          BY <5>1, <5>3, <5>4 DEF IsReading
      <4>4. CASE lag # "none"
        <5>1. client'.left = Limit - carried
          BY <4>1, <4>4
        <5>2. Limit - carried \in Nat
          BY <4>2, ResetUnits
        <5>3. client'.at \in Int
          BY <1>1, <4>1
        <5> QED
          BY <5>1, <5>2, <5>3 DEF IsReading
      <4> QED
        BY <4>3, <4>4
    <3> QED
      BY <2>1, <3>1, <3>2
  <2>5. ASSUME Armed' PROVE Counting'
    <3>1. Armed
      BY <2>1, <2>5 DEF Armed, Reset!Day, Reset!Never
    <3>2. Ticks \in Int /\ Ticks' \in Int /\ Ticks <= Ticks'
      BY <1>1, <1>2, <2>1, <3>1 DEF Ticks, ResetInv
    <3>3. ResetCalls * Ticks <= ResetCalls * Ticks'
      BY <3>2, CallsFollow
    <3>4. ResetCalls * Ticks \in Int /\ ResetCalls * Ticks' \in Int
      BY <3>2, ResetUnits
    <3>5. used' <= ResetCalls * Ticks' + made'
      <4> HIDE DEF Ticks
      <4> DEFINE a == ResetCalls * Ticks
                 b == ResetCalls * Ticks'
      <4>1. used <= a + made /\ a <= b /\ a \in Int /\ b \in Int
        BY <1>2, <3>1, <3>3, <3>4 DEF Counting
      <4> HIDE DEF a, b
      <4>2. used' <= b + made'
        BY <1>1, <2>1, <4>1
      <4> QED
        BY <4>2 DEF b
    <3> QED
      BY <2>2, <3>5 DEF Counting
  <2>6. RefusedAgain
    BY <2>1 DEF RefusedAgain
  <2>7. (refused = Reset!Never \/ (refused \in Nat /\ refused <= instant
                                   /\ Reset!Day(refused) <= Reset!Day(instant)))'
    BY <2>1 DEF ResetInv, Reset!Day, Reset!Never
  <2> QED
    BY <1>1, <2>2, <2>3, <2>4, <2>5, <2>6, <2>7 DEF ResetInv
<1> QED
  BY <1>4, <1>5

\* Time passes: a tick has become due, or midnight has come.
LEMMA MidnightKeeps == ResetInv /\ Reset!Pass => ResetInv' /\ RefusedAgain
<1> SUFFICES ASSUME ResetInv, Reset!Pass PROVE ResetInv' /\ RefusedAgain
  OBVIOUS
<1>1. /\ instant \in Nat /\ instant' = instant + 1 /\ instant' \in Nat
      /\ at = "idle" /\ instant < next
      /\ UNCHANGED <<client, quota, answer, next, at, made, refused>>
  BY DEF ResetInv, Reset!Pass
<1>2. /\ Reset!Day(instant) \in Nat /\ Reset!Day(instant') \in Nat
      /\ Reset!Day(instant) <= Reset!Day(instant')
  BY <1>1, DaysFollow
<1>3. (refused = Reset!Never \/ (refused \in Nat /\ refused <= instant
                                 /\ Reset!Day(refused) <= Reset!Day(instant)))'
  <2>1. CASE refused = Reset!Never
    BY <1>1, <2>1 DEF Reset!Never
  <2>2. CASE refused \in Nat /\ refused <= instant /\ Reset!Day(refused) <= Reset!Day(instant)
    <3>1. Reset!Day(refused) \in Nat
      BY <2>2, DaysFollow
    <3>2. Reset!Day(refused) <= Reset!Day(instant')
      BY <1>2, <2>2, <3>1
    <3>3. Reset!Day(refused)' = Reset!Day(refused) /\ Reset!Day(instant)' = Reset!Day(instant')
      BY <1>1 DEF Reset!Day
    <3> QED
      BY <1>1, <2>2, <3>2, <3>3
  <2> QED
    BY <2>1, <2>2 DEF ResetInv
<1>4. /\ used' \in 0 .. Limit /\ carried' \in 0 .. Limit
      /\ lag' \in {"none", "header", "both"}
      /\ lag' = "both" /\ carried' = Limit => used' = 0
  <2>1. CASE Reset!Day(instant') > Reset!Day(instant)
    <3>1. used' = 0 /\ carried' = used /\ lag' \in Lags
      BY <2>1 DEF Reset!Pass
    <3> QED
      BY <3>1, ResetUnits DEF ResetInv
  <2>2. CASE ~(Reset!Day(instant') > Reset!Day(instant))
    BY <2>2 DEF ResetInv, Reset!Pass
  <2> QED
    BY <2>1, <2>2
<1>5. ASSUME Armed' PROVE (Held \/ Counting)'
  <2>1. refused # Reset!Never /\ instant' - refused < Probe
        /\ Reset!Day(instant') = Reset!Day(refused)
    BY <1>1, <1>5 DEF Armed, Reset!Day, Reset!Never
  <2>2. /\ refused \in Nat /\ refused <= instant
        /\ Reset!Day(refused) <= Reset!Day(instant)
    BY <2>1 DEF ResetInv
  <2>3. Reset!Day(refused) \in Nat
    BY <2>2, DaysFollow
  <2>4. Reset!Day(instant) = Reset!Day(instant') /\ Reset!Day(instant) = Reset!Day(refused)
    BY <1>2, <2>1, <2>2, <2>3
  <2>5. UNCHANGED <<used, carried, lag>>
    BY <1>1, <1>2, <2>4 DEF Reset!Pass
  <2>6. Armed
    BY <1>1, <2>1, <2>2, <2>4, ResetUnits DEF Armed
  <2>7. Held => Held'
    BY <1>1, <2>4, <2>5 DEF Held, Reset!Blocks, Reset!IsToday, Reset!IsApi, Reset!Day
  <2>8. ASSUME Counting PROVE Counting'
    <3>1. Ticks \in Int /\ Ticks' \in Int /\ Ticks <= Ticks'
      BY <1>1, <2>2 DEF Ticks, ResetInv
    <3>2. ResetCalls * Ticks <= ResetCalls * Ticks'
      BY <3>1, CallsFollow
    <3>3. ResetCalls * Ticks \in Int /\ ResetCalls * Ticks' \in Int
      BY <3>1, ResetUnits
    <3>4. used' <= ResetCalls * Ticks' + made'
      <4> HIDE DEF Ticks
      <4> DEFINE a == ResetCalls * Ticks
                 b == ResetCalls * Ticks'
      <4>1. used <= a + made /\ a <= b /\ a \in Int /\ b \in Int
        BY <2>8, <3>2, <3>3 DEF Counting
      <4>2. used \in Nat /\ made \in Nat
        BY ResetUnits DEF ResetInv
      <4> HIDE DEF a, b
      <4>3. used <= b + made
        BY <4>1, <4>2
      <4> QED
        BY <1>1, <2>5, <4>3 DEF b
    <3> QED
      BY <2>5, <2>8, <3>4 DEF Counting
  <2> QED
    BY <2>6, <2>7, <2>8 DEF ResetInv
<1>6. RefusedAgain
  BY <1>1 DEF RefusedAgain
<1> QED
  BY <1>1, <1>3, <1>4, <1>5, <1>6 DEF ResetInv, IsReading

LEMMA BeginResetKeeps == ResetInv /\ Reset!BeginTick => ResetInv' /\ RefusedAgain
<1> SUFFICES ASSUME ResetInv, Reset!BeginTick PROVE ResetInv' /\ RefusedAgain
  OBVIOUS
<1>1. /\ at = "idle" /\ next <= instant /\ at' \in {"status", "plan"} /\ made' = 0
      /\ UNCHANGED <<instant, used, carried, lag, client, next, refused>>
      /\ instant \in Nat
  BY DEF ResetInv, Reset!BeginTick
<1>2. IsReading(quota') /\ IsReading(answer')
  <2>1. {quota', answer'} \subseteq {client, quota, answer}
    BY DEF Reset!BeginTick, Reset!Remembered
  <2> QED
    BY <2>1 DEF ResetInv
<1>3. Armed' => Armed
  BY <1>1 DEF Armed, Reset!Day, Reset!Never
<1>4. Held => Held'
  BY <1>1 DEF Held, Reset!Blocks, Reset!IsToday, Reset!IsApi, Reset!Day
<1>5. ASSUME Armed, Counting PROVE Counting'
  <2>1. refused \in Nat /\ refused <= instant
    BY <1>5 DEF ResetInv, Armed
  <2> DEFINE n == instant - refused
             a == ResetCalls * n
             b == ResetCalls * (n - 1)
  <2>2. Ticks = n - 1 /\ Ticks' = n
    BY <1>1 DEF Ticks
  <2>3. n \in Int
    BY <1>1, <2>1
  <2>4. used <= b + made /\ used \in Nat /\ made \in 0 .. ResetCalls
    BY <1>5, <2>2, ResetUnits DEF Counting, ResetInv
  <2> HIDE DEF n
  <2>5. a = b + ResetCalls /\ a \in Int /\ b \in Int
    BY <2>3, ResetUnits
  <2> HIDE DEF a, b
  <2>6. used <= a
    BY <2>4, <2>5, ResetUnits
  <2>7. used' <= ResetCalls * Ticks' + made'
    BY <1>1, <2>2, <2>5, <2>6 DEF a
  <2> QED
    BY <1>1, <1>5, <2>7 DEF Counting
<1>6. Armed' => (Held \/ Counting)'
  BY <1>3, <1>4, <1>5 DEF ResetInv
<1>7. (refused = Reset!Never \/ (refused \in Nat /\ refused <= instant
                                 /\ Reset!Day(refused) <= Reset!Day(instant)))'
  BY <1>1 DEF ResetInv, Reset!Day, Reset!Never
<1>8. RefusedAgain
  BY <1>1 DEF RefusedAgain
<1> QED
  BY <1>1, <1>2, <1>6, <1>7, <1>8, ResetUnits DEF ResetInv, IsReading

\* The better of the client's reading and the scheduler's is one of them.
LEMMA ObservedIsReading ==
    ASSUME ResetInv
    PROVE  IsReading(Reset!PreferObserved(quota))
  BY DEF ResetInv, Reset!PreferObserved

LEMMA CatchUpKeeps == ResetInv /\ Reset!CatchUp => ResetInv' /\ RefusedAgain
<1> SUFFICES ASSUME ResetInv, Reset!CatchUp PROVE ResetInv' /\ RefusedAgain
  OBVIOUS
<1>1. /\ UNCHANGED <<instant, used, carried, client, refused, quota, answer, next, at, made>>
      /\ lag' \in {"none", "header", "both"} /\ (lag' = "both" => lag = "both")
  BY DEF Reset!CatchUp
<1>2. /\ IsReading(quota') /\ IsReading(answer') /\ next' \in Int
      /\ at' \in {"idle", "status", "plan", "work"} /\ (at' = "status" => made = 0)
      /\ (at' = "idle" /\ next' <= instant => at = "idle" /\ next <= instant)
  BY <1>1 DEF ResetInv
<1>3. ResetInv'
  BY <1>1, <1>2, QuietKeeps
<1>4. RefusedAgain
  BY <1>1 DEF RefusedAgain
<1> QED
  BY <1>3, <1>4

LEMMA StatusFailedKeeps == ResetInv /\ Reset!StatusFailed => ResetInv' /\ RefusedAgain
<1> SUFFICES ASSUME ResetInv, Reset!StatusFailed PROVE ResetInv' /\ RefusedAgain
  OBVIOUS
<1>1. /\ UNCHANGED <<instant, used, carried, lag, client, refused, answer, next, made>>
      /\ at' = "plan" /\ instant \in Nat
  BY DEF ResetInv, Reset!StatusFailed
<1>2. IsReading(quota')
  <2>1. quota' = quota \/ quota' = [at |-> instant, left |-> 0, kind |-> "unknown"]
    BY DEF Reset!StatusFailed
  <2> QED
    BY <1>1, <2>1 DEF ResetInv, IsReading
<1>3. /\ IsReading(answer') /\ next' \in Int /\ lag' \in {"none", "header", "both"}
      /\ (lag' = "both" => lag = "both")
  BY <1>1 DEF ResetInv
<1>4. ResetInv'
  BY <1>1, <1>2, <1>3, QuietKeeps
<1>5. RefusedAgain
  BY <1>1 DEF RefusedAgain
<1> QED
  BY <1>4, <1>5

\* A pause begins: no tick is due at its start.
LEMMA PauseIsAhead ==
    ASSUME ResetInv, NEW r, IsReading(r), next' = instant + Reset!SleepAfter(r)
    PROVE  next' \in Int /\ ~(next' <= instant)
<1>1. instant \in Nat /\ r.left \in Nat
  BY DEF ResetInv, IsReading
<1>2. Reset!SleepAfter(r) \in Nat \ {0}
  BY <1>1, SleepIsPositive
<1> QED
  BY <1>1, <1>2

LEMMA PlanTickKeeps == ResetInv /\ Reset!PlanTick => ResetInv' /\ RefusedAgain
<1> SUFFICES ASSUME ResetInv, Reset!PlanTick PROVE ResetInv' /\ RefusedAgain
  OBVIOUS
<1>1. /\ UNCHANGED <<instant, used, carried, lag, client, refused, answer, made>>
      /\ quota' = Reset!PreferObserved(quota)
      /\ \/ at' = "idle" /\ next' = instant + Reset!SleepAfter(quota')
         \/ at' = "work" /\ next' = next
  BY DEF Reset!PlanTick
<1>2. IsReading(quota') /\ IsReading(answer')
  BY <1>1, ObservedIsReading DEF ResetInv
<1>3. /\ next' \in Int /\ at' \in {"idle", "work"}
      /\ ~(at' = "idle" /\ next' <= instant)
  <2>1. CASE at' = "idle" /\ next' = instant + Reset!SleepAfter(quota')
    BY <1>2, <2>1, PauseIsAhead
  <2>2. CASE at' = "work" /\ next' = next
    BY <2>2 DEF ResetInv
  <2> QED
    BY <1>1, <2>1, <2>2
<1>4. lag' \in {"none", "header", "both"} /\ (lag' = "both" => lag = "both")
  BY <1>1 DEF ResetInv
<1>5. ResetInv'
  BY <1>1, <1>2, <1>3, <1>4, QuietKeeps
<1>6. RefusedAgain
  BY <1>1 DEF RefusedAgain
<1> QED
  BY <1>5, <1>6

LEMMA EndTickKeeps == ResetInv /\ Reset!EndTick => ResetInv' /\ RefusedAgain
<1> SUFFICES ASSUME ResetInv, Reset!EndTick PROVE ResetInv' /\ RefusedAgain
  OBVIOUS
<1>1. /\ UNCHANGED <<instant, used, carried, lag, client, refused, quota, answer, made>>
      /\ at' = "idle" /\ next' = instant + Reset!SleepAfter(quota)
  BY DEF Reset!EndTick
<1>2. IsReading(quota) /\ IsReading(quota') /\ IsReading(answer')
  BY <1>1 DEF ResetInv
<1>3. next' \in Int /\ ~(next' <= instant)
  BY <1>1, <1>2, PauseIsAhead
<1>4. lag' \in {"none", "header", "both"} /\ (lag' = "both" => lag = "both")
  BY <1>1 DEF ResetInv
<1>5. ResetInv'
  BY <1>1, <1>2, <1>3, <1>4, QuietKeeps
<1>6. RefusedAgain
  BY <1>1 DEF RefusedAgain
<1> QED
  BY <1>5, <1>6

\* /status is answered: with the cap it holds the client as a refused call does;
\* with a count it lets it go, and by then the vendor counts the new day.
LEMMA StatusAnsweredKeeps == ResetInv /\ Reset!StatusAnswered => ResetInv' /\ RefusedAgain
<1> SUFFICES ASSUME ResetInv, Reset!StatusAnswered PROVE ResetInv' /\ RefusedAgain
  OBVIOUS
<1>1. /\ UNCHANGED <<instant, used, carried, lag, refused, next, made>>
      /\ at = "status" /\ at' = "plan" /\ made = 0
      /\ quota' = client' /\ answer' = client'
      /\ instant \in Nat /\ used \in 0 .. Limit /\ carried \in 0 .. Limit
  BY DEF ResetInv, Reset!StatusAnswered
<1>2. Reset!ReportedUsed("status") \in 0 .. Limit
  BY <1>1 DEF Reset!ReportedUsed
<1>3. IsReading(client')
  <2>1. CASE client' = Reset!Exhausted
    BY <1>1, <2>1 DEF IsReading, Reset!Exhausted
  <2>2. CASE client' = Reset!Reading("status")
    <3>1. client'.at = instant /\ client'.left = Limit - Reset!ReportedUsed("status")
      BY <2>2 DEF Reset!Reading
    <3>2. Limit - Reset!ReportedUsed("status") \in Nat
      <4> DEFINE reported == Reset!ReportedUsed("status")
      <4>1. reported \in 0 .. Limit
        BY <1>2
      <4> HIDE DEF reported
      <4>2. Limit - reported \in Nat
        BY <4>1, ResetUnits
      <4> QED
        BY <4>2 DEF reported
    <3> QED
      BY <1>1, <3>1, <3>2 DEF IsReading
  <2> QED
    BY <2>1, <2>2 DEF Reset!StatusAnswered
<1>4. Armed' => Armed
  BY <1>1 DEF Armed, Reset!Day, Reset!Never
<1>5. ASSUME Armed PROVE refused \in Nat /\ refused <= instant /\ Ticks' = instant - refused
  BY <1>1, <1>5 DEF ResetInv, Armed, Ticks
<1>6. ASSUME Reset!Refuses PROVE Held'
  <2>1. client' = Reset!Exhausted
    BY <1>6 DEF Reset!StatusAnswered
  <2>2. used \in {0, Limit}
    BY <1>6 DEF ResetInv, Reset!Refuses, Reset!ReportedUsed
  <2> QED
    BY <1>1, <2>1, <2>2 DEF Held, Reset!Blocks, Reset!IsToday, Reset!IsApi,
                            Reset!Exhausted, Reset!Day
<1>7. ASSUME ~Reset!Refuses, Armed PROVE Counting'
  <2>1. used # Limit /\ ~(lag = "both" /\ carried = Limit)
    BY <1>7 DEF Reset!Refuses, Reset!ReportedUsed
  <2>2. CASE Held
    <3>1. used = 0
      BY <2>1, <2>2 DEF Held
    <3>2. 0 <= Ticks' /\ Ticks' \in Int
      BY <1>1, <1>5, <1>7
    <3>3. ResetCalls * 0 <= ResetCalls * Ticks' /\ ResetCalls * Ticks' \in Int
      BY <3>2, CallsFollow
    <3>4. ResetCalls * 0 = 0
      BY ResetUnits
    <3>5. used' <= ResetCalls * Ticks' + made'
      <4> HIDE DEF Ticks
      <4> DEFINE b == ResetCalls * Ticks'
      <4>1. 0 <= b /\ b \in Int
        BY <3>3, <3>4
      <4> HIDE DEF b
      <4>2. 0 <= b + 0
        BY <4>1
      <4> QED
        BY <1>1, <3>1, <4>2 DEF b
    <3> QED
      BY <1>1, <2>1, <3>5 DEF Counting
  <2>3. CASE Counting
    BY <1>1, <2>1, <2>3 DEF Counting, Ticks
  <2> QED
    BY <1>7, <2>2, <2>3 DEF ResetInv
<1>8. (Armed => Held \/ Counting)'
  BY <1>4, <1>6, <1>7
<1>9. (refused = Reset!Never \/ (refused \in Nat /\ refused <= instant
                                 /\ Reset!Day(refused) <= Reset!Day(instant)))'
  BY <1>1 DEF ResetInv, Reset!Day, Reset!Never
<1>10. RefusedAgain
  BY <1>1 DEF RefusedAgain
<1> QED
  BY <1>1, <1>3, <1>8, <1>9, <1>10 DEF ResetInv

\* A handler's request in a tick, in the history window and in the drain.
LEMMA CallInTickKeeps == ResetInv /\ Reset!CallInTick => ResetInv' /\ RefusedAgain
<1> SUFFICES ASSUME ResetInv, Reset!CallInTick PROVE ResetInv' /\ RefusedAgain
  OBVIOUS
<1>1. at = "work" /\ UNCHANGED <<instant, carried, lag, answer>>
  BY DEF Reset!CallInTick
<1>2. IsReading(answer') /\ lag' \in {"none", "header", "both"} /\ (lag' = "both" => lag = "both")
  BY <1>1 DEF ResetInv
<1>3. CASE Reset!Blocks(client)
  <2>1. /\ quota' = client /\ at' = "idle" /\ next' = instant + Reset!SleepAfter(client)
        /\ UNCHANGED <<used, client, made, refused>>
    BY <1>3 DEF Reset!CallInTick
  <2>2. IsReading(client) /\ IsReading(quota')
    BY <2>1 DEF ResetInv
  <2>3. next' \in Int /\ ~(next' <= instant)
    BY <2>1, <2>2, PauseIsAhead
  <2>4. ResetInv'
    BY <1>1, <1>2, <2>1, <2>2, <2>3, QuietKeeps
  <2>5. RefusedAgain
    BY <2>1 DEF RefusedAgain
  <2> QED
    BY <2>4, <2>5
<1>4. CASE ~Reset!Blocks(client)
  <2>1. /\ Reset!Send
        /\ \/ /\ quota' = client' /\ client' = Reset!Exhausted /\ at' = "idle"
              /\ next' = instant + Reset!SleepAfter(client')
           \/ quota' = Reset!PreferObserved(quota) /\ UNCHANGED <<at, next>>
    BY <1>4 DEF Reset!CallInTick, Reset!Send
  <2>2. /\ IsReading(quota') /\ next' \in Int /\ at' \in {"idle", "work"}
        /\ ~(at' = "idle" /\ next' <= instant)
    <3>1. CASE /\ quota' = client' /\ client' = Reset!Exhausted /\ at' = "idle"
               /\ next' = instant + Reset!SleepAfter(client')
      <4>1. IsReading(client')
        BY <3>1, ResetUnits DEF ResetInv, IsReading, Reset!Exhausted
      <4> QED
        BY <3>1, <4>1, PauseIsAhead
    <3>2. CASE quota' = Reset!PreferObserved(quota) /\ UNCHANGED <<at, next>>
      BY <1>1, <3>2, ObservedIsReading DEF ResetInv
    <3> QED
      BY <2>1, <3>1, <3>2
  <2> QED
    BY <1>1, <1>4, <2>1, <2>2, SendKeeps
<1> QED
  BY <1>3, <1>4

LEMMA CallInWindowKeeps == ResetInv /\ Reset!CallInWindow => ResetInv' /\ RefusedAgain
<1> SUFFICES ASSUME ResetInv, Reset!CallInWindow PROVE ResetInv' /\ RefusedAgain
  OBVIOUS
<1>1. /\ at = "idle" /\ UNCHANGED <<instant, carried, lag, answer, next, at>>
      /\ ~Reset!Blocks(client) /\ Reset!Send /\ next' \in Int
      /\ \/ quota' = client' /\ client' = Reset!Exhausted
         \/ quota' = Reset!PreferObserved(quota)
  BY DEF ResetInv, Reset!CallInWindow, Reset!Send
<1>2. IsReading(quota')
  <2>1. CASE quota' = client' /\ client' = Reset!Exhausted
    BY <2>1 DEF ResetInv, IsReading, Reset!Exhausted
  <2>2. CASE quota' = Reset!PreferObserved(quota)
    BY <2>2, ObservedIsReading
  <2> QED
    BY <1>1, <2>1, <2>2
<1> QED
  BY <1>1, <1>2, SendKeeps

LEMMA CallInDrainKeeps == ResetInv /\ Reset!CallInDrain => ResetInv' /\ RefusedAgain
<1> SUFFICES ASSUME ResetInv, Reset!CallInDrain PROVE ResetInv' /\ RefusedAgain
  OBVIOUS
<1>1. /\ at = "idle" /\ UNCHANGED <<instant, carried, lag, quota, answer, next, at>>
      /\ ~Reset!Blocks(client) /\ Reset!Send /\ next' \in Int /\ IsReading(quota')
  BY DEF ResetInv, Reset!CallInDrain
<1> QED
  BY <1>1, SendKeeps

LEMMA ResetNextKeeps == ResetInv /\ [Reset!Next]_(Reset!vars) => ResetInv' /\ RefusedAgain
<1> SUFFICES ASSUME ResetInv, [Reset!Next]_(Reset!vars) PROVE ResetInv' /\ RefusedAgain
  OBVIOUS
<1>1. CASE Reset!CatchUp
  BY <1>1, CatchUpKeeps
<1>2. CASE Reset!Pass
  BY <1>2, MidnightKeeps
<1>3. CASE Reset!BeginTick
  BY <1>3, BeginResetKeeps
<1>4. CASE Reset!StatusAnswered
  BY <1>4, StatusAnsweredKeeps
<1>5. CASE Reset!StatusFailed
  BY <1>5, StatusFailedKeeps
<1>6. CASE Reset!PlanTick
  BY <1>6, PlanTickKeeps
<1>7. CASE Reset!EndTick
  BY <1>7, EndTickKeeps
<1>8. CASE Reset!CallInTick
  BY <1>8, CallInTickKeeps
<1>9. CASE Reset!CallInWindow
  BY <1>9, CallInWindowKeeps
<1>10. CASE Reset!CallInDrain
  BY <1>10, CallInDrainKeeps
<1>11. CASE UNCHANGED Reset!vars
  <2>1. /\ UNCHANGED <<instant, used, carried, lag, client, refused, quota, answer,
                       next, at, made>>
    BY <1>11 DEF Reset!vars
  <2>2. RefusedAgain
    BY <2>1 DEF RefusedAgain
  <2>3. /\ IsReading(quota') /\ IsReading(answer') /\ next' \in Int
        /\ lag' \in {"none", "header", "both"} /\ (lag' = "both" => lag = "both")
        /\ at' \in {"idle", "status", "plan", "work"} /\ (at' = "status" => made = 0)
        /\ (at' = "idle" /\ next' <= instant => at = "idle" /\ next <= instant)
    BY <2>1 DEF ResetInv
  <2> QED
    BY <2>1, <2>2, <2>3, QuietKeeps
<1> QED
  BY <1>1, <1>2, <1>3, <1>4, <1>5, <1>6, <1>7, <1>8, <1>9, <1>10, <1>11 DEF Reset!Next

\* A call the vendor refused for the cap is repeated a probe later or on another
\* day, and by no path before.
THEOREM RefusedOnce == MCSpec => RefusedOncePerProbe
<1>1. MCInit => ResetInv
  BY ResetBegins DEF MCInit
<1>2. [MCNext]_allVars => [Reset!Next]_(Reset!vars)
  BY DEF MCNext, allVars, resetVars, Reset!vars
<1>3. ResetInv /\ [Reset!Next]_(Reset!vars) => ResetInv' /\ [RefusedAgain]_(Reset!vars)
  BY ResetNextKeeps
<1>4. MCSpec => [][RefusedAgain]_(Reset!vars)
  BY <1>1, <1>2, <1>3, PTL DEF MCSpec
<1> QED
  BY <1>4 DEF RefusedOncePerProbe, Reset!RefusedOncePerProbe, RefusedAgain
=============================================================================
