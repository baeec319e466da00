---------------------------- MODULE GlobalCatalog ----------------------------
(***************************************************************************)
(* How the worker explores the vendor's catalog (ingest/global_entities.py,*)
(* queue/global_catalog.py, ingest/persist_people.py, persist_seasonal.py):*)
(* a match names teams, a team names a stadium and a squad, a squad names  *)
(* players, a line-up names a coach, and every name found queues the tasks *)
(* that ask about it.  Stored rows are filled in with COALESCE and never   *)
(* blanked.  A task is claimed with others of the first endpoint that has  *)
(* any, and the batch runs concurrently, each task in its own transaction. *)
(*                                                                         *)
(* One league and one stadium; what the vendor knows is fixed at the       *)
(* start.  A task row is one of "none", "open" (pending or retryable),     *)
(* "running" and "done" (any terminal status); counting attempts is left   *)
(* to EtlQueue.                                                            *)
(***************************************************************************)
EXTENDS Integers, FiniteSets

CONSTANTS
    Teams, Players, Coaches,
    Countries,
    Known,         \* players whose nationality the vendor has
    MaxRoom,       \* bound: tasks in one batch
    MaxFaults,     \* bound: calls that fail, and database failures
    MaxRestarts    \* bound

VARIABLES
    vendor,     \* the country of each team, its squad, the stadium's country
    task,       \* the rows of etl_tasks
    batch,      \* the tasks of the running batch
    seen,       \* the country of the stadium a /teams transaction has read
    team,       \* teams whose country and stadium are stored
    stadium,    \* the stored country of the stadium
    player,     \* players: "none", "stub" or "full" (nationality stored)
    answered,   \* /venues has answered
    lost,       \* tasks whose exception was dropped by gather
    overlooked, \* a conflict over the stadium was written over, and not asked about since
    faults, restarts

vars == <<vendor, task, batch, seen, team, stadium, player, answered, lost, overlooked,
          faults, restarts>>
stored == <<seen, team, stadium, player, answered, overlooked>>
counters == <<faults, restarts>>

League == "league"
Ground == "ground"
Blank == "blank"
Keys == ({"/standings", "/players"} \X {League}) \cup ({"/teams", "/squads"} \X Teams)
        \cup ({"/venues"} \X {Ground}) \cup ({"/profiles"} \X Players)
        \cup ({"/coachs"} \X Coaches)
        \cup ({"facts"} \X (Teams \cup Players \cup Coaches))

ConstantsOK ==
    /\ {Blank, "unread"} \cap Countries = {}
    /\ IsFiniteSet(Teams)
    /\ {MaxRoom, MaxFaults, MaxRestarts} \subseteq Nat

\* GLOBAL_ENDPOINT_ORDER; `facts' stands for the endpoints that name nothing new:
\* /teams/statistics, the top lists, /players/teams, /transfers, /trophies, /sidelined.
Rank(kind) ==
    CASE kind = "/standings" -> 1 [] kind = "/teams" -> 2 [] kind = "/venues" -> 3
      [] kind = "/players" -> 4 [] kind = "/profiles" -> 5 [] kind = "/squads" -> 6
      [] kind = "/coachs" -> 7 [] OTHER -> 8

TypeOK ==
    /\ vendor \in [home : [Teams -> Countries], squad : [Teams -> SUBSET Players],
                   ground : Countries]
    /\ task \in [Keys -> {"none", "open", "running", "done"}]
    /\ batch \subseteq Keys /\ lost \subseteq Keys
    /\ seen \in [Teams -> Countries \cup {Blank, "unread"}]
    /\ team \subseteq Teams
    /\ stadium \in Countries \cup {Blank}
    /\ player \in [Players -> {"none", "stub", "full"}]
    /\ answered \in BOOLEAN /\ overlooked \in BOOLEAN
    /\ faults \in 0 .. MaxFaults /\ restarts \in 0 .. MaxRestarts

Init ==
    /\ vendor \in [home : [Teams -> Countries], squad : {[t \in Teams |-> Players]},
                   ground : Countries]
    /\ task = [k \in Keys |-> "none"]
    /\ batch = {} /\ lost = {} /\ seen = [t \in Teams |-> "unread"]
    /\ team = {} /\ stadium = Blank /\ player = [p \in Players |-> "none"]
    /\ answered = FALSE /\ overlooked = FALSE
    /\ faults = 0 /\ restarts = 0

-----------------------------------------------------------------------------
(* Queueing.                                                               *)

\* ensure_param_task: a row that exists, in any status, is left alone.
Ensure(rows, keys) ==
    [k \in Keys |-> IF k \in keys /\ rows[k] = "none" THEN "open" ELSE rows[k]]

\* enqueue_global_for_match
ForMatch(teams) ==
    {<<"/standings", League>>, <<"/players", League>>}
        \cup ({"/teams", "/squads", "facts"} \X teams)

\* enqueue_player_facts
PlayerFacts(ps) == {"facts"} \X ps

\* Mutant: any stored row will do.
ProfileUnlessStored(ps) == {"/profiles"} \X {p \in ps : player[p] = "none"}

\* enqueue_player_profile_if_needed: asked after the squad's stubs are stored.
ProfileIfNeeded(ps) == {"/profiles"} \X {p \in ps : player[p] # "full"}

\* enqueue_coach_catalog
CoachCatalog(cs) == {"/coachs", "facts"} \X cs

\* A COALESCE upsert of players.
Fill(ps, level) ==
    [p \in Players |-> IF p \in ps /\ player[p] # "full" THEN level ELSE player[p]]

\* A match between two teams is found (followups.py).
Discover(ts) ==
    /\ ts # {} /\ task' = Ensure(task, ForMatch(ts)) /\ task' # task
    /\ UNCHANGED <<vendor, batch, lost, stored, counters>>

\* The detail of a match is stored: stubs of its people, and the coaches' tasks
\* (persist_fixture_detail).
Detail(ps, cs) ==
    /\ task' = Ensure(task, CoachCatalog(cs))
    /\ player' = Fill({p \in ps : player[p] = "none"}, "stub")
    /\ <<task', player'>> # <<task, player>>
    /\ UNCHANGED <<vendor, batch, lost, seen, team, stadium, answered, overlooked, counters>>

-----------------------------------------------------------------------------
(* A batch.                                                                *)

Open == {k \in Keys : task[k] = "open"}

\* refresh_pending, claim_global_batch: some due rows of the first endpoint that
\* has any; how many the room of the history lane decides.
ClaimBatch ==
    /\ batch = {}
    /\ \E ks \in SUBSET Open :
        /\ ks # {} /\ Cardinality(ks) <= MaxRoom
        /\ \A k \in ks, o \in Open : Rank(k[1]) <= Rank(o[1])
        /\ batch' = ks
        /\ task' = [k \in Keys |-> IF k \in ks THEN "running" ELSE task[k]]
    /\ UNCHANGED <<vendor, lost, stored, counters>>

\* Task k leaves the batch with this row.
Leaves(k, status) == /\ k \in batch /\ batch' = batch \ {k}
                     /\ task' = [task EXCEPT ![k] = status]

\* The call or the persist fails, or the window closes: the row is open again
\* (_fail, release_in_progress_task).
Fails(k) ==
    /\ faults < MaxFaults /\ faults' = faults + 1
    /\ Leaves(k, "open")
    /\ seen' = IF k[1] = "/teams" THEN [seen EXCEPT ![k[2]] = "unread"] ELSE seen
    /\ UNCHANGED <<vendor, lost, team, stadium, player, answered, overlooked, restarts>>

\* Nothing comes back, or the coverage says so (_coverage_blocked).
Empty(k) ==
    /\ k[1] \in {"/standings", "/players", "facts"}
    /\ Leaves(k, "done") /\ UNCHANGED <<vendor, lost, stored, counters>>

\* The database fails while the row is being closed: gather keeps the exception
\* and only two kinds are looked for (_run_batch).
Lose(k) ==
    /\ faults < MaxFaults /\ faults' = faults + 1
    /\ k \in batch /\ batch' = batch \ {k} /\ lost' = lost \cup {k}
    /\ seen' = IF k[1] = "/teams" THEN [seen EXCEPT ![k[2]] = "unread"] ELSE seen
    /\ UNCHANGED <<vendor, task, team, stadium, player, answered, overlooked, restarts>>

\* Task k is stored, and what it names is queued in the same transaction.
Stored(k, names) ==
    /\ k \in batch /\ batch' = batch \ {k}
    /\ task' = Ensure([task EXCEPT ![k] = "done"], names)

\* /standings: persist_standings, then the tasks of the teams it lists.
StoreStandings ==
    /\ Stored(<<"/standings", League>>, ForMatch(Teams))
    /\ UNCHANGED <<vendor, lost, stored, counters>>

\* persist_teams reads the countries of the stadiums first.
ReadStadium(t) ==
    /\ <<"/teams", t>> \in batch /\ seen[t] = "unread"
    /\ seen' = [seen EXCEPT ![t] = stadium]
    /\ UNCHANGED <<vendor, task, batch, lost, team, stadium, player, answered, overlooked,
                   counters>>

\* _stamp_venue_country: a country read before wins, and the conflict is asked.
Stamp(t) ==
    IF seen[t] # Blank /\ seen[t] # vendor.home[t]
    THEN [country |-> seen[t], refresh |-> TRUE]
    ELSE [country |-> vendor.home[t], refresh |-> FALSE]

\* The stadium got another country since it was read, from a team of the same batch,
\* and nobody has asked about it.
Overlooks(t) ==
    stadium \notin {Blank, vendor.home[t]} /\ task[<<"/venues", Ground>>] = "none"

\* ... and then writes the stadium and the team, each upsert waiting for the row.
StoreTeam(t) ==
    /\ seen[t] # "unread"
    /\ Stored(<<"/teams", t>>, IF Stamp(t).refresh THEN {<<"/venues", Ground>>} ELSE {})
    /\ stadium' = Stamp(t).country
    /\ team' = team \cup {t} /\ seen' = [seen EXCEPT ![t] = "unread"]
    /\ overlooked' = (~Stamp(t).refresh /\ (overlooked \/ Overlooks(t)))
    /\ UNCHANGED <<vendor, lost, player, answered, counters>>

\* /venues: upsert_venues_full
StoreVenue ==
    /\ Stored(<<"/venues", Ground>>, {})
    /\ stadium' = vendor.ground /\ answered' = TRUE
    /\ UNCHANGED <<vendor, lost, seen, team, player, overlooked, counters>>

\* /players: every player of the league, full where the vendor knows him, and his facts.
StorePlayers ==
    LET all == UNION {vendor.squad[t] : t \in Teams}
    IN  /\ Stored(<<"/players", League>>, PlayerFacts(all))
        /\ player' = [p \in Players |-> IF p \in all THEN
                         IF p \in Known \/ player[p] = "full" THEN "full" ELSE "stub"
                         ELSE player[p]]
        /\ UNCHANGED <<vendor, lost, seen, team, stadium, answered, overlooked, counters>>

\* /players/squads: stubs, facts, and the profiles that are missing.
StoreSquad(t) ==
    /\ Stored(<<"/squads", t>>,
              PlayerFacts(vendor.squad[t]) \cup ProfileIfNeeded(vendor.squad[t]))
    /\ player' = Fill(vendor.squad[t], "stub")
    /\ UNCHANGED <<vendor, lost, seen, team, stadium, answered, overlooked, counters>>

\* /players/profiles: upsert_player_profiles
StoreProfile(p) ==
    /\ Stored(<<"/profiles", p>>, {})
    /\ player' = Fill({p}, IF p \in Known THEN "full" ELSE "stub")
    /\ UNCHANGED <<vendor, lost, seen, team, stadium, answered, overlooked, counters>>

\* /coachs: persist_coaches queues the coach's catalog again.
StoreCoach(c) ==
    /\ Stored(<<"/coachs", c>>, CoachCatalog({c}))
    /\ UNCHANGED <<vendor, lost, stored, counters>>

\* The endpoints that name nothing new: /teams/statistics is upserted, the facts of
\* a player (his teams, /transfers, /trophies, /sidelined) and of a coach replace
\* what was stored.
StoreFacts(e) ==
    /\ Stored(<<"facts", e>>, {})
    /\ UNCHANGED <<vendor, lost, stored, counters>>
StoreStatistics(t) == t \in Teams /\ StoreFacts(t)
StorePlayerFacts(p) == p \in Players /\ StoreFacts(p)
StoreCoachFacts(c) == c \in Coaches /\ StoreFacts(c)

-----------------------------------------------------------------------------
(* The worker starts again.                                                *)

\* Mutant: any stored row closes the task.
HasProfileRow(p) == player[p] # "none"

\* complete_stored_player_profiles
HasProfile(p) == player[p] = "full"

Shared == \E t, u \in team : vendor.home[t] # vendor.home[u]

\* Mutant: the stadium's country is enough.
CloseStadiumStored == stadium # Blank

\* complete_stored_venues
CloseStadium == stadium # Blank /\ ~Shared

\* Mutant: rows in progress are left as they are.
RequeueNone == task

\* requeue_orphans
RequeueOrphans == [k \in Keys |-> IF task[k] = "running" THEN "open" ELSE task[k]]

\* Orphans are requeued, then the tasks the stored rows already answer are closed.
Restart ==
    LET orphans == RequeueOrphans
    IN  /\ restarts < MaxRestarts /\ restarts' = restarts + 1
        /\ batch' = {} /\ lost' = {} /\ seen' = [t \in Teams |-> "unread"]
        /\ task' = [k \in Keys |->
             IF orphans[k] = "open" /\ \/ k[1] = "/profiles" /\ HasProfile(k[2])
                                       \/ k[1] = "/venues" /\ CloseStadium
             THEN "done" ELSE orphans[k]]
        /\ UNCHANGED <<vendor, team, stadium, player, answered, overlooked, faults>>

Ends(k) ==
    \/ Fails(k) \/ Empty(k)
    \/ /\ k[1] = "facts"
       /\ StoreStatistics(k[2]) \/ StorePlayerFacts(k[2]) \/ StoreCoachFacts(k[2])
    \/ k[1] = "/standings" /\ StoreStandings
    \/ k[1] = "/teams" /\ (ReadStadium(k[2]) \/ StoreTeam(k[2]))
    \/ k[1] = "/venues" /\ StoreVenue
    \/ k[1] = "/players" /\ StorePlayers
    \/ k[1] = "/squads" /\ StoreSquad(k[2])
    \/ k[1] = "/profiles" /\ StoreProfile(k[2])
    \/ k[1] = "/coachs" /\ StoreCoach(k[2])

Next ==
    \/ \E ts \in SUBSET Teams : Discover(ts)
    \/ \E ps \in SUBSET Players, cs \in SUBSET Coaches : Detail(ps, cs)
    \/ ClaimBatch
    \/ \E k \in Keys : Ends(k) \/ Lose(k)
    \/ Restart

Spec == Init /\ [][Next]_vars

\* The history lane goes on claiming, and every call of a batch comes back.
FairSpec == Spec /\ WF_vars(ClaimBatch) /\ \A k \in Keys : WF_vars(Ends(k))

-----------------------------------------------------------------------------
\* "Country is copied from the only team that uses the ground": once teams of two
\* countries are stored on it, /venues is asked, in whatever order they came, and
\* no start closes the task before it is answered (_stamp_venue_country,
\* complete_stored_venues); unless the last of them was stored over a country that
\* was written after its transaction had read the stadium.  That slip, of two teams
\* of one batch, is the only one.
SharedStadiumIsAsked ==
    Shared /\ ~overlooked => task[<<"/venues", Ground>>] \in {"open", "running"} \/ answered

\* A player of a stored squad ends up with a full profile wherever the vendor has
\* one, whichever of a line-up, a squad or the league's list named him first; only
\* a task lost to the database, until the next start, can prevent it.
SquadPlayersAreProfiled ==
    \A p \in Players :
        (\E t \in Teams : task[<<"/squads", t>>] = "done" /\ p \in vendor.squad[t])
            /\ p \in Known
        ~> player[p] = "full" \/ lost # {}

\* Every task queued is closed in the end, unless its exception was dropped by the
\* batch, and a start brings those back (_run_batch, requeue_orphans).
CatalogDrains == <>[](\A k \in Keys : task[k] \in {"none", "done"} \/ lost # {})

\* The catalog comes to an end, with nothing left out.
CatalogIsComplete == CatalogDrains /\ SquadPlayersAreProfiled
===============================================================================
