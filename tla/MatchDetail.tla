---------------------------- MODULE MatchDetail -----------------------------
(***************************************************************************)
(* The detail of one match as the database keeps it                        *)
(* (services/ingest/persist_children.py).  The vendor's answers come in    *)
(* any order and number, some with blanks, and each is stored in one       *)
(* transaction: people and clubs first, so that every child row finds its  *)
(* parent, then the events, replaced as a whole, and the line-ups,         *)
(* statistics and player figures, merged row by row.  The halves have an   *)
(* answer of their own whose whole-match figures are not taken.  Coaches   *)
(* are stored as players are.                                              *)
(***************************************************************************)
EXTENDS Integers, SequencesExt

CONSTANTS
    Players,
    None,
    MaxEvents       \* events in an answer

VARIABLES
    names,          \* players: "absent", "blank" or "named"
    clubs,          \* teams stored beside the two of the match
    events,         \* fixture_events by sort_order, the place in the answer
    lineup,         \* players with a fixture_lineup_players row
    figures,        \* players with a fixture_player_stats row
    stats           \* fixture_statistics by period: where the value is from

vars == <<names, clubs, events, lineup, figures, stats>>

\* An event of one of the two clubs, of a third one, or one without a club,
\* a minute or a type.
Event == [player : Players, assist : Players \cup {None},
          kind : {"ours", "guest", "unusable"}]

\* An answer: `named` says whether it spells the names out, `seen` whose
\* figures it has.
Answer ==
    [events : {e \in SeqOf(Event, MaxEvents) :
                  \A i \in DOMAIN e : e[i].player # e[i].assist},
     lineup : SUBSET Players, seen : {{}, Players}, named : BOOLEAN]

Init ==
    /\ names = [p \in Players |-> "absent"]
    /\ clubs = {}
    /\ events = <<>>
    /\ lineup = {} /\ figures = {}
    /\ stats = [k \in {"FT", "1H", "2H"} |-> "none"]

-----------------------------------------------------------------------------
\* Mutant: who assisted is not collected.
CollectWithoutAssists(a) ==
    {p \in Players :
        \/ \E i \in DOMAIN a.events : p = a.events[i].player
        \/ p \in a.lineup \cup a.seen}

\* _collect_people, whatever becomes of the rows themselves.
CollectPeople(a) ==
    {p \in Players :
        \/ \E i \in DOMAIN a.events : p \in {a.events[i].player, a.events[i].assist}
        \/ p \in a.lineup \cup a.seen}

\* upsert_player_stubs: coalesce keeps a name that is known.
Stub(old, named) ==
    CASE named -> "named"
      [] ~named /\ old = "absent" -> "blank"
      [] OTHER -> old

\* nested_fixture_teams.
NestedClubs(a) == {a.events[i].kind : i \in DOMAIN a.events} \cap {"guest"}

\* Events without a club, a minute or a type are left out; the others keep
\* their places.
Usable(es) == [i \in {j \in DOMAIN es : es[j].kind # "unusable"} |-> es[i]]

\* _replace_events.
ReplaceEvents(es) == events' = Usable(es)

\* _upsert_lineups: rows of players the answer does not name stay.
UpsertLineups(a) == lineup' = lineup \cup a.lineup

\* _upsert_player_stats.
UpsertFigures(a) == figures' = figures \cup a.seen

\* Mutant: the answer on the halves also writes the whole match.
UpsertStatsAlways(source, periods, default) ==
    stats' = [k \in DOMAIN stats |-> IF k \in periods \/ k = "FT" THEN source
                                     ELSE stats[k]]

\* upsert_team_statistics: one value per team, kind and period.
UpsertStats(source, periods, default) ==
    stats' = [k \in DOMAIN stats |->
                IF k \in periods \/ (default /\ k = "FT") THEN source ELSE stats[k]]

-----------------------------------------------------------------------------
\* persist_fixture_detail, all parts included as its caller asks.
StoreDetail(a) ==
    /\ names' = [p \in Players |-> IF p \in CollectPeople(a)
                                   THEN Stub(names[p], a.named) ELSE names[p]]
    /\ clubs' = clubs \cup NestedClubs(a)
    /\ ReplaceEvents(a.events)
    /\ UpsertLineups(a)
    /\ UpsertFigures(a)
    /\ UpsertStats("detail", {}, TRUE)

\* The answer on the halves, some periods of it empty.
StoreHalves(periods) ==
    /\ UpsertStats("halves", periods, FALSE)
    /\ UNCHANGED <<names, clubs, events, lineup, figures>>

Next ==
    \/ \E a \in Answer : StoreDetail(a)
    \/ \E periods \in SUBSET {"1H", "2H"} : StoreHalves(periods)

Spec == Init /\ [][Next]_vars

-----------------------------------------------------------------------------
TypeOK ==
    /\ names \in [Players -> {"absent", "blank", "named"}]
    /\ lineup \subseteq Players /\ figures \subseteq Players
    /\ stats \in [{"FT", "1H", "2H"} -> {"none", "detail", "halves"}]

\* Every stored row finds the player and the club it names, whatever the
\* answers leave out: a missing parent fails the whole answer for good
\* (_enrich_task gives up on an IntegrityError).
RowsHaveTheirParents ==
    /\ \A i \in DOMAIN events :
          /\ \A p \in {events[i].player, events[i].assist} \ {None} :
                names[p] # "absent"
          /\ events[i].kind = "guest" => "guest" \in clubs
    /\ \A p \in lineup \cup figures : names[p] # "absent"

\* The whole-match figures come from the detail answer only, whichever of
\* the two answers is stored last.
FullTimeFromDetail == stats["FT"] # "halves"

\* What is stored of a match is whole, and of one source.
DetailIsWhole == RowsHaveTheirParents /\ FullTimeFromDetail
=============================================================================
