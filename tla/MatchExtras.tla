---------------------------- MODULE MatchExtras -----------------------------
(***************************************************************************)
(* What is known beside a match's detail: the odds mapping and the odds    *)
(* tasks it starts, pre-match prices, predictions with their past meetings *)
(* and injuries (persist_odds.py, persist_predictions.py, the injuries of  *)
(* persist_children.py, the mapping refresh of ingest/prematch.py).  These *)
(* answers name matches the database may not have: the mapping, the prices *)
(* and the injuries leave them out, the prediction stores them first.      *)
(***************************************************************************)
EXTENDS Integers, SequencesExt

CONSTANTS
    Matches, Players,
    MaxLinks        \* past meetings in a prediction

VARIABLES
    known,          \* fixtures rows
    stubs,          \* players rows
    mapping,        \* odds_fixture_mapping
    mapTask,        \* its task: "due" or "waiting" for its next refresh
    oddsTask,       \* /odds tasks: "none", "open" or "closed"
    priced,         \* matches with fixture_odds rows
    injuries,       \* injuries rows <<match, player>>
    links           \* prediction_h2h of each match: past meetings by sort_order

vars == <<known, stubs, mapping, mapTask, oddsTask, priced, injuries, links>>

Init ==
    /\ known = {} /\ stubs = {} /\ mapping = {} /\ mapTask = "due"
    /\ oddsTask = [m \in Matches |-> "none"]
    /\ priced = {} /\ injuries = {}
    /\ links = [m \in Matches |-> <<>>]

\* ensure_odds_task, for each match of a set.
EnsureOdds(S) ==
    oddsTask' = [m \in Matches |-> IF m \in S /\ oddsTask[m] = "none"
                                   THEN "open" ELSE oddsTask[m]]

\* A day list brings matches, each with its follow-up tasks.
StoreMatches(S) ==
    /\ known' = known \cup S
    /\ EnsureOdds(S)
    /\ UNCHANGED <<stubs, mapping, mapTask, priced, injuries, links>>

\* Mutant: matches the answer names are kept unseen.
MappedUnfiltered(answer) == answer

\* replace_odds_mapping keeps what the database has.
Mapped(answer) == answer \cap known

\* Mutant: the mapping starts no odds tasks.
RefreshMappingOnly(answer) ==
    /\ mapTask = "due"
    /\ mapping' = Mapped(answer)
    /\ mapTask' = "waiting"
    /\ UNCHANGED <<known, stubs, oddsTask, priced, injuries, links>>

\* _refresh_mapping: the old mapping goes as a whole, and each match of the
\* new one has its odds task.
RefreshMapping(answer) ==
    /\ mapTask = "due"
    /\ mapping' = Mapped(answer)
    /\ EnsureOdds(Mapped(answer))
    /\ mapTask' = "waiting"
    /\ UNCHANGED <<known, stubs, priced, injuries, links>>

\* A failed refresh also waits, for its backoff.
MappingFails ==
    /\ mapTask = "due"
    /\ mapTask' = "waiting"
    /\ UNCHANGED <<known, stubs, mapping, oddsTask, priced, injuries, links>>

\* mapping_needs_refresh: the interval, or the backoff, has passed.
MappingIsDue ==
    /\ mapTask = "waiting"
    /\ mapTask' = "due"
    /\ UNCHANGED <<known, stubs, mapping, oddsTask, priced, injuries, links>>

\* persist_prematch_odds for a claimed task; the answer may hold no price
\* that can be read, and may be about a match that is not stored.
StorePrices(m, answered) ==
    /\ oddsTask[m] = "open"
    /\ priced' = priced \cup (answered \cap known)
    /\ oddsTask' = [oddsTask EXCEPT ![m] = "closed"]
    /\ UNCHANGED <<known, stubs, mapping, mapTask, injuries, links>>

\* Mutant: the row of a meeting named twice is inserted twice.
LinkAll(past) == past

\* persist_prediction: a meeting named twice has one row, with its later
\* place.
Link(past) ==
    LET IsLast(i) == \A j \in DOMAIN past : past[j] = past[i] => j <= i
    IN  [i \in {j \in DOMAIN past : IsLast(j)} |-> past[i]]

\* The prediction of a known match: past meetings are stored as matches
\* first, without tasks of their own, and the links are replaced.
StorePrediction(m, past) ==
    /\ m \in known
    /\ known' = known \cup ToSet(past)
    /\ links' = [links EXCEPT ![m] = Link(past)]
    /\ UNCHANGED <<stubs, mapping, mapTask, oddsTask, priced, injuries>>

\* persist_injuries: everybody named is stored, rows only for known matches.
StoreInjuries(rows) ==
    /\ stubs' = stubs \cup {r[2] : r \in rows}
    /\ injuries' = injuries \cup {r \in rows : r[1] \in known}
    /\ UNCHANGED <<known, mapping, mapTask, oddsTask, priced, links>>

Next ==
    \/ \E S \in SUBSET Matches :
          \/ StoreMatches(S) \/ RefreshMapping(S)
          \/ \E m \in Matches : StorePrices(m, S)
    \/ MappingFails \/ MappingIsDue
    \/ \E m \in Matches, past \in SeqOf(Matches, MaxLinks) : StorePrediction(m, past)
    \/ \E rows \in SUBSET (Matches \X Players) : StoreInjuries(rows)

Spec == Init /\ [][Next]_vars

-----------------------------------------------------------------------------
\* Every row finds its match and its player, whatever matches the vendor
\* names before the day lists bring them (the columns are foreign keys).
RowsHaveTheirMatch ==
    /\ mapping \cup priced \subseteq known
    /\ \A m \in Matches : oddsTask[m] # "none" => m \in known
    /\ \A m \in Matches : ToSet(links[m]) \subseteq known
    /\ \A r \in injuries : r[1] \in known /\ r[2] \in stubs

\* A mapped match has its odds task, opened by the mapping or by the list
\* that brought it, also when a prediction brought the match first.
MappedMatchIsAskedFor == \A m \in mapping : oddsTask[m] # "none"

\* A past meeting has one link (the pair of matches is the table's key).
LinksAreKeys == \A m \in Matches : IsInjective(links[m])

\* The rows of a match are whole, whichever answer comes first.
ExtrasAreWhole == RowsHaveTheirMatch /\ MappedMatchIsAskedFor /\ LinksAreKeys
=============================================================================
