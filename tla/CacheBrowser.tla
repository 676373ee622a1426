---------------------------- MODULE CacheBrowser ----------------------------
(***************************************************************************)
(* The Cache Browser: the ids of one config type, filtered by id or name,  *)
(* a detail pane with links to other entries, and a history to walk back   *)
(* along.                                                                  *)
(*                                                                         *)
(* Names cost a decode each, so they are resolved on a budget: for the     *)
(* rows in view, or for all ids over several frames.  The list, the names  *)
(* and the filtered rows are memos of the open cache, which the Cache      *)
(* lookup panel shares and may replace.                                    *)
(***************************************************************************)
EXTENDS Integers, Sequences, FiniteSets

CONSTANTS
    Types, FirstType,       \* kBrowseTypes
    Synthetic,              \* the types that list nothing (varp)
    Ids,
    Caches, NoCache,
    Listed,                 \* nxt_list_type_ids: <<cache, type>> -> sequence of ids
    GamevalIds,             \* type -> the bundled ids
    Filters, NoFilter,      \* texts of the filter box
    IdHits, NameHits,       \* what they match: {<<filter, id>>}, {<<filter, cache, type, id>>}
    NameBudget, RowBudget,  \* 512 and 96: names decoded in one frame
    MaxHistory              \* bound: targets visited (the code has none)

VARIABLES
    ui,                         \* place in the frame
    open,                       \* App::cache
    typeIdx, listedType, ids,
    filter, filterApplied, idsDirty, filtered,
    nameCache,                  \* id -> <<cache, type>> its name was decoded from
    nameIndexing, nameIndexBuilt, nameIndexPos,
    selectedId, history, histPos,
    foreign                     \* history: another panel opened a cache since the list was loaded

listVars == <<listedType, ids, nameCache, nameIndexing, nameIndexBuilt, nameIndexPos, foreign>>
rowVars  == <<filter, filterApplied, filtered>>
walkVars == <<history, histPos>>
ownVars == <<open, typeIdx, listVars, rowVars, idsDirty, selectedId, walkVars>>
vars == <<ui, ownVars>>

NoId == -1
NoType == "none"
Targets == Types \X Ids

Rng(s) == {s[i] : i \in DOMAIN s}

TypeOK ==
    /\ ui \in {"update", "open", "begin", "combo", "varp", "filter", "rows", "right"}
    /\ open \in Caches \cup {NoCache}
    /\ typeIdx \in Types /\ listedType \in Types \cup {NoType}
    /\ ids \in Seq(Ids) /\ filtered \in Seq(Ids)
    /\ filter \in Filters \cup {NoFilter} /\ filterApplied \in Filters \cup {NoFilter}
    /\ DOMAIN nameCache \subseteq Ids /\ Rng(nameCache) \subseteq Caches \X Types
    /\ \A b \in {idsDirty, nameIndexing, nameIndexBuilt, foreign} : b \in BOOLEAN
    /\ nameIndexPos \in 0..Len(ids)
    /\ selectedId \in Ids \cup {NoId}
    /\ history \in Seq(Targets) /\ Len(history) <= MaxHistory /\ histPos \in 0..Len(history)

Init ==
    /\ ui = "update" /\ open = NoCache
    /\ typeIdx = FirstType /\ listedType = NoType
    /\ ids = << >> /\ filtered = << >> /\ filter = NoFilter /\ filterApplied = NoFilter
    /\ nameCache = [i \in {} |-> << >>]
    /\ idsDirty = TRUE /\ nameIndexing = FALSE /\ nameIndexBuilt = FALSE /\ nameIndexPos = 0
    /\ foreign = FALSE
    /\ selectedId = NoId /\ history = << >> /\ histPos = 0

(***************************************************************************)
(* The list.                                                               *)
(***************************************************************************)
\* What the cache lists, else the bundled ids.
IdsOf(c, t) ==
    IF t \in Synthetic THEN << >>
    ELSE IF c # NoCache /\ Listed[<<c, t>>] # << >> THEN Listed[<<c, t>>] ELSE GamevalIds[t]

ReloadIds(t) ==
    /\ typeIdx' = t /\ listedType' = t
    /\ ids' = IdsOf(open, t)
    /\ nameCache' = [i \in {} |-> << >>]
    /\ nameIndexing' = FALSE /\ nameIndexBuilt' = FALSE /\ nameIndexPos' = 0
    /\ idsDirty' = TRUE
    /\ foreign' = FALSE

\* A name is decoded once, from the cache open then, under the type shown then.
Resolve(set) ==
    nameCache' = [i \in DOMAIN nameCache \cup set |->
                     IF i \in DOMAIN nameCache THEN nameCache[i] ELSE <<open, typeIdx>>]

RowMatches(f, names, i) ==
    \/ f = NoFilter
    \/ <<f, i>> \in IdHits
    \/ i \in DOMAIN names /\ <<f, names[i][1], names[i][2], i>> \in NameHits

\* Where PumpNameIndex stops: at the end, or when the budget is spent on new names.
PumpStop ==
    LET new(p) == {ids[i] : i \in (nameIndexPos + 1)..p} \ DOMAIN nameCache
        stops == {p \in nameIndexPos..Len(ids) :
                     p = Len(ids) \/ Cardinality(new(p)) = NameBudget}
    IN  CHOOSE p \in stops : \A q \in stops : p <= q

\* Fault: the rows are not matched again when the last names are in.
PumpNameIndexQuiet ==
    /\ nameIndexing
    /\ nameIndexPos' = PumpStop
    /\ Resolve({ids[i] : i \in (nameIndexPos + 1)..PumpStop})
    /\ nameIndexing' = (PumpStop < Len(ids))
    /\ nameIndexBuilt' = (PumpStop = Len(ids))
    /\ UNCHANGED <<idsDirty, typeIdx, listedType, ids, foreign>>

PumpNameIndex ==
    /\ nameIndexing
    /\ nameIndexPos' = PumpStop
    /\ Resolve({ids[i] : i \in (nameIndexPos + 1)..PumpStop})
    /\ nameIndexing' = (PumpStop < Len(ids))
    /\ nameIndexBuilt' = (PumpStop = Len(ids))
    /\ idsDirty' = (idsDirty \/ PumpStop = Len(ids))
    /\ UNCHANGED <<typeIdx, listedType, ids, foreign>>

(***************************************************************************)
(* Selection and history.                                                  *)
(***************************************************************************)
Load(t, id) ==
    /\ selectedId' = id
    /\ IF t # typeIdx \/ t # listedType THEN ReloadIds(t)
       ELSE UNCHANGED <<typeIdx, listVars, idsDirty>>

Navigate(t, id) ==
    /\ histPos < MaxHistory
    /\ Load(t, id)
    /\ history' = SubSeq(history, 1, histPos) \o <<<<t, id>>>>
    /\ histPos' = histPos + 1

GoHistory(delta) ==
    /\ histPos + delta \in DOMAIN history
    /\ histPos' = histPos + delta
    /\ Load(history[histPos'][1], history[histPos'][2])
    /\ UNCHANGED history

(***************************************************************************)
(* One frame.                                                              *)
(***************************************************************************)
\* The Cache lookup panel's Open, on the handle both share; it may fail.
LookupOpens ==
    /\ ui = "update" /\ open' \in Caches \cup {NoCache}
    /\ foreign' = TRUE
    /\ UNCHANGED <<ui, typeIdx, listedType, ids, nameCache, nameIndexing, nameIndexBuilt,
                   nameIndexPos, rowVars, idsDirty, selectedId, walkVars>>

BeginWindow ==
    /\ ui = "update" /\ ui' = "open"
    /\ UNCHANGED ownVars

\* Fault: the list of the cache before is kept.
DrawCacheOpenKeeps ==
    /\ ui = "open"
    /\ open' \in Caches \cup {NoCache}
    /\ ui' = IF open' = NoCache THEN "update" ELSE "begin"
    /\ UNCHANGED <<listedType, typeIdx, ids, nameCache, nameIndexing, nameIndexBuilt, nameIndexPos, foreign,
                   rowVars, idsDirty, selectedId, walkVars>>

DrawCacheOpen ==
    /\ ui = "open"
    /\ \/ UNCHANGED <<open, listedType>>
       \/ open' \in Caches \cup {NoCache} /\ listedType' = NoType           \* Open, Reopen
    /\ ui' = IF open' = NoCache THEN "update" ELSE "begin"
    /\ UNCHANGED <<typeIdx, ids, nameCache, nameIndexing, nameIndexBuilt, nameIndexPos, foreign,
                   rowVars, idsDirty, selectedId, walkVars>>

DrawCacheBrowser ==
    /\ ui = "begin" /\ ui' \in {"combo", "right"}             \* the list card may be collapsed
    /\ IF listedType # typeIdx THEN ReloadIds(typeIdx)
       ELSE IF nameIndexing THEN PumpNameIndex
       ELSE UNCHANGED <<typeIdx, listVars, idsDirty>>
    /\ UNCHANGED <<open, rowVars, selectedId, walkVars>>

\* Fault: what was selected under the type before stays selected.
DrawTypeComboKeeps ==
    /\ ui = "combo"
    /\ \/ \E t \in Types \ {typeIdx} : ReloadIds(t) /\ UNCHANGED selectedId
       \/ UNCHANGED <<typeIdx, listVars, idsDirty, selectedId>>
    /\ ui' = IF typeIdx' \in Synthetic THEN "varp" ELSE "filter"
    /\ UNCHANGED <<open, rowVars, walkVars>>

DrawTypeCombo ==
    /\ ui = "combo"
    /\ \/ \E t \in Types \ {typeIdx} : ReloadIds(t) /\ selectedId' = NoId
       \/ UNCHANGED <<typeIdx, listVars, idsDirty, selectedId>>
    /\ ui' = IF typeIdx' \in Synthetic THEN "varp" ELSE "filter"
    /\ UNCHANGED <<open, rowVars, walkVars>>

DrawSyntheticVarpEntry ==
    /\ ui = "varp" /\ ui' = "right"
    /\ \/ \E id \in Ids : Navigate(typeIdx, id)
       \/ UNCHANGED <<typeIdx, listVars, idsDirty, selectedId, walkVars>>
    /\ UNCHANGED <<open, rowVars>>

\* "Index names for search".
DrawNameIndexControl ==
    \/ /\ ~nameIndexing /\ ~nameIndexBuilt /\ ids # << >>
       /\ nameIndexing' = TRUE /\ nameIndexPos' = 0
    \/ UNCHANGED <<nameIndexing, nameIndexPos>>

\* The ids the filter matches, in the list's order.
Matching(f) ==
    LET Kept[n \in 0..Len(ids)] ==
            IF n = 0 THEN << >>
            ELSE IF RowMatches(f, nameCache, ids[n]) THEN Append(Kept[n - 1], ids[n]) ELSE Kept[n - 1]
    IN  Kept[Len(ids)]

RecomputeFiltered ==
    IF idsDirty \/ filterApplied # filter' \/ nameIndexing'
    THEN filtered' = Matching(filter') /\ filterApplied' = filter' /\ idsDirty' = FALSE
    ELSE UNCHANGED <<filtered, filterApplied, idsDirty>>

DrawFilter ==
    /\ ui = "filter" /\ ui' = "rows"
    /\ filter' \in Filters \cup {NoFilter}
    /\ DrawNameIndexControl
    /\ RecomputeFiltered
    /\ UNCHANGED <<open, typeIdx, listedType, ids, nameCache, nameIndexBuilt, foreign,
                   selectedId, walkVars>>

\* The rows in view get their names as far as the budget goes; one may be clicked.
DrawIdRows ==
    /\ ui = "rows" /\ ui' = "right"
    /\ \E view \in SUBSET (Rng(filtered) \ DOMAIN nameCache) :
          Cardinality(view) <= RowBudget /\ Resolve(view)
    /\ \/ \E id \in Rng(filtered) :
             /\ histPos < MaxHistory
             /\ selectedId' = id
             /\ history' = SubSeq(history, 1, histPos) \o <<<<typeIdx, id>>>>
             /\ histPos' = histPos + 1
       \/ UNCHANGED <<selectedId, walkVars>>
    /\ UNCHANGED <<open, typeIdx, listedType, ids, nameIndexing, nameIndexBuilt, nameIndexPos,
                   foreign, rowVars, idsDirty>>

\* A field, a list item, a param or a varbit that names another entry.
FollowLink == \E target \in Targets : Navigate(target[1], target[2])

DrawDetailToolbar == \E delta \in {-1, 1} : GoHistory(delta)

\* The first click ends the frame here.  (In the code the walk over the fields goes on in a
\* detail that Load has replaced.)
DrawRightPane ==
    /\ ui = "right" /\ ui' = "update"
    /\ \/ selectedId # NoId /\ (DrawDetailToolbar \/ FollowLink)
       \/ UNCHANGED <<typeIdx, listVars, idsDirty, selectedId, walkVars>>
    /\ UNCHANGED <<open, rowVars>>

Frame ==
    \/ BeginWindow \/ DrawCacheOpen \/ DrawCacheBrowser \/ DrawTypeCombo
    \/ DrawSyntheticVarpEntry \/ DrawFilter \/ DrawIdRows \/ DrawRightPane

Next == LookupOpens \/ Frame

Spec == Init /\ [][Next]_vars

(***************************************************************************)
(* Properties.                                                             *)
(***************************************************************************)
\* The ids listed and the names matched are those of the type shown in the cache that is
\* open, whatever was opened, linked to or walked back to in between (ReloadIds, Load,
\* DrawCacheOpen) - unless the other panel opened it: foreign.
ListIsOfOpenCache ==
    ui \in {"filter", "rows"} /\ ~foreign =>
        /\ listedType = typeIdx /\ ids = IdsOf(open, typeIdx)
        /\ \A i \in DOMAIN nameCache : nameCache[i] = <<open, typeIdx>>

\* The rows drawn are exactly those the filter matches with the names known now, and once
\* the names are indexed no id is without one: the index ended in an earlier frame, was
\* cut off by a change of type, or was started again (RecomputeFiltered, PumpNameIndex).
RowsAreTheMatches ==
    ui = "rows" =>
        /\ filtered = Matching(filter)
        /\ nameIndexBuilt => Rng(ids) \subseteq DOMAIN nameCache

\* What the detail pane shows is where the history stands, so Back leaves it for the entry
\* before and Forward returns (Navigate, GoHistory, DrawTypeCombo).
ShownIsVisited ==
    selectedId # NoId => histPos \in DOMAIN history /\ history[histPos] = <<typeIdx, selectedId>>
=============================================================================
