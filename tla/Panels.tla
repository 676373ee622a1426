------------------------------- MODULE Panels -------------------------------
(***************************************************************************)
(* The panels that keep state of their own, one at a time.  A frame draws  *)
(* the open panels one after the other; they share nothing but the         *)
(* request/reply connection (connected) and the cache handle, and what     *)
(* another panel may do to these is an action of each part                 *)
(* (EarlierPanelBreaks, LookupOpens).  So which panel is looked at is      *)
(* chosen at the start: "reply" is the decoder any of them runs, "overlay" *)
(* the window drawn after them.                                            *)
(***************************************************************************)
EXTENDS DebugDraw

CONSTANTS
    Pids, NoPid, Methods, HistoryCap,                                 \* RpcConsole
    Invs, Values, None,                                               \* ObjVars
    Types, FirstType, Synthetic, Ids, Caches, NoCache, Listed, GamevalIds, \* CacheBrowser
    Filters, NoFilter, IdHits, NameHits, NameBudget, RowBudget, MaxHistory,
    Bytes, MaxLen, MaxNesting,                                        \* MsgPack
    NoteKeys, RowCap, MaxPayloads,                                    \* TapRows
    MaxActions,                                                       \* ActionHistory
    Windows, NoWindow, Owner                                          \* GameOverlay

ASSUME MethodsAssumption == DOMAIN Methods = Pids /\ \A p \in Pids : Methods[p] \in Seq(STRING)
ASSUME PidAssumption == NoPid \notin Pids
ASSUME HistoryAssumption == HistoryCap \in Nat
ASSUME OwnerAssumption == Owner \in [Windows -> Pids] /\ NoWindow \notin Windows
ASSUME TypesAssumption == FirstType \in Types /\ "none" \notin Types
ASSUME RingAssumption == RowCap \in Nat \ {0} /\ MaxPayloads \in Nat
ASSUME NoneAssumption == None \notin [of : Pids, n : 1..MaxPayloads]
ASSUME ActionsAssumption == MaxActions \in Nat
ASSUME ListsAssumption ==
    Listed \in [Caches \X Types -> Seq(Ids)] /\ GamevalIds \in [Types -> Seq(Ids)]
ASSUME BudgetsAssumption == NameBudget \in Nat /\ RowBudget \in Nat /\ MaxHistory \in Nat
ASSUME BytesAssumption == Bytes \subseteq 0..255 /\ MaxLen \in Nat /\ MaxNesting \in Nat

VARIABLES
    panel,
    attached, linked, lastAttachedPid, names, dirty, cut, selectedIdx, calls,
    mapped, containers, carried, posted, showObjVars, objDirty, objPrimedSeq, at, objVars,
    open, typeIdx, listedType, ids, filter, filterApplied, idsDirty, filtered,
    nameCache, nameIndexing, nameIndexBuilt, nameIndexPos, selectedId, history, histPos, foreign,
    buf, pos, pending, skipped,
    topic, tapPid, tapUp, registered, lastSubscribedPid, paused, kept, annotations, totalReceived,
    selectedRow, detail, sent, slid, latest, missed,
    session, client, executed, arrived, primedSeq, actionRows,
    overlayEnabled, overlayFollowFg, hwnd, gamePid, gameHwnd, shown, elapsed,
    alive, drawable, foreground

Console   == INSTANCE RpcConsole
Inventory == INSTANCE ObjVars WITH attached <- mapped
Browser   == INSTANCE CacheBrowser
Codec     == INSTANCE MsgPack
Pushed    == INSTANCE TapRows
Actions   == INSTANCE ActionHistory WITH rows <- actionRows
Overlay   == INSTANCE GameOverlay
Forms     == INSTANCE DrawParams

drawVars == <<agentVars, listVars, isScopeAll, flagVars, dueVars, lossVars, abortVars, quiet>>
consoleVars == <<attached, linked, lastAttachedPid, names, dirty, cut, selectedIdx, calls>>
inventoryVars == <<mapped, containers, carried, posted, showObjVars, objDirty, objPrimedSeq,
                   at, objVars>>
browserVars == <<open, typeIdx, listedType, ids, filter, filterApplied, idsDirty, filtered,
                 nameCache, nameIndexing, nameIndexBuilt, nameIndexPos, selectedId, history,
                 histPos, foreign>>
codecVars == <<buf, pos, pending, skipped>>
pushedVars == <<topic, tapPid, tapUp, registered, lastSubscribedPid, paused, kept, annotations,
                totalReceived, selectedRow, detail, sent, slid, latest, missed>>
actionVars == <<client, executed, arrived, primedSeq, actionRows>>
overlayVars == <<overlayEnabled, overlayFollowFg, hwnd, gamePid, gameHwnd, shown, elapsed,
                 alive, drawable, foreground>>
firstVars == <<connected, drawVars, consoleVars, inventoryVars, browserVars, codecVars>>
laterVars == <<session, pushedVars, actionVars, overlayVars>>
allVars == <<ui, panel, firstVars, laterVars>>

PanelsInit ==
    /\ panel \in {"draw", "console", "inventory", "browser", "reply", "pushed", "actions", "overlay"}
    /\ Init /\ Console!Init /\ Inventory!Init /\ Browser!Init /\ Codec!Init
    /\ Pushed!Init /\ Actions!Init /\ Overlay!Init
    /\ panel # "pushed" => topic = "rpc.tap"

(***************************************************************************)
(* A step of one panel leaves the others alone.                            *)
(***************************************************************************)
OnlyDraw == panel = "draw"
    /\ UNCHANGED <<panel, consoleVars, inventoryVars, browserVars, codecVars, laterVars>>
OnlyConsole == panel = "console"
    /\ UNCHANGED <<panel, connected, drawVars, inventoryVars, browserVars, codecVars, laterVars>>
OnlyInventory == panel = "inventory"
    /\ UNCHANGED <<panel, drawVars, consoleVars, browserVars, codecVars, laterVars>>
OnlyBrowser == panel = "browser"
    /\ UNCHANGED <<panel, connected, drawVars, consoleVars, inventoryVars, codecVars, laterVars>>
OnlyReply == panel = "reply"
    /\ UNCHANGED <<ui, panel, connected, drawVars, consoleVars, inventoryVars, browserVars, laterVars>>
OnlyPushed == panel = "pushed"
    /\ UNCHANGED <<panel, firstVars, session, actionVars, overlayVars>>
OnlyActions == panel = "actions"
    /\ UNCHANGED <<panel, firstVars, pushedVars, overlayVars>>
OnlyOverlay == panel = "overlay"
    /\ UNCHANGED <<panel, firstVars, pushedVars, actionVars>>

Drawing    == OnlyDraw /\ Next
Calling    == OnlyConsole /\ Console!Next
Inspecting == OnlyInventory /\ Inventory!Next
Browsing   == OnlyBrowser /\ Browser!Next
Decoding   == OnlyReply /\ Codec!Next
Listening  == OnlyPushed /\ Pushed!Next
Recalling  == OnlyActions /\ Actions!Next
Overlaying == OnlyOverlay /\ Overlay!Next

PanelsNext ==
    \/ Drawing \/ Calling \/ Inspecting \/ Browsing \/ Decoding
    \/ Listening \/ Recalling \/ Overlaying

PanelsSpec == PanelsInit /\ [][PanelsNext]_allVars

\* Each part's own fairness, in one formula each as the panel is always the same: frames go
\* on, an open panel is drawn, and its timer runs out.  A frame's step changes its place but
\* for the loops over pages and containers, both of which end.
FrameStep ==
    \/ panel = "draw" /\ Frame
    \/ panel = "console" /\ Console!Next
    \/ panel = "inventory" /\ Inventory!Frame
    \/ panel = "actions" /\ Actions!Frame
    \/ panel = "overlay" /\ Overlay!Frame

DrawnStep ==
    \/ panel = "draw" /\ TrackConnection
    \/ panel = "console" /\ Console!EnsureConnection
    \/ panel = "inventory" /\ Inventory!DrawToolbar

DueStep ==
    \/ panel = "draw" /\ AutoRefresh(TRUE)
    \/ panel = "inventory" /\ Inventory!UpdateObjVars(TRUE)
    \/ panel = "actions" /\ Actions!UpdateActionHistory(TRUE)

PanelsFairness ==
    /\ WF_ui(FrameStep) /\ SF_ui(DrawnStep) /\ SF_ui(DueStep)
    /\ WF_at(panel = "inventory" /\ Inventory!FetchObjVars)
    /\ WF_elapsed(panel = "overlay" /\ Overlay!ThrottleRunsOut)

PanelsFairSpec == PanelsSpec /\ PanelsFairness

(***************************************************************************)
(* Properties: those of DebugDraw, and of the parts.                       *)
(***************************************************************************)
\* Types of every panel's state; the commands drawn never exceed what the agent retains,
\* nor the console's history, the browser's walk, the decoder's stack and the rings of
\* payloads their caps; an overlay that is shown is over a window of its process.
PanelsTypeOK ==
    /\ panel = "draw" => TypeOK
    /\ panel = "console" => Console!TypeOK
    /\ panel = "inventory" => Inventory!TypeOK
    /\ panel = "browser" => Browser!TypeOK
    /\ panel = "reply" => Codec!CodecTypeOK
    /\ panel = "pushed" => Pushed!TypeOK
    /\ panel = "actions" => Actions!TypeOK
    /\ panel = "overlay" => Overlay!TypeOK

\* RpcConsole's ConsoleIsOfOneProcess: what the console shows is of the process it was
\* last matched to (EnsureConnection).
ConsoleIsOfOneProcess == panel = "console" => Console!ConsoleIsOfOneProcess

\* RpcConsole's ListedAtLast: once the agent answers, its methods are listed (RefreshMethodList).
ListedAtLast == Console!ListedAtLast

\* ObjVars' ObjVarsSettle: the variables shown come to be those of the open containers
\* (UpdateObjVars, FetchObjVars).
ObjVarsSettle == Inventory!ObjVarsSettle

\* CacheBrowser's ListIsOfOpenCache: ids and names are of the type shown in the open cache
\* (ReloadIds, DrawCacheOpen).
ListIsOfOpenCache == panel = "browser" => Browser!ListIsOfOpenCache

\* CacheBrowser's RowsAreTheMatches: the rows drawn are those the filter matches, with all
\* names once they are indexed (RecomputeFiltered, PumpNameIndex).
RowsAreTheMatches == panel = "browser" => Browser!RowsAreTheMatches

\* CacheBrowser's ShownIsVisited: the detail shown is where the history stands (Navigate,
\* GoHistory).
ShownIsVisited == panel = "browser" => Browser!ShownIsVisited

\* MsgPack's SkipIsExact: SkipValue stops behind the value's last byte or fails (SkipValue).
SkipIsExact == panel = "reply" => Codec!SkipIsExact

\* TapRows' TapRowsAgree: rows of one process, a detail of the row it was picked from, and
\* annotations that are current unless one came during a pause (OnTap, OnPayload,
\* EnsureSubscription).
TapRowsAgree == panel = "pushed" => Pushed!TapRowsAgree

\* ActionHistory's HistorySettles: the rows come to be the log of the process attached to
\* (UpdateActionHistory, FetchActionHistory).
HistorySettles == Actions!HistorySettles

\* GameOverlay's OverlayAppears: the overlay comes to lie over the game's window
\* (UpdateTracking, ResolveGameWindow).
OverlayAppears == Overlay!OverlayAppears
=============================================================================
