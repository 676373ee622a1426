----------------------------- MODULE DebugDraw -----------------------------
(***************************************************************************)
(* The Debug Draw panel: a hand driver and a viewer for the agent's        *)
(* retained drawing store, over the request/reply client all panels share. *)
(*                                                                         *)
(* Commands belong to the connection that set them: the agent drops them   *)
(* when it closes.  The panel polls the store page by page, so what other  *)
(* clients draw meanwhile may be torn between pages; it draws what the     *)
(* poll read, and after that takes at most one click a frame.              *)
(*                                                                         *)
(* A call is one step: it blocks the UI thread.  Its outcomes are those of *)
(* RpcClient::Call: a result, a handler error, a reply that cannot be      *)
(* used, or a broken or late pipe, which closes the connection.            *)
(***************************************************************************)
EXTENDS Integers, Sequences

CONSTANTS
    Keys,        \* names this panel draws under
    OtherKeys,   \* names other clients draw under
    MaxCmds,     \* kMaxDrawCmds (512): commands the agent retains
    PageMax,     \* kListPageMax (128): rows of one list reply
    PageBudget   \* the 4 pages RefreshList asks for at most

ASSUME CapAssumption == MaxCmds \in Nat \ {0}
ASSUME PageAssumption == PageMax \in Nat \ {0} /\ PageBudget \in Nat \ {0}
ASSUME BudgetAssumption == MaxCmds <= PageMax * PageBudget     \* 512 = 4 * 128

VARIABLES
    ui,                              \* place in the frame
    connected,                       \* App::rpc holds a pipe
    mine, others, enabled,           \* agent: our commands, other clients', overlay flag
    rows, total, page, listError,    \* the list: rows decoded, "total", pages read
    isScopeAll, forceRefresh,
    isEnabled, hasReadEnabled, forceStats, statsDue,
    wasConnected, drew,              \* setsIssued > 0
    didLoseDrawings, didBatchAbort,
    quiet,       \* history: a refresh ran in this frame and nothing disturbed it
    readSince    \* history: a refresh began after the last batch that aborted

agentVars == <<mine, others, enabled>>
listVars  == <<rows, total, page, listError>>
flagVars  == <<isEnabled, hasReadEnabled>>
dueVars   == <<forceRefresh, forceStats, statsDue>>
lossVars  == <<wasConnected, drew, didLoseDrawings>>
abortVars == <<didBatchAbort, readSince>>
ownVars == <<connected, agentVars, listVars, isScopeAll, flagVars, dueVars,
             lossVars, abortVars, quiet>>
vars == <<ui, ownVars>>

Places == {"update", "panel", "auto", "list", "stats", "draw"}

Used == Len(mine) + Len(others)

\* What debug_draw_list walks: the whole store, or what this connection owns.
Listing == IF isScopeAll THEN mine \o others ELSE mine

StoreOK == mine \in Seq(Keys) /\ others \in Seq(OtherKeys) /\ Used <= MaxCmds

ListOK == rows \in Seq(Keys \cup OtherKeys) /\ total \in 0..MaxCmds /\ page \in 0..PageBudget

PlaceOK == ui \in Places /\ connected \in BOOLEAN /\ enabled \in BOOLEAN /\ quiet \in BOOLEAN

ShownOK ==
    /\ listError \in BOOLEAN /\ isScopeAll \in BOOLEAN
    /\ isEnabled \in BOOLEAN /\ hasReadEnabled \in BOOLEAN

DueOK == forceRefresh \in BOOLEAN /\ forceStats \in BOOLEAN /\ statsDue \in BOOLEAN

LossOK ==
    /\ wasConnected \in BOOLEAN /\ drew \in BOOLEAN /\ didLoseDrawings \in BOOLEAN
    /\ didBatchAbort \in BOOLEAN /\ readSince \in BOOLEAN

TypeOK == StoreOK /\ ListOK /\ PlaceOK /\ ShownOK /\ DueOK /\ LossOK

Init ==
    /\ ui = "update" /\ connected = FALSE
    /\ mine = << >> /\ others = << >> /\ enabled = TRUE
    /\ rows = << >> /\ total = 0 /\ page = 0 /\ listError = FALSE
    /\ isScopeAll = TRUE /\ forceRefresh = TRUE
    /\ isEnabled = FALSE /\ hasReadEnabled = FALSE
    /\ forceStats = TRUE /\ statsDue = FALSE
    /\ wasConnected = FALSE /\ drew = FALSE /\ didLoseDrawings = FALSE
    /\ didBatchAbort = FALSE /\ readSince = FALSE
    /\ quiet = FALSE

(***************************************************************************)
(* The agent's store (external).                                           *)
(***************************************************************************)
Has(s, k) == \E i \in DOMAIN s : s[i] = k

\* Setting a key again replaces its command; a full store refuses a new one.
SetKey(s, k) == IF Has(s, k) \/ Len(s) + Len(others) >= MaxCmds THEN s ELSE Append(s, k)

Without(s, i) == SubSeq(s, 1, i - 1) \o SubSeq(s, i + 1, Len(s))

\* The connection closes: the agent drops what was drawn through it.
DropMine == mine' = << >>

OthersChange ==
    \/ \E k \in OtherKeys : Used < MaxCmds /\ others' = Append(others, k) /\ UNCHANGED <<mine, enabled>>
    \/ \E i \in DOMAIN others : others' = Without(others, i) /\ UNCHANGED <<mine, enabled>>
    \/ \E i \in DOMAIN mine : mine' = Without(mine, i) /\ UNCHANGED <<others, enabled>>  \* ttl
    \/ enabled' = ~enabled /\ UNCHANGED <<mine, others>>

\* Other clients draw, clear and toggle, and time to live runs out, between any two calls.
AgentChanges ==
    /\ OthersChange
    /\ quiet' = FALSE
    /\ UNCHANGED <<ui, connected, listVars, isScopeAll, flagVars, dueVars, lossVars, abortVars>>

(***************************************************************************)
(* RpcClient::Call.  A call that breaks or times out closes the pipe.      *)
(***************************************************************************)
Breaks == connected /\ connected' = FALSE /\ DropMine

\* A refusal, or a call without a connection.
Stays == UNCHANGED <<connected, mine>>

(***************************************************************************)
(* App::UpdateRpcConnection, before the panels: an attach to another       *)
(* process closes and connects in one go, a lost connection is retried.    *)
(***************************************************************************)
KeepConnection ==
    /\ connected /\ UNCHANGED <<connected, agentVars>>

Reconnect ==
    /\ ~connected /\ connected' \in BOOLEAN
    /\ UNCHANGED agentVars

AttachElsewhere ==
    /\ DropMine /\ others' = << >> /\ enabled' \in BOOLEAN
    /\ connected' \in BOOLEAN

UpdateConnection ==
    /\ ui = "update" /\ ui' = "panel"
    /\ KeepConnection \/ Reconnect \/ AttachElsewhere
    /\ quiet' = FALSE
    /\ UNCHANGED <<listVars, isScopeAll, flagVars, dueVars, wasConnected, drew,
                   didLoseDrawings, abortVars>>

(***************************************************************************)
(* DrawDebugDraw.  A closed or collapsed panel does nothing; a drawn one   *)
(* looks at the connection first.                                          *)
(***************************************************************************)
Hidden ==
    /\ ui = "panel" /\ ui' = "update"
    /\ UNCHANGED <<connected, agentVars, listVars, isScopeAll, flagVars, dueVars,
                   lossVars, abortVars, quiet>>

\* The panels drawn before it share the client: a call of theirs may break the pipe.
EarlierPanelBreaks ==
    /\ ui = "panel" /\ Breaks /\ quiet' = FALSE
    /\ UNCHANGED <<ui, others, enabled, listVars, isScopeAll, flagVars, dueVars, wasConnected, drew,
                   didLoseDrawings, abortVars>>

TrackConnection ==
    /\ ui = "panel" /\ ui' = "auto"
    /\ didLoseDrawings' = (didLoseDrawings \/ (wasConnected /\ ~connected /\ drew))
    /\ IF ~wasConnected /\ connected
       THEN /\ drew' = FALSE /\ forceRefresh' = TRUE /\ forceStats' = TRUE
            /\ hasReadEnabled' = FALSE /\ didBatchAbort' = FALSE
       ELSE UNCHANGED <<drew, forceRefresh, forceStats, hasReadEnabled, didBatchAbort>>
    /\ wasConnected' = connected
    /\ UNCHANGED <<connected, agentVars, listVars, isScopeAll, isEnabled,
                   statsDue, readSince, quiet>>

(***************************************************************************)
(* AutoRefresh: what is due now, then the list page by page, then stats.   *)
(***************************************************************************)
\* Fault: the timer does not run.
AutoRefreshForced(due) ==
    /\ ui = "auto"
    /\ due = forceRefresh
    /\ forceRefresh' = FALSE /\ forceStats' = FALSE
    /\ statsDue' = (due \/ forceStats)
    /\ IF due /\ connected
       THEN /\ rows' = << >> /\ total' = 0 /\ page' = 0 /\ listError' = FALSE
            /\ quiet' = TRUE /\ readSince' = TRUE /\ ui' = "list"
       ELSE /\ UNCHANGED <<listVars, quiet, readSince>> /\ ui' = "stats"
    /\ UNCHANGED <<connected, agentVars, isScopeAll, flagVars, lossVars, didBatchAbort>>

AutoRefresh(due) ==
    /\ ui = "auto"
    /\ due = forceRefresh \/ (due /\ connected)        \* the timer runs while connected
    /\ forceRefresh' = FALSE /\ forceStats' = FALSE
    /\ statsDue' = (due \/ forceStats)
    /\ IF due /\ connected
       THEN /\ rows' = << >> /\ total' = 0 /\ page' = 0 /\ listError' = FALSE
            /\ quiet' = TRUE /\ readSince' = TRUE /\ ui' = "list"
       ELSE /\ UNCHANGED <<listVars, quiet, readSince>> /\ ui' = "stats"
    /\ UNCHANGED <<connected, agentVars, isScopeAll, flagVars, lossVars, didBatchAbort>>

\* The page debug_draw_list answers from an offset.
PageFrom(offset) ==
    SubSeq(Listing, offset + 1,
           IF offset + PageMax < Len(Listing) THEN offset + PageMax ELSE Len(Listing))

ListDone == ui' = "stats" /\ page' = 0

\* Fault: the offset of the first page is sent again.
PageReadFirst ==
    /\ LET items == PageFrom(0)
       IN  /\ rows' = rows \o items
           /\ total' = Len(Listing)
           /\ IF items # << >> /\ Len(rows') < total' /\ page + 1 < PageBudget
              THEN ui' = "list" /\ page' = page + 1 ELSE ListDone
    /\ Stays /\ UNCHANGED listError

PageRead ==
    /\ LET items == PageFrom(Len(rows))
       IN  /\ rows' = rows \o items
           /\ total' = Len(Listing)
           /\ IF items # << >> /\ Len(rows') < total' /\ page + 1 < PageBudget
              THEN ui' = "list" /\ page' = page + 1 ELSE ListDone
    /\ Stays /\ UNCHANGED listError

\* A reply with a malformed item keeps the items before it; the fields come in any order.
PageMalformed ==
    /\ \E n \in 0..Len(PageFrom(Len(rows))) :
          rows' = rows \o SubSeq(PageFrom(Len(rows)), 1, n)
    /\ total' \in {total, Len(Listing)}
    /\ listError' = TRUE /\ ListDone
    /\ Stays

PageRefused ==
    /\ Stays \/ Breaks
    /\ listError' = TRUE /\ ListDone
    /\ UNCHANGED <<rows, total>>

FetchListPage ==
    /\ ui = "list"
    /\ PageRead \/ PageMalformed \/ PageRefused
    /\ UNCHANGED <<others, enabled, isScopeAll, flagVars, dueVars, wasConnected, drew, didLoseDrawings,
                   abortVars, quiet>>

\* debug_draw_stats carries the overlay flag.
StatsRead ==
    /\ connected
    /\ isEnabled' = enabled /\ hasReadEnabled' = TRUE
    /\ Stays

StatsFail == (Stays \/ Breaks) /\ UNCHANGED flagVars

RefreshStats ==
    /\ ui = "stats" /\ ui' = "draw"
    /\ IF statsDue /\ connected THEN StatsRead \/ StatsFail ELSE Stays /\ UNCHANGED flagVars
    /\ statsDue' = FALSE /\ quiet' = FALSE
    /\ UNCHANGED <<others, enabled, listVars, isScopeAll, forceRefresh, forceStats,
                   wasConnected, drew, didLoseDrawings, abortVars>>

(***************************************************************************)
(* The header: scope, Refresh, the overlay toggle, Dismiss.                *)
(***************************************************************************)
Click == ui = "draw" /\ ui' = "update" /\ UNCHANGED quiet

NoClick ==
    /\ Click
    /\ UNCHANGED <<connected, agentVars, listVars, isScopeAll, flagVars, dueVars,
                   lossVars, abortVars>>

ClickRefresh ==
    /\ Click /\ isScopeAll' \in BOOLEAN /\ forceRefresh' = TRUE     \* the combo or the button
    /\ UNCHANGED <<connected, agentVars, listVars, flagVars, forceStats, statsDue,
                   lossVars, abortVars>>

Dismiss ==
    /\ Click /\ connected
    /\ \/ didLoseDrawings' = FALSE /\ UNCHANGED didBatchAbort
       \/ didBatchAbort' = FALSE /\ UNCHANGED didLoseDrawings
    /\ UNCHANGED <<connected, agentVars, listVars, isScopeAll, flagVars, dueVars,
                   wasConnected, drew, readSince>>

EnableTaken ==
    /\ connected /\ Stays
    /\ isEnabled' = ~isEnabled
    /\ enabled' = isEnabled'

\* A failed write is reverted; the agent may have carried it out.
EnableFails ==
    /\ Stays \/ Breaks
    /\ enabled' \in {enabled} \cup (IF connected THEN {~isEnabled} ELSE {})
    /\ UNCHANGED isEnabled

Toggle ==
    /\ Click
    /\ EnableTaken \/ EnableFails
    /\ forceStats' = TRUE
    /\ UNCHANGED <<others, hasReadEnabled, listVars, isScopeAll, forceRefresh, statsDue,
                   wasConnected, drew, didLoseDrawings, abortVars>>

(***************************************************************************)
(* The store card: Clear selected, Clear all.  Only our own commands go    *)
(* unless every connection's are asked for.                                *)
(***************************************************************************)
Clear ==
    /\ Click
    /\ \/ /\ connected
          /\ \/ \E i \in DOMAIN mine : mine' = Without(mine, i) /\ UNCHANGED others
             \/ mine' = << >> /\ others' \in {others, << >>}
          /\ UNCHANGED connected
       \/ (Stays \/ Breaks) /\ UNCHANGED others
    /\ forceRefresh' = TRUE
    /\ UNCHANGED <<enabled, listVars, isScopeAll, flagVars, forceStats, statsDue,
                   wasConnected, drew, didLoseDrawings, abortVars>>

(***************************************************************************)
(* The drive tabs.  The buttons that draw are disabled without a           *)
(* connection.                                                             *)
(***************************************************************************)
Drawn == drew' = TRUE /\ UNCHANGED <<wasConnected, didLoseDrawings>>

\* debug_draw_set and the four highlight calls.
Send ==
    /\ Click /\ connected
    /\ \/ \E k \in Keys : mine' = SetKey(mine, k) /\ UNCHANGED connected
       \/ Stays \/ Breaks
    /\ Drawn /\ forceRefresh' = TRUE
    /\ UNCHANGED <<others, enabled, listVars, isScopeAll, flagVars, forceStats, statsDue, abortVars>>

BatchDone ==
    /\ \E k, l \in Keys : mine' = SetKey(SetKey(mine, k), l)
    /\ didBatchAbort' = FALSE
    /\ UNCHANGED <<connected, readSince>>

\* The items before the bad one are applied.
BatchAborts ==
    /\ \E k \in Keys : mine' \in {mine, SetKey(mine, k)}
    /\ didBatchAbort' = TRUE /\ readSince' = FALSE
    /\ UNCHANGED connected

BatchFails == (Stays \/ Breaks) /\ didBatchAbort' = FALSE /\ UNCHANGED readSince

\* Too large for the buffer it is encoded in: nothing is sent.
BatchUnsent ==
    Stays /\ didBatchAbort' = FALSE /\ UNCHANGED <<lossVars, readSince>>

BatchSent == (BatchDone \/ BatchAborts \/ BatchFails) /\ Drawn

\* Fault: the store is not read again after a batch.
SendBatchBlind ==
    /\ Click /\ connected
    /\ BatchUnsent \/ BatchSent
    /\ UNCHANGED <<others, enabled, listVars, isScopeAll, flagVars, dueVars>>

SendBatch ==
    /\ Click /\ connected
    /\ BatchUnsent \/ BatchSent
    /\ forceRefresh' = TRUE
    /\ UNCHANGED <<others, enabled, listVars, isScopeAll, flagVars, forceStats, statsDue>>

\* debug_draw_probe_pixels changes nothing here; it may break the pipe.
SendProbe ==
    /\ Click /\ Breaks
    /\ UNCHANGED <<others, enabled, listVars, isScopeAll, flagVars, dueVars, wasConnected,
                   drew, didLoseDrawings, abortVars>>

ClickStats ==
    /\ Click /\ connected
    /\ StatsRead \/ StatsFail
    /\ UNCHANGED <<others, enabled, listVars, isScopeAll, dueVars, wasConnected, drew,
                   didLoseDrawings, abortVars>>

(***************************************************************************)
(* The specification.                                                      *)
(***************************************************************************)
DrawPanel ==
    \/ TrackConnection
    \/ \E due \in BOOLEAN : AutoRefresh(due)
    \/ FetchListPage \/ RefreshStats
    \/ NoClick \/ ClickRefresh \/ Dismiss \/ Toggle \/ Clear
    \/ Send \/ SendBatch \/ SendProbe \/ ClickStats

Frame == UpdateConnection \/ Hidden \/ EarlierPanelBreaks \/ DrawPanel

Next == AgentChanges \/ Frame

Spec == Init /\ [][Next]_vars

\* Frames go on; a panel that is drawn over and over has its timer fire.
Fairness == WF_vars(Frame) /\ SF_vars(TrackConnection) /\ SF_vars(AutoRefresh(TRUE))

FairSpec == Spec /\ Fairness

(***************************************************************************)
(* Properties.                                                             *)
(***************************************************************************)
\* A refresh of all pages that nothing disturbed leaves the table showing the store:
\* every command once, in order, and as many as "total" says (RefreshList's page walk).
QuietListIsWhole ==
    ui = "stats" /\ quiet /\ ~listError => rows = Listing /\ total = Len(rows)

\* While the banner says that a batch aborted and that the table below is a fresh read,
\* the table holds nothing read before that batch (SendBatch, AutoRefresh, DrawBanners).
AbortTableIsFresh == ui = "draw" /\ connected /\ didBatchAbort => readSince

\* Nothing is drawn, cleared or toggled, and calls succeed.
Calm == UNCHANGED <<agentVars, isScopeAll>> /\ ~listError' /\ (connected => connected')

StatsAnswer == ui = "stats" /\ statsDue /\ connected => StatsRead

\* When the store no longer changes and the agent answers, the panel comes to show the
\* store and the overlay flag as they are, also after a silent cycle of the connection.  The
\* timer runs out again and again, as it does while the box "auto-refresh" stays ticked.
StoreSettles ==
    <>[][Calm /\ StatsAnswer]_vars /\ []<>connected
        => <>[](ui = "draw" => rows = Listing /\ isEnabled = enabled)
=============================================================================
