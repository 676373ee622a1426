---------------------------- MODULE PanelsProofs ----------------------------
(***************************************************************************)
(* Theorems about the panels: the Debug Draw panel for any keys and any    *)
(* caps of the store and the pages, its forms for every number they hold,  *)
(* the decoder for any buffer and any nesting, and the others for any      *)
(* processes, methods, caches, lists, payloads and windows.                *)
(***************************************************************************)
EXTENDS Panels, DrawParams, FiniteSets, SequenceTheorems, WellFoundedInduction, TLAPS

AllKeys == Keys \cup OtherKeys

(***************************************************************************)
(* The strengthening.                                                      *)
(***************************************************************************)
\* After an aborted batch a refresh is due, unless the connection has gone since and
\* the panel will note that first.
AbortInv ==
    /\ ui = "auto" => wasConnected = connected
    /\ ui \in {"list", "stats", "draw"} => ~forceRefresh /\ (connected => wasConnected)
    /\ didBatchAbort /\ ~readSince => forceRefresh \/ ~wasConnected

\* Between two pages of an undisturbed refresh: full pages so far, in step with the
\* store, and more to come.
PagesInv ==
    /\ quiet => ui \in {"list", "stats"}
    /\ ui = "list" => page < PageBudget /\ ~listError
    /\ ui = "list" /\ quiet =>
           /\ Len(rows) = page * PageMax
           /\ Len(rows) <= Len(Listing)
           /\ rows = SubSeq(Listing, 1, Len(rows))

IInv == TypeOK /\ AbortInv /\ PagesInv /\ QuietListIsWhole

(***************************************************************************)
(* The agent's sequences.                                                  *)
(***************************************************************************)
\* A command set again keeps the store within its cap.
LEMMA SetKeyFits ==
    ASSUME NEW s \in Seq(Keys), NEW k \in Keys, StoreOK, Len(s) + Len(others) <= MaxCmds
    PROVE  SetKey(s, k) \in Seq(Keys) /\ Len(SetKey(s, k)) + Len(others) <= MaxCmds
<1> USE CapAssumption DEF StoreOK
<1>1. Append(s, k) \in Seq(Keys) /\ Len(Append(s, k)) = Len(s) + 1
  BY AppendProperties
<1>2. Len(s) \in Nat /\ Len(others) \in Nat
  BY LenProperties
<1> QED
  BY <1>1, <1>2 DEF SetKey

\* A command removed leaves a shorter sequence of the same commands.
LEMMA WithoutFits ==
    ASSUME NEW S, NEW s \in Seq(S), NEW i \in DOMAIN s
    PROVE  Without(s, i) \in Seq(S) /\ Len(Without(s, i)) <= Len(s)
<1>1. Len(s) \in Nat /\ DOMAIN s = 1..Len(s) /\ i \in 1..Len(s)
  BY LenProperties
<1>2. \A n \in 1..Len(s) : s[n] \in S
  BY ElementOfSeq
<1>3. /\ SubSeq(s, 1, i - 1) \in Seq(S)
      /\ Len(SubSeq(s, 1, i - 1)) = IF 1 <= i - 1 THEN i - 1 ELSE 0
  BY <1>1, <1>2, SubSeqProperties
<1>4. /\ SubSeq(s, i + 1, Len(s)) \in Seq(S)
      /\ Len(SubSeq(s, i + 1, Len(s))) = IF i + 1 <= Len(s) THEN Len(s) - i ELSE 0
  BY <1>1, <1>2, SubSeqProperties
<1>5. /\ Without(s, i) \in Seq(S)
      /\ Len(Without(s, i)) = Len(SubSeq(s, 1, i - 1)) + Len(SubSeq(s, i + 1, Len(s)))
  BY <1>3, <1>4, ConcatProperties DEF Without
<1> QED
  BY <1>1, <1>3, <1>4, <1>5

\* What a list call walks is a sequence of commands within the cap.
LEMMA ListingFits ==
    ASSUME StoreOK
    PROVE  Listing \in Seq(AllKeys) /\ Len(Listing) \in 0..MaxCmds
<1> USE CapAssumption DEF StoreOK, Used
<1>1. mine \in Seq(AllKeys) /\ others \in Seq(AllKeys)
  BY SeqMonotonic DEF AllKeys
<1>2. mine \o others \in Seq(AllKeys) /\ Len(mine \o others) = Len(mine) + Len(others)
  BY <1>1, ConcatProperties
<1>3. Len(mine) \in Nat /\ Len(others) \in Nat
  BY LenProperties
<1> QED
  BY <1>1, <1>2, <1>3 DEF Listing

\* Where the page after an offset ends.
PageEnd(offset) ==
    IF offset + PageMax < Len(Listing) THEN offset + PageMax ELSE Len(Listing)

\* A page is a sequence of commands.
LEMMA PageFits ==
    ASSUME StoreOK, NEW offset \in Nat
    PROVE  /\ PageFrom(offset) = SubSeq(Listing, offset + 1, PageEnd(offset))
           /\ PageFrom(offset) \in Seq(AllKeys)
           /\ Len(PageFrom(offset)) = IF offset + 1 <= PageEnd(offset) THEN PageEnd(offset) - offset ELSE 0
<1>1. Listing \in Seq(AllKeys) /\ Len(Listing) \in Nat
  BY ListingFits
<1>2. PageFrom(offset) = SubSeq(Listing, offset + 1, PageEnd(offset))
  BY DEF PageFrom, PageEnd
<1>3. PageEnd(offset) \in Nat /\ PageEnd(offset) <= Len(Listing)
  BY <1>1, PageAssumption DEF PageEnd
<1>4. \A n \in (offset + 1)..PageEnd(offset) : Listing[n] \in AllKeys
  BY <1>1, <1>3, ElementOfSeq
<1> QED
  BY <1>2, <1>3, <1>4, SubSeqProperties

(***************************************************************************)
(* Types.                                                                  *)
(***************************************************************************)
\* Dropping what the connection drew, or keeping it, keeps the store within its cap.
LEMMA DropFits ==
    ASSUME StoreOK, others' = others, mine' = mine \/ DropMine
    PROVE  StoreOK'
<1>1. CASE mine' = mine
  BY <1>1 DEF StoreOK, Used
<1>2. CASE DropMine
  <2>1. mine' \in Seq(Keys) /\ Len(mine') = 0
    BY <1>2, EmptySeq DEF DropMine
  <2>2. Len(mine) \in Nat /\ Len(others) \in Nat
    BY LenProperties DEF StoreOK
  <2> QED
    BY <2>1, <2>2, CapAssumption DEF StoreOK, Used
<1> QED
  BY <1>1, <1>2

\* What a client draws, clears or lets run out keeps the store within its cap.
LEMMA OthersFit == ASSUME StoreOK, OthersChange PROVE StoreOK'
<1>0. Len(mine) \in Nat /\ Len(others) \in Nat
  BY LenProperties DEF StoreOK
<1>1. CASE \E k \in OtherKeys : Used < MaxCmds /\ others' = Append(others, k) /\ UNCHANGED <<mine, enabled>>
  <2>1. others' \in Seq(OtherKeys) /\ Len(others') = Len(others) + 1
    BY <1>1, AppendProperties DEF StoreOK
  <2> QED
    BY <1>0, <1>1, <2>1, CapAssumption DEF StoreOK, Used
<1>2. CASE \E i \in DOMAIN others : others' = Without(others, i) /\ UNCHANGED <<mine, enabled>>
  <2>1. others' \in Seq(OtherKeys) /\ Len(others') <= Len(others) /\ Len(others') \in Nat
    BY <1>2, WithoutFits, LenProperties DEF StoreOK
  <2> QED
    BY <1>0, <1>2, <2>1, CapAssumption DEF StoreOK, Used
<1>3. CASE \E i \in DOMAIN mine : mine' = Without(mine, i) /\ UNCHANGED <<others, enabled>>
  <2>1. mine' \in Seq(Keys) /\ Len(mine') <= Len(mine) /\ Len(mine') \in Nat
    BY <1>3, WithoutFits, LenProperties DEF StoreOK
  <2> QED
    BY <1>0, <1>3, <2>1, CapAssumption DEF StoreOK, Used
<1>4. CASE enabled' = ~enabled /\ UNCHANGED <<mine, others>>
  BY <1>4 DEF StoreOK, Used
<1> QED
  BY <1>1, <1>2, <1>3, <1>4 DEF OthersChange

\* So does Clear.
LEMMA ClearFits == ASSUME StoreOK, Clear PROVE StoreOK'
<1>0. Len(mine) \in Nat /\ Len(others) \in Nat
  BY LenProperties DEF StoreOK
<1>1. CASE \E i \in DOMAIN mine : mine' = Without(mine, i) /\ UNCHANGED others
  <2>1. mine' \in Seq(Keys) /\ Len(mine') <= Len(mine) /\ Len(mine') \in Nat
    BY <1>1, WithoutFits, LenProperties DEF StoreOK
  <2> QED
    BY <1>0, <1>1, <2>1, CapAssumption DEF StoreOK, Used
<1>2. CASE mine' = << >> /\ others' \in {others, << >>}
  <2>1. mine' \in Seq(Keys) /\ Len(mine') = 0
    BY <1>2, EmptySeq
  <2>2. others' \in Seq(OtherKeys) /\ Len(others') \in {Len(others), 0}
    BY <1>2, EmptySeq DEF StoreOK
  <2>3. Len(mine) + Len(others) <= MaxCmds
    BY DEF StoreOK, Used
  <2>4. Len(mine') + Len(others') <= MaxCmds
    BY ONLY <1>0, <2>1, <2>2, <2>3, CapAssumption
  <2> QED
    BY <2>1, <2>2, <2>4 DEF StoreOK, Used
<1>3. CASE (Stays \/ Breaks) /\ UNCHANGED others
  BY <1>3, DropFits DEF Stays, Breaks
<1> QED
  BY <1>1, <1>2, <1>3 DEF Clear

\* Drawing one command, or two, through the connection.
LEMMA DrawingFits ==
    ASSUME StoreOK, others' = others,
           \/ mine' = mine
           \/ \E k \in Keys : mine' = SetKey(mine, k)
           \/ \E k, l \in Keys : mine' = SetKey(SetKey(mine, k), l)
    PROVE  StoreOK'
<1>0. mine \in Seq(Keys) /\ Len(mine) + Len(others) <= MaxCmds
  BY DEF StoreOK, Used
<1>1. \A k \in Keys : /\ SetKey(mine, k) \in Seq(Keys)
                      /\ Len(SetKey(mine, k)) + Len(others) <= MaxCmds
  BY <1>0, SetKeyFits
<1>2. \A k, l \in Keys : /\ SetKey(SetKey(mine, k), l) \in Seq(Keys)
                         /\ Len(SetKey(SetKey(mine, k), l)) + Len(others) <= MaxCmds
  BY <1>1, SetKeyFits
<1> QED
  BY <1>0, <1>1, <1>2 DEF StoreOK, Used

LEMMA StoreStep == StoreOK /\ [Next]_vars => StoreOK'
<1> SUFFICES ASSUME StoreOK, [Next]_vars PROVE StoreOK'
  OBVIOUS
<1>1. CASE AgentChanges
  BY <1>1, OthersFit DEF AgentChanges
<1>2. CASE UpdateConnection
  <2>1. CASE KeepConnection \/ Reconnect
    BY <2>1 DEF KeepConnection, Reconnect, agentVars, StoreOK, Used
  <2>2. CASE AttachElsewhere
    <3>1. mine' \in Seq(Keys) /\ others' \in Seq(OtherKeys) /\ Len(mine') = 0 /\ Len(others') = 0
      BY <2>2, EmptySeq DEF AttachElsewhere, DropMine
    <3> QED
      BY <3>1, CapAssumption DEF StoreOK, Used
  <2> QED
    BY <1>2, <2>1, <2>2 DEF UpdateConnection
<1>3. CASE Hidden \/ TrackConnection \/ (\E due \in BOOLEAN : AutoRefresh(due)) \/ NoClick
           \/ ClickRefresh \/ Dismiss \/ UNCHANGED vars
  <2>1. mine' = mine /\ others' = others
    BY <1>3 DEF Hidden, TrackConnection, AutoRefresh, NoClick, ClickRefresh, Dismiss, agentVars,
                vars, ownVars
  <2> QED
    BY <2>1 DEF StoreOK, Used
<1>4. CASE EarlierPanelBreaks \/ FetchListPage \/ RefreshStats \/ Toggle \/ SendProbe \/ ClickStats
  <2>1. others' = others /\ (mine' = mine \/ DropMine)
    BY <1>4 DEF EarlierPanelBreaks, FetchListPage, PageRead, PageMalformed, PageRefused, RefreshStats,
                StatsRead, StatsFail, Toggle, EnableTaken, EnableFails, SendProbe, ClickStats,
                Stays, Breaks
  <2> QED
    BY <2>1, DropFits
<1>5. CASE Clear
  BY <1>5, ClearFits
<1>6. CASE Send
  BY <1>6, DropFits, DrawingFits DEF Send, Stays, Breaks
<1>7. CASE SendBatch
  BY <1>7, DropFits, DrawingFits DEF SendBatch, BatchUnsent, BatchSent, BatchDone, BatchAborts,
     BatchFails, Stays, Breaks
<1> QED
  BY <1>1, <1>2, <1>3, <1>4, <1>5, <1>6, <1>7 DEF Next, Frame, DrawPanel

\* The list: what a page adds is commands, and as many pages as the budget at most.
LEMMA PageTypes == ASSUME StoreOK, ListOK, ui = "list" => page < PageBudget, FetchListPage PROVE ListOK'
<1> USE PageAssumption
<1>1. /\ PageFrom(Len(rows)) \in Seq(AllKeys) /\ rows \in Seq(AllKeys)
      /\ Len(rows) \in Nat /\ Len(PageFrom(Len(rows))) \in Nat
  BY PageFits, LenProperties DEF ListOK, AllKeys
<1>2. Len(Listing) \in 0..MaxCmds
  BY ListingFits
<1>3. CASE PageRead
  <2>1. rows \o PageFrom(Len(rows)) \in Seq(AllKeys)
    BY <1>1, ConcatProperties
  <2> QED
    BY <1>2, <1>3, <2>1 DEF PageRead, ListDone, ListOK, AllKeys
<1>4. CASE PageMalformed
  <2>1. PICK n \in 0..Len(PageFrom(Len(rows))) : rows' = rows \o SubSeq(PageFrom(Len(rows)), 1, n)
    BY <1>4 DEF PageMalformed
  <2>2. \A i \in 1..n : PageFrom(Len(rows))[i] \in AllKeys
    BY <1>1, <2>1, ElementOfSeq
  <2>3. SubSeq(PageFrom(Len(rows)), 1, n) \in Seq(AllKeys)
    BY <1>1, <2>1, <2>2, SubSeqProperties
  <2>4. rows' \in Seq(AllKeys)
    BY <1>1, <2>1, <2>3, ConcatProperties
  <2> QED
    BY <1>2, <1>4, <2>4 DEF PageMalformed, ListDone, ListOK, AllKeys
<1>5. CASE PageRefused
  BY <1>5 DEF PageRefused, ListDone, ListOK
<1> QED
  BY <1>3, <1>4, <1>5 DEF FetchListPage

LEMMA ListStep == ASSUME StoreOK, ListOK, ui = "list" => page < PageBudget, [Next]_vars PROVE ListOK'
<1>1. CASE FetchListPage
  BY <1>1, PageTypes
<1>2. CASE \E due \in BOOLEAN : AutoRefresh(due)
  <2>1. << >> \in Seq(Keys \cup OtherKeys)
    BY EmptySeq
  <2>2. \/ rows' = << >> /\ total' = 0 /\ page' = 0
        \/ rows' = rows /\ total' = total /\ page' = page
    BY <1>2, Zenon DEF AutoRefresh, listVars
  <2>3. 0 \in 0..MaxCmds /\ 0 \in 0..PageBudget
    BY CapAssumption, PageAssumption
  <2> QED
    BY <2>1, <2>2, <2>3, Zenon DEF ListOK
<1>3. CASE AgentChanges \/ UpdateConnection \/ Hidden \/ EarlierPanelBreaks \/ TrackConnection
           \/ RefreshStats \/ NoClick \/ ClickRefresh \/ Dismiss \/ Toggle \/ Clear \/ Send
           \/ SendBatch \/ SendProbe \/ ClickStats \/ UNCHANGED vars
  <2>1. UNCHANGED listVars
    BY <1>3 DEF AgentChanges, UpdateConnection, Hidden, EarlierPanelBreaks, TrackConnection,
                RefreshStats, NoClick, ClickRefresh, Dismiss, Toggle, Clear, Send, SendBatch,
                SendProbe, ClickStats, vars, ownVars
  <2> QED
    BY <2>1 DEF listVars, ListOK
<1> QED
  BY <1>1, <1>2, <1>3 DEF Next, Frame, DrawPanel

\* The switches.
LEMMA PlaceTypes == PlaceOK /\ [Next]_vars => PlaceOK'
<1> SUFFICES ASSUME PlaceOK, [Next]_vars PROVE PlaceOK'
  OBVIOUS
<1>1. CASE AgentChanges
  BY <1>1, Zenon DEF PlaceOK, Places, AgentChanges, OthersChange, vars, ownVars, agentVars,
     listVars, flagVars, dueVars, lossVars, abortVars
<1>2. CASE UpdateConnection
  BY <1>2, Zenon DEF PlaceOK, Places, UpdateConnection, KeepConnection, Reconnect,
     AttachElsewhere, vars, ownVars, agentVars, listVars, flagVars, dueVars, lossVars, abortVars
<1>3. CASE Hidden
  BY <1>3, Zenon DEF PlaceOK, Places, Hidden, vars, ownVars, agentVars, listVars, flagVars,
     dueVars, lossVars, abortVars
<1>4. CASE EarlierPanelBreaks
  BY <1>4, Zenon DEF PlaceOK, Places, EarlierPanelBreaks, Breaks, vars, ownVars, agentVars,
     listVars, flagVars, dueVars, lossVars, abortVars
<1>5. CASE TrackConnection
  BY <1>5, Zenon DEF PlaceOK, Places, TrackConnection, vars, ownVars, agentVars, listVars,
     flagVars, dueVars, lossVars, abortVars
<1>6. CASE (\E due \in BOOLEAN : AutoRefresh(due))
  BY <1>6, Zenon DEF PlaceOK, Places, AutoRefresh, vars, ownVars, agentVars, listVars, flagVars,
     dueVars, lossVars, abortVars
<1>7. CASE FetchListPage
  BY <1>7, Zenon DEF PlaceOK, Places, FetchListPage, PageRead, PageMalformed, PageRefused,
     ListDone, Stays, Breaks, vars, ownVars, agentVars, listVars, flagVars, dueVars, lossVars,
     abortVars
<1>8. CASE RefreshStats
  BY <1>8, Zenon DEF PlaceOK, Places, RefreshStats, StatsRead, StatsFail, Stays, Breaks, vars,
     ownVars, agentVars, listVars, flagVars, dueVars, lossVars, abortVars
<1>9. CASE NoClick
  BY <1>9, Zenon DEF PlaceOK, Places, NoClick, Click, vars, ownVars, agentVars, listVars,
     flagVars, dueVars, lossVars, abortVars
<1>10. CASE ClickRefresh
  BY <1>10, Zenon DEF PlaceOK, Places, ClickRefresh, Click, vars, ownVars, agentVars, listVars,
     flagVars, dueVars, lossVars, abortVars
<1>11. CASE Dismiss
  BY <1>11, Zenon DEF PlaceOK, Places, Dismiss, Click, vars, ownVars, agentVars, listVars,
     flagVars, dueVars, lossVars, abortVars
<1>12. CASE Toggle
  BY <1>12, Zenon DEF PlaceOK, Places, Toggle, Click, EnableTaken, EnableFails, Stays, Breaks,
     vars, ownVars, agentVars, listVars, flagVars, dueVars, lossVars, abortVars
<1>13. CASE Clear
  BY <1>13, Zenon DEF PlaceOK, Places, Clear, Click, Stays, Breaks, vars, ownVars, agentVars,
     listVars, flagVars, dueVars, lossVars, abortVars
<1>14. CASE Send
  BY <1>14, Zenon DEF PlaceOK, Places, Send, Click, Drawn, Stays, Breaks, vars, ownVars,
     agentVars, listVars, flagVars, dueVars, lossVars, abortVars
<1>15. CASE SendBatch
  BY <1>15, Zenon DEF PlaceOK, Places, SendBatch, Click, BatchUnsent, BatchSent, BatchDone,
     BatchAborts, BatchFails, Drawn, Stays, Breaks, vars, ownVars, agentVars, listVars, flagVars,
     dueVars, lossVars, abortVars
<1>16. CASE SendProbe
  BY <1>16, Zenon DEF PlaceOK, Places, SendProbe, Click, Breaks, vars, ownVars, agentVars,
     listVars, flagVars, dueVars, lossVars, abortVars
<1>17. CASE ClickStats
  BY <1>17, Zenon DEF PlaceOK, Places, ClickStats, Click, StatsRead, StatsFail, Stays, Breaks,
     vars, ownVars, agentVars, listVars, flagVars, dueVars, lossVars, abortVars
<1>18. CASE UNCHANGED vars
  <2>1. UNCHANGED <<ui, connected, enabled, quiet>>
    BY <1>18, Zenon DEF vars, ownVars, agentVars, listVars, flagVars, dueVars, lossVars,
       abortVars
  <2> QED
    BY <2>1 DEF PlaceOK
<1> QED
  BY <1>1, <1>2, <1>3, <1>4, <1>5, <1>6, <1>7, <1>8, <1>9, <1>10, <1>11, <1>12, <1>13, <1>14,
     <1>15, <1>16, <1>17, <1>18 DEF Next, Frame, DrawPanel

LEMMA ShownTypes == PlaceOK /\ ShownOK /\ [Next]_vars => ShownOK'
<1> SUFFICES ASSUME PlaceOK, ShownOK, [Next]_vars PROVE ShownOK'
  OBVIOUS
<1>1. CASE TrackConnection
  BY <1>1, Zenon DEF PlaceOK, ShownOK, TrackConnection, vars, ownVars, agentVars, listVars, flagVars,
     dueVars, lossVars, abortVars
<1>2. CASE (\E due \in BOOLEAN : AutoRefresh(due))
  BY <1>2, Zenon DEF PlaceOK, ShownOK, AutoRefresh, vars, ownVars, agentVars, listVars, flagVars, dueVars,
     lossVars, abortVars
<1>3. CASE FetchListPage
  BY <1>3, Zenon DEF PlaceOK, ShownOK, FetchListPage, PageRead, PageMalformed, PageRefused, ListDone,
     Stays, Breaks, vars, ownVars, agentVars, listVars, flagVars, dueVars, lossVars, abortVars
<1>4. CASE RefreshStats
  BY <1>4, Zenon DEF PlaceOK, ShownOK, RefreshStats, StatsRead, StatsFail, Stays, Breaks, vars, ownVars,
     agentVars, listVars, flagVars, dueVars, lossVars, abortVars
<1>5. CASE ClickRefresh
  BY <1>5, Zenon DEF PlaceOK, ShownOK, ClickRefresh, Click, vars, ownVars, agentVars, listVars, flagVars,
     dueVars, lossVars, abortVars
<1>6. CASE Toggle
  BY <1>6, Zenon DEF PlaceOK, ShownOK, Toggle, Click, EnableTaken, EnableFails, Stays, Breaks, vars,
     ownVars, agentVars, listVars, flagVars, dueVars, lossVars, abortVars
<1>7. CASE ClickStats
  BY <1>7, Zenon DEF PlaceOK, ShownOK, ClickStats, Click, StatsRead, StatsFail, Stays, Breaks, vars,
     ownVars, agentVars, listVars, flagVars, dueVars, lossVars, abortVars
<1>8. CASE AgentChanges \/ UpdateConnection \/ Hidden \/ EarlierPanelBreaks \/ NoClick \/ Dismiss
           \/ Clear \/ Send \/ SendBatch \/ SendProbe \/ UNCHANGED vars
  <2>1. UNCHANGED <<listError, isScopeAll, isEnabled, hasReadEnabled>>
    BY <1>8, Zenon DEF AgentChanges, OthersChange, UpdateConnection, KeepConnection, Reconnect,
       AttachElsewhere, Hidden, EarlierPanelBreaks, Breaks, NoClick, Click, Dismiss, Clear,
       Stays, Send, Drawn, SendBatch, BatchUnsent, BatchSent, BatchDone, BatchAborts, BatchFails,
       SendProbe, vars, ownVars, agentVars, listVars, flagVars, dueVars, lossVars, abortVars
  <2> QED
    BY <2>1 DEF ShownOK
<1> QED
  BY <1>1, <1>2, <1>3, <1>4, <1>5, <1>6, <1>7, <1>8 DEF Next, Frame, DrawPanel

LEMMA DueTypes == DueOK /\ [Next]_vars => DueOK'
<1> SUFFICES ASSUME DueOK, [Next]_vars PROVE DueOK'
  OBVIOUS
<1>1. CASE TrackConnection
  BY <1>1, Zenon DEF DueOK, TrackConnection, vars, ownVars, agentVars, listVars, flagVars,
     dueVars, lossVars, abortVars
<1>2. CASE (\E due \in BOOLEAN : AutoRefresh(due))
  BY <1>2, Zenon DEF DueOK, AutoRefresh, vars, ownVars, agentVars, listVars, flagVars, dueVars,
     lossVars, abortVars
<1>3. CASE RefreshStats
  BY <1>3, Zenon DEF DueOK, RefreshStats, StatsRead, StatsFail, Stays, Breaks, vars, ownVars,
     agentVars, listVars, flagVars, dueVars, lossVars, abortVars
<1>4. CASE ClickRefresh
  BY <1>4, Zenon DEF DueOK, ClickRefresh, Click, vars, ownVars, agentVars, listVars, flagVars,
     dueVars, lossVars, abortVars
<1>5. CASE Toggle
  BY <1>5, Zenon DEF DueOK, Toggle, Click, EnableTaken, EnableFails, Stays, Breaks, vars,
     ownVars, agentVars, listVars, flagVars, dueVars, lossVars, abortVars
<1>6. CASE Clear
  BY <1>6, Zenon DEF DueOK, Clear, Click, Stays, Breaks, vars, ownVars, agentVars, listVars,
     flagVars, dueVars, lossVars, abortVars
<1>7. CASE Send
  BY <1>7, Zenon DEF DueOK, Send, Click, Drawn, Stays, Breaks, vars, ownVars, agentVars,
     listVars, flagVars, dueVars, lossVars, abortVars
<1>8. CASE SendBatch
  BY <1>8, Zenon DEF DueOK, SendBatch, Click, BatchUnsent, BatchSent, BatchDone, BatchAborts,
     BatchFails, Drawn, Stays, Breaks, vars, ownVars, agentVars, listVars, flagVars, dueVars,
     lossVars, abortVars
<1>9. CASE AgentChanges \/ UpdateConnection \/ Hidden \/ EarlierPanelBreaks \/ FetchListPage \/
           NoClick \/ Dismiss \/ SendProbe \/ ClickStats \/ UNCHANGED vars
  <2>1. UNCHANGED <<forceRefresh, forceStats, statsDue>>
    BY <1>9, Zenon DEF AgentChanges, OthersChange, UpdateConnection, KeepConnection, Reconnect,
       AttachElsewhere, Hidden, EarlierPanelBreaks, Breaks, FetchListPage, PageRead,
       PageMalformed, PageRefused, ListDone, Stays, NoClick, Click, Dismiss, SendProbe,
       ClickStats, StatsRead, StatsFail, vars, ownVars, agentVars, listVars, flagVars, dueVars,
       lossVars, abortVars
  <2> QED
    BY <2>1 DEF DueOK
<1> QED
  BY <1>1, <1>2, <1>3, <1>4, <1>5, <1>6, <1>7, <1>8, <1>9 DEF Next, Frame, DrawPanel

LEMMA LossTypes == PlaceOK /\ LossOK /\ [Next]_vars => LossOK'
<1> SUFFICES ASSUME PlaceOK, LossOK, [Next]_vars PROVE LossOK'
  OBVIOUS
<1>1. CASE TrackConnection
  BY <1>1, Zenon DEF PlaceOK, LossOK, TrackConnection, vars, ownVars, agentVars, listVars, flagVars,
     dueVars, lossVars, abortVars
<1>2. CASE (\E due \in BOOLEAN : AutoRefresh(due))
  BY <1>2, Zenon DEF PlaceOK, LossOK, AutoRefresh, vars, ownVars, agentVars, listVars, flagVars, dueVars,
     lossVars, abortVars
<1>3. CASE Dismiss
  BY <1>3, Zenon DEF PlaceOK, LossOK, Dismiss, Click, vars, ownVars, agentVars, listVars, flagVars,
     dueVars, lossVars, abortVars
<1>4. CASE Send
  BY <1>4, Zenon DEF PlaceOK, LossOK, Send, Click, Drawn, Stays, Breaks, vars, ownVars, agentVars,
     listVars, flagVars, dueVars, lossVars, abortVars
<1>5. CASE SendBatch
  BY <1>5, Zenon DEF PlaceOK, LossOK, SendBatch, Click, BatchUnsent, BatchSent, BatchDone, BatchAborts,
     BatchFails, Drawn, Stays, Breaks, vars, ownVars, agentVars, listVars, flagVars, dueVars,
     lossVars, abortVars
<1>6. CASE AgentChanges \/ UpdateConnection \/ Hidden \/ EarlierPanelBreaks \/ FetchListPage \/
           RefreshStats \/ NoClick \/ ClickRefresh \/ Toggle \/ Clear \/ SendProbe \/ ClickStats
           \/ UNCHANGED vars
  <2>1. UNCHANGED <<wasConnected, drew, didLoseDrawings, didBatchAbort, readSince>>
    BY <1>6, Zenon DEF AgentChanges, OthersChange, UpdateConnection, KeepConnection, Reconnect,
       AttachElsewhere, Hidden, EarlierPanelBreaks, Breaks, FetchListPage, PageRead,
       PageMalformed, PageRefused, ListDone, Stays, RefreshStats, StatsRead, StatsFail, NoClick,
       Click, ClickRefresh, Toggle, EnableTaken, EnableFails, Clear, SendProbe, ClickStats, vars,
       ownVars, agentVars, listVars, flagVars, dueVars, lossVars, abortVars
  <2> QED
    BY <2>1 DEF LossOK
<1> QED
  BY <1>1, <1>2, <1>3, <1>4, <1>5, <1>6 DEF Next, Frame, DrawPanel

(***************************************************************************)
(* An aborted batch is looked at again.                                    *)
(***************************************************************************)
LEMMA AbortStep == AbortInv /\ [Next]_vars => AbortInv'
<1> SUFFICES ASSUME AbortInv, [Next]_vars PROVE AbortInv'
  OBVIOUS
<1>1. CASE UpdateConnection \/ Hidden \/ EarlierPanelBreaks
  <2>1. /\ ui \in {"panel", "update"}
        /\ UNCHANGED <<forceRefresh, wasConnected, didBatchAbort, readSince>>
    BY <1>1 DEF UpdateConnection, Hidden, EarlierPanelBreaks, dueVars, lossVars, abortVars
  <2>2. ui' \in {"panel", "update"}
    BY <1>1 DEF UpdateConnection, Hidden, EarlierPanelBreaks
  <2> QED
    BY <2>1, <2>2 DEF AbortInv
<1>2. CASE TrackConnection
  <2>1. ui' = "auto" /\ wasConnected' = connected /\ connected' = connected
    BY <1>2 DEF TrackConnection
  <2>2. readSince' = readSince
    BY <1>2 DEF TrackConnection
  <2>3. CASE ~wasConnected /\ connected
    BY <1>2, <2>1, <2>3 DEF TrackConnection, AbortInv
  <2>4. CASE wasConnected \/ ~connected
    <3>1. forceRefresh' = forceRefresh /\ didBatchAbort' = didBatchAbort
      BY <1>2, <2>4, Zenon DEF TrackConnection
    <3> QED
      BY <2>1, <2>2, <2>4, <3>1 DEF AbortInv
  <2> QED
    BY <2>3, <2>4
<1>3. CASE \E due \in BOOLEAN : AutoRefresh(due)
  <2>1. PICK due \in BOOLEAN : AutoRefresh(due)
    BY <1>3
  <2>2. /\ ui = "auto" /\ ui' \in {"list", "stats"} /\ ~forceRefresh'
        /\ UNCHANGED <<connected, wasConnected, didBatchAbort>>
    BY <2>1 DEF AutoRefresh, lossVars
  <2>3. CASE due /\ connected
    <3>1. readSince'
      BY <2>1, <2>3, Zenon DEF AutoRefresh
    <3> QED
      BY <2>2, <3>1 DEF AbortInv
  <2>4. CASE ~(due /\ connected)
    <3>1. readSince' = readSince
      BY <2>1, <2>4, Zenon DEF AutoRefresh
    <3>2. connected => ~forceRefresh
      BY <2>1, <2>4, Zenon DEF AutoRefresh
    <3> QED
      BY <2>2, <3>1, <3>2 DEF AbortInv
  <2> QED
    BY <2>3, <2>4
<1>4. CASE FetchListPage \/ RefreshStats
  <2>1. /\ ui \in {"list", "stats"} /\ ui' \in {"list", "stats", "draw"}
        /\ UNCHANGED <<forceRefresh, wasConnected, didBatchAbort, readSince>>
    BY <1>4 DEF FetchListPage, PageRead, PageMalformed, PageRefused, ListDone, RefreshStats,
                dueVars, abortVars
  <2>2. connected' => connected
    BY <1>4, Zenon DEF FetchListPage, PageRead, PageMalformed, PageRefused, RefreshStats, StatsRead,
                       StatsFail, Stays, Breaks
  <2> QED
    BY <2>1, <2>2 DEF AbortInv
<1>5. CASE NoClick \/ Dismiss \/ Toggle \/ SendProbe \/ ClickStats
  <2>1. ui = "draw" /\ ui' = "update" /\ UNCHANGED <<forceRefresh, wasConnected, readSince>>
    BY <1>5 DEF NoClick, Dismiss, Toggle, SendProbe, ClickStats, Click, dueVars, lossVars, abortVars
  <2>2. didBatchAbort' => didBatchAbort
    BY <1>5, Zenon DEF NoClick, Dismiss, Toggle, SendProbe, ClickStats, abortVars
  <2> QED
    BY <2>1, <2>2 DEF AbortInv
<1>6. CASE ClickRefresh \/ Clear \/ Send \/ SendBatch
  <2>1. ui' = "update" /\ forceRefresh' = TRUE
    BY <1>6 DEF ClickRefresh, Clear, Send, SendBatch, Click
  <2> QED
    BY <2>1 DEF AbortInv
<1>7. CASE AgentChanges \/ UNCHANGED vars
  <2>1. UNCHANGED <<ui, connected, forceRefresh, wasConnected, didBatchAbort, readSince>>
    BY <1>7 DEF AgentChanges, vars, ownVars, dueVars, lossVars, abortVars
  <2> QED
    BY <2>1 DEF AbortInv
<1> QED
  BY <1>1, <1>2, <1>3, <1>4, <1>5, <1>6, <1>7 DEF Next, Frame, DrawPanel

(***************************************************************************)
(* The pages of an undisturbed refresh.                                    *)
(***************************************************************************)
\* A page appended to a list that is in step with the store keeps it in step.
LEMMA PageInStep ==
    ASSUME StoreOK, Len(rows) \in Nat, Len(rows) <= Len(Listing),
           rows = SubSeq(Listing, 1, Len(rows))
    PROVE  /\ rows \o PageFrom(Len(rows)) = SubSeq(Listing, 1, PageEnd(Len(rows)))
           /\ Len(rows \o PageFrom(Len(rows))) = PageEnd(Len(rows))
           /\ Len(PageFrom(Len(rows))) = PageEnd(Len(rows)) - Len(rows)
<1> DEFINE n == Len(rows)
           e == PageEnd(n)
<1>1. Listing \in Seq(AllKeys) /\ Len(Listing) \in Nat
  BY ListingFits
<1>2. n \in Nat /\ e \in Nat /\ n <= e /\ e <= Len(Listing)
  BY <1>1, PageAssumption DEF PageEnd
<1>3. 1 \in 1..(Len(Listing) + 1) /\ n \in (1 - 1)..Len(Listing) /\ e \in n..Len(Listing)
  BY <1>1, <1>2
<1> HIDE DEF n, e
<1>4. SubSeq(Listing, 1, n) \o SubSeq(Listing, n + 1, e) = SubSeq(Listing, 1, e)
  BY <1>1, <1>3, ConcatAdjacentSubSeq
<1>5. PageFrom(n) = SubSeq(Listing, n + 1, e) /\ Len(PageFrom(n)) = IF n + 1 <= e THEN e - n ELSE 0
  BY <1>2, PageFits DEF e
<1>6. Len(PageFrom(n)) = e - n
  BY <1>2, <1>5
<1>7. rows \o PageFrom(n) = SubSeq(Listing, 1, e)
  BY <1>4, <1>5 DEF n
<1>8. \A i \in 1..e : Listing[i] \in AllKeys
  BY <1>1, <1>2, ElementOfSeq
<1>9. Len(SubSeq(Listing, 1, e)) = e
  BY <1>2, <1>8, SubSeqProperties
<1> QED
  BY <1>6, <1>7, <1>9 DEF n, e

\* One page of an undisturbed refresh: there are more and it was a full one, or the
\* list is the store.
LEMMA PageDone ==
    ASSUME TypeOK, PagesInv, ui = "list", quiet, PageRead, UNCHANGED <<mine, others, isScopeAll>>
    PROVE  /\ ui' = "list" => /\ Len(rows') = page' * PageMax
                              /\ Len(rows') <= Len(Listing)
                              /\ rows' = SubSeq(Listing, 1, Len(rows'))
           /\ ui' = "stats" => rows' = Listing /\ total' = Len(rows')
           /\ ui' = "list" => page' < PageBudget
<1>1. /\ page \in Nat /\ page < PageBudget /\ Len(rows) = page * PageMax
      /\ Len(rows) <= Len(Listing) /\ rows = SubSeq(Listing, 1, Len(rows))
  BY DEF TypeOK, ListOK, PagesInv
<1>2. Len(rows) \in Nat /\ Len(Listing) \in 0..MaxCmds /\ Listing \in Seq(AllKeys)
  BY LenProperties, ListingFits DEF TypeOK, ListOK
<1> DEFINE e == PageEnd(Len(rows))
<1>3. rows' = SubSeq(Listing, 1, e) /\ Len(rows') = e /\ Len(PageFrom(Len(rows))) = e - Len(rows)
  BY <1>1, <1>2, PageInStep DEF PageRead, TypeOK
<1>4. /\ total' = Len(Listing)
      /\ \/ ui' = "list" /\ page' = page + 1 /\ Len(rows') < total' /\ page + 1 < PageBudget
         \/ ui' = "stats" /\ (PageFrom(Len(rows)) = << >> \/ ~(Len(rows') < total')
                                \/ ~(page + 1 < PageBudget))
  BY DEF PageRead, ListDone
<1>5. /\ e = IF Len(rows) + PageMax < Len(Listing) THEN Len(rows) + PageMax ELSE Len(Listing)
      /\ e \in Nat /\ e <= Len(Listing)
  BY <1>2, PageAssumption DEF PageEnd
<1> HIDE DEF e
<1>6. (page + 1) * PageMax = Len(rows) + PageMax
  BY <1>1, PageAssumption
<1>7. CASE ui' = "list"
  <2>1. e < Len(Listing) /\ page' = page + 1 /\ page + 1 < PageBudget
    BY <1>3, <1>4, <1>7
  <2>2. e = Len(rows) + PageMax
    BY <1>5, <2>1
  <2> QED
    BY <1>3, <1>5, <1>6, <1>7, <2>1, <2>2
<1>8. CASE ui' = "stats"
  <2>1. e = Len(Listing)
    <3>1. CASE ~(Len(rows') < total')
      BY <1>2, <1>3, <1>4, <1>5, <3>1
    <3>2. CASE PageFrom(Len(rows)) = << >>
      <4>1. e - Len(rows) = 0
        BY <1>3, <3>2, EmptySeq
      <4> QED
        BY <1>2, <1>5, <4>1, PageAssumption
    <3>3. CASE ~(page + 1 < PageBudget)
      <4>1. page + 1 = PageBudget
        BY <1>1, <3>3, PageAssumption
      <4>2. Len(rows) + PageMax = PageMax * PageBudget
        BY <1>6, <4>1, PageAssumption
      <4>3. MaxCmds <= Len(rows) + PageMax
        BY <4>2, BudgetAssumption
      <4> QED
        BY <1>2, <1>5, <4>3, CapAssumption, PageAssumption
    <3> QED
      BY <1>4, <1>8, <3>1, <3>2, <3>3
  <2>2. rows' = Listing
    BY <1>2, <1>3, <2>1, SubSeqFull
  <2> QED
    BY <1>3, <1>4, <1>8, <2>1, <2>2
<1> QED
  BY <1>7, <1>8

LEMMA PagesStep ==
    TypeOK /\ PagesInv /\ QuietListIsWhole /\ [Next]_vars => PagesInv' /\ QuietListIsWhole'
<1> SUFFICES ASSUME TypeOK, PagesInv, QuietListIsWhole, [Next]_vars
             PROVE  PagesInv' /\ QuietListIsWhole'
  OBVIOUS
<1>1. CASE FetchListPage
  <2>1. ui = "list" /\ UNCHANGED <<others, isScopeAll, quiet>> /\ ui' \in {"list", "stats"}
    BY <1>1 DEF FetchListPage, PageRead, PageMalformed, PageRefused, ListDone
  <2>2. CASE PageRead
    <3>1. UNCHANGED <<mine, listError>>
      BY <2>2 DEF PageRead, Stays
    <3>2. ui' = "list" => page' < PageBudget
      BY <2>2, PageAssumption DEF PageRead, ListDone
    <3>3. Listing' = Listing
      BY <2>1, <3>1 DEF Listing
    <3>4. CASE quiet
      <4>1. /\ ui' = "list" => /\ Len(rows') = page' * PageMax
                               /\ Len(rows') <= Len(Listing)
                               /\ rows' = SubSeq(Listing, 1, Len(rows'))
            /\ ui' = "stats" => rows' = Listing /\ total' = Len(rows')
        BY <2>1, <2>2, <3>1, <3>4, PageDone
      <4>2. ~listError
        BY <2>1 DEF PagesInv
      <4> QED
        BY <2>1, <3>1, <3>2, <3>3, <4>1, <4>2 DEF PagesInv, QuietListIsWhole
    <3>5. CASE ~quiet
      <4>1. ~listError
        BY <2>1 DEF PagesInv
      <4> QED
        BY <2>1, <3>1, <3>2, <3>5, <4>1 DEF PagesInv, QuietListIsWhole
    <3> QED
      BY <3>4, <3>5
  <2>3. CASE PageMalformed \/ PageRefused
    <3>1. ui' = "stats" /\ listError'
      BY <2>3 DEF PageMalformed, PageRefused, ListDone
    <3> QED
      BY <3>1 DEF PagesInv, QuietListIsWhole
  <2> QED
    BY <1>1, <2>2, <2>3 DEF FetchListPage
<1>2. CASE \E due \in BOOLEAN : AutoRefresh(due)
  <2>1. PICK due \in BOOLEAN : AutoRefresh(due)
    BY <1>2
  <2>2. ~quiet
    BY <2>1 DEF AutoRefresh, PagesInv
  <2>3. CASE due /\ connected
    <3>1. ui' = "list" /\ rows' = << >> /\ page' = 0 /\ listError' = FALSE
      BY <2>1, <2>3 DEF AutoRefresh
    <3>2. Len(rows') = 0
      BY <3>1, EmptySeq
    <3>3. UNCHANGED <<mine, others, isScopeAll>>
      BY <2>1 DEF AutoRefresh, agentVars
    <3>4. Listing' \in Seq(AllKeys) /\ Len(Listing') \in Nat
      BY <3>3, ListingFits DEF TypeOK, Listing
    <3>5. SubSeq(Listing', 1, 0) = << >>
      BY SubSeqEmpty
    <3>6. 0 = 0 * PageMax /\ 0 < PageBudget
      BY PageAssumption
    <3>7. ui' # "stats" /\ ui' \in {"list", "stats"}
      BY <3>1
    <3> QED
      BY <3>1, <3>2, <3>4, <3>5, <3>6, <3>7 DEF PagesInv, QuietListIsWhole
  <2>4. CASE ~(due /\ connected)
    <3>1. ui' = "stats" /\ quiet' = quiet
      BY <2>1, <2>4, Zenon DEF AutoRefresh
    <3> QED
      BY <2>2, <3>1 DEF PagesInv, QuietListIsWhole
  <2> QED
    BY <2>3, <2>4
<1>3. CASE AgentChanges
  <2>1. quiet' = FALSE /\ UNCHANGED <<ui, page, listError>>
    BY <1>3 DEF AgentChanges, listVars
  <2> QED
    BY <2>1 DEF PagesInv, QuietListIsWhole
<1>4. CASE UpdateConnection \/ EarlierPanelBreaks \/ RefreshStats
  <2>1. quiet' = FALSE /\ ui' \in {"panel", "draw"}
    BY <1>4 DEF UpdateConnection, EarlierPanelBreaks, RefreshStats
  <2> QED
    BY <2>1 DEF PagesInv, QuietListIsWhole
<1>5. CASE Hidden \/ TrackConnection \/ NoClick \/ ClickRefresh \/ Dismiss \/ Toggle \/ Clear \/ Send
           \/ SendBatch \/ SendProbe \/ ClickStats
  <2>1. quiet' = quiet /\ ui \in {"panel", "draw"} /\ ui' \in {"update", "auto"}
    BY <1>5 DEF Hidden, TrackConnection, NoClick, ClickRefresh, Dismiss, Toggle, Clear, Send,
                SendBatch, SendProbe, ClickStats, Click
  <2> QED
    BY <2>1 DEF PagesInv, QuietListIsWhole
<1>6. CASE UNCHANGED vars
  <2>1. UNCHANGED <<ui, mine, others, isScopeAll, rows, total, page, listError, quiet>>
    BY <1>6 DEF vars, ownVars, agentVars, listVars
  <2>2. Listing' = Listing
    BY <2>1 DEF Listing
  <2> QED
    BY <2>1, <2>2 DEF PagesInv, QuietListIsWhole
<1> QED
  BY <1>1, <1>2, <1>3, <1>4, <1>5, <1>6 DEF Next, Frame, DrawPanel

(***************************************************************************)
(* The theorems about the panel.                                           *)
(***************************************************************************)
LEMMA InitInv == Init => IInv
<1> SUFFICES ASSUME Init PROVE IInv
  OBVIOUS
<1>1. << >> \in Seq(Keys) /\ << >> \in Seq(OtherKeys) /\ << >> \in Seq(Keys \cup OtherKeys) /\ Len(<< >>) = 0
  BY EmptySeq
<1>2. StoreOK /\ ListOK
  BY <1>1, CapAssumption, PageAssumption DEF Init, StoreOK, ListOK, Used
<1>3. PlaceOK /\ ShownOK /\ DueOK /\ LossOK
  BY Zenon DEF Init, PlaceOK, Places, ShownOK, DueOK, LossOK
<1>4. AbortInv /\ PagesInv /\ QuietListIsWhole
  BY DEF Init, AbortInv, PagesInv, QuietListIsWhole
<1> QED
  BY <1>2, <1>3, <1>4 DEF IInv, TypeOK

LEMMA StepInv == IInv /\ [Next]_vars => IInv'
<1> SUFFICES ASSUME IInv, [Next]_vars PROVE IInv'
  OBVIOUS
<1>1. StoreOK /\ ListOK /\ PlaceOK /\ ShownOK /\ DueOK /\ LossOK
  BY DEF IInv, TypeOK
<1>2. ui = "list" => page < PageBudget
  BY DEF IInv, PagesInv
<1>3. TypeOK'
  BY <1>1, <1>2, StoreStep, ListStep, PlaceTypes, ShownTypes, DueTypes, LossTypes DEF TypeOK
<1>4. AbortInv'
  BY AbortStep DEF IInv
<1>5. PagesInv' /\ QuietListIsWhole'
  BY PagesStep DEF IInv
<1> QED
  BY <1>3, <1>4, <1>5 DEF IInv

LEMMA Inductive == Spec => []IInv
  BY InitInv, StepInv, PTL DEF Spec

\* Types of the store, the list and the switches, for any keys and any caps: the store
\* is never overfilled and no refresh reads more pages than its budget (RefreshList).
THEOREM TypeCorrect == Spec => []TypeOK
<1>1. IInv => TypeOK
  BY DEF IInv
<1> QED
  BY <1>1, Inductive, PTL

\* A refresh of all pages that nothing disturbed shows the store, whatever was on the
\* pages and however many there are (RefreshList, FetchListPage).
THEOREM QuietLists == Spec => []QuietListIsWhole
<1>1. IInv => QuietListIsWhole
  BY DEF IInv
<1> QED
  BY <1>1, Inductive, PTL

\* The table under the abort banner was read after the batch (SendBatch, AutoRefresh).
THEOREM AbortTables == Spec => []AbortTableIsFresh
<1>1. IInv => AbortTableIsFresh
  BY DEF IInv, AbortInv, AbortTableIsFresh
<1> QED
  BY <1>1, Inductive, PTL

(***************************************************************************)
(* The theorems about the forms.                                           *)
(***************************************************************************)
\* Every command the Compose tab can make is one the agent takes.
THEOREM Composes == ComposeIsTaken
<1> SUFFICES ASSUME NEW f \in ComposeForm, ~(f.isWorld /\ f.kind \in {"poly", "component"})
             PROVE  AgentTakes(f.kind, ComposeParams(f))
  BY DEF ComposeIsTaken
<1>1. f.kind \in Kinds /\ f.isWorld \in BOOLEAN /\ f.useValue \in BOOLEAN
  BY DEF ComposeForm
<1> USE DEF AgentTakes, TakesCaption, TakesPlace, Needs, Payloads, Captioned, ComposeParams, Geometry,
            Caption, Styling
<1>2. CASE f.kind = "line"
  BY <1>2
<1>3. CASE f.kind \in {"rect", "ellipse"}
  BY <1>3
<1>4. CASE f.kind = "poly"
  BY <1>4
<1>5. CASE f.kind = "text"
  BY <1>1, <1>5
<1>6. CASE f.kind = "component"
  BY <1>1, <1>6
<1> QED
  BY <1>1, <1>2, <1>3, <1>4, <1>5, <1>6 DEF Kinds

\* Whatever number of items and whatever key, each item's key fits (BatchKeyBudget).
THEOREM BatchKeys == BatchKeysFit(MaxItemsShown)
<1> SUFFICES ASSUME NEW count \in 1..MaxItemsShown, NEW base \in 1..63, NEW i \in Items(count)
             PROVE  BatchKeyBytes(base, count, i) <= kMaxKeyBytes
  BY DEF BatchKeysFit
<1>1. i \in Int /\ 0 <= i /\ i <= count - 1 /\ count \in Int
  BY DEF Items, MaxItemsShown
<1>2. Digits(i) <= Digits(count - 1) /\ Digits(i) \in 1..3 /\ Digits(count - 1) \in 1..3
  BY <1>1 DEF Digits
<1> QED
  BY <1>2 DEF BatchKeyBytes, BatchKeyBudget, BatchSuffixBytes, kMaxKeyBytes

\* However many numbers are typed, a poly is not shortened to one that is drawn.
THEOREM OverlongPolys == ASSUME NEW n \in Nat PROVE OverlongIsRefused(n)
  BY DEF OverlongIsRefused, AgentTakesPoints, PointsWritten, kPolySendInts, kMaxPolyPairs

\* Two highlights with one key are of the same thing, for any set of coordinates.
THEOREM AutoKeys == ASSUME NEW Coord PROVE KeysTellApart(Coord)
<1> SUFFICES ASSUME NEW f \in HighlightForm(Coord), NEW g \in HighlightForm(Coord), AutoKey(f) = AutoKey(g)
             PROVE  Target(f) = Target(g)
  BY DEF KeysTellApart
<1> QED
  BY DEF HighlightForm, AutoKey, Target, Entities

\* Every highlight form makes a call the agent takes, for any set of coordinates.
THEOREM Highlights == ASSUME NEW Coord PROVE HighlightIsTaken(Coord)
<1> SUFFICES ASSUME NEW f \in HighlightForm(Coord), NEW isNamed \in BOOLEAN, NEW isLabelled \in BOOLEAN
             PROVE  AgentHighlights(f.tab, HighlightParams(f, isNamed, isLabelled))
  BY DEF HighlightIsTaken
<1> USE DEF AgentHighlights, HighlightParams, Styling, Entities
<1>1. CASE f.tab = "component"
  BY <1>1
<1>2. CASE f.tab = "entity"
  <2>1. f.mode \in Entities
    BY <1>2 DEF HighlightForm
  <2> QED
    BY <1>2, <2>1
<1>3. CASE f.tab = "tile"
  BY <1>3
<1>4. CASE f.tab = "area"
  BY <1>4
<1>5. f.tab \in {"component", "entity", "tile", "area"}
  BY DEF HighlightForm
<1> QED
  BY <1>1, <1>2, <1>3, <1>4, <1>5

\* A batch with a bad item draws the items before it and nothing else, for a batch of any
\* size the agent takes (DrawBatchTab).
THEOREM BatchFaults == ASSUME NEW n \in Nat PROVE BatchStopsAtFault(n)
<1> SUFFICES ASSUME NEW count \in 1..n, NEW corruptIndex \in 0..(MaxItemsShown - 1), NEW i \in Items(count),
                    count <= kMaxBatchItems
             PROVE  BatchApplies(i, count, TRUE, corruptIndex) <=> i < corruptIndex
  BY DEF BatchStopsAtFault
<1>1. i \in Nat /\ corruptIndex \in Nat
  BY DEF Items
<1>2. \A j \in 0..i : BatchItem(j, TRUE, corruptIndex) = "command" <=> j # corruptIndex
  BY DEF BatchItem
<1>3. BatchApplies(i, count, TRUE, corruptIndex) <=> \A j \in 0..i : j # corruptIndex
  BY <1>2 DEF BatchApplies
<1>4. (\A j \in 0..i : j # corruptIndex) <=> i < corruptIndex
  BY <1>1
<1> QED
  BY <1>3, <1>4

\* A probe names its region once, by a key or by coordinates (SendProbe).
THEOREM Probes == ProbeIsTaken
<1> SUFFICES ASSUME NEW isByKey \in BOOLEAN PROVE AgentProbes(ProbeParams(isByKey))
  BY DEF ProbeIsTaken
<1>1. CASE isByKey
  <2>1. ProbeParams(isByKey) = {"color", "source"} \cup {"key", "inset"}
    BY <1>1 DEF ProbeParams
  <2> QED
    BY <2>1 DEF AgentProbes
<1>2. CASE ~isByKey
  <2>1. ProbeParams(isByKey) = {"color", "source"} \cup {"x", "y", "w", "h"}
    BY <1>2 DEF ProbeParams
  <2> QED
    BY <2>1 DEF AgentProbes
<1> QED
  BY <1>1, <1>2

(***************************************************************************)
(* Recursion over the numbers up to a bound.                               *)
(***************************************************************************)
\* A set of naturals that is not empty has a least element.
LEMMA Least ==
    ASSUME NEW S \in SUBSET Nat, S # {}
    PROVE  \E m \in S : \A k \in S : m <= k
<1> DEFINE R == OpToRel(<, Nat)
<1>1. IsWellFoundedOn(R, Nat)
  BY NatLessThanWellFounded
<1>2. \A x, y \in Nat : x < y => <<x, y>> \in R
  BY DEF OpToRel
<1> HIDE DEF R
<1>3. PICK x \in S : \A y \in S : ~(<<y, x>> \in R)
  BY <1>1, WFMin
<1>4. \A y \in S : ~(y < x)
  BY <1>2, <1>3
<1> QED
  BY <1>3, <1>4

\* So a set that holds 0, and with every number the next one, holds all of them up to n.
LEMMA Reached ==
    ASSUME NEW n \in Nat, NEW S, 0 \in S, \A i \in 1..n : i - 1 \in S => i \in S
    PROVE  \A i \in 0..n : i \in S
<1> DEFINE Missed == {i \in 0..n : i \notin S}
<1>1. CASE Missed = {}
  BY <1>1
<1>2. CASE Missed # {}
  <2>1. Missed \in SUBSET Nat
    OBVIOUS
  <2>2. PICK m \in Missed : \A k \in Missed : m <= k
    BY <1>2, <2>1, Least
  <2>3. m \in 1..n /\ m - 1 \in 0..n
    BY <2>2
  <2>4. m - 1 \notin Missed
    BY <2>2, <2>3
  <2> QED
    BY <2>2, <2>3, <2>4
<1> QED
  BY <1>1, <1>2

\* A function defined by recursion is there, whatever a step does.
Folded(g, n, first, step) == \A i \in 0..n : g[i] = IF i = 0 THEN first ELSE step[<<i, g[i - 1]>>]

LEMMA FoldExists ==
    ASSUME NEW V, NEW n \in Nat, NEW first \in V, NEW step \in [(1..n) \X V -> V]
    PROVE  \E g \in [0..n -> V] : Folded(g, n, first, step)
<1> DEFINE S == {i \in 0..n : \E g \in [0..i -> V] : Folded(g, i, first, step)}
<1>1. 0 \in S
  <2> DEFINE g == [i \in 0..0 |-> first]
  <2>1. g \in [0..0 -> V] /\ Folded(g, 0, first, step)
    BY DEF Folded
  <2> QED
    BY <2>1
<1>2. ASSUME NEW m \in 1..n, m - 1 \in S PROVE m \in S
  <2>1. PICK g \in [0..(m - 1) -> V] : Folded(g, m - 1, first, step)
    BY <1>2
  <2>2. m - 1 \in 0..(m - 1) /\ g[m - 1] \in V
    OBVIOUS
  <2>3. step[<<m, g[m - 1]>>] \in V
    BY <2>2
  <2> DEFINE h == [i \in 0..m |-> IF i = m THEN step[<<m, g[m - 1]>>] ELSE g[i]]
  <2>4. h \in [0..m -> V]
    <3>1. \A i \in 0..m : i # m => i \in 0..(m - 1)
      OBVIOUS
    <3> QED
      BY <2>3, <3>1
  <2>5. h[m] = step[<<m, g[m - 1]>>] /\ \A i \in 0..(m - 1) : h[i] = g[i]
    OBVIOUS
  <2> HIDE DEF h
  <2>6. Folded(h, m, first, step)
    <3> SUFFICES ASSUME NEW i \in 0..m PROVE h[i] = IF i = 0 THEN first ELSE step[<<i, h[i - 1]>>]
      BY DEF Folded
    <3>1. CASE i = m
      <4>1. h[m] = step[<<m, g[m - 1]>>] /\ h[m - 1] = g[m - 1] /\ m # 0
        BY <2>2, <2>5
      <4> QED
        BY <3>1, <4>1
    <3>2. CASE i # m
      <4>1. i \in 0..(m - 1) /\ (i # 0 => i - 1 \in 0..(m - 1))
        BY <3>2
      <4>2. h[i] = g[i] /\ (i # 0 => h[i - 1] = g[i - 1])
        BY <2>5, <4>1
      <4> QED
        BY <2>1, <4>1, <4>2 DEF Folded
    <3> QED
      BY <3>1, <3>2
  <2> QED
    BY <2>4, <2>6
<1> HIDE DEF S
<1>3. n \in S
  BY <1>1, <1>2, Reached
<1> QED
  BY <1>3 DEF S

(***************************************************************************)
(* The RPC console.                                                        *)
(***************************************************************************)
\* Through the cards of a drawn frame the client talks to the process that was noted.
MatchInv ==
    /\ attached \in Pids \cup {NoPid} /\ lastAttachedPid \in Pids \cup {NoPid}
    /\ linked \in BOOLEAN /\ dirty \in BOOLEAN /\ cut \in BOOLEAN
    /\ ui \in Console!Places
    /\ ui \in {"list", "status", "methods", "call"} =>
           attached = lastAttachedPid /\ (linked => attached # NoPid)

Answers == [method : Console!MethodNames, status : Console!Status, of : Pids \cap {lastAttachedPid}]

CallsInv == calls \in Seq(Answers) /\ Len(calls) <= HistoryCap

NamesInv ==
    /\ names \in Seq(Console!MethodNames) /\ selectedIdx \in Nat
    /\ names # << >> => /\ lastAttachedPid # NoPid
                        /\ names = SubSeq(Methods[lastAttachedPid], 1, Len(names))

ConsoleInv == MatchInv /\ CallsInv /\ NamesInv

LEMMA NoCalls == calls' = << >> => CallsInv'
<1>1. \A S : << >> \in Seq(S) /\ Len(<< >>) = 0
  BY EmptySeq
<1> QED
  BY <1>1, HistoryAssumption DEF CallsInv

LEMMA ConsoleInit == Console!Init => ConsoleInv
<1> SUFFICES ASSUME Console!Init PROVE ConsoleInv
  OBVIOUS
<1>1. \A S : << >> \in Seq(S) /\ Len(<< >>) = 0
  BY EmptySeq
<1>2. CallsInv
  BY <1>1, HistoryAssumption DEF Console!Init, CallsInv
<1>3. NamesInv
  BY <1>1 DEF Console!Init, NamesInv
<1> QED
  BY <1>2, <1>3 DEF Console!Init, ConsoleInv, MatchInv, Console!Places

\* A prefix of the agent's list is a list of methods.
LEMMA NamesRead ==
    ASSUME attached \in Pids, lastAttachedPid = attached, lastAttachedPid' = attached,
           attached' = attached, selectedIdx' \in Nat, Console!ListAnswers
    PROVE  NamesInv'
<1>1. PICK n \in 0..Len(Methods[attached]) : names' = SubSeq(Methods[attached], 1, n)
  BY DEF Console!ListAnswers
<1>2. Methods[attached] \in Seq(STRING) /\ Len(Methods[attached]) \in Nat
  BY MethodsAssumption, LenProperties
<1>3. \A i \in 1..n : i \in DOMAIN Methods[attached]
  BY <1>1, <1>2, LenProperties
<1>4. \A i \in 1..n : Methods[attached][i] \in Console!MethodNames
  BY <1>3 DEF Console!MethodNames
<1>5. names' \in Seq(Console!MethodNames) /\ Len(names') = n
  BY <1>1, <1>2, <1>4, SubSeqProperties
<1>6. attached # NoPid
  BY PidAssumption
<1> QED
  BY <1>1, <1>5, <1>6 DEF NamesInv, Console!MethodNames

\* A call goes to the front of the history, which is cut to its cap.
LEMMA CallPushed ==
    ASSUME CallsInv, NamesInv, lastAttachedPid' = lastAttachedPid, lastAttachedPid \in Pids, Console!Call
    PROVE  CallsInv'
<1>1. PICK s \in Console!Status :
         Console!PushHistory([method |-> names[selectedIdx], status |-> s, of |-> lastAttachedPid])
  BY DEF Console!Call
<1> DEFINE entry == [method |-> names[selectedIdx], status |-> s, of |-> lastAttachedPid]
           long == <<entry>> \o calls
           len == IF Len(calls) < HistoryCap THEN Len(calls) + 1 ELSE HistoryCap
<1>2. names[selectedIdx] \in Console!MethodNames
  BY ElementOfSeq, LenProperties DEF Console!Call, NamesInv
<1>3. entry \in Answers
  BY <1>2 DEF Answers
<1>4. calls \in Seq(Answers) /\ Len(calls) \in Nat
  BY LenProperties DEF CallsInv
<1>5. <<entry>> \in Seq(Answers) /\ Len(<<entry>>) = 1
  BY <1>3
<1> HIDE DEF entry
<1>6. long \in Seq(Answers) /\ Len(long) = Len(calls) + 1
  BY <1>4, <1>5, ConcatProperties
<1>7. len \in Nat /\ len <= Len(long) /\ len <= HistoryCap
  BY <1>4, <1>6, HistoryAssumption
<1>8. \A i \in 1..len : long[i] \in Answers
  BY <1>6, <1>7, ElementOfSeq
<1> HIDE DEF long
<1>9. SubSeq(long, 1, len) \in Seq(Answers) /\ Len(SubSeq(long, 1, len)) = len
  BY <1>7, <1>8, SubSeqProperties
<1>10. calls' = SubSeq(long, 1, len)
  BY <1>1 DEF entry, long, Console!PushHistory
<1>11. Answers' = Answers
  BY DEF Answers, Console!MethodNames
<1> HIDE DEF len
<1> QED
  BY <1>7, <1>9, <1>10, <1>11 DEF CallsInv

LEMMA ConsoleStep == ConsoleInv /\ [Console!Next]_Console!vars => ConsoleInv'
<1> SUFFICES ASSUME ConsoleInv, [Console!Next]_Console!vars PROVE ConsoleInv'
  OBVIOUS
<1> USE DEF ConsoleInv
<1>n. UNCHANGED <<names, lastAttachedPid>> /\ selectedIdx' \in Nat => NamesInv'
  BY DEF NamesInv
<1>c. UNCHANGED <<calls, lastAttachedPid>> => CallsInv'
  BY DEF CallsInv, Answers
<1>1. CASE Console!EnsureConnection
  <2>1. /\ ui' = "list" /\ lastAttachedPid' = attached /\ attached' = attached
        /\ linked' => attached # NoPid
        /\ selectedIdx' = selectedIdx
    BY <1>1 DEF Console!EnsureConnection
  <2>2. MatchInv'
    <3>1. linked' \in BOOLEAN /\ dirty' \in BOOLEAN /\ cut' \in BOOLEAN
      BY <1>1 DEF Console!EnsureConnection, MatchInv
    <3> QED
      BY <2>1, <3>1 DEF MatchInv, Console!Places
  <2>3. CASE attached # lastAttachedPid
    <3>1. names' = << >> /\ calls' = << >>
      BY <1>1, <2>3 DEF Console!EnsureConnection
    <3>2. \A S : << >> \in Seq(S)
      BY EmptySeq
    <3>3. NamesInv'
      BY <2>1, <3>1, <3>2 DEF NamesInv
    <3> QED
      BY <2>2, <3>1, <3>3, NoCalls
  <2>4. CASE attached = lastAttachedPid
    <3>1. names' = names /\ calls' = calls
      BY <1>1, <2>4 DEF Console!EnsureConnection
    <3> QED
      BY <2>1, <2>2, <2>4, <3>1, <1>n, <1>c DEF NamesInv
  <2> QED
    BY <2>3, <2>4
<1>2. CASE Console!RefreshMethodList
  <2>1. /\ ui = "list" /\ ui' = "status" /\ UNCHANGED <<attached, lastAttachedPid, selectedIdx, calls>>
    BY <1>2 DEF Console!RefreshMethodList
  <2>2. CallsInv'
    BY <2>1, <1>c
  <2>3. MatchInv'
    <3>1. linked' \in BOOLEAN /\ dirty' \in BOOLEAN /\ (linked' => linked)
      BY <1>2 DEF Console!RefreshMethodList, Console!ListAnswers, Console!ListFails, MatchInv
    <3>2. CASE Console!ListAnswers
      <4>1. PICK n \in 0..Len(Methods[attached]) : cut' = (n < Len(Methods[attached]))
        BY <3>2 DEF Console!ListAnswers
      <4>2. cut' \in BOOLEAN
        BY <4>1
      <4> QED
        BY <2>1, <3>1, <4>2 DEF MatchInv, Console!Places
    <3>3. CASE cut' = cut
      BY <2>1, <3>1, <3>3 DEF MatchInv, Console!Places
    <3> QED
      BY <1>2, <3>2, <3>3 DEF Console!RefreshMethodList, Console!ListFails
  <2>4. CASE linked /\ Console!ListAnswers
    <3>1. attached \in Pids /\ attached = lastAttachedPid
      BY <2>1, <2>4 DEF MatchInv
    <3>2. NamesInv'
      BY <2>1, <2>4, <3>1, NamesRead DEF NamesInv
    <3> QED
      BY <2>2, <2>3, <3>2
  <2>5. CASE Console!ListFails
    <3>1. names' = << >>
      BY <2>5 DEF Console!ListFails
    <3>2. \A S : << >> \in Seq(S)
      BY EmptySeq
    <3> QED
      BY <2>1, <2>2, <2>3, <3>1, <3>2 DEF NamesInv
  <2>6. CASE names' = names
    BY <2>1, <2>2, <2>3, <2>6, <1>n DEF NamesInv
  <2> QED
    BY <1>2, <2>4, <2>5, <2>6 DEF Console!RefreshMethodList
<1>3. CASE Console!Call
  <2>1. ui = "call" /\ ui' = "update" /\ UNCHANGED <<attached, lastAttachedPid, names, dirty, cut, selectedIdx>>
    BY <1>3 DEF Console!Call
  <2>2. linked /\ linked' \in BOOLEAN
    BY <1>3 DEF Console!Call
  <2>3. lastAttachedPid \in Pids
    BY <2>1, <2>2 DEF MatchInv
  <2>4. CallsInv'
    BY <1>3, <2>1, <2>3, CallPushed
  <2> QED
    BY <2>1, <2>2, <2>4, <1>n DEF MatchInv, NamesInv, Console!Places
<1>4. CASE Console!MethodList
  <2>1. /\ ui = "methods" /\ ui' = "call"
        /\ UNCHANGED <<attached, linked, lastAttachedPid, names, dirty, cut, calls>>
    BY <1>4 DEF Console!MethodList
  <2>2. selectedIdx' \in Nat
    <3>1. DOMAIN names \subseteq Nat
      BY LenProperties DEF NamesInv
    <3> QED
      BY <1>4, <3>1 DEF Console!MethodList, NamesInv
  <2> QED
    BY <2>1, <2>2, <1>n, <1>c DEF MatchInv, Console!Places
<1>5. CASE Console!StatusCard
  <2>1. /\ ui = "status" /\ ui' = "methods"
        /\ UNCHANGED <<attached, lastAttachedPid, names, cut, selectedIdx, calls>>
    BY <1>5 DEF Console!StatusCard
  <2>2. linked' \in BOOLEAN /\ dirty' \in BOOLEAN /\ (linked' => linked \/ attached # NoPid)
    <3>1. CASE Console!Retry
      BY <3>1 DEF Console!Retry, MatchInv
    <3>2. CASE Console!RefreshMethods
      BY <3>2 DEF Console!RefreshMethods, MatchInv
    <3>3. CASE Console!Disconnect
      BY <3>3 DEF Console!Disconnect, MatchInv
    <3>4. CASE UNCHANGED <<linked, dirty>>
      BY <3>4 DEF MatchInv
    <3> QED
      BY <1>5, <3>1, <3>2, <3>3, <3>4 DEF Console!StatusCard
  <2> QED
    BY <2>1, <2>2, <1>n, <1>c DEF MatchInv, NamesInv, Console!Places
<1>6. CASE Console!Update \/ Console!Collapsed \/ Console!NoCall
  <2>1. /\ ui' \in {"update", "console"} /\ attached' \in Pids \cup {NoPid}
        /\ UNCHANGED <<linked, lastAttachedPid, names, dirty, cut, selectedIdx, calls>>
    BY <1>6 DEF Console!Update, Console!Collapsed, Console!NoCall, MatchInv
  <2> QED
    BY <2>1, <1>n, <1>c DEF MatchInv, NamesInv, Console!Places
<1>7. CASE UNCHANGED Console!vars
  <2>1. UNCHANGED <<ui, attached, linked, lastAttachedPid, names, dirty, cut, selectedIdx, calls>>
    BY <1>7 DEF Console!vars, Console!ownVars
  <2> QED
    BY <2>1, <1>n, <1>c DEF MatchInv, NamesInv
<1> QED
  BY <1>1, <1>2, <1>3, <1>4, <1>5, <1>6, <1>7 DEF Console!Next, Console!DrawRpcConsole

LEMMA ConsoleTypes == ConsoleInv => Console!TypeOK
<1> SUFFICES ASSUME ConsoleInv PROVE Console!TypeOK
  OBVIOUS
<1>1. Answers \subseteq [method : Console!MethodNames, status : Console!Status, of : Pids]
  BY DEF Answers
<1>2. calls \in Seq([method : Console!MethodNames, status : Console!Status, of : Pids])
  BY <1>1, SeqMonotonic DEF ConsoleInv, CallsInv
<1> QED
  BY <1>2 DEF ConsoleInv, MatchInv, CallsInv, NamesInv, Console!TypeOK

LEMMA ConsoleOfOne == ConsoleInv => Console!ConsoleIsOfOneProcess
<1> SUFFICES ASSUME ConsoleInv PROVE Console!ConsoleIsOfOneProcess
  OBVIOUS
<1>1. \A i \in DOMAIN calls : calls[i] \in Answers
  BY ElementOfSeq, LenProperties DEF ConsoleInv, CallsInv
<1> QED
  BY <1>1 DEF ConsoleInv, NamesInv, Answers, Console!ConsoleIsOfOneProcess

(***************************************************************************)
(* The rows the Cache Browser keeps of a list.                             *)
(***************************************************************************)
\* The ids a filter keeps, as Matching computes it.
Kept(f, known, s) ==
    LET K[n \in 0..Len(s)] ==
            IF n = 0 THEN << >>
            ELSE IF Browser!RowMatches(f, known, s[n]) THEN Append(K[n - 1], s[n]) ELSE K[n - 1]
    IN  K[Len(s)]

LEMMA KeptIsMatching ==
    ASSUME NEW f
    PROVE  Browser!Matching(f) = Kept(f, nameCache, ids)
  BY DEF Browser!Matching, Kept

KeptStep(f, known, s, V) ==
    [p \in (1..Len(s)) \X V |->
        IF Browser!RowMatches(f, known, s[p[1]]) THEN Append(p[2], s[p[1]]) ELSE p[2]]

\* The rows kept of the first ids, for each number of them.
KeptBy(g, f, known, s) ==
    /\ g[0] = << >>
    /\ \A i \in 1..Len(s) :
          g[i] = IF Browser!RowMatches(f, known, s[i]) THEN Append(g[i - 1], s[i]) ELSE g[i - 1]

LEMMA KeptFold ==
    ASSUME NEW V, NEW s \in Seq(V), NEW f, NEW known
    PROVE  \E g \in [0..Len(s) -> Seq(V)] : Kept(f, known, s) = g[Len(s)] /\ KeptBy(g, f, known, s)
<1> DEFINE Eq(g) == g = [n \in 0..Len(s) |->
                          IF n = 0 THEN << >>
                          ELSE IF Browser!RowMatches(f, known, s[n]) THEN Append(g[n - 1], s[n]) ELSE g[n - 1]]
<1>1. Len(s) \in Nat /\ \A i \in 1..Len(s) : s[i] \in V
  BY LenProperties, ElementOfSeq
<1>2. << >> \in Seq(V)
  BY EmptySeq
<1> DEFINE step == KeptStep(f, known, s, Seq(V))
<1>3. step \in [(1..Len(s)) \X Seq(V) -> Seq(V)]
  <2>1. \A p \in (1..Len(s)) \X Seq(V) : Append(p[2], s[p[1]]) \in Seq(V)
    BY <1>1, AppendProperties
  <2> QED
    BY <2>1 DEF KeptStep
<1>4. PICK g \in [0..Len(s) -> Seq(V)] : Folded(g, Len(s), << >>, step)
  <2> HIDE DEF step
  <2> QED
    BY <1>1, <1>2, <1>3, FoldExists
<1>5. KeptBy(g, f, known, s)
  <2>1. g[0] = << >>
    <3>1. 0 \in 0..Len(s)
      BY <1>1
    <3> HIDE DEF step
    <3> QED
      BY <1>4, <3>1 DEF Folded
  <2>2. ASSUME NEW i \in 1..Len(s)
        PROVE  g[i] = IF Browser!RowMatches(f, known, s[i]) THEN Append(g[i - 1], s[i]) ELSE g[i - 1]
    <3>1. i \in 0..Len(s) /\ i # 0 /\ i - 1 \in 0..Len(s)
      BY <1>1
    <3>2. g[i - 1] \in Seq(V)
      BY <3>1
    <3>3. g[i] = step[<<i, g[i - 1]>>]
      BY <1>4, <3>1 DEF Folded
    <3> QED
      BY <3>2, <3>3 DEF KeptStep
  <2> QED
    BY <2>1, <2>2 DEF KeptBy
<1>6. \A i \in 0..Len(s) :
         g[i] = IF i = 0 THEN << >>
                ELSE IF Browser!RowMatches(f, known, s[i]) THEN Append(g[i - 1], s[i]) ELSE g[i - 1]
  <2> SUFFICES ASSUME NEW i \in 0..Len(s), i # 0
               PROVE  g[i] = IF Browser!RowMatches(f, known, s[i]) THEN Append(g[i - 1], s[i]) ELSE g[i - 1]
    BY <1>5 DEF KeptBy
  <2>1. i \in 1..Len(s)
    BY <1>1
  <2> QED
    BY <1>5, <2>1 DEF KeptBy
<1>7. Eq(g)
  BY <1>6
<1>8. PICK h : Eq(h) /\ Kept(f, known, s) = h[Len(s)]
  BY <1>7 DEF Kept
<1>9. KeptBy(h, f, known, s)
  <2>1. h[0] = << >>
    BY <1>1, <1>8
  <2>2. ASSUME NEW i \in 1..Len(s)
        PROVE  h[i] = IF Browser!RowMatches(f, known, s[i]) THEN Append(h[i - 1], s[i]) ELSE h[i - 1]
    <3>1. i \in 0..Len(s) /\ i # 0
      BY <1>1
    <3> QED
      BY <1>8, <3>1
  <2> QED
    BY <2>1, <2>2 DEF KeptBy
<1>10. \A i \in 0..Len(s) : h[i] = g[i]
  <2> DEFINE Same == {i \in 0..Len(s) : h[i] = g[i]}
  <2>1. 0 \in Same
    BY <1>1, <1>5, <1>9 DEF KeptBy
  <2>2. ASSUME NEW i \in 1..Len(s), i - 1 \in Same PROVE i \in Same
    <3>1. h[i - 1] = g[i - 1] /\ i \in 0..Len(s)
      BY <2>2
    <3>2. h[i] = g[i]
      BY <1>5, <1>9, <3>1 DEF KeptBy
    <3> QED
      BY <3>1, <3>2
  <2> HIDE DEF Same
  <2>3. \A i \in 0..Len(s) : i \in Same
    BY <1>1, <2>1, <2>2, Reached
  <2> QED
    BY <2>3 DEF Same
<1>11. Kept(f, known, s) = g[Len(s)]
  BY <1>1, <1>8, <1>10
<1> QED
  BY <1>5, <1>11

\* Only ids of the list are kept, and only those that match.
LEMMA KeptMatches ==
    ASSUME NEW V, NEW s \in Seq(V), NEW f, NEW known
    PROVE  /\ Kept(f, known, s) \in Seq(V)
           /\ \A j \in DOMAIN Kept(f, known, s) : Browser!RowMatches(f, known, Kept(f, known, s)[j])
<1>1. PICK g \in [0..Len(s) -> Seq(V)] : Kept(f, known, s) = g[Len(s)] /\ KeptBy(g, f, known, s)
  BY KeptFold
<1>2. Len(s) \in Nat /\ \A i \in 1..Len(s) : s[i] \in V
  BY LenProperties, ElementOfSeq
<1> DEFINE Good == {i \in 0..Len(s) : \A j \in DOMAIN g[i] : Browser!RowMatches(f, known, g[i][j])}
<1>3. 0 \in Good
  <2>1. DOMAIN g[0] = {}
    BY <1>1, EmptySeq, LenProperties DEF KeptBy
  <2> QED
    BY <1>2, <2>1
<1>4. ASSUME NEW i \in 1..Len(s), i - 1 \in Good PROVE i \in Good
  <2>1. g[i - 1] \in Seq(V)
    BY <1>2
  <2>2. CASE Browser!RowMatches(f, known, s[i])
    <3>1. g[i] = Append(g[i - 1], s[i])
      BY <1>1, <2>2 DEF KeptBy
    <3>2. DOMAIN g[i] = 1..(Len(g[i - 1]) + 1) /\ Len(g[i - 1]) \in Nat /\ DOMAIN g[i - 1] = 1..Len(g[i - 1])
      BY <1>2, <2>1, <3>1, AppendProperties, LenProperties
    <3>3. /\ \A j \in 1..Len(g[i - 1]) : g[i][j] = g[i - 1][j]
          /\ g[i][Len(g[i - 1]) + 1] = s[i]
      BY <1>2, <2>1, <3>1, AppendProperties
    <3>4. \A j \in DOMAIN g[i] : j = Len(g[i - 1]) + 1 \/ j \in 1..Len(g[i - 1])
      BY <3>2
    <3> QED
      BY <1>4, <2>2, <3>2, <3>3, <3>4
  <2>3. CASE ~Browser!RowMatches(f, known, s[i])
    <3>1. g[i] = g[i - 1]
      BY <1>1, <2>3 DEF KeptBy
    <3> QED
      BY <1>4, <3>1
  <2> QED
    BY <2>2, <2>3
<1> HIDE DEF Good
<1>5. \A i \in 0..Len(s) : i \in Good
  BY <1>2, <1>3, <1>4, Reached
<1>6. Len(s) \in Good
  BY <1>2, <1>5
<1> QED
  BY <1>1, <1>2, <1>6 DEF Good

\* What is kept depends on nothing but which ids match.
LEMMA KeptAlike ==
    ASSUME NEW V, NEW s \in Seq(V), NEW f, NEW known, NEW known2,
           \A i \in 1..Len(s) : Browser!RowMatches(f, known, s[i]) <=> Browser!RowMatches(f, known2, s[i])
    PROVE  Kept(f, known, s) = Kept(f, known2, s)
<1>1. PICK g \in [0..Len(s) -> Seq(V)] : Kept(f, known, s) = g[Len(s)] /\ KeptBy(g, f, known, s)
  BY KeptFold
<1>2. PICK h \in [0..Len(s) -> Seq(V)] : Kept(f, known2, s) = h[Len(s)] /\ KeptBy(h, f, known2, s)
  BY KeptFold
<1>3. Len(s) \in Nat
  BY LenProperties
<1> DEFINE Same == {i \in 0..Len(s) : g[i] = h[i]}
<1>4. 0 \in Same
  BY <1>1, <1>2, <1>3 DEF KeptBy
<1>5. ASSUME NEW i \in 1..Len(s), i - 1 \in Same PROVE i \in Same
  <2>1. g[i - 1] = h[i - 1]
    BY <1>5
  <2>2. g[i] = h[i]
    BY <1>1, <1>2, <2>1 DEF KeptBy
  <2> QED
    BY <2>2
<1> HIDE DEF Same
<1>6. \A i \in 0..Len(s) : i \in Same
  BY <1>3, <1>4, <1>5, Reached
<1>7. Len(s) \in Same
  BY <1>3, <1>6
<1> QED
  BY <1>1, <1>2, <1>7 DEF Same

(***************************************************************************)
(* The Cache Browser.                                                      *)
(***************************************************************************)
Within == {"begin", "combo", "varp", "filter", "rows", "right"}

\* A list of the type shown is of the cache that is open, unless another panel opened it,
\* and the frame goes on to the list with no other.
ListInv ==
    /\ ui \in {"update", "open"} \cup Within
    /\ open \in Caches \cup {NoCache} /\ (ui \in Within => open \in Caches)
    /\ typeIdx \in Types /\ listedType \in Types \cup {Browser!NoType}
    /\ ids \in Seq(Ids) /\ foreign \in BOOLEAN
    /\ DOMAIN nameCache \subseteq Ids /\ \A i \in DOMAIN nameCache : nameCache[i] \in Caches \X Types
    /\ ui \in {"combo", "varp", "filter", "rows", "right"} => listedType = typeIdx
    /\ listedType = typeIdx /\ ~foreign =>
           /\ ids = Browser!IdsOf(open, typeIdx)
           /\ \A i \in DOMAIN nameCache : nameCache[i] = <<open, typeIdx>>

\* The index has named the ids it has passed, and once it is built it has passed all.
IndexInv ==
    /\ nameIndexing \in BOOLEAN /\ nameIndexBuilt \in BOOLEAN
    /\ nameIndexPos \in 0..Len(ids)
    /\ nameIndexing => \A i \in 1..nameIndexPos : ids[i] \in DOMAIN nameCache
    /\ nameIndexBuilt => \A i \in 1..Len(ids) : ids[i] \in DOMAIN nameCache

\* The memo of the rows is right unless it is marked dirty, or names are coming in.
RowsInv ==
    /\ filtered \in Seq(Ids) /\ idsDirty \in BOOLEAN
    /\ filter \in Filters \cup {NoFilter} /\ filterApplied \in Filters \cup {NoFilter}
    /\ ui = "rows" => filterApplied = filter /\ filtered = Kept(filter, nameCache, ids)
    /\ ~idsDirty /\ ~nameIndexing => filtered = Kept(filterApplied, nameCache, ids)

WalkInv ==
    /\ history \in Seq(Browser!Targets) /\ Len(history) <= MaxHistory
    /\ histPos \in 0..Len(history)
    /\ selectedId \in Ids \cup {Browser!NoId}
    /\ selectedId # Browser!NoId =>
           histPos \in 1..Len(history) /\ history[histPos] = <<typeIdx, selectedId>>

BrowserInv == ListInv /\ IndexInv /\ RowsInv /\ WalkInv

LEMMA BrowserInit == Browser!Init => BrowserInv
<1> SUFFICES ASSUME Browser!Init PROVE BrowserInv
  OBVIOUS
<1> USE DEF Browser!Init
<1>1. \A S : << >> \in Seq(S) /\ Len(<< >>) = 0
  BY EmptySeq
<1>2. WalkInv
  BY <1>1, BudgetsAssumption DEF WalkInv
<1>3. DOMAIN nameCache = {}
  OBVIOUS
<1>4. ListInv
  BY <1>1, <1>3, TypesAssumption DEF Browser!NoType, ListInv, Within
<1>5. IndexInv
  <2>1. Len(ids) = 0 /\ nameIndexPos \in 0..Len(ids)
    BY <1>1
  <2> QED
    BY <2>1 DEF IndexInv
<1>6. RowsInv
  BY <1>1 DEF RowsInv
<1> QED
  BY <1>2, <1>4, <1>5, <1>6 DEF BrowserInv

LEMMA IdsListed == ASSUME NEW c \in Caches \cup {NoCache}, NEW t \in Types PROVE Browser!IdsOf(c, t) \in Seq(Ids)
<1>1. << >> \in Seq(Ids)
  BY EmptySeq
<1>2. c # NoCache => Listed[<<c, t>>] \in Seq(Ids)
  BY ListsAssumption
<1>3. GamevalIds[t] \in Seq(Ids)
  BY ListsAssumption
<1> QED
  BY <1>1, <1>2, <1>3 DEF Browser!IdsOf

\* A list just read is of the cache that is open, and nothing is known of it yet.
LEMMA Reloaded ==
    ASSUME ListInv, RowsInv, NEW t \in Types, Browser!ReloadIds(t),
           UNCHANGED <<open, filtered, filter, filterApplied>>,
           ui' \in Within, ui \in Within, ui' # "rows"
    PROVE  ListInv' /\ IndexInv' /\ RowsInv' /\ typeIdx' = t /\ listedType' = typeIdx'
<1>1. /\ typeIdx' = t /\ listedType' = t /\ ids' = Browser!IdsOf(open, t)
      /\ DOMAIN nameCache' = {}
      /\ nameIndexing' = FALSE /\ nameIndexBuilt' = FALSE /\ nameIndexPos' = 0
      /\ idsDirty' = TRUE /\ foreign' = FALSE
  BY DEF Browser!ReloadIds
<1>2. ids' \in Seq(Ids)
  BY <1>1, IdsListed DEF ListInv
<1>3. Len(ids') \in Nat
  BY <1>2, LenProperties
<1>4. ids' = Browser!IdsOf(open', typeIdx')
  BY <1>1
<1>5. ListInv'
  BY <1>1, <1>2, <1>4 DEF ListInv, Within
<1>6. IndexInv'
  <2>1. nameIndexPos' \in 0..Len(ids')
    BY <1>1, <1>3
  <2> QED
    BY <1>1, <2>1 DEF IndexInv
<1>7. RowsInv'
  BY <1>1 DEF RowsInv
<1> QED
  BY <1>1, <1>5, <1>6, <1>7

\* Names decoded now are of the type shown in the cache that is open, and what was known
\* stays.
LEMMA NamesDecoded ==
    ASSUME ListInv, ui \in Within, NEW set \in SUBSET Ids, Browser!Resolve(set),
           UNCHANGED <<open, typeIdx, listedType, ids, foreign>>, ui' \in Within,
           listedType = typeIdx
    PROVE  /\ ListInv'
           /\ DOMAIN nameCache' = DOMAIN nameCache \cup set
           /\ \A i \in DOMAIN nameCache : nameCache'[i] = nameCache[i]
<1>1. nameCache' = [i \in DOMAIN nameCache \cup set |->
                     IF i \in DOMAIN nameCache THEN nameCache[i] ELSE <<open, typeIdx>>]
  BY DEF Browser!Resolve
<1>2. <<open, typeIdx>> \in Caches \X Types
  BY DEF ListInv
<1>3. /\ DOMAIN nameCache' = DOMAIN nameCache \cup set
      /\ \A i \in DOMAIN nameCache : nameCache'[i] = nameCache[i]
      /\ \A i \in set \ DOMAIN nameCache : nameCache'[i] = <<open, typeIdx>>
  BY <1>1
<1>4. \A i \in DOMAIN nameCache' : nameCache'[i] \in Caches \X Types
  BY <1>2, <1>3 DEF ListInv
<1>5. ~foreign => \A i \in DOMAIN nameCache' : nameCache'[i] = <<open, typeIdx>>
  BY <1>3 DEF ListInv
<1>6. Browser!IdsOf(open', typeIdx') = Browser!IdsOf(open, typeIdx)
  OBVIOUS
<1> QED
  BY <1>3, <1>4, <1>5, <1>6 DEF ListInv, Within

\* The names of rows that are kept without theirs do not change what is kept.
LEMMA RowsNamed ==
    ASSUME ids \in Seq(Ids), NEW f, NEW set \in SUBSET Browser!Rng(Kept(f, nameCache, ids)),
           set \cap DOMAIN nameCache = {},
           DOMAIN nameCache' = DOMAIN nameCache \cup set,
           \A i \in DOMAIN nameCache : nameCache'[i] = nameCache[i]
    PROVE  Kept(f, nameCache', ids) = Kept(f, nameCache, ids)
<1>1. \A x \in set : Browser!RowMatches(f, nameCache, x)
  BY KeptMatches DEF Browser!Rng
<1>2. \A x \in set : f = NoFilter \/ <<f, x>> \in IdHits
  BY <1>1 DEF Browser!RowMatches
<1>3. \A x : Browser!RowMatches(f, nameCache, x) <=> Browser!RowMatches(f, nameCache', x)
  BY <1>2 DEF Browser!RowMatches
<1> QED
  BY <1>3, KeptAlike

\* The index stops at a place in the list.
LEMMA PumpStops ==
    ASSUME ids \in Seq(Ids), nameIndexPos \in 0..Len(ids)
    PROVE  Browser!PumpStop \in nameIndexPos..Len(ids)
<1> DEFINE new(p) == {ids[i] : i \in (nameIndexPos + 1)..p} \ DOMAIN nameCache
           stops == {p \in nameIndexPos..Len(ids) :
                        p = Len(ids) \/ Browser!Cardinality(new(p)) = NameBudget}
<1>1. Len(ids) \in Nat
  BY LenProperties
<1>2. stops \in SUBSET Nat /\ Len(ids) \in stops
  BY <1>1
<1>3. Browser!PumpStop = CHOOSE p \in stops : \A q \in stops : p <= q
  BY DEF Browser!PumpStop
<1>4. stops \subseteq nameIndexPos..Len(ids)
  OBVIOUS
<1> HIDE DEF stops
<1>5. \E p \in stops : \A q \in stops : p <= q
  BY <1>2, Least
<1>6. Browser!PumpStop \in stops
  BY <1>3, <1>5
<1> QED
  BY <1>4, <1>6

\* The index goes on with the names of the ids it passes.
LEMMA Pumped ==
    ASSUME ListInv, IndexInv, RowsInv, ui \in Within, ui' \in Within, ui' # "rows",
           UNCHANGED <<open, filtered, filter, filterApplied>>, listedType = typeIdx, Browser!PumpNameIndex
    PROVE  ListInv' /\ IndexInv' /\ RowsInv' /\ typeIdx' = typeIdx
<1> DEFINE stop == Browser!PumpStop
           set == {ids[i] : i \in (nameIndexPos + 1)..stop}
<1>1. /\ nameIndexing /\ nameIndexPos' = stop /\ Browser!Resolve(set)
      /\ nameIndexing' = (stop < Len(ids)) /\ nameIndexBuilt' = (stop = Len(ids))
      /\ idsDirty' = (idsDirty \/ stop = Len(ids))
      /\ UNCHANGED <<typeIdx, listedType, ids, foreign>>
  BY DEF Browser!PumpNameIndex
<1>2. ids \in Seq(Ids) /\ Len(ids) \in Nat /\ nameIndexPos \in 0..Len(ids)
  BY LenProperties DEF ListInv, IndexInv
<1>3. stop \in nameIndexPos..Len(ids)
  BY <1>2, PumpStops
<1> HIDE DEF stop
<1>4. \A i \in 1..Len(ids) : ids[i] \in Ids
  BY <1>2, ElementOfSeq
<1>5. set \in SUBSET Ids
  BY <1>2, <1>3, <1>4
<1>6. ListInv' /\ DOMAIN nameCache' = DOMAIN nameCache \cup set
  <2> HIDE DEF set
  <2> QED
    BY <1>1, <1>5, NamesDecoded
<1>7. \A i \in 1..stop : ids[i] \in DOMAIN nameCache'
  <2> SUFFICES ASSUME NEW i \in 1..stop PROVE ids[i] \in DOMAIN nameCache'
    OBVIOUS
  <2>1. i \in 1..nameIndexPos \/ i \in (nameIndexPos + 1)..stop
    BY <1>2, <1>3
  <2>2. i \in 1..nameIndexPos => ids[i] \in DOMAIN nameCache
    BY <1>1 DEF IndexInv
  <2>3. i \in (nameIndexPos + 1)..stop => ids[i] \in set
    OBVIOUS
  <2> QED
    BY <1>6, <2>1, <2>2, <2>3
<1> HIDE DEF set
<1>8. IndexInv'
  <2>1. nameIndexPos' \in 0..Len(ids')
    BY <1>1, <1>2, <1>3
  <2>2. nameIndexing' \in BOOLEAN /\ nameIndexBuilt' \in BOOLEAN
    BY <1>1
  <2>3. nameIndexBuilt' => stop = Len(ids)
    BY <1>1
  <2> QED
    BY <1>1, <1>7, <2>1, <2>2, <2>3 DEF IndexInv
<1>9. idsDirty' \in BOOLEAN /\ (nameIndexing' \/ idsDirty')
  <2>1. stop < Len(ids) \/ stop = Len(ids)
    BY <1>2, <1>3
  <2>2. idsDirty \in BOOLEAN
    BY DEF RowsInv
  <2>3. CASE stop < Len(ids)
    BY <1>1, <2>2, <2>3
  <2>4. CASE stop = Len(ids)
    BY <1>1, <2>2, <2>4
  <2> QED
    BY <2>1, <2>3, <2>4
<1>10. RowsInv'
  BY <1>1, <1>9 DEF RowsInv
<1> QED
  BY <1>1, <1>6, <1>8, <1>10

\* What is shown after an entry was loaded is the entry, from a place where the list is of
\* its type.
LEMMA Loaded ==
    ASSUME ListInv, IndexInv, RowsInv, listedType = typeIdx, NEW t \in Types, NEW id, Browser!Load(t, id),
           UNCHANGED <<open, filtered, filter, filterApplied>>, ui \in {"varp", "right"},
           ui' \in {"right", "update"}
    PROVE  ListInv' /\ IndexInv' /\ RowsInv' /\ typeIdx' = t /\ selectedId' = id
<1>1. CASE Browser!ReloadIds(t)
  <2>1. ids' \in Seq(Ids)
    BY <1>1, IdsListed DEF Browser!ReloadIds, ListInv
  <2>2. Len(ids') \in Nat
    BY <2>1, LenProperties
  <2>3. /\ typeIdx' = t /\ listedType' = t /\ ids' = Browser!IdsOf(open, t)
        /\ DOMAIN nameCache' = {}
        /\ nameIndexing' = FALSE /\ nameIndexBuilt' = FALSE /\ nameIndexPos' = 0
        /\ idsDirty' = TRUE /\ foreign' = FALSE
    BY <1>1 DEF Browser!ReloadIds
  <2>4. ids' = Browser!IdsOf(open', typeIdx')
    BY <2>3
  <2>5. ListInv'
    BY <2>1, <2>3, <2>4 DEF ListInv, Within
  <2>6. IndexInv'
    <3>1. nameIndexPos' \in 0..Len(ids')
      BY <2>2, <2>3
    <3> QED
      BY <2>3, <3>1 DEF IndexInv
  <2>7. RowsInv'
    BY <2>3 DEF RowsInv
  <2> QED
    BY <2>3, <2>5, <2>6, <2>7 DEF Browser!Load
<1>2. CASE t = typeIdx /\ UNCHANGED <<typeIdx, Browser!listVars, idsDirty>>
  <2>1. UNCHANGED <<typeIdx, listedType, ids, nameCache, nameIndexing, nameIndexBuilt, nameIndexPos, foreign, idsDirty>>
    BY <1>2 DEF Browser!listVars
  <2>2. Browser!IdsOf(open', typeIdx') = Browser!IdsOf(open, typeIdx)
    BY <2>1
  <2>3. ListInv'
    BY <2>1, <2>2 DEF ListInv, Within
  <2>4. IndexInv' /\ RowsInv'
    BY <2>1 DEF IndexInv, RowsInv
  <2> QED
    BY <1>2, <2>3, <2>4 DEF Browser!Load
<1> QED
  BY <1>1, <1>2 DEF Browser!Load

\* What was visited is the prefix walked so far with the new entry at its end.
LEMMA Visited ==
    ASSUME WalkInv, NEW t \in Types, NEW id \in Ids, typeIdx' = t, selectedId' = id, histPos < MaxHistory,
           history' = SubSeq(history, 1, histPos) \o <<<<t, id>>>>, histPos' = histPos + 1
    PROVE  WalkInv'
<1> DEFINE target == <<t, id>>
<1>1. history \in Seq(Browser!Targets)
  BY DEF WalkInv
<1>2. target \in Browser!Targets
  BY DEF Browser!Targets
<1>3. histPos \in Nat /\ histPos <= Len(history) /\ Len(history) \in Nat
  BY <1>1, LenProperties DEF WalkInv
<1> HIDE DEF target
<1>4. \A i \in 1..histPos : history[i] \in Browser!Targets
  BY <1>1, <1>3, ElementOfSeq
<1> DEFINE walked == SubSeq(history, 1, histPos)
<1>5. walked \in Seq(Browser!Targets) /\ Len(walked) = histPos
  BY <1>3, <1>4, SubSeqProperties
<1>6. Append(walked, target) = walked \o <<target>>
  BY <1>2, <1>5, AppendIsConcat
<1>7. history' = Append(walked, target)
  BY <1>6 DEF target, walked
<1> HIDE DEF walked
<1>8. /\ history' \in Seq(Browser!Targets) /\ Len(history') = histPos + 1
      /\ history'[histPos + 1] = target
  <2>1. /\ Append(walked, target) \in Seq(Browser!Targets)
        /\ Len(Append(walked, target)) = Len(walked) + 1
        /\ Append(walked, target)[Len(walked) + 1] = target
    BY <1>2, <1>5, AppendProperties
  <2> QED
    BY <1>5, <1>7, <2>1
<1>9. Browser!Targets' = Browser!Targets
  BY DEF Browser!Targets
<1>10. Len(history') <= MaxHistory /\ histPos' \in 0..Len(history') /\ histPos' \in 1..Len(history')
  BY <1>3, <1>8, BudgetsAssumption
<1>11. history'[histPos'] = <<typeIdx', selectedId'>>
  BY <1>8 DEF target
<1> QED
  BY <1>8, <1>9, <1>10, <1>11 DEF WalkInv

\* A step to another place of the history shows what stands there.
LEMMA Walked ==
    ASSUME WalkInv, NEW i \in DOMAIN history, typeIdx' = history[i][1], selectedId' = history[i][2],
           history' = history, histPos' = i
    PROVE  WalkInv'
<1>1. i \in 1..Len(history) /\ Len(history) \in Nat
  BY LenProperties DEF WalkInv
<1>2. history[i] \in Types \X Ids
  BY <1>1, ElementOfSeq DEF WalkInv, Browser!Targets
<1>3. history[i] = <<history[i][1], history[i][2]>> /\ selectedId' \in Ids
  BY <1>2
<1>4. history'[histPos'] = <<typeIdx', selectedId'>>
  BY <1>3
<1>5. histPos' \in 0..Len(history') /\ histPos' \in 1..Len(history')
  BY <1>1
<1>6. Browser!Targets' = Browser!Targets
  BY DEF Browser!Targets
<1> QED
  BY <1>3, <1>4, <1>5, <1>6 DEF WalkInv

LEMMA BrowserStep == BrowserInv /\ [Browser!Next]_Browser!vars => BrowserInv'
<1> SUFFICES ASSUME BrowserInv, [Browser!Next]_Browser!vars PROVE BrowserInv'
  OBVIOUS
<1>0. ListInv /\ IndexInv /\ RowsInv /\ WalkInv
  BY DEF BrowserInv
<1>w. UNCHANGED <<typeIdx, selectedId, history, histPos>> => WalkInv'
  BY <1>0 DEF WalkInv, Browser!Targets
<1>n. UNCHANGED <<ids, nameCache, nameIndexing, nameIndexBuilt, nameIndexPos>> => IndexInv'
  BY <1>0 DEF IndexInv
<1>r. UNCHANGED <<ids, nameCache, nameIndexing, filter, filterApplied, filtered, idsDirty>> /\ ui' # "rows" => RowsInv'
  BY <1>0 DEF RowsInv
  \* A step that leaves the list alone, with its place.
<1>s. ASSUME UNCHANGED <<open, typeIdx, Browser!listVars, idsDirty, Browser!rowVars>>,
             ui' \in {"open", "right", "update", "varp", "filter", "combo"},
             ui' \in Within => open \in Caches,
             ui' \in {"combo", "varp", "filter", "right"} => listedType = typeIdx
      PROVE  ListInv' /\ IndexInv' /\ RowsInv'
  <2>1. UNCHANGED <<open, typeIdx, listedType, ids, nameCache, nameIndexing, nameIndexBuilt, nameIndexPos, foreign,
                    filter, filterApplied, filtered, idsDirty>>
    BY <1>s DEF Browser!listVars, Browser!rowVars
  <2>2. ui' # "rows"
    BY <1>s
  <2>3. IndexInv' /\ RowsInv'
    BY <2>1, <2>2, <1>n, <1>r
  <2>4. ids' = Browser!IdsOf(open', typeIdx') <=> ids = Browser!IdsOf(open, typeIdx)
    BY <2>1
  <2>5. ListInv'
    BY <1>0, <1>s, <2>1, <2>4 DEF ListInv, Within
  <2> QED
    BY <2>3, <2>5
<1>1. CASE Browser!LookupOpens
  <2>1. /\ ui = "update" /\ ui' = ui /\ open' \in Caches \cup {NoCache} /\ foreign' = TRUE
        /\ UNCHANGED <<typeIdx, listedType, ids, nameCache, nameIndexing, nameIndexBuilt, nameIndexPos,
                       filter, filterApplied, filtered, idsDirty, selectedId, history, histPos>>
    BY <1>1 DEF Browser!LookupOpens, Browser!rowVars, Browser!walkVars
  <2>2. ListInv'
    BY <1>0, <2>1 DEF ListInv, Within
  <2> QED
    BY <2>1, <2>2, <1>w, <1>n, <1>r DEF BrowserInv
<1>2. CASE Browser!BeginWindow
  <2>1. ui' = "open" /\ UNCHANGED <<open, typeIdx, Browser!listVars, idsDirty, Browser!rowVars>>
        /\ UNCHANGED <<selectedId, history, histPos>>
    BY <1>2 DEF Browser!BeginWindow, Browser!ownVars, Browser!walkVars
  <2> QED
    BY <2>1, <1>s, <1>w DEF BrowserInv, Within
<1>3. CASE Browser!DrawCacheOpen
  <2>1. /\ UNCHANGED <<typeIdx, ids, nameCache, nameIndexing, nameIndexBuilt, nameIndexPos, foreign,
                       filter, filterApplied, filtered, idsDirty, selectedId, history, histPos>>
        /\ ui = "open" /\ ui' = IF open' = NoCache THEN "update" ELSE "begin"
        /\ UNCHANGED <<open, listedType>> \/ (open' \in Caches \cup {NoCache} /\ listedType' = Browser!NoType)
    BY <1>3 DEF Browser!DrawCacheOpen, Browser!walkVars, Browser!rowVars
  <2>2. typeIdx # Browser!NoType
    BY <1>0, TypesAssumption DEF ListInv, Browser!NoType
  <2>3. open' \in Caches \cup {NoCache} /\ (ui' \in Within => open' \in Caches) /\ ui' \in {"update", "begin"}
    BY <1>0, <2>1 DEF ListInv, Within
  <2>4. ListInv'
    <3>1. CASE UNCHANGED <<open, listedType>>
      <4>1. ids' = Browser!IdsOf(open', typeIdx') <=> ids = Browser!IdsOf(open, typeIdx)
        BY <2>1, <3>1
      <4> QED
        BY <1>0, <2>1, <2>3, <3>1, <4>1 DEF ListInv, Within
    <3>2. CASE listedType' = Browser!NoType
      <4>1. listedType' # typeIdx'
        BY <2>1, <2>2, <3>2
      <4> QED
        BY <1>0, <2>1, <2>3, <3>2, <4>1 DEF ListInv, Within
    <3> QED
      BY <2>1, <3>1, <3>2
  <2> QED
    BY <2>1, <2>3, <2>4, <1>w, <1>n, <1>r DEF BrowserInv
<1>4. CASE Browser!DrawCacheBrowser
  <2>1. /\ ui = "begin" /\ ui' \in {"combo", "right"}
        /\ UNCHANGED <<open, filter, filterApplied, filtered, selectedId, history, histPos>>
    BY <1>4 DEF Browser!DrawCacheBrowser, Browser!walkVars, Browser!rowVars
  <2>2. typeIdx \in Types /\ ui \in Within /\ ui' \in Within /\ ui' # "rows" /\ open \in Caches
    BY <1>0, <2>1 DEF ListInv, Within
  <2>3. CASE listedType # typeIdx /\ Browser!ReloadIds(typeIdx)
    <3>1. ListInv' /\ IndexInv' /\ RowsInv' /\ typeIdx' = typeIdx
      BY <1>0, <2>1, <2>2, <2>3, Reloaded
    <3> QED
      BY <2>1, <3>1, <1>w DEF BrowserInv
  <2>4. CASE listedType = typeIdx /\ Browser!PumpNameIndex
    <3>1. ListInv' /\ IndexInv' /\ RowsInv' /\ typeIdx' = typeIdx
      BY <1>0, <2>1, <2>2, <2>4, Pumped
    <3> QED
      BY <2>1, <3>1, <1>w DEF BrowserInv
  <2>5. CASE listedType = typeIdx /\ UNCHANGED <<typeIdx, Browser!listVars, idsDirty>>
    <3>1. UNCHANGED Browser!rowVars
      BY <2>1 DEF Browser!rowVars
    <3> QED
      BY <2>1, <2>2, <2>5, <3>1, <1>s, <1>w DEF BrowserInv
  <2> QED
    BY <1>4, <2>3, <2>4, <2>5 DEF Browser!DrawCacheBrowser
<1>5. CASE Browser!DrawTypeCombo
  <2>1. /\ ui = "combo" /\ ui' \in {"varp", "filter"}
        /\ UNCHANGED <<open, filter, filterApplied, filtered, history, histPos>>
    BY <1>5 DEF Browser!DrawTypeCombo, Browser!walkVars, Browser!rowVars
  <2>2. ui \in Within /\ ui' \in Within /\ ui' # "rows" /\ open \in Caches
    BY <1>0, <2>1 DEF ListInv, Within
  <2>3. ASSUME NEW t \in Types, Browser!ReloadIds(t), selectedId' = Browser!NoId
        PROVE  BrowserInv'
    <3>1. ListInv' /\ IndexInv' /\ RowsInv'
      BY <1>0, <2>1, <2>2, <2>3, Reloaded
    <3>2. WalkInv'
      BY <1>0, <2>1, <2>3 DEF WalkInv, Browser!Targets
    <3> QED
      BY <3>1, <3>2 DEF BrowserInv
  <2>4. CASE UNCHANGED <<typeIdx, Browser!listVars, idsDirty, selectedId>>
    <3>1. UNCHANGED Browser!rowVars /\ listedType = typeIdx
      BY <1>0, <2>1 DEF Browser!rowVars, ListInv
    <3> QED
      BY <2>1, <2>2, <2>4, <3>1, <1>s, <1>w DEF BrowserInv
  <2> QED
    BY <1>5, <2>3, <2>4 DEF Browser!DrawTypeCombo
<1>6. ASSUME NEW t \in Types, NEW id \in Ids, Browser!Navigate(t, id), UNCHANGED <<open, Browser!rowVars>>,
             ui \in {"varp", "right"}, ui' \in {"right", "update"}
      PROVE  BrowserInv'
  <2>1. UNCHANGED <<open, filter, filterApplied, filtered>>
    BY <1>6 DEF Browser!rowVars
  <2>2. listedType = typeIdx /\ Browser!Load(t, id)
    BY <1>0, <1>6 DEF ListInv, Browser!Navigate
  <2>3. ListInv' /\ IndexInv' /\ RowsInv' /\ typeIdx' = t /\ selectedId' = id
    BY <1>0, <1>6, <2>1, <2>2, Loaded
  <2>4. WalkInv'
    BY <1>0, <1>6, <2>3, Visited DEF Browser!Navigate
  <2> QED
    BY <2>3, <2>4 DEF BrowserInv
<1>7. CASE Browser!DrawSyntheticVarpEntry
  <2>1. ui = "varp" /\ ui' = "right" /\ UNCHANGED <<open, Browser!rowVars>>
    BY <1>7 DEF Browser!DrawSyntheticVarpEntry
  <2>2. typeIdx \in Types /\ listedType = typeIdx /\ open \in Caches
    BY <1>0, <2>1 DEF ListInv, Within
  <2>3. CASE UNCHANGED <<typeIdx, Browser!listVars, idsDirty, selectedId, Browser!walkVars>>
    <3>1. UNCHANGED <<selectedId, history, histPos>>
      BY <2>3 DEF Browser!walkVars
    <3> QED
      BY <2>1, <2>2, <2>3, <3>1, <1>s, <1>w DEF BrowserInv
  <2> QED
    BY <1>6, <1>7, <2>1, <2>2, <2>3 DEF Browser!DrawSyntheticVarpEntry
<1>8. CASE Browser!DrawFilter
  <2>1. /\ ui = "filter" /\ ui' = "rows" /\ filter' \in Filters \cup {NoFilter}
        /\ UNCHANGED <<open, typeIdx, listedType, ids, nameCache, nameIndexBuilt, foreign, selectedId, history, histPos>>
    BY <1>8 DEF Browser!DrawFilter, Browser!walkVars
  <2>2. \/ nameIndexing' = TRUE /\ nameIndexPos' = 0
        \/ UNCHANGED <<nameIndexing, nameIndexPos>>
    BY <1>8 DEF Browser!DrawFilter, Browser!DrawNameIndexControl
  <2>3. ids \in Seq(Ids) /\ Len(ids) \in Nat
    BY <1>0, LenProperties DEF ListInv
  <2>4. ListInv'
    <3>1. ids' = Browser!IdsOf(open', typeIdx') <=> ids = Browser!IdsOf(open, typeIdx)
      BY <2>1
    <3> QED
      BY <1>0, <2>1, <3>1 DEF ListInv, Within
  <2>5. IndexInv'
    <3>1. CASE nameIndexing' = TRUE /\ nameIndexPos' = 0
      <4>1. nameIndexPos' \in 0..Len(ids') /\ 1..nameIndexPos' = {}
        BY <2>1, <2>3, <3>1
      <4> QED
        BY <1>0, <2>1, <3>1, <4>1 DEF IndexInv
    <3>2. CASE UNCHANGED <<nameIndexing, nameIndexPos>>
      BY <2>1, <3>2, <1>n
    <3> QED
      BY <2>2, <3>1, <3>2
  <2>6. RowsInv'
    <3>1. nameIndexing' \in BOOLEAN /\ (~nameIndexing' => ~nameIndexing)
      BY <1>0, <2>2 DEF IndexInv
    <3>2. CASE idsDirty \/ filterApplied # filter' \/ nameIndexing'
      <4>1. filtered' = Browser!Matching(filter') /\ filterApplied' = filter' /\ idsDirty' = FALSE
        BY <1>8, <3>2 DEF Browser!DrawFilter, Browser!RecomputeFiltered
      <4>2. filtered' = Kept(filter', nameCache, ids)
        BY <4>1, KeptIsMatching
      <4>3. filtered' \in Seq(Ids) /\ filtered' = Kept(filter', nameCache', ids')
        BY <2>1, <2>3, <4>2, KeptMatches
      <4> QED
        BY <2>1, <4>1, <4>3 DEF RowsInv
    <3>3. CASE ~(idsDirty \/ filterApplied # filter' \/ nameIndexing')
      <4>1. UNCHANGED <<filtered, filterApplied, idsDirty>> /\ filterApplied = filter' /\ ~idsDirty /\ ~nameIndexing
        BY <1>8, <3>1, <3>3 DEF Browser!DrawFilter, Browser!RecomputeFiltered
      <4>2. filtered = Kept(filterApplied, nameCache, ids)
        BY <1>0, <4>1 DEF RowsInv
      <4>3. filtered' = Kept(filter', nameCache', ids')
        BY <2>1, <4>1, <4>2
      <4> QED
        BY <1>0, <2>1, <4>1, <4>3 DEF RowsInv
    <3> QED
      BY <3>2, <3>3
  <2> QED
    BY <2>1, <2>4, <2>5, <2>6, <1>w DEF BrowserInv
<1>9. CASE Browser!DrawIdRows
  <2>1. /\ ui = "rows" /\ ui' = "right"
        /\ UNCHANGED <<open, typeIdx, listedType, ids, nameIndexing, nameIndexBuilt, nameIndexPos,
                       foreign, filter, filterApplied, filtered, idsDirty>>
    BY <1>9 DEF Browser!DrawIdRows, Browser!rowVars
  <2>2. PICK view \in SUBSET (Browser!Rng(filtered) \ DOMAIN nameCache) : Browser!Resolve(view)
    BY <1>9 DEF Browser!DrawIdRows
  <2>3. filtered \in Seq(Ids) /\ ids \in Seq(Ids) /\ listedType = typeIdx
    BY <1>0, <2>1 DEF RowsInv, ListInv
  <2>4. \A x \in Browser!Rng(filtered) : x \in Ids
    BY <2>3, ElementOfSeq, LenProperties DEF Browser!Rng
  <2>5. view \in SUBSET Ids
    BY <2>4
  <2>6. ui \in Within /\ ui' \in Within
    BY <2>1 DEF Within
  <2>7. /\ ListInv' /\ DOMAIN nameCache' = DOMAIN nameCache \cup view
        /\ \A i \in DOMAIN nameCache : nameCache'[i] = nameCache[i]
    BY <1>0, <2>1, <2>2, <2>3, <2>5, <2>6, NamesDecoded
  <2>8. filtered = Kept(filter, nameCache, ids) /\ filterApplied = filter
    BY <1>0, <2>1 DEF RowsInv
  <2>9. Kept(filter, nameCache', ids) = Kept(filter, nameCache, ids)
    <3>1. view \in SUBSET Browser!Rng(Kept(filter, nameCache, ids)) /\ view \cap DOMAIN nameCache = {}
      BY <2>2, <2>8
    <3> QED
      BY <2>3, <2>7, <3>1, RowsNamed
  <2>10. RowsInv'
    <3>1. filtered' = Kept(filterApplied', nameCache', ids')
      BY <2>1, <2>8, <2>9
    <3> QED
      BY <1>0, <2>1, <3>1 DEF RowsInv
  <2>11. IndexInv'
    BY <1>0, <2>1, <2>7 DEF IndexInv
  <2>12. CASE UNCHANGED <<selectedId, Browser!walkVars>>
    <3>1. UNCHANGED <<selectedId, history, histPos>>
      BY <2>12 DEF Browser!walkVars
    <3> QED
      BY <2>1, <2>7, <2>10, <2>11, <3>1, <1>w DEF BrowserInv
  <2>13. ASSUME NEW id \in Browser!Rng(filtered), histPos < MaxHistory, selectedId' = id,
               history' = SubSeq(history, 1, histPos) \o <<<<typeIdx, id>>>>, histPos' = histPos + 1
        PROVE  BrowserInv'
    <3>1. typeIdx \in Types /\ typeIdx' = typeIdx /\ id \in Ids
      BY <1>0, <2>1, <2>4 DEF ListInv
    <3>2. WalkInv'
      BY <1>0, <2>13, <3>1, Visited
    <3> QED
      BY <2>7, <2>10, <2>11, <3>2 DEF BrowserInv
  <2> QED
    BY <1>9, <2>12, <2>13 DEF Browser!DrawIdRows
<1>10. CASE Browser!DrawRightPane
  <2>1. ui = "right" /\ ui' = "update" /\ UNCHANGED <<open, Browser!rowVars>>
    BY <1>10 DEF Browser!DrawRightPane
  <2>2. UNCHANGED <<open, filter, filterApplied, filtered>> /\ listedType = typeIdx
    BY <1>0, <2>1 DEF Browser!rowVars, ListInv
  <2>3. CASE Browser!FollowLink
    <3>1. PICK target \in Types \X Ids : Browser!Navigate(target[1], target[2])
      BY <2>3 DEF Browser!FollowLink, Browser!Targets
    <3>2. target[1] \in Types /\ target[2] \in Ids
      OBVIOUS
    <3> QED
      BY <1>6, <2>1, <3>1, <3>2
  <2>4. ASSUME NEW delta \in {-1, 1}, Browser!GoHistory(delta)
        PROVE  BrowserInv'
    <3>1. PICK i : i = histPos + delta
      OBVIOUS
    <3>2. i \in DOMAIN history /\ histPos' = i /\ history' = history
      BY <2>4, <3>1 DEF Browser!GoHistory
    <3>3. history[i] \in Types \X Ids
      BY <1>0, <3>2, ElementOfSeq, LenProperties DEF WalkInv, Browser!Targets
    <3>4. Browser!Load(history[i][1], history[i][2]) /\ history[i][1] \in Types
      BY <2>4, <3>2, <3>3 DEF Browser!GoHistory
    <3>5. /\ ListInv' /\ IndexInv' /\ RowsInv'
          /\ typeIdx' = history[i][1] /\ selectedId' = history[i][2]
      BY <1>0, <2>1, <2>2, <3>4, Loaded
    <3>6. WalkInv'
      BY <1>0, <3>2, <3>5, Walked
    <3> QED
      BY <3>5, <3>6 DEF BrowserInv
  <2>5. CASE UNCHANGED <<typeIdx, Browser!listVars, idsDirty, selectedId, Browser!walkVars>>
    <3>1. UNCHANGED <<selectedId, history, histPos>>
      BY <2>5 DEF Browser!walkVars
    <3>2. open \in Caches
      BY <1>0, <2>1 DEF ListInv, Within
    <3> QED
      BY <2>1, <2>2, <2>5, <3>1, <3>2, <1>s, <1>w DEF BrowserInv
  <2> QED
    BY <1>10, <2>3, <2>4, <2>5 DEF Browser!DrawRightPane, Browser!DrawDetailToolbar
<1>11. CASE UNCHANGED Browser!vars
  <2>1. UNCHANGED <<ui, open, typeIdx, listedType, ids, nameCache, nameIndexing, nameIndexBuilt, nameIndexPos, foreign,
                    filter, filterApplied, filtered, idsDirty, selectedId, history, histPos>>
    BY <1>11 DEF Browser!vars, Browser!ownVars, Browser!listVars, Browser!rowVars, Browser!walkVars
  <2>2. ids' = Browser!IdsOf(open', typeIdx') <=> ids = Browser!IdsOf(open, typeIdx)
    BY <2>1
  <2>3. ListInv'
    BY <1>0, <2>1, <2>2 DEF ListInv
  <2>4. RowsInv'
    BY <1>0, <2>1 DEF RowsInv
  <2> QED
    BY <2>1, <2>3, <2>4, <1>w, <1>n DEF BrowserInv
<1> QED
  BY <1>1, <1>2, <1>3, <1>4, <1>5, <1>7, <1>8, <1>9, <1>10, <1>11 DEF Browser!Next, Browser!Frame

LEMMA BrowserTypes == BrowserInv => Browser!TypeOK
<1> SUFFICES ASSUME BrowserInv PROVE Browser!TypeOK
  OBVIOUS
<1> USE DEF BrowserInv, ListInv, IndexInv, RowsInv, WalkInv
<1>1. ui \in {"update", "open", "begin", "combo", "varp", "filter", "rows", "right"}
  BY DEF Within
<1>2. Browser!Rng(nameCache) \subseteq Caches \X Types
  BY DEF Browser!Rng
<1> QED
  BY <1>1, <1>2 DEF Browser!TypeOK

LEMMA BrowserRows == BrowserInv => Browser!RowsAreTheMatches
<1> SUFFICES ASSUME BrowserInv, ui = "rows" PROVE /\ filtered = Browser!Matching(filter)
                                                  /\ nameIndexBuilt => Browser!Rng(ids) \subseteq DOMAIN nameCache
  BY DEF Browser!RowsAreTheMatches
<1>1. filtered = Browser!Matching(filter)
  BY KeptIsMatching DEF BrowserInv, RowsInv
<1>2. DOMAIN ids = 1..Len(ids)
  BY LenProperties DEF BrowserInv, ListInv
<1>3. nameIndexBuilt => Browser!Rng(ids) \subseteq DOMAIN nameCache
  BY <1>2 DEF BrowserInv, IndexInv, Browser!Rng
<1> QED
  BY <1>1, <1>3

LEMMA BrowserList == BrowserInv => Browser!ListIsOfOpenCache
  BY DEF BrowserInv, ListInv, Browser!ListIsOfOpenCache

LEMMA BrowserWalk == BrowserInv => Browser!ShownIsVisited
<1> SUFFICES ASSUME WalkInv PROVE Browser!ShownIsVisited
  BY DEF BrowserInv
<1>1. DOMAIN history = 1..Len(history)
  BY LenProperties DEF WalkInv
<1> QED
  BY <1>1 DEF WalkInv, Browser!ShownIsVisited

(***************************************************************************)
(* The rows of the panels that subscribe.                                  *)
(***************************************************************************)
\* A callback is registered with the connection to the process whose rows are shown.
RegisteredInv ==
    /\ tapUp => tapPid \in Pids
    /\ registered => tapUp /\ lastSubscribedPid = tapPid

CountsInv == totalReceived <= sent /\ slid <= sent

PushedInv ==
    Pushed!TypeOK /\ RegisteredInv /\ CountsInv /\ Pushed!TapRowsAgree

LEMMA PushedInit == Pushed!Init => PushedInv
<1> SUFFICES ASSUME Pushed!Init PROVE PushedInv
  OBVIOUS
<1> USE DEF Pushed!Init, Pushed!NoRows, Pushed!NoNotes
<1>1. << >> \in Seq(Pushed!Entry) /\ Len(<< >>) = 0
  BY EmptySeq
<1>2. Pushed!TypeOK
  <2>1. kept \in [Pushed!Kinds -> Seq(Pushed!Entry)] /\ \A k \in Pushed!Kinds : Len(kept[k]) <= RowCap
    BY <1>1, RingAssumption
  <2>2. annotations \in [NoteKeys -> Pushed!Entry \cup {None}] /\ latest = annotations
    OBVIOUS
  <2>3. {totalReceived, sent, slid} \subseteq 0..MaxPayloads /\ selectedRow \in 0..RowCap
    BY RingAssumption
  <2> QED
    BY <2>1, <2>2, <2>3 DEF Pushed!TypeOK
<1>3. RegisteredInv /\ CountsInv
  BY PidAssumption DEF RegisteredInv, CountsInv
<1>4. Pushed!TapRowsAgree
  BY <1>1 DEF Pushed!TapRowsAgree, Pushed!ShownIsOfOnePid, Pushed!DetailIsOfRow, Pushed!AnnotationIsCurrent
<1> QED
  BY <1>2, <1>3, <1>4 DEF PushedInv

\* An element put at the end of a sequence that is kept to a length, at the cost of its first.
AtCap(s, x, cap) == Append(IF Len(s) >= cap THEN Tail(s) ELSE s, x)

LEMMA AppendAtCap ==
    ASSUME NEW S, NEW s \in Seq(S), NEW x \in S, NEW cap \in Nat \ {0}, Len(s) <= cap
    PROVE  LET t == AtCap(s, x, cap)
           IN  /\ t \in Seq(S) /\ Len(t) <= cap /\ Len(t) \in Nat \ {0}
               /\ t[Len(t)] = x
               /\ Len(s) < cap => Len(t) = Len(s) + 1 /\ \A i \in 1..Len(s) : t[i] = s[i]
               /\ Len(s) >= cap => Len(t) = Len(s) /\ \A i \in 1..(Len(s) - 1) : t[i] = s[i + 1]
<1> DEFINE t == AtCap(s, x, cap)
<1>1. Len(s) \in Nat
  BY LenProperties
<1>2. CASE Len(s) < cap
  <2>1. t = Append(s, x)
    BY <1>1, <1>2 DEF AtCap
  <2> HIDE DEF t
  <2>2. /\ t \in Seq(S) /\ Len(t) <= cap /\ Len(t) \in Nat \ {0}
        /\ t[Len(t)] = x
        /\ Len(s) < cap => Len(t) = Len(s) + 1 /\ \A i \in 1..Len(s) : t[i] = s[i]
        /\ Len(s) >= cap => Len(t) = Len(s) /\ \A i \in 1..(Len(s) - 1) : t[i] = s[i + 1]
    BY <1>1, <1>2, <2>1, AppendProperties
  <2> QED
    BY <2>2 DEF t
<1>3. CASE Len(s) >= cap
  <2>1. s # << >>
    BY <1>1, <1>3, EmptySeq
  <2> DEFINE rest == Tail(s)
  <2>2. rest = SubSeq(s, 2, Len(s))
    BY <2>1, TailIsSubSeq
  <2>3. \A i \in 2..Len(s) : s[i] \in S
    BY <1>1, ElementOfSeq
  <2>4. \A i \in 1..(Len(s) - 1) : rest[i] = s[i + 1]
    <3> HIDE DEF rest
    <3>1. \A i \in 1..(Len(s) - 2 + 1) : SubSeq(s, 2, Len(s))[i] = s[2 + i - 1]
      BY <1>1, <2>3, SubSeqProperties
    <3> QED
      BY <1>1, <2>2, <3>1
  <2>5. rest \in Seq(S) /\ Len(rest) = Len(s) - 1
    BY <2>1, HeadTailProperties
  <2>6. t = Append(rest, x)
    BY <1>1, <1>3 DEF AtCap
  <2> HIDE DEF rest, t
  <2>7. /\ t \in Seq(S) /\ Len(t) <= cap /\ Len(t) \in Nat \ {0}
        /\ t[Len(t)] = x
        /\ Len(s) < cap => Len(t) = Len(s) + 1 /\ \A i \in 1..Len(s) : t[i] = s[i]
        /\ Len(s) >= cap => Len(t) = Len(s) /\ \A i \in 1..(Len(s) - 1) : t[i] = s[i + 1]
    BY <1>1, <1>3, <2>4, <2>5, <2>6, AppendProperties
  <2> QED
    BY <2>7 DEF t
<1> QED
  BY <1>1, <1>2, <1>3

\* A row pushed to a ring goes to its end; a full ring loses its first row for it.
LEMMA RowPushed ==
    ASSUME NEW k \in Pushed!Kinds, kept \in [Pushed!Kinds -> Seq(Pushed!Entry)],
           Pushed!Arrived \in Pushed!Entry, Len(kept[k]) <= RowCap, Pushed!Push(k)
    PROVE  /\ kept' \in [Pushed!Kinds -> Seq(Pushed!Entry)]
           /\ \A j \in Pushed!Kinds \ {k} : kept'[j] = kept[j]
           /\ kept'[k] = AtCap(kept[k], Pushed!Arrived, RowCap)
<1> DEFINE t == AtCap(kept[k], Pushed!Arrived, RowCap)
<1>1. kept' = [kept EXCEPT ![k] = t]
  BY DEF Pushed!Push, AtCap
<1>2. kept[k] \in Seq(Pushed!Entry)
  OBVIOUS
<1>3. t \in Seq(Pushed!Entry)
  BY <1>2, AppendAtCap, RingAssumption
<1> HIDE DEF t
<1>4. kept' \in [Pushed!Kinds -> Seq(Pushed!Entry)] /\ kept'[k] = t
  BY <1>1, <1>3
<1> QED
  BY <1>1, <1>4 DEF t

LEMMA PushedStep == PushedInv /\ [Pushed!Next]_Pushed!vars => PushedInv'
<1> SUFFICES ASSUME PushedInv, [Pushed!Next]_Pushed!vars PROVE PushedInv'
  OBVIOUS
<1>0. Pushed!TypeOK /\ RegisteredInv /\ CountsInv /\ Pushed!TapRowsAgree
  BY DEF PushedInv
<1> DEFINE Shown == Pushed!ShownIsOfOnePid
           Row   == Pushed!DetailIsOfRow
           Notes == Pushed!AnnotationIsCurrent
<1>t. kept \in [Pushed!Kinds -> Seq(Pushed!Entry)] /\ \A k \in Pushed!Kinds : Len(kept[k]) <= RowCap
  BY <1>0 DEF Pushed!TypeOK
<1>u. \A k \in Pushed!Kinds : kept[k] \in Seq(Pushed!Entry) /\ DOMAIN kept[k] = 1..Len(kept[k]) /\ Len(kept[k]) \in Nat
  BY <1>t, LenProperties
<1>1. CASE Pushed!Receive
  <2>1. /\ registered /\ sent < MaxPayloads /\ sent' = sent + 1
        /\ UNCHANGED <<ui, tapPid, tapUp, registered, topic, lastSubscribedPid, paused, selectedRow, detail>>
    BY <1>1 DEF Pushed!Receive, Pushed!linkVars
  <2>2. Pushed!Arrived \in Pushed!Entry /\ Pushed!Arrived.of = lastSubscribedPid
    BY <1>0, <2>1, RingAssumption DEF Pushed!TypeOK, RegisteredInv, Pushed!Arrived, Pushed!Entry
  <2>3. RegisteredInv'
    BY <1>0, <2>1 DEF RegisteredInv
  <2>4. CASE Pushed!OnTap /\ paused
    <3>1. UNCHANGED <<kept, slid, annotations, totalReceived, latest, missed>>
      BY <2>4 DEF Pushed!OnTap, Pushed!noteVars
    <3>2. Pushed!TypeOK' /\ CountsInv'
      BY <1>0, <2>1, <3>1, RingAssumption DEF Pushed!TypeOK, CountsInv
    <3>3. Pushed!TapRowsAgree'
      BY <1>0, <2>1, <3>1 DEF Pushed!TapRowsAgree, Pushed!ShownIsOfOnePid, Pushed!DetailIsOfRow,
         Pushed!AnnotationIsCurrent
    <3> QED
      BY <2>3, <3>2, <3>3 DEF PushedInv
  <2>5. ASSUME NEW k \in Pushed!Kinds, Pushed!Push(k)
        PROVE  /\ kept' \in [Pushed!Kinds -> Seq(Pushed!Entry)]
               /\ \A j \in Pushed!Kinds : Len(kept'[j]) <= RowCap
               /\ \A j \in Pushed!Kinds : \A i \in DOMAIN kept'[j] : kept'[j][i].of = lastSubscribedPid
    <3> DEFINE s == kept[k]
               t == kept'[k]
    <3>1. kept' \in [Pushed!Kinds -> Seq(Pushed!Entry)] /\ \A j \in Pushed!Kinds \ {k} : kept'[j] = kept[j]
      BY <1>t, <2>2, <2>5, RowPushed
    <3>2. t = AtCap(s, Pushed!Arrived, RowCap)
      BY <1>t, <2>2, <2>5, RowPushed
    <3>3. s \in Seq(Pushed!Entry) /\ Len(s) <= RowCap /\ Len(s) \in Nat /\ DOMAIN s = 1..Len(s)
      BY <1>t, <1>u
    <3>4. \A i \in DOMAIN s : s[i].of = lastSubscribedPid
      BY <1>0 DEF Pushed!TapRowsAgree, Pushed!ShownIsOfOnePid
    <3>5. \A j \in Pushed!Kinds \ {k} : \A i \in DOMAIN kept[j] : kept[j][i].of = lastSubscribedPid
      BY <1>0 DEF Pushed!TapRowsAgree, Pushed!ShownIsOfOnePid
    <3> HIDE DEF s, t
    <3>6. /\ t \in Seq(Pushed!Entry) /\ Len(t) <= RowCap /\ Len(t) \in Nat \ {0}
          /\ t[Len(t)] = Pushed!Arrived
          /\ Len(s) < RowCap => Len(t) = Len(s) + 1 /\ \A i \in 1..Len(s) : t[i] = s[i]
          /\ Len(s) >= RowCap => Len(t) = Len(s) /\ \A i \in 1..(Len(s) - 1) : t[i] = s[i + 1]
      BY <2>2, <3>2, <3>3, AppendAtCap, RingAssumption
    <3>7. \A i \in 1..(Len(t) - 1) : \E j \in DOMAIN s : t[i] = s[j]
      BY <3>3, <3>6, RingAssumption
    <3>8. \A i \in DOMAIN t : t[i].of = lastSubscribedPid
      <4>1. DOMAIN t = 1..Len(t)
        BY <3>6, LenProperties
      <4>2. ASSUME NEW i \in 1..(Len(t) - 1) PROVE t[i].of = lastSubscribedPid
        <5>1. PICK j \in DOMAIN s : t[i] = s[j]
          BY <3>7
        <5> QED
          BY <3>4, <5>1
      <4>3. t[Len(t)].of = lastSubscribedPid
        BY <2>2, <3>6
      <4>4. \A i \in 1..Len(t) : i \in 1..(Len(t) - 1) \/ i = Len(t)
        BY <3>6
      <4> QED
        BY <4>1, <4>2, <4>3, <4>4
    <3>9. \A j \in Pushed!Kinds : kept'[j] = (IF j = k THEN t ELSE kept[j])
      BY <3>1 DEF t
    <3>10. \A j \in Pushed!Kinds : Len(kept'[j]) <= RowCap
      BY <1>t, <3>6, <3>9
    <3>11. ASSUME NEW j \in Pushed!Kinds
           PROVE  \A i \in DOMAIN kept'[j] : kept'[j][i].of = lastSubscribedPid
      <4>1. CASE j = k
        <5>1. kept'[j] = t
          BY <3>9, <4>1
        <5> QED
          BY <3>8, <5>1
      <4>2. CASE j # k
        <5>1. kept'[j] = kept[j] /\ j \in Pushed!Kinds \ {k}
          BY <3>1, <4>2
        <5> QED
          BY <3>5, <5>1
      <4> QED
        BY <4>1, <4>2
    <3> QED
      BY <3>1, <3>10, <3>11
  <2>6. CASE Pushed!OnTap /\ ~paused
    <3> DEFINE s == kept["call"]
               t == kept'["call"]
    <3>1. /\ Pushed!Push("call") /\ UNCHANGED <<annotations, totalReceived, latest, missed>>
          /\ slid' = IF selectedRow # 0 /\ Len(s) >= RowCap THEN slid + 1 ELSE slid
      BY <2>6 DEF Pushed!OnTap, Pushed!noteVars
    <3>2. "call" \in Pushed!Kinds
      BY DEF Pushed!Kinds
    <3>3. /\ kept' \in [Pushed!Kinds -> Seq(Pushed!Entry)]
          /\ \A j \in Pushed!Kinds : Len(kept'[j]) <= RowCap
          /\ \A j \in Pushed!Kinds : \A i \in DOMAIN kept'[j] : kept'[j][i].of = lastSubscribedPid
      BY <2>5, <3>1, <3>2
    <3>4. Pushed!TypeOK' /\ CountsInv'
      BY <1>0, <2>1, <3>1, <3>3, RingAssumption DEF Pushed!TypeOK, CountsInv
    <3>5. Shown' /\ Notes'
      BY <1>0, <2>1, <3>1, <3>3 DEF Pushed!TapRowsAgree, Pushed!ShownIsOfOnePid, Pushed!AnnotationIsCurrent
    <3>6. Row'
      <4>1. t = AtCap(s, Pushed!Arrived, RowCap)
        BY <1>t, <2>2, <3>1, <3>2, RowPushed
      <4>2. s \in Seq(Pushed!Entry) /\ Len(s) <= RowCap /\ Len(s) \in Nat /\ DOMAIN s = 1..Len(s)
        BY <1>t, <1>u, <3>2
      <4>3. selectedRow \in Nat /\ slid \in Nat /\ (selectedRow = 0 <=> detail = None)
        BY <1>0, RingAssumption DEF Pushed!TypeOK, Pushed!TapRowsAgree, Pushed!DetailIsOfRow
      <4>4. selectedRow > slid => selectedRow - slid \in DOMAIN s /\ detail = s[selectedRow - slid]
        BY <1>0 DEF Pushed!TapRowsAgree, Pushed!DetailIsOfRow
      <4> HIDE DEF s, t
      <4>5. /\ t \in Seq(Pushed!Entry) /\ Len(t) <= RowCap /\ Len(t) \in Nat \ {0}
            /\ t[Len(t)] = Pushed!Arrived
            /\ Len(s) < RowCap => Len(t) = Len(s) + 1 /\ \A i \in 1..Len(s) : t[i] = s[i]
            /\ Len(s) >= RowCap => Len(t) = Len(s) /\ \A i \in 1..(Len(s) - 1) : t[i] = s[i + 1]
        BY <2>2, <4>1, <4>2, AppendAtCap, RingAssumption
      <4>6. DOMAIN t = 1..Len(t)
        BY <4>5, LenProperties
      <4>7. selectedRow > slid' => selectedRow - slid' \in DOMAIN t /\ detail = t[selectedRow - slid']
        <5>0. SUFFICES ASSUME selectedRow > slid'
                       PROVE  selectedRow - slid' \in DOMAIN t /\ detail = t[selectedRow - slid']
          OBVIOUS
        <5>1. CASE Len(s) < RowCap
          <6>1. slid' = slid
            BY <3>1, <5>1, <4>2, RingAssumption
          <6>2. selectedRow - slid \in 1..Len(s) /\ detail = s[selectedRow - slid]
            BY <4>2, <4>3, <4>4, <5>0, <6>1
          <6>3. t[selectedRow - slid] = s[selectedRow - slid] /\ Len(t) = Len(s) + 1
            BY <4>5, <5>1, <6>2
          <6>4. selectedRow - slid \in 1..Len(t)
            BY <4>2, <6>2, <6>3
          <6> QED
            BY <4>6, <6>1, <6>2, <6>3, <6>4
        <5>2. CASE Len(s) >= RowCap
          <6>1. slid' = slid + 1
            BY <3>1, <4>3, <5>0, <5>2
          <6>2. selectedRow - slid \in 1..Len(s) /\ detail = s[selectedRow - slid]
            BY <4>2, <4>3, <4>4, <5>0, <6>1
          <6>3. selectedRow - slid' \in 1..(Len(s) - 1) /\ selectedRow - slid' + 1 = selectedRow - slid
            BY <4>2, <4>3, <5>0, <6>1, <6>2
          <6>4. t[selectedRow - slid'] = s[selectedRow - slid' + 1] /\ Len(t) = Len(s)
            BY <4>5, <5>2, <6>3
          <6>5. selectedRow - slid' \in 1..Len(t)
            BY <4>2, <6>3, <6>4
          <6> QED
            BY <4>6, <6>2, <6>3, <6>4, <6>5
        <5> QED
          BY <4>2, <5>1, <5>2, RingAssumption
      <4> QED
        BY <2>1, <4>3, <4>7 DEF t, Pushed!DetailIsOfRow
    <3> QED
      BY <2>3, <3>4, <3>5, <3>6 DEF PushedInv, Pushed!TapRowsAgree
  <2>7. CASE Pushed!OnRow
    <3>1. /\ totalReceived' = totalReceived + 1 /\ UNCHANGED <<slid, annotations, latest, missed>>
          /\ topic = "script.context"
          /\ kept' = kept \/ Pushed!Push("state") \/ Pushed!Push("trace")
      BY <2>7 DEF Pushed!OnRow
    <3>2. {"state", "trace"} \subseteq Pushed!Kinds
      BY DEF Pushed!Kinds
    <3>3. /\ kept' \in [Pushed!Kinds -> Seq(Pushed!Entry)]
          /\ \A j \in Pushed!Kinds : Len(kept'[j]) <= RowCap
          /\ \A j \in Pushed!Kinds : \A i \in DOMAIN kept'[j] : kept'[j][i].of = lastSubscribedPid
      <4>1. CASE kept' = kept
        BY <1>0, <1>t, <4>1 DEF Pushed!TapRowsAgree, Pushed!ShownIsOfOnePid
      <4> QED
        BY <2>5, <3>1, <3>2, <4>1
    <3>4. kept'["call"] = kept["call"]
      BY <1>t, <2>2, <3>1, RowPushed DEF Pushed!Kinds
    <3>5. Pushed!TypeOK' /\ CountsInv'
      BY <1>0, <2>1, <3>1, <3>3, RingAssumption DEF Pushed!TypeOK, CountsInv
    <3>6. Shown' /\ Notes' /\ Row'
      BY <1>0, <2>1, <3>1, <3>3, <3>4 DEF Pushed!TapRowsAgree, Pushed!ShownIsOfOnePid,
         Pushed!AnnotationIsCurrent, Pushed!DetailIsOfRow
    <3> QED
      BY <2>3, <3>5, <3>6 DEF PushedInv, Pushed!TapRowsAgree
  <2>8. CASE Pushed!OnAnnotation
    <3>1. PICK k \in NoteKeys :
             /\ latest' = [latest EXCEPT ![k] = Pushed!Arrived]
             /\ \/ missed' = missed \cup {k} /\ UNCHANGED annotations
                \/ missed' = missed \ {k} /\ annotations' = [annotations EXCEPT ![k] = Pushed!Arrived]
      BY <2>8 DEF Pushed!OnAnnotation
    <3>2. totalReceived' = totalReceived + 1 /\ UNCHANGED <<slid, kept>>
      BY <2>8 DEF Pushed!OnAnnotation
    <3>3. Pushed!TypeOK' /\ CountsInv'
      BY <1>0, <2>1, <2>2, <3>1, <3>2, RingAssumption DEF Pushed!TypeOK, CountsInv
    <3>4. Notes'
      BY <1>0, <3>1 DEF Pushed!TypeOK, Pushed!TapRowsAgree, Pushed!AnnotationIsCurrent
    <3>5. Shown' /\ Row'
      BY <1>0, <2>1, <2>2, <3>1, <3>2 DEF Pushed!TypeOK, Pushed!TapRowsAgree, Pushed!ShownIsOfOnePid,
         Pushed!DetailIsOfRow
    <3> QED
      BY <2>3, <3>3, <3>4, <3>5 DEF PushedInv, Pushed!TapRowsAgree
  <2> QED
    BY <1>1, <2>4, <2>6, <2>7, <2>8 DEF Pushed!Receive
<1>2. CASE Pushed!UpdateTapConnection
  <2>1. UNCHANGED <<topic, lastSubscribedPid, paused, kept, selectedRow, detail, slid, annotations,
                    totalReceived, latest, missed, sent>>
    BY <1>2 DEF Pushed!UpdateTapConnection, Pushed!pickVars, Pushed!noteVars
  <2>2. /\ ui' = "panel" /\ tapPid' \in Pids \cup {NoPid} /\ {tapUp', registered'} \subseteq BOOLEAN
        /\ RegisteredInv'
    <3>1. CASE UNCHANGED <<tapPid, tapUp, registered>>
      BY <1>0, <1>2, <2>1, <3>1 DEF Pushed!UpdateTapConnection, Pushed!TypeOK, RegisteredInv
    <3>2. CASE /\ tapPid' \in (Pids \cup {NoPid}) \ {tapPid} /\ registered' = FALSE
               /\ tapUp' \in (IF tapPid' = NoPid THEN {FALSE} ELSE BOOLEAN)
      BY <1>2, <3>2 DEF Pushed!UpdateTapConnection, RegisteredInv
    <3>3. CASE tapPid # NoPid /\ ~tapUp /\ tapUp' = TRUE /\ UNCHANGED <<tapPid, registered>>
      BY <1>0, <1>2, <2>1, <3>3 DEF Pushed!UpdateTapConnection, Pushed!TypeOK, RegisteredInv
    <3> QED
      BY <1>2, <3>1, <3>2, <3>3 DEF Pushed!UpdateTapConnection, Pushed!linkVars
  <2>3. Pushed!TypeOK' /\ CountsInv'
    BY <1>0, <2>1, <2>2 DEF Pushed!TypeOK, CountsInv
  <2>4. Pushed!TapRowsAgree'
    BY <1>0, <2>1 DEF Pushed!TapRowsAgree, Pushed!ShownIsOfOnePid, Pushed!DetailIsOfRow,
       Pushed!AnnotationIsCurrent
  <2> QED
    BY <2>2, <2>3, <2>4 DEF PushedInv
<1>3. CASE Pushed!Collapsed \/ UNCHANGED Pushed!vars
  <2>1. /\ UNCHANGED <<topic, lastSubscribedPid, paused, kept, selectedRow, detail, slid, annotations,
                       totalReceived, latest, missed, sent, tapPid, tapUp, registered>>
        /\ ui' \in {ui, "update"}
    BY <1>3 DEF Pushed!Collapsed, Pushed!vars, Pushed!ownVars, Pushed!linkVars, Pushed!pickVars, Pushed!noteVars
  <2>2. Pushed!TypeOK' /\ CountsInv' /\ RegisteredInv'
    BY <1>0, <2>1 DEF Pushed!TypeOK, CountsInv, RegisteredInv
  <2>3. Pushed!TapRowsAgree'
    BY <1>0, <2>1 DEF Pushed!TapRowsAgree, Pushed!ShownIsOfOnePid, Pushed!DetailIsOfRow,
       Pushed!AnnotationIsCurrent
  <2> QED
    BY <2>2, <2>3 DEF PushedInv
  \* What is left of the rows when they are cleared.
<1>c. ASSUME kept' = Pushed!NoRows, Pushed!Unpick
      PROVE  /\ kept' \in [Pushed!Kinds -> Seq(Pushed!Entry)] /\ \A k \in Pushed!Kinds : Len(kept'[k]) <= RowCap
             /\ \A k \in Pushed!Kinds : DOMAIN kept'[k] = {}
             /\ Row' /\ detail' = None /\ slid' = 0 /\ selectedRow' = 0
  <2>1. << >> \in Seq(Pushed!Entry) /\ Len(<< >>) = 0 /\ DOMAIN << >> = {}
    BY EmptySeq
  <2>2. \A k \in Pushed!Kinds : kept'[k] = << >>
    BY <1>c DEF Pushed!NoRows
  <2> QED
    BY <1>c, <2>1, <2>2, RingAssumption DEF Pushed!NoRows, Pushed!Unpick, Pushed!DetailIsOfRow
<1>n. ASSUME Pushed!ForgetNotes
      PROVE  /\ {annotations', latest'} \subseteq [NoteKeys -> Pushed!Entry \cup {None}]
             /\ missed' = {} /\ \A k \in NoteKeys : annotations'[k] = None /\ latest'[k] = None
  BY <1>n DEF Pushed!ForgetNotes, Pushed!NoNotes
<1>4. CASE Pushed!EnsureSubscription
  <2>1. ui' = "bar" /\ UNCHANGED <<tapPid, tapUp, topic, paused, sent>>
    BY <1>4 DEF Pushed!EnsureSubscription
  <2>2. CASE tapPid = lastSubscribedPid
    <3>1. UNCHANGED <<registered, lastSubscribedPid, kept, selectedRow, detail, slid, annotations,
                      totalReceived, latest, missed>>
      BY <1>4, <2>2 DEF Pushed!EnsureSubscription, Pushed!pickVars, Pushed!noteVars
    <3>2. Pushed!TypeOK' /\ CountsInv' /\ RegisteredInv'
      BY <1>0, <2>1, <3>1 DEF Pushed!TypeOK, CountsInv, RegisteredInv
    <3>3. Pushed!TapRowsAgree'
      BY <1>0, <2>1, <3>1 DEF Pushed!TapRowsAgree, Pushed!ShownIsOfOnePid, Pushed!DetailIsOfRow,
         Pushed!AnnotationIsCurrent
    <3> QED
      BY <3>2, <3>3 DEF PushedInv
  <2>3. CASE tapPid # lastSubscribedPid
    <3>1. /\ kept' = Pushed!NoRows /\ Pushed!Unpick /\ Pushed!ForgetNotes /\ totalReceived' = 0
          /\ lastSubscribedPid' = tapPid /\ registered' = tapUp
      BY <1>4, <2>3 DEF Pushed!EnsureSubscription
    <3>2. Pushed!TypeOK'
      BY <1>0, <1>c, <1>n, <2>1, <3>1, RingAssumption DEF Pushed!TypeOK
    <3>3. CountsInv' /\ RegisteredInv'
      BY <1>0, <1>c, <2>1, <3>1, RingAssumption DEF Pushed!TypeOK, CountsInv, RegisteredInv
    <3>4. Shown' /\ Notes'
      BY <1>c, <1>n, <3>1 DEF Pushed!ShownIsOfOnePid, Pushed!AnnotationIsCurrent
    <3> QED
      BY <1>c, <3>1, <3>2, <3>3, <3>4 DEF PushedInv, Pushed!TapRowsAgree
  <2> QED
    BY <2>2, <2>3
<1>5. CASE Pushed!DrawControlBar
  <2>1. ui' = "rows" /\ UNCHANGED <<tapPid, tapUp, registered, topic, lastSubscribedPid, sent>>
    BY <1>5 DEF Pushed!DrawControlBar, Pushed!linkVars
  <2>2. RegisteredInv'
    BY <1>0, <2>1 DEF RegisteredInv
  <2>3. CASE /\ paused' \in BOOLEAN
             /\ UNCHANGED <<kept, selectedRow, detail, slid, annotations, totalReceived, latest, missed>>
    <3>1. Pushed!TypeOK' /\ CountsInv'
      BY <1>0, <2>1, <2>3 DEF Pushed!TypeOK, CountsInv
    <3>2. Pushed!TapRowsAgree'
      BY <1>0, <2>1, <2>3 DEF Pushed!TapRowsAgree, Pushed!ShownIsOfOnePid, Pushed!DetailIsOfRow,
         Pushed!AnnotationIsCurrent
    <3> QED
      BY <2>2, <3>1, <3>2 DEF PushedInv
  <2>4. CASE /\ kept' = Pushed!NoRows /\ Pushed!Unpick /\ Pushed!ForgetNotes
             /\ UNCHANGED <<paused, totalReceived>>
    <3>1. Pushed!TypeOK' /\ CountsInv'
      BY <1>0, <1>c, <1>n, <2>1, <2>4, RingAssumption DEF Pushed!TypeOK, CountsInv
    <3>2. Shown' /\ Notes'
      BY <1>c, <1>n, <2>4 DEF Pushed!ShownIsOfOnePid, Pushed!AnnotationIsCurrent
    <3> QED
      BY <1>c, <2>2, <2>4, <3>1, <3>2 DEF PushedInv, Pushed!TapRowsAgree
  <2>5. paused \in BOOLEAN
    BY <1>0 DEF Pushed!TypeOK
  <2> QED
    BY <1>5, <2>3, <2>4, <2>5 DEF Pushed!DrawControlBar, Pushed!pickVars, Pushed!noteVars
<1>6. CASE Pushed!DrawTable
  <2>1. /\ ui' = "update"
        /\ UNCHANGED <<tapPid, tapUp, registered, topic, lastSubscribedPid, paused, kept, annotations,
                       totalReceived, latest, missed, sent>>
    BY <1>6 DEF Pushed!DrawTable, Pushed!linkVars, Pushed!noteVars
  <2>2. RegisteredInv' /\ Notes'
    BY <1>0, <2>1 DEF RegisteredInv, Pushed!TapRowsAgree, Pushed!AnnotationIsCurrent
  <2>3. CASE UNCHANGED <<selectedRow, detail, slid>>
    <3>1. Pushed!TypeOK' /\ CountsInv' /\ Shown' /\ Row'
      BY <1>0, <2>1, <2>3 DEF Pushed!TypeOK, CountsInv, Pushed!TapRowsAgree, Pushed!ShownIsOfOnePid,
         Pushed!DetailIsOfRow
    <3> QED
      BY <2>2, <3>1 DEF PushedInv, Pushed!TapRowsAgree
  <2>4. ASSUME NEW i \in DOMAIN kept["call"], selectedRow' = i, detail' = kept["call"][i], slid' = 0
        PROVE  PushedInv'
    <3>1. kept["call"] \in Seq(Pushed!Entry) /\ i \in 1..Len(kept["call"]) /\ Len(kept["call"]) <= RowCap
      BY <1>t, <1>u, <2>4 DEF Pushed!Kinds
    <3>2. kept["call"][i] \in Pushed!Entry /\ Len(kept["call"]) \in Nat
      BY <3>1, ElementOfSeq, LenProperties
    <3>3. kept["call"][i].of = lastSubscribedPid
      BY <1>0, <2>4 DEF Pushed!TapRowsAgree, Pushed!ShownIsOfOnePid, Pushed!Kinds
    <3>4. Pushed!TypeOK' /\ CountsInv'
      BY <1>0, <2>1, <2>4, <3>1, <3>2, RingAssumption DEF Pushed!TypeOK, CountsInv
    <3>5. kept["call"][i] # None
      BY <3>2, NoneAssumption DEF Pushed!Entry
    <3>6. Row'
      BY <2>1, <2>4, <3>1, <3>2, <3>5 DEF Pushed!DetailIsOfRow
    <3>7. Shown'
      BY <1>0, <2>1, <2>4, <3>3 DEF Pushed!TapRowsAgree, Pushed!ShownIsOfOnePid
    <3> QED
      BY <2>2, <3>4, <3>6, <3>7 DEF PushedInv, Pushed!TapRowsAgree
  <2> QED
    BY <1>6, <2>3, <2>4 DEF Pushed!DrawTable, Pushed!pickVars
<1> QED
  BY <1>1, <1>2, <1>3, <1>4, <1>5, <1>6 DEF Pushed!Next

(***************************************************************************)
(* The action history.                                                     *)
(***************************************************************************)
\* A fetch goes to a process, and what its rows hold of a log has been executed.
HistoryInv ==
    /\ Actions!TypeOK
    /\ ui = "fetch" => client # NoPid
    /\ actionRows.of # NoPid => actionRows.upTo <= executed[actionRows.of]

LEMMA HistoryInit == Actions!Init => HistoryInv
<1> SUFFICES ASSUME Actions!Init PROVE HistoryInv
  OBVIOUS
<1> USE DEF Actions!Init
<1>1. 0 \in 0..MaxActions
  BY ActionsAssumption
<1>2. executed \in [Pids -> 0..MaxActions]
  BY <1>1
<1>3. actionRows \in [of : Pids \cup {NoPid}, upTo : 0..MaxActions, whole : BOOLEAN] /\ actionRows.of = NoPid
  BY <1>1 DEF Actions!NoRows
<1> QED
  BY <1>2, <1>3 DEF HistoryInv, Actions!TypeOK

LEMMA HistoryStep == HistoryInv /\ [Actions!Next]_Actions!vars => HistoryInv'
<1> SUFFICES ASSUME HistoryInv, [Actions!Next]_Actions!vars PROVE HistoryInv'
  OBVIOUS
<1> USE DEF HistoryInv, Actions!TypeOK
<1>1. CASE Actions!AgentActs
  <2>1. PICK p \in Pids : executed[p] < MaxActions /\ executed' = [executed EXCEPT ![p] = @ + 1]
    BY <1>1 DEF Actions!AgentActs
  <2>2. executed' \in [Pids -> 0..MaxActions] /\ \A q \in Pids : executed[q] <= executed'[q]
    BY <2>1, ActionsAssumption
  <2>3. /\ UNCHANGED <<ui, session, client, primedSeq, actionRows>>
        /\ arrived' \in BOOLEAN
    BY <1>1 DEF Actions!AgentActs
  <2>4. actionRows.of # NoPid => actionRows.upTo <= executed'[actionRows.of]
    <3>1. actionRows.of # NoPid =>
              /\ actionRows.of \in Pids /\ actionRows.upTo \in 0..MaxActions
              /\ executed[actionRows.of] \in 0..MaxActions /\ executed'[actionRows.of] \in 0..MaxActions
              /\ executed[actionRows.of] <= executed'[actionRows.of]
      BY <2>2
    <3> QED
      BY <3>1, ActionsAssumption
  <2> QED
    BY <2>2, <2>3, <2>4
<1>2. CASE Actions!UpdateRpcConnection \/ Actions!EarlierPanels \/ Actions!Skipped
  BY <1>2 DEF Actions!UpdateRpcConnection, Actions!EarlierPanels, Actions!Skipped, Actions!agentVars,
     Actions!ownVars
<1>3. ASSUME NEW timer \in BOOLEAN, Actions!UpdateActionHistory(timer) PROVE HistoryInv'
  BY <1>3 DEF Actions!UpdateActionHistory
<1>4. CASE Actions!FetchActionHistory
  <2>1. /\ ui = "fetch" /\ ui' = "update" /\ client \in Pids
        /\ UNCHANGED <<session, executed, arrived, primedSeq>>
    BY <1>4 DEF Actions!FetchActionHistory, Actions!agentVars
  <2>2. CASE actionRows' \in {Actions!Log(client), [Actions!Log(client) EXCEPT !.whole = FALSE]} /\ UNCHANGED client
    <3>1. executed[client] \in 0..MaxActions
      BY <2>1
    <3>2. PICK w \in BOOLEAN : actionRows' = [of |-> client, upTo |-> executed[client], whole |-> w]
      BY <2>2 DEF Actions!Log
    <3>3. actionRows' \in [of : Pids \cup {NoPid}, upTo : 0..MaxActions, whole : BOOLEAN]
      BY <2>1, <3>1, <3>2
    <3>4. actionRows'.upTo <= executed'[actionRows'.of]
      BY <2>1, <3>1, <3>2, ActionsAssumption
    <3> QED
      BY <2>1, <2>2, <3>3, <3>4
  <2>3. CASE client' \in {client, NoPid} /\ UNCHANGED actionRows
    BY <2>1, <2>3
  <2> QED
    BY <1>4, <2>2, <2>3 DEF Actions!FetchActionHistory
<1>5. CASE UNCHANGED Actions!vars
  <2>1. UNCHANGED <<ui, session, client, executed, arrived, primedSeq, actionRows>>
    BY <1>5 DEF Actions!vars, Actions!ownVars, Actions!agentVars
  <2> QED
    BY <2>1
<1> QED
  BY <1>1, <1>2, <1>3, <1>4, <1>5 DEF Actions!Next, Actions!Frame

(***************************************************************************)
(* The overlay.                                                            *)
(***************************************************************************)
\* Whatever window the overlay knows is of its process, drawn over or not.
OverlayInv ==
    /\ Overlay!TypeOK
    /\ gameHwnd # NoWindow => Owner[gameHwnd] = gamePid

LEMMA OverlayInit == Overlay!Init => OverlayInv
  BY OwnerAssumption DEF Overlay!Init, OverlayInv, Overlay!TypeOK

\* A window that is looked for is of the process, or there is none.
LEMMA WindowFound ==
    ASSUME NEW w \in Overlay!Found, alive \subseteq Windows, drawable \subseteq alive
    PROVE  w = NoWindow \/ (w \in Windows /\ Owner[w] = gamePid')
  BY DEF Overlay!Found

LEMMA OverlayTracks ==
    ASSUME OverlayInv, NEW known, NEW canLook \in BOOLEAN, Overlay!UpdateTracking(known, canLook),
           known = NoWindow \/ (known = gameHwnd /\ gamePid' = gamePid)
    PROVE  /\ gameHwnd' \in Windows \cup {NoWindow}
           /\ gameHwnd' # NoWindow => Owner[gameHwnd'] = gamePid'
           /\ elapsed' \in BOOLEAN /\ shown' \in BOOLEAN
           /\ shown' => gameHwnd' # NoWindow
<1> USE DEF OverlayInv, Overlay!TypeOK
<1>1. elapsed' \in BOOLEAN /\ shown' \in BOOLEAN /\ (shown' => gameHwnd' \in drawable)
  BY DEF Overlay!UpdateTracking, Overlay!Resolve
<1>2. gameHwnd' = known \/ gameHwnd' \in Overlay!Found
  BY DEF Overlay!UpdateTracking, Overlay!Resolve
<1>3. /\ gameHwnd' \in Windows \cup {NoWindow}
      /\ gameHwnd' # NoWindow => Owner[gameHwnd'] = gamePid'
  BY <1>2, WindowFound
<1> QED
  BY <1>1, <1>3, OwnerAssumption

LEMMA OverlayStep == OverlayInv /\ [Overlay!Next]_Overlay!vars => OverlayInv'
<1> SUFFICES ASSUME OverlayInv, [Overlay!Next]_Overlay!vars PROVE OverlayInv'
  OBVIOUS
<1> USE DEF OverlayInv, Overlay!TypeOK
<1>1. CASE Overlay!DesktopChanges
  <2>1. UNCHANGED <<ui, session, overlayEnabled, overlayFollowFg, hwnd, gamePid, gameHwnd, shown, elapsed>>
    BY <1>1 DEF Overlay!DesktopChanges, Overlay!overlayVars
  <2>2. drawable' \subseteq alive' /\ alive' \subseteq Windows /\ foreground' \in Windows \cup {"own", "other"}
    BY <1>1 DEF Overlay!DesktopChanges
  <2> QED
    BY <2>1, <2>2
<1>2. CASE Overlay!ThrottleRunsOut
  BY <1>2 DEF Overlay!ThrottleRunsOut, Overlay!desktopVars
<1>3. CASE Overlay!Update
  BY <1>3 DEF Overlay!Update, Overlay!desktopVars, Overlay!overlayVars
<1>4. CASE Overlay!RenderFrame
  <2>1. ui' = "update" /\ UNCHANGED <<session, overlayFollowFg, alive, drawable, foreground>>
    BY <1>4 DEF Overlay!RenderFrame, Overlay!desktopVars
  <2>2. CASE Overlay!Keep /\ hwnd /\ gamePid = session
    <3>1. UNCHANGED <<hwnd, gamePid, overlayEnabled>> /\ Overlay!UpdateTracking(gameHwnd, elapsed)
      BY <2>2 DEF Overlay!Keep
    <3> QED
      BY <2>1, <2>2, <3>1, OverlayTracks
  <2>3. CASE hwnd' = TRUE /\ gamePid' = session /\ UNCHANGED overlayEnabled /\ Overlay!UpdateTracking(NoWindow, TRUE)
    <3>1. TRUE \in BOOLEAN
      OBVIOUS
    <3>2. /\ gameHwnd' \in Windows \cup {NoWindow}
          /\ gameHwnd' # NoWindow => Owner[gameHwnd'] = gamePid'
          /\ elapsed' \in BOOLEAN /\ shown' \in BOOLEAN
          /\ shown' => gameHwnd' # NoWindow
      BY <2>3, OverlayTracks
    <3> QED
      BY <2>1, <2>3, <3>2
  <2>4. CASE Overlay!Blank /\ gamePid' \in {NoPid, session} /\ overlayEnabled' \in BOOLEAN
    BY <2>1, <2>4 DEF Overlay!Blank
  <2>5. CASE UNCHANGED <<Overlay!overlayVars, overlayEnabled>> /\ ~hwnd
    BY <2>1, <2>5 DEF Overlay!overlayVars
  <2> QED
    BY <1>4, <2>2, <2>3, <2>4, <2>5 DEF Overlay!RenderFrame, Overlay!Create, Overlay!Destroy
<1>5. CASE UNCHANGED Overlay!vars
  <2>1. UNCHANGED <<ui, session, overlayEnabled, overlayFollowFg, hwnd, gamePid, gameHwnd, shown, elapsed,
                    alive, drawable, foreground>>
    BY <1>5 DEF Overlay!vars, Overlay!ownVars, Overlay!overlayVars, Overlay!desktopVars
  <2> QED
    BY <2>1
<1> QED
  BY <1>1, <1>2, <1>3, <1>4, <1>5 DEF Overlay!Next, Overlay!Frame

(***************************************************************************)
(* The object variables.                                                   *)
(***************************************************************************)
\* The loop over the containers stands at one of the list, or behind its end.
ObjVarsInv ==
    /\ Inventory!TypeOK
    /\ ui = "fetch" => at >= 1

\* Lists of at most two containers.
LEMMA ListLength == ASSUME NEW l \in Inventory!Lists
                    PROVE  Len(l) \in 0..2 /\ \A i \in 1..Len(l) : l[i] \in Invs
<1>1. PICK n \in 0..2 : l \in [1..n -> Invs]
  BY DEF Inventory!Lists
<1>2. l \in Seq(Invs) /\ Len(l) = n
  BY <1>1, SeqDef, LenProperties
<1> QED
  BY <1>1, <1>2

LEMMA ObjVarsInit == Inventory!Init => ObjVarsInv
<1> SUFFICES ASSUME Inventory!Init PROVE ObjVarsInv
  OBVIOUS
<1>1. << >> \in Seq(Invs) /\ Len(<< >>) = 0
  BY EmptySeq
<1>2. << >> \in [1..0 -> Invs]
  BY <1>1, LenProperties
<1>3. << >> \in Inventory!Lists
  BY <1>2 DEF Inventory!Lists
<1>4. carried \in [Invs -> Values \cup {None}] /\ DOMAIN objVars = {}
  BY DEF Inventory!Init, Inventory!Empty
<1>5. at \in 0..3 /\ ui = "update"
  BY DEF Inventory!Init
<1>6. \A b \in {mapped, connected, posted, showObjVars, objDirty, objPrimedSeq} : b \in BOOLEAN
  BY DEF Inventory!Init
<1>7. containers \in Inventory!Lists
  BY <1>3 DEF Inventory!Init
<1> QED
  BY <1>4, <1>5, <1>6, <1>7 DEF ObjVarsInv, Inventory!TypeOK

LEMMA ObjVarsStep == ObjVarsInv /\ [Inventory!Next]_Inventory!vars => ObjVarsInv'
<1> SUFFICES ASSUME ObjVarsInv, [Inventory!Next]_Inventory!vars PROVE ObjVarsInv'
  OBVIOUS
<1> USE DEF ObjVarsInv, Inventory!TypeOK
<1>1. CASE Inventory!AgentPublishes
  BY <1>1 DEF Inventory!AgentPublishes, Inventory!panelVars
<1>2. CASE Inventory!Update \/ Inventory!Skipped \/ Inventory!DrawToolbar
  BY <1>2 DEF Inventory!Update, Inventory!Skipped, Inventory!DrawToolbar, Inventory!panelVars, Inventory!ownVars
<1>3. CASE Inventory!HideObjVars
  BY <1>3 DEF Inventory!HideObjVars, Inventory!Empty
<1>4. ASSUME NEW timer \in BOOLEAN, Inventory!UpdateObjVars(timer) PROVE ObjVarsInv'
  <2>1. UNCHANGED <<mapped, connected, containers, carried, showObjVars>>
    BY <1>4 DEF Inventory!UpdateObjVars
  <2>2. objPrimedSeq' = TRUE /\ posted' = FALSE /\ objDirty' = FALSE
    BY <1>4 DEF Inventory!UpdateObjVars
  <2>3. \/ DOMAIN objVars' = {} /\ at' = 1 /\ ui' = "fetch"
        \/ ui' = "update" /\ UNCHANGED <<objVars, at>>
    BY <1>4 DEF Inventory!UpdateObjVars, Inventory!Empty
  <2>4. \A b \in {mapped', connected', posted', showObjVars', objDirty', objPrimedSeq'} : b \in BOOLEAN
    BY <2>1, <2>2
  <2>5. containers' \in Inventory!Lists /\ carried' \in [Invs -> Values \cup {None}]
    BY <2>1
  <2>6. /\ DOMAIN objVars' \subseteq Invs
        /\ \A i \in DOMAIN objVars' : objVars'[i] \in Values \cup {None, Inventory!Cut}
    BY <2>3
  <2>7. ui' \in {"update", "fetch"} /\ at' \in 0..3 /\ (ui' = "fetch" => at' >= 1)
    BY <2>3
  <2> QED
    BY <2>4, <2>5, <2>6, <2>7
<1>5. CASE Inventory!FetchObjVars
  <2>1. UNCHANGED <<mapped, containers, carried, posted, showObjVars, objDirty, objPrimedSeq>> /\ ui = "fetch"
    BY <1>5 DEF Inventory!FetchObjVars
  <2>2. CASE at > Len(containers)
    BY <1>5, <2>1, <2>2 DEF Inventory!FetchObjVars
  <2>3. CASE ~(at > Len(containers))
    <3>1. Len(containers) \in 0..2 /\ \A i \in 1..Len(containers) : containers[i] \in Invs
      BY ListLength
    <3>2. at' = at + 1 /\ UNCHANGED ui
      BY <1>5, <2>3 DEF Inventory!FetchObjVars
    <3>3. at \in 1..2 /\ containers[at] \in Invs
      BY <2>1, <2>3, <3>1
    <3>4. /\ connected' \in BOOLEAN
          /\ objVars' = objVars \/ \E v \in Inventory!Answer(containers[at]) : Inventory!Store(containers[at], v)
      BY <1>5, <2>3 DEF Inventory!FetchObjVars
    <3>5. DOMAIN objVars' \subseteq Invs /\ \A i \in DOMAIN objVars' : objVars'[i] \in Values \cup {None, Inventory!Cut}
      <4>1. CASE UNCHANGED objVars
        BY <4>1
      <4>2. ASSUME NEW v \in Inventory!Answer(containers[at]), Inventory!Store(containers[at], v)
            PROVE  DOMAIN objVars' \subseteq Invs /\ \A i \in DOMAIN objVars' : objVars'[i] \in Values \cup {None, Inventory!Cut}
        <5>1. v \in Values \cup {None, Inventory!Cut}
          BY <3>3, <4>2 DEF Inventory!Answer
        <5> QED
          BY <3>3, <4>2, <5>1 DEF Inventory!Store
      <4> QED
        BY <3>4, <4>1, <4>2
    <3> QED
      BY <2>1, <3>2, <3>3, <3>4, <3>5
  <2> QED
    BY <2>2, <2>3
<1>6. CASE UNCHANGED Inventory!vars
  <2>1. UNCHANGED <<ui, mapped, connected, containers, carried, posted, showObjVars, objDirty, objPrimedSeq,
                    at, objVars>>
    BY <1>6 DEF Inventory!vars, Inventory!ownVars
  <2> QED
    BY <2>1
<1> QED
  BY <1>1, <1>2, <1>3, <1>4, <1>5, <1>6 DEF Inventory!Next, Inventory!Frame

(***************************************************************************)
(* The decoder's reads.                                                    *)
(***************************************************************************)
LEMMA SubsetSeq == ASSUME NEW A, NEW B, A \subseteq B, NEW s \in Seq(A) PROVE s \in Seq(B)
<1>1. Len(s) \in Nat /\ s \in [1..Len(s) -> A]
  BY LenProperties
<1>2. s \in [1..Len(s) -> B]
  BY <1>1
<1> QED
  BY <1>1, <1>2

LEMMA NextByte == ASSUME NEW v \in Nat, NEW w \in 0..255 PROVE 256 * v + w \in Nat
  OBVIOUS

LEMMA FixedCount == ASSUME NEW w \in 0..255
                    PROVE  /\ w >= 160 => w - 160 \in Nat
                           /\ w >= 144 => w - 144 \in Nat
                           /\ w >= 128 => w - 128 \in Nat
  OBVIOUS

LEMMA NextSum == ASSUME NEW v \in Int, NEW w \in Int PROVE 256 * v + w \in Int
  OBVIOUS

\* The sums SignedBy passes through.
SumsBy(h, sign, s) ==
    h[0] = sign /\ \A i \in 1..Len(s) : h[i] = 256 * h[i - 1] + s[i]

LEMMA SumsExist ==
    ASSUME NEW sign \in Int, NEW s \in Seq(Int)
    PROVE  \E h : Codec!SignedBy(sign, s) = h[Len(s)] /\ SumsBy(h, sign, s)
<1> DEFINE Eq(g) == g = [i \in 0..Len(s) |-> IF i = 0 THEN sign ELSE 256 * g[i - 1] + s[i]]
           step == [x \in (1..Len(s)) \X Int |-> 256 * x[2] + s[x[1]]]
<1>1. Len(s) \in Nat /\ \A i \in 1..Len(s) : s[i] \in Int
  BY LenProperties, ElementOfSeq
<1>2. step \in [(1..Len(s)) \X Int -> Int]
  <2>1. \A x \in (1..Len(s)) \X Int : x[1] \in 1..Len(s) /\ x[2] \in Int
    OBVIOUS
  <2>2. ASSUME NEW x \in (1..Len(s)) \X Int PROVE 256 * x[2] + s[x[1]] \in Int
    <3>1. x[2] \in Int /\ s[x[1]] \in Int
      BY <1>1, <2>1
    <3> QED
      BY <3>1, NextSum
  <2> QED
    BY <2>2
<1>3. PICK g \in [0..Len(s) -> Int] : Folded(g, Len(s), sign, step)
  <2> HIDE DEF step
  <2> QED
    BY <1>1, <1>2, FoldExists
<1>4. \A i \in 0..Len(s) : g[i] = IF i = 0 THEN sign ELSE 256 * g[i - 1] + s[i]
  <2> SUFFICES ASSUME NEW i \in 0..Len(s) PROVE g[i] = IF i = 0 THEN sign ELSE 256 * g[i - 1] + s[i]
    OBVIOUS
  <2>1. g[i] = IF i = 0 THEN sign ELSE step[<<i, g[i - 1]>>]
    BY <1>3 DEF Folded
  <2>2. CASE i # 0
    <3>1. i \in 1..Len(s) /\ i - 1 \in 0..Len(s)
      BY <1>1, <2>2
    <3>2. <<i, g[i - 1]>> \in (1..Len(s)) \X Int
      BY <3>1
    <3> QED
      BY <2>1, <2>2, <3>2
  <2> QED
    BY <2>1, <2>2
<1>5. Eq(g)
  BY <1>4
<1>6. PICK h : Eq(h) /\ Codec!SignedBy(sign, s) = h[Len(s)]
  BY <1>5 DEF Codec!SignedBy
<1>7. SumsBy(h, sign, s)
  <2>1. h[0] = sign
    BY <1>1, <1>6
  <2>2. ASSUME NEW i \in 1..Len(s) PROVE h[i] = 256 * h[i - 1] + s[i]
    <3>1. i \in 0..Len(s) /\ i # 0
      BY <1>1
    <3> QED
      BY <1>6, <3>1
  <2> QED
    BY <2>1, <2>2 DEF SumsBy
<1> QED
  BY <1>6, <1>7

\* Bytes in big-endian order are a number.
LEMMA BigEndianNat == ASSUME NEW s \in Seq(0..255) PROVE Codec!BigEndian(s) \in Nat
<1>1. Len(s) \in Nat /\ \A i \in 1..Len(s) : s[i] \in 0..255
  BY LenProperties, ElementOfSeq
<1>2. s \in Seq(Int)
  <2> DEFINE All == 0..255
  <2>1. All \subseteq Int
    OBVIOUS
  <2>2. s \in Seq(All)
    OBVIOUS
  <2> HIDE DEF All
  <2> QED
    BY <2>1, <2>2, SubsetSeq
<1>3. PICK h : Codec!SignedBy(0, s) = h[Len(s)] /\ SumsBy(h, 0, s)
  BY <1>2, SumsExist
<1> DEFINE Natural == {i \in 0..Len(s) : h[i] \in Nat}
<1>4. 0 \in Natural
  BY <1>1, <1>3 DEF SumsBy
<1>5. ASSUME NEW i \in 1..Len(s), i - 1 \in Natural PROVE i \in Natural
  <2>1. i \in 0..Len(s) /\ h[i - 1] \in Nat /\ s[i] \in 0..255
    BY <1>1, <1>5
  <2>2. h[i] = 256 * h[i - 1] + s[i]
    BY <1>3 DEF SumsBy
  <2>3. 256 * h[i - 1] + s[i] \in Nat
    <3>1. h[i - 1] \in Nat /\ s[i] \in 0..255
      BY <2>1
    <3> QED
      BY <3>1, NextByte
  <2> QED
    BY <2>1, <2>2, <2>3
<1> HIDE DEF Natural
<1>6. \A i \in 0..Len(s) : i \in Natural
  BY <1>1, <1>4, <1>5, Reached
<1>7. Len(s) \in Natural
  BY <1>1, <1>6
<1> QED
  BY <1>3, <1>7 DEF Natural, Codec!BigEndian

LEMMA Widths == ASSUME NEW b \in 0..255
                PROVE  /\ Codec!Width(b) \in 0..8
                       /\ Codec!Width(b) = 0 /\ Codec!Type(b) = "Str" => b >= 160
                       /\ Codec!Width(b) = 0 /\ Codec!Type(b) = "Array" => b >= 144
                       /\ Codec!Width(b) = 0 /\ Codec!Type(b) = "Map" => b >= 128
<1>1. Codec!Width(b) \in {0, 1, 2, 4, 8}
  BY DEF Codec!Width
<1>2. Codec!Type(b) = "Str" => b \in 160..191 \/ b \in 217..219
  BY DEF Codec!Type
<1>3. Codec!Type(b) = "Array" => b \in 144..159 \/ b \in {220, 221}
  BY DEF Codec!Type
<1>4. Codec!Type(b) = "Map" => b \in 128..143 \/ b \in {222, 223}
  BY DEF Codec!Type
<1> QED
  BY <1>1, <1>2, <1>3, <1>4

\* What a prefix announces is a number when the bytes of it are there.
LEMMA CountNat ==
    ASSUME NEW b \in Seq(0..255), NEW p \in 1..Len(b), Codec!Need(b, p, 1 + Codec!Width(b[p]))
    PROVE  Codec!Count(b, p) \in Nat
<1> DEFINE width == Codec!Width(b[p])
<1>1. Len(b) \in Nat /\ b[p] \in 0..255 /\ \A i \in 1..Len(b) : b[i] \in 0..255
  BY LenProperties, ElementOfSeq
<1>2. width \in 0..8
  BY <1>1, Widths
<1> HIDE DEF width
<1>3. p + width <= Len(b)
  BY <1>1, <1>2 DEF Codec!Need, width
<1>4. SubSeq(b, p + 1, p + width) \in Seq(0..255)
  <2>1. p + 1 \in Int /\ p + width \in Int
    BY <1>2
  <2>2. \A i \in (p + 1)..(p + width) : b[i] \in 0..255
    BY <1>1, <1>2, <1>3
  <2> QED
    BY <2>1, <2>2, SubSeqProperties
<1>5. CASE width > 0
  <2>1. Codec!Count(b, p) = Codec!BigEndian(SubSeq(b, p + 1, p + width))
    BY <1>5 DEF Codec!Count, width
  <2> QED
    BY <1>4, <2>1, BigEndianNat
<1>6. CASE ~(width > 0)
  <2>1. width = 0
    BY <1>2, <1>6
  <2>2. /\ Codec!Type(b[p]) = "Str" => b[p] >= 160
        /\ Codec!Type(b[p]) = "Array" => b[p] >= 144
        /\ Codec!Type(b[p]) = "Map" => b[p] >= 128
    BY <1>1, <2>1, Widths DEF width
  <2>3. Codec!Count(b, p) = IF Codec!Type(b[p]) = "Str" THEN b[p] - 160
                             ELSE IF Codec!Type(b[p]) = "Array" THEN b[p] - 144
                             ELSE IF Codec!Type(b[p]) = "Map" THEN b[p] - 128 ELSE 0
    BY <1>6 DEF Codec!Count, width
  <2>4. /\ b[p] >= 160 => b[p] - 160 \in Nat
        /\ b[p] >= 144 => b[p] - 144 \in Nat
        /\ b[p] >= 128 => b[p] - 128 \in Nat
    BY <1>1, FixedCount
  <2>5. CASE Codec!Type(b[p]) = "Str"
    BY <2>2, <2>3, <2>4, <2>5
  <2>6. CASE Codec!Type(b[p]) = "Array"
    BY <2>2, <2>3, <2>4, <2>6
  <2>7. CASE Codec!Type(b[p]) = "Map"
    BY <2>2, <2>3, <2>4, <2>7
  <2>8. CASE Codec!Type(b[p]) \notin {"Str", "Array", "Map"}
    BY <2>3, <2>8
  <2> QED
    BY <2>5, <2>6, <2>7, <2>8
<1> QED
  BY <1>5, <1>6

\* A scalar ends behind its prefix and within the buffer, or is refused.
LEMMA ScalarEnds ==
    ASSUME NEW b \in Seq(0..255), NEW p \in 1..Len(b)
    PROVE  Codec!ReadScalar(b, p) = 0 \/ Codec!ReadScalar(b, p) \in (p + 1)..(Len(b) + 1)
<1>1. Len(b) \in Nat /\ b[p] \in 0..255
  BY LenProperties, ElementOfSeq
<1>2. Codec!Width(b[p]) \in 0..8
  BY <1>1, Widths
<1>3. CASE Codec!Type(b[p]) = "Invalid" \/ ~Codec!Need(b, p, 1 + Codec!Width(b[p]))
  BY <1>3 DEF Codec!ReadScalar
<1>4. CASE ~(Codec!Type(b[p]) = "Invalid" \/ ~Codec!Need(b, p, 1 + Codec!Width(b[p])))
  <2> DEFINE size == IF Codec!Type(b[p]) \in {"Str", "Bin"} THEN Codec!Count(b, p) ELSE 0
             body == p + 1 + Codec!Width(b[p])
  <2>1. size \in Nat
    BY <1>4, CountNat
  <2>2. Codec!ReadScalar(b, p) = IF Codec!Need(b, body, size) THEN body + size ELSE 0
    BY <1>4 DEF Codec!ReadScalar
  <2>3. body \in Nat /\ body >= p + 1
    BY <1>2
  <2> HIDE DEF size, body
  <2> QED
    BY <1>1, <2>1, <2>2, <2>3 DEF Codec!Need
<1> QED
  BY <1>3, <1>4

\* What a container owes fits behind its header, or the header is refused.
LEMMA HeaderFits ==
    ASSUME NEW b \in Seq(0..255), NEW p \in 1..Len(b)
    PROVE  LET body == p + 1 + Codec!Width(b[p])
               header == Codec!ReadContainerHeader(b, p)
           IN  /\ body \in Nat /\ body > p
               /\ Codec!Need(b, p, 1 + Codec!Width(b[p])) => Codec!ContainerItems(b, p) \in Nat
               /\ header # 0 => /\ header = body
                                /\ Codec!Need(b, p, 1 + Codec!Width(b[p]))
                                /\ body + Codec!ContainerItems(b, p) <= Len(b) + 1
               /\ header = 0 => ~Codec!Need(b, p, 1 + Codec!Width(b[p]))
                                \/ body + Codec!ContainerItems(b, p) > Len(b) + 1
<1>1. Len(b) \in Nat /\ b[p] \in 0..255
  BY LenProperties, ElementOfSeq
<1>2. Codec!Width(b[p]) \in 0..8
  BY <1>1, Widths
<1> DEFINE body == p + 1 + Codec!Width(b[p])
           header == Codec!ReadContainerHeader(b, p)
           items == Codec!ContainerItems(b, p)
<1>3. body \in Nat /\ body > p
  BY <1>2
<1>4. ASSUME Codec!Need(b, p, 1 + Codec!Width(b[p])) PROVE items \in Nat
  <2>1. Codec!Count(b, p) \in Nat
    BY <1>4, CountNat
  <2> QED
    BY <2>1 DEF Codec!ContainerItems
<1>5. header = IF Codec!Need(b, p, 1 + Codec!Width(b[p])) /\ Codec!Need(b, body, items) THEN body ELSE 0
  BY DEF Codec!ReadContainerHeader
<1>6. ASSUME items \in Nat PROVE Codec!Need(b, body, items) <=> body + items <= Len(b) + 1
  <2> HIDE DEF body, items
  <2> QED
    BY <1>1, <1>3, <1>6 DEF Codec!Need
<1> HIDE DEF body, items, header
<1>7. /\ header # 0 => /\ header = body
                       /\ Codec!Need(b, p, 1 + Codec!Width(b[p]))
                       /\ body + items <= Len(b) + 1
  BY <1>4, <1>5, <1>6
<1>8. header = 0 => ~Codec!Need(b, p, 1 + Codec!Width(b[p])) \/ body + items > Len(b) + 1
  <2> SUFFICES ASSUME header = 0, Codec!Need(b, p, 1 + Codec!Width(b[p])) PROVE body + items > Len(b) + 1
    OBVIOUS
  <2>1. items \in Nat /\ ~Codec!Need(b, body, items)
    BY <1>3, <1>4, <1>5
  <2>2. ~(body + items <= Len(b) + 1)
    BY <1>6, <2>1
  <2> QED
    BY <1>1, <1>3, <2>1, <2>2
<1> QED
  BY <1>3, <1>4, <1>7, <1>8 DEF body, items, header

(***************************************************************************)
(* The end of a value.                                                     *)
(***************************************************************************)
\* Functions that say of a spot where the values end: nowhere (0), or a byte further on for
\* each of them.
Ends(b) ==
    {e \in [Codec!Spots(b) -> 0..(Len(b) + 1)] :
        \A p \in 0..(Len(b) + 1), n \in 0..(Len(b) + 1), d \in 0..MaxNesting :
            e[<<p, n, d>>] = 0 \/ (p > 0 /\ e[<<p, n, d>>] >= p + n)}

\* One turn of EndOf's recursion, with e for what the recursion says.
EndNext(e, b, p, n, d) ==
    LET body == p + 1 + Codec!Width(b[p])
        inner == Codec!ContainerItems(b, p)
    IN  IF n = 0 \/ p = 0 THEN p
        ELSE IF p > Len(b) THEN 0
        ELSE IF Codec!Type(b[p]) \notin {"Array", "Map"} THEN e[<<Codec!ReadScalar(b, p), n - 1, d>>]
        ELSE IF d = MaxNesting \/ ~Codec!Need(b, p, 1 + Codec!Width(b[p])) \/ inner > Len(b) THEN 0
        ELSE e[<<e[<<body, inner, d + 1>>], n - 1, d>>]

Ending(e, b) ==
    \A p \in 0..(Len(b) + 1), n \in 0..(Len(b) + 1), d \in 0..MaxNesting :
        e[<<p, n, d>>] = EndNext(e, b, p, n, d)

LEMMA BodyFits ==
    ASSUME NEW b \in Seq(0..255), NEW p \in 1..Len(b), Codec!Need(b, p, 1 + Codec!Width(b[p]))
    PROVE  /\ p + 1 + Codec!Width(b[p]) \in 1..(Len(b) + 1) /\ p + 1 + Codec!Width(b[p]) > p
           /\ Codec!ContainerItems(b, p) \in Nat
<1>1. Len(b) \in Nat /\ b[p] \in 0..255
  BY LenProperties, ElementOfSeq
<1>2. Codec!Width(b[p]) \in 0..8
  BY <1>1, Widths
<1>3. Codec!ContainerItems(b, p) \in Nat
  BY HeaderFits
<1> DEFINE width == Codec!Width(b[p])
<1>4. 1 + width <= Len(b) + 1 - p
  BY DEF Codec!Need
<1> HIDE DEF width
<1>5. p + 1 + width \in 1..(Len(b) + 1) /\ p + 1 + width > p
  BY <1>1, <1>2, <1>4 DEF width
<1> QED
  BY <1>3, <1>5 DEF width

\* A turn tells an end from what the recursion says of spots further on.
LEMMA EndTurn ==
    ASSUME NEW b \in Seq(0..255), NEW e \in Ends(b),
           NEW p \in 0..(Len(b) + 1), NEW n \in 0..(Len(b) + 1), NEW d \in 0..MaxNesting
    PROVE  /\ EndNext(e, b, p, n, d) \in 0..(Len(b) + 1)
           /\ EndNext(e, b, p, n, d) = 0 \/ (p > 0 /\ EndNext(e, b, p, n, d) >= p + n)
<1> DEFINE body == p + 1 + Codec!Width(b[p])
           inner == Codec!ContainerItems(b, p)
           result == EndNext(e, b, p, n, d)
<1>1. Len(b) \in Nat /\ MaxNesting \in Nat
  BY LenProperties, BytesAssumption
<1>2. ASSUME NEW q \in 0..(Len(b) + 1), NEW m \in 0..(Len(b) + 1), NEW c \in 0..MaxNesting
      PROVE  /\ e[<<q, m, c>>] \in 0..(Len(b) + 1)
             /\ e[<<q, m, c>>] = 0 \/ (q > 0 /\ e[<<q, m, c>>] >= q + m)
  <2>1. <<q, m, c>> \in Codec!Spots(b)
    BY <1>2 DEF Codec!Spots
  <2> QED
    BY <1>2, <2>1 DEF Ends
<1>3. CASE n = 0 \/ p = 0
  <2>1. result = p
    BY <1>3 DEF EndNext
  <2> QED
    BY <1>1, <1>3, <2>1
<1>4. CASE n # 0 /\ p # 0 /\ p > Len(b)
  <2>1. result = 0
    BY <1>4 DEF EndNext
  <2> QED
    BY <1>1, <2>1
<1>5. CASE n # 0 /\ p # 0 /\ ~(p > Len(b)) /\ Codec!Type(b[p]) \notin {"Array", "Map"}
  <2> DEFINE q == Codec!ReadScalar(b, p)
  <2>1. result = e[<<q, n - 1, d>>]
    BY <1>5 DEF EndNext
  <2>2. p \in 1..Len(b) /\ n - 1 \in 0..(Len(b) + 1)
    BY <1>1, <1>5
  <2>3. q = 0 \/ q \in (p + 1)..(Len(b) + 1)
    BY <2>2, ScalarEnds
  <2> HIDE DEF q, result
  <2>4. q \in 0..(Len(b) + 1)
    BY <1>1, <2>2, <2>3
  <2>5. result \in 0..(Len(b) + 1) /\ (result = 0 \/ (q > 0 /\ result >= q + (n - 1)))
    BY <1>2, <2>1, <2>2, <2>4
  <2>6. result = 0 \/ (p > 0 /\ result >= p + n)
    BY <1>1, <2>2, <2>3, <2>5
  <2> QED
    BY <2>5, <2>6 DEF result
<1>6. CASE n # 0 /\ p # 0 /\ ~(p > Len(b)) /\ Codec!Type(b[p]) \in {"Array", "Map"}
  <2>1. CASE d = MaxNesting \/ ~Codec!Need(b, p, 1 + Codec!Width(b[p])) \/ inner > Len(b)
    <3>1. result = 0
      BY <1>6, <2>1 DEF EndNext
    <3> QED
      BY <1>1, <3>1
  <2>2. CASE ~(d = MaxNesting \/ ~Codec!Need(b, p, 1 + Codec!Width(b[p])) \/ inner > Len(b))
    <3> DEFINE q == e[<<body, inner, d + 1>>]
    <3>1. result = e[<<q, n - 1, d>>]
      BY <1>6, <2>2 DEF EndNext
    <3>2. p \in 1..Len(b) /\ n - 1 \in 0..(Len(b) + 1) /\ d + 1 \in 0..MaxNesting
      BY <1>1, <1>6, <2>2
    <3>3. body \in 1..(Len(b) + 1) /\ body > p /\ inner \in Nat
      BY <2>2, <3>2, BodyFits
    <3> HIDE DEF body, inner, result
    <3>4. body \in 0..(Len(b) + 1) /\ inner \in 0..(Len(b) + 1)
      BY <1>1, <2>2, <3>3
    <3>5. q \in 0..(Len(b) + 1) /\ (q = 0 \/ q >= body + inner)
      BY <1>2, <3>2, <3>4
    <3> HIDE DEF q
    <3>6. result \in 0..(Len(b) + 1) /\ (result = 0 \/ (q > 0 /\ result >= q + (n - 1)))
      BY <1>2, <3>1, <3>2, <3>5
    <3>7. result = 0 \/ (p > 0 /\ result >= p + n)
      BY <1>1, <3>2, <3>3, <3>5, <3>6
    <3> QED
      BY <3>6, <3>7 DEF result
  <2> QED
    BY <2>1, <2>2
<1> QED
  BY <1>3, <1>4, <1>5, <1>6

\* It depends on nothing else.
AgreeBehind(f, e, b, p) ==
    \A q \in 0..(Len(b) + 1), m \in 0..(Len(b) + 1), c \in 0..MaxNesting :
        q = 0 \/ q > p => f[<<q, m, c>>] = e[<<q, m, c>>]

LEMMA EndAgree ==
    ASSUME NEW b \in Seq(0..255), NEW e \in Ends(b), NEW f,
           NEW p \in 0..(Len(b) + 1), NEW n \in 0..(Len(b) + 1), NEW d \in 0..MaxNesting,
           AgreeBehind(f, e, b, p)
    PROVE  EndNext(f, b, p, n, d) = EndNext(e, b, p, n, d)
<1> DEFINE body == p + 1 + Codec!Width(b[p])
           inner == Codec!ContainerItems(b, p)
<1>1. Len(b) \in Nat /\ MaxNesting \in Nat
  BY LenProperties, BytesAssumption
<1>2. \A q \in 0..(Len(b) + 1), m \in 0..(Len(b) + 1), c \in 0..MaxNesting :
         q = 0 \/ q > p => f[<<q, m, c>>] = e[<<q, m, c>>]
  BY DEF AgreeBehind
<1>3. CASE n = 0 \/ p = 0
  BY <1>3 DEF EndNext
<1>4. CASE n # 0 /\ p # 0 /\ p > Len(b)
  BY <1>4 DEF EndNext
<1>5. CASE n # 0 /\ p # 0 /\ ~(p > Len(b)) /\ Codec!Type(b[p]) \notin {"Array", "Map"}
  <2> DEFINE q == Codec!ReadScalar(b, p)
  <2>1. EndNext(e, b, p, n, d) = e[<<q, n - 1, d>>] /\ EndNext(f, b, p, n, d) = f[<<q, n - 1, d>>]
    BY <1>5 DEF EndNext
  <2>2. p \in 1..Len(b) /\ n - 1 \in 0..(Len(b) + 1)
    BY <1>1, <1>5
  <2>3. q = 0 \/ q \in (p + 1)..(Len(b) + 1)
    BY <2>2, ScalarEnds
  <2> HIDE DEF q
  <2>4. q \in 0..(Len(b) + 1) /\ (q = 0 \/ q > p)
    BY <1>1, <2>2, <2>3
  <2> QED
    BY <1>2, <2>1, <2>2, <2>4
<1>6. CASE n # 0 /\ p # 0 /\ ~(p > Len(b)) /\ Codec!Type(b[p]) \in {"Array", "Map"}
  <2>1. CASE d = MaxNesting \/ ~Codec!Need(b, p, 1 + Codec!Width(b[p])) \/ inner > Len(b)
    BY <1>6, <2>1 DEF EndNext
  <2>2. CASE ~(d = MaxNesting \/ ~Codec!Need(b, p, 1 + Codec!Width(b[p])) \/ inner > Len(b))
    <3>1. /\ EndNext(e, b, p, n, d) = e[<<e[<<body, inner, d + 1>>], n - 1, d>>]
          /\ EndNext(f, b, p, n, d) = f[<<f[<<body, inner, d + 1>>], n - 1, d>>]
      BY <1>6, <2>2 DEF EndNext
    <3>2. p \in 1..Len(b) /\ n - 1 \in 0..(Len(b) + 1) /\ d + 1 \in 0..MaxNesting
      BY <1>1, <1>6, <2>2
    <3>3. body \in 1..(Len(b) + 1) /\ body > p /\ inner \in Nat
      BY <2>2, <3>2, BodyFits
    <3> HIDE DEF body, inner
    <3>4. body \in 0..(Len(b) + 1) /\ inner \in 0..(Len(b) + 1)
      BY <1>1, <2>2, <3>3
    <3>5. f[<<body, inner, d + 1>>] = e[<<body, inner, d + 1>>]
      BY <1>2, <3>2, <3>3, <3>4
    <3> DEFINE q == e[<<body, inner, d + 1>>]
    <3>6. <<body, inner, d + 1>> \in Codec!Spots(b)
      BY <3>2, <3>4 DEF Codec!Spots
    <3>7. q \in 0..(Len(b) + 1) /\ (q = 0 \/ q >= body + inner)
      BY <3>2, <3>4, <3>6 DEF Ends
    <3> HIDE DEF q
    <3>8. q = 0 \/ q > p
      BY <3>3, <3>7
    <3> QED
      BY <1>2, <3>1, <3>2, <3>5, <3>7, <3>8 DEF q
  <2> QED
    BY <2>1, <2>2
<1> QED
  BY <1>3, <1>4, <1>5, <1>6

Turn(e, b) == [spot \in Codec!Spots(b) |-> EndNext(e, b, spot[1], spot[2], spot[3])]

LEMMA Triples == ASSUME NEW A, NEW B, NEW C, NEW x \in A \X B \X C
                 PROVE  x[1] \in A /\ x[2] \in B /\ x[3] \in C /\ x = <<x[1], x[2], x[3]>>
<1>1. x[1] \in A
  OBVIOUS
<1>2. x[2] \in B
  OBVIOUS
<1>3. x[3] \in C
  OBVIOUS
<1>4. x = <<x[1], x[2], x[3]>>
  OBVIOUS
<1> QED
  BY <1>1, <1>2, <1>3, <1>4

\* A function of spots is an end function when it tells ends at each of them.
LEMMA TurnEnds ==
    ASSUME NEW b \in Seq(0..255), NEW e \in Ends(b)
    PROVE  /\ Turn(e, b) \in Ends(b)
           /\ \A p \in 0..(Len(b) + 1), n \in 0..(Len(b) + 1), d \in 0..MaxNesting :
                 Turn(e, b)[<<p, n, d>>] = EndNext(e, b, p, n, d)
<1>1. ASSUME NEW p \in 0..(Len(b) + 1), NEW n \in 0..(Len(b) + 1), NEW d \in 0..MaxNesting
      PROVE  Turn(e, b)[<<p, n, d>>] = EndNext(e, b, p, n, d)
  <2>1. <<p, n, d>> \in Codec!Spots(b)
    BY DEF Codec!Spots
  <2> QED
    BY <2>1 DEF Turn
<1>2. ASSUME NEW spot \in Codec!Spots(b) PROVE EndNext(e, b, spot[1], spot[2], spot[3]) \in 0..(Len(b) + 1)
  <2>1. spot[1] \in 0..(Len(b) + 1) /\ spot[2] \in 0..(Len(b) + 1) /\ spot[3] \in 0..MaxNesting
    BY Triples DEF Codec!Spots
  <2> QED
    BY <2>1, EndTurn
<1>3. Turn(e, b) \in [Codec!Spots(b) -> 0..(Len(b) + 1)]
  BY <1>2 DEF Turn
<1>4. ASSUME NEW p \in 0..(Len(b) + 1), NEW n \in 0..(Len(b) + 1), NEW d \in 0..MaxNesting
      PROVE  Turn(e, b)[<<p, n, d>>] = 0 \/ (p > 0 /\ Turn(e, b)[<<p, n, d>>] >= p + n)
  BY <1>1, EndTurn
<1> QED
  BY <1>1, <1>3, <1>4 DEF Ends

\* EndOf's recursion ends, and what it says of every spot is the end of the values there.
LEMMA EndExists ==
    ASSUME NEW b \in Seq(0..255)
    PROVE  \E e \in Ends(b) : Ending(e, b) /\ Codec!EndOf(b, 1) = e[<<1, 1, 0>>]
<1> DEFINE L == Len(b)
           first == [spot \in Codec!Spots(b) |-> 0]
           step == [x \in (1..(L + 2)) \X Ends(b) |-> Turn(x[2], b)]
           Eq(g) == g = [spot \in Codec!Spots(b) |-> EndNext(g, b, spot[1], spot[2], spot[3])]
<1>1. L \in Nat /\ MaxNesting \in Nat
  BY LenProperties, BytesAssumption
<1> HIDE DEF L
<1>2. first \in Ends(b)
  <2>1. first \in [Codec!Spots(b) -> 0..(Len(b) + 1)]
    BY <1>1 DEF L
  <2>2. ASSUME NEW p \in 0..(Len(b) + 1), NEW n \in 0..(Len(b) + 1), NEW d \in 0..MaxNesting
        PROVE  first[<<p, n, d>>] = 0
    BY DEF Codec!Spots
  <2> HIDE DEF first
  <2> QED
    BY <2>1, <2>2 DEF Ends
<1>3. step \in [(1..(L + 2)) \X Ends(b) -> Ends(b)]
  BY TurnEnds
<1>4. PICK H \in [0..(L + 2) -> Ends(b)] : Folded(H, L + 2, first, step)
  <2>1. L + 2 \in Nat
    BY <1>1
  <2> HIDE DEF step, first, Eq
  <2> QED
    BY <1>2, <1>3, <2>1, FoldExists
<1>5. ASSUME NEW i \in 1..(L + 2) PROVE H[i] = Turn(H[i - 1], b) /\ H[i - 1] \in Ends(b) /\ H[i] \in Ends(b)
  <2>1. i \in 0..(L + 2) /\ i # 0 /\ i - 1 \in 0..(L + 2)
    BY <1>1
  <2>2. H[i] = step[<<i, H[i - 1]>>]
    BY <1>4, <2>1 DEF Folded
  <2>3. <<i, H[i - 1]>> \in (1..(L + 2)) \X Ends(b)
    BY <2>1
  <2> QED
    BY <2>1, <2>2, <2>3
<1> HIDE DEF step, first, Eq
<1> DEFINE Settled == {m \in 0..(L + 1) :
                \A p \in 0..(L + 1), n \in 0..(L + 1), d \in 0..MaxNesting :
                    p = 0 \/ p >= L + 2 - m => H[m + 1][<<p, n, d>>] = H[m][<<p, n, d>>]}
<1>6. 0 \in Settled
  <2> SUFFICES ASSUME NEW p \in 0..(L + 1), NEW n \in 0..(L + 1), NEW d \in 0..MaxNesting,
                      p = 0 \/ p >= L + 2 - 0
               PROVE  H[0 + 1][<<p, n, d>>] = H[0][<<p, n, d>>]
    BY <1>1
  <2>1. p = 0 /\ 0 \in 0..(L + 2) /\ 0 + 1 \in 0..(L + 2)
    BY <1>1
  <2>2. H[0] \in Ends(b) /\ H[0 + 1] \in Ends(b)
    BY <2>1
  <2>3. \A e \in Ends(b) : e[<<0, n, d>>] = 0
    BY <2>1 DEF Ends, L
  <2> QED
    BY <2>1, <2>2, <2>3
<1>7. ASSUME NEW m \in 1..(L + 1), m - 1 \in Settled PROVE m \in Settled
  <2> SUFFICES ASSUME NEW p \in 0..(L + 1), NEW n \in 0..(L + 1), NEW d \in 0..MaxNesting,
                      p = 0 \/ p >= L + 2 - m
               PROVE  H[m + 1][<<p, n, d>>] = H[m][<<p, n, d>>]
    <3>1. m \in 0..(L + 1)
      BY <1>1
    <3> QED
      BY <3>1
  <2>1. m \in 1..(L + 2) /\ m + 1 \in 1..(L + 2) /\ (m + 1) - 1 = m /\ (m - 1) + 1 = m
    BY <1>1
  <2>2. H[m + 1] = Turn(H[m], b) /\ H[m] = Turn(H[m - 1], b) /\ H[m] \in Ends(b) /\ H[m - 1] \in Ends(b)
    BY <1>5, <2>1
  <2>3. /\ H[m + 1][<<p, n, d>>] = EndNext(H[m], b, p, n, d)
        /\ H[m][<<p, n, d>>] = EndNext(H[m - 1], b, p, n, d)
    BY <2>2, TurnEnds DEF L
  <2>4. \A q \in 0..(L + 1), k \in 0..(L + 1), c \in 0..MaxNesting :
            q = 0 \/ q > p => H[m][<<q, k, c>>] = H[m - 1][<<q, k, c>>]
    <3> SUFFICES ASSUME NEW q \in 0..(L + 1), NEW k \in 0..(L + 1), NEW c \in 0..MaxNesting, q = 0 \/ q > p
                 PROVE  H[m][<<q, k, c>>] = H[m - 1][<<q, k, c>>]
      OBVIOUS
    <3>1. q = 0 \/ q >= L + 2 - (m - 1)
      BY <1>1
    <3> QED
      BY <1>7, <2>1, <3>1
  <2>5. EndNext(H[m], b, p, n, d) = EndNext(H[m - 1], b, p, n, d)
    <3>1. AgreeBehind(H[m], H[m - 1], b, p)
      BY <2>4 DEF AgreeBehind, L
    <3>2. p \in 0..(Len(b) + 1) /\ n \in 0..(Len(b) + 1)
      BY DEF L
    <3> HIDE DEF Settled
    <3> QED
      BY <2>2, <3>1, <3>2, EndAgree
  <2> QED
    BY <2>3, <2>5
<1>8. L + 1 \in Settled
  <2> HIDE DEF Settled
  <2>1. L + 1 \in Nat /\ L + 1 \in 0..(L + 1)
    BY <1>1
  <2> QED
    BY <1>6, <1>7, <2>1, Reached
<1> DEFINE e == H[L + 1]
<1>9. e \in Ends(b)
  BY <1>1, <1>5
<1>10. Ending(e, b)
  <2> SUFFICES ASSUME NEW p \in 0..(L + 1), NEW n \in 0..(L + 1), NEW d \in 0..MaxNesting
               PROVE  e[<<p, n, d>>] = EndNext(e, b, p, n, d)
    BY DEF Ending, L
  <2>1. L + 2 \in 1..(L + 2) /\ (L + 1) + 1 = L + 2 /\ (L + 2) - 1 = L + 1
    BY <1>1
  <2>2. H[L + 2] = Turn(e, b)
    BY <1>5, <2>1
  <2>3. p = 0 \/ p >= L + 2 - (L + 1)
    BY <1>1
  <2>4. H[L + 2][<<p, n, d>>] = e[<<p, n, d>>]
    BY <1>8, <2>1, <2>3
  <2> QED
    BY <1>9, <2>2, <2>4, TurnEnds DEF L
<1> HIDE DEF e, Settled
<1>11. Eq(e)
  <2> USE DEF Eq
  <2>1. ASSUME NEW spot \in Codec!Spots(b) PROVE e[spot] = EndNext(e, b, spot[1], spot[2], spot[3])
    <3>1. /\ spot[1] \in 0..(Len(b) + 1) /\ spot[2] \in 0..(Len(b) + 1) /\ spot[3] \in 0..MaxNesting
          /\ spot = <<spot[1], spot[2], spot[3]>>
      BY Triples DEF Codec!Spots
    <3> QED
      BY <1>10, <3>1 DEF Ending
  <2>2. e \in [Codec!Spots(b) -> 0..(Len(b) + 1)]
    BY <1>9 DEF Ends
  <2> QED
    BY <2>1, <2>2
<1>12. PICK h : Eq(h) /\ Codec!EndOf(b, 1) = h[<<1, 1, 0>>]
  BY <1>11 DEF Codec!EndOf, EndNext, Codec!ContainerItems, Eq
<1>13. \A p \in 0..(L + 1), n \in 0..(L + 1), d \in 0..MaxNesting : h[<<p, n, d>>] = EndNext(h, b, p, n, d)
  BY <1>12 DEF Codec!Spots, L, Eq
<1> DEFINE Alike == {m \in 0..(L + 1) :
                \A p \in 0..(L + 1), n \in 0..(L + 1), d \in 0..MaxNesting :
                    p = 0 \/ p >= L + 2 - m => h[<<p, n, d>>] = e[<<p, n, d>>]}
<1>14. \A n \in 0..(L + 1), d \in 0..MaxNesting : h[<<0, n, d>>] = 0 /\ e[<<0, n, d>>] = 0
  <2> SUFFICES ASSUME NEW n \in 0..(L + 1), NEW d \in 0..MaxNesting
               PROVE  h[<<0, n, d>>] = 0 /\ e[<<0, n, d>>] = 0
    OBVIOUS
  <2>1. 0 \in 0..(L + 1)
    BY <1>1
  <2>2. \A g : EndNext(g, b, 0, n, d) = 0
    BY DEF EndNext
  <2>3. h[<<0, n, d>>] = EndNext(h, b, 0, n, d)
    BY <1>13, <2>1
  <2>4. e[<<0, n, d>>] = EndNext(e, b, 0, n, d)
    BY <1>10, <2>1 DEF Ending, L
  <2> QED
    BY <2>2, <2>3, <2>4
<1>15. 0 \in Alike
  <2> SUFFICES ASSUME NEW p \in 0..(L + 1), NEW n \in 0..(L + 1), NEW d \in 0..MaxNesting,
                      p = 0 \/ p >= L + 2 - 0
               PROVE  h[<<p, n, d>>] = e[<<p, n, d>>]
    BY <1>1
  <2>1. p = 0
    BY <1>1
  <2> QED
    BY <1>14, <2>1
<1>16. ASSUME NEW m \in 1..(L + 1), m - 1 \in Alike PROVE m \in Alike
  <2> SUFFICES ASSUME NEW p \in 0..(L + 1), NEW n \in 0..(L + 1), NEW d \in 0..MaxNesting,
                      p = 0 \/ p >= L + 2 - m
               PROVE  h[<<p, n, d>>] = e[<<p, n, d>>]
    BY <1>1
  <2>1. \A q \in 0..(L + 1), k \in 0..(L + 1), c \in 0..MaxNesting :
            q = 0 \/ q > p => h[<<q, k, c>>] = e[<<q, k, c>>]
    <3> SUFFICES ASSUME NEW q \in 0..(L + 1), NEW k \in 0..(L + 1), NEW c \in 0..MaxNesting, q = 0 \/ q > p
                 PROVE  h[<<q, k, c>>] = e[<<q, k, c>>]
      OBVIOUS
    <3>1. q = 0 \/ q >= L + 2 - (m - 1)
      BY <1>1
    <3> QED
      BY <1>16, <3>1
  <2>2. EndNext(h, b, p, n, d) = EndNext(e, b, p, n, d)
    BY <1>9, <2>1, EndAgree DEF L, AgreeBehind
  <2> QED
    BY <1>10, <1>13, <2>2 DEF Ending, L
<1>17. L + 1 \in Alike
  <2> HIDE DEF Alike
  <2>1. L + 1 \in Nat /\ L + 1 \in 0..(L + 1)
    BY <1>1
  <2> QED
    BY <1>15, <1>16, <2>1, Reached
<1>18. h[<<1, 1, 0>>] = e[<<1, 1, 0>>]
  <2>1. 1 \in 0..(L + 1) /\ 0 \in 0..MaxNesting /\ 1 >= L + 2 - (L + 1)
    BY <1>1
  <2> QED
    BY <1>17, <2>1
<1> QED
  BY <1>9, <1>10, <1>12, <1>18

(***************************************************************************)
(* SkipValue's stack of open containers.                                   *)
(***************************************************************************)
\* What is owed with i containers open: the value skipped itself, outside all of them.
Owed(stack, i) == IF i = 0 THEN 1 ELSE stack[i]

\* c says where each open container ends: the innermost where what it owes from p on ends,
\* another where the values behind the container in it end.
Enclosing(e, b, c, p, stack) ==
    /\ c[0] = e[<<1, 1, 0>>]
    /\ c[Len(stack)] = e[<<p, Owed(stack, Len(stack)), Len(stack)>>]
    /\ \A i \in 0..(Len(stack) - 1) : c[i] = e[<<c[i + 1], Owed(stack, i) - 1, i>>]

\* A set of numbers from 1 to n that is not empty has a greatest element.
LEMMA Greatest ==
    ASSUME NEW n \in Nat, NEW S \in SUBSET (1..n), S # {}
    PROVE  \E m \in S : \A k \in S : k <= m
<1> DEFINE R == {k \in 0..n : n - k \in S}
<1>1. R \in SUBSET Nat /\ R # {}
  <2>1. PICK s \in S : TRUE
    OBVIOUS
  <2>2. s \in 1..n
    BY <2>1
  <2>3. n - s \in 0..n /\ n - (n - s) = s
    BY <2>2
  <2>4. n - s \in R
    BY <2>1, <2>3
  <2>5. R \in SUBSET Nat
    OBVIOUS
  <2> HIDE DEF R
  <2> QED
    BY <2>4, <2>5
<1>2. PICK m \in R : \A k \in R : m <= k
  BY <1>1, Least
<1>3. m \in 0..n /\ n - m \in S
  BY <1>2
<1>4. ASSUME NEW k \in S PROVE k <= n - m
  <2>1. k \in 1..n
    OBVIOUS
  <2>2. n - k \in 0..n /\ n - (n - k) = k
    BY <2>1
  <2>3. n - k \in R
    BY <2>2
  <2> HIDE DEF R
  <2>4. m <= n - k
    BY <1>2, <2>3
  <2> QED
    BY <1>3, <2>1, <2>4
<1> QED
  BY <1>3, <1>4

\* The containers a value finishes are those that owe it alone, from the innermost on.
LEMMA Finishes ==
    ASSUME NEW n \in Nat, NEW stack \in Seq(1..n)
    PROVE  \E last \in 0..Len(stack) :
              /\ \A i \in (last + 1)..Len(stack) : stack[i] = 1
              /\ last > 0 => stack[last] > 1
              /\ Codec!FinishValue(stack) = [i \in 1..last |-> IF i = last THEN stack[i] - 1 ELSE stack[i]]
<1> DEFINE Owing == {i \in DOMAIN stack : stack[i] > 1}
           Highest == IF Owing = {} THEN 0 ELSE CHOOSE i \in Owing : \A j \in Owing : j <= i
<1>1. Len(stack) \in Nat /\ DOMAIN stack = 1..Len(stack) /\ \A i \in 1..Len(stack) : stack[i] \in 1..n
  BY LenProperties, ElementOfSeq
<1>2. Codec!FinishValue(stack) = [i \in 1..Highest |-> IF i = Highest THEN stack[i] - 1 ELSE stack[i]]
  BY DEF Codec!FinishValue
<1>3. Owing # {} => Highest \in Owing /\ \A j \in Owing : j <= Highest
  <2> SUFFICES ASSUME Owing # {} PROVE Highest \in Owing /\ \A j \in Owing : j <= Highest
    OBVIOUS
  <2>1. Owing \in SUBSET (1..Len(stack))
    BY <1>1
  <2> HIDE DEF Owing
  <2>2. \E i \in Owing : \A j \in Owing : j <= i
    BY <1>1, <2>1, Greatest
  <2> QED
    BY <2>2
<1>4. Owing = {} => Highest = 0
  OBVIOUS
<1> HIDE DEF Highest
<1>5. Highest \in 0..Len(stack) /\ (Highest > 0 => stack[Highest] > 1)
  BY <1>1, <1>3, <1>4
<1>6. ASSUME NEW i \in (Highest + 1)..Len(stack) PROVE stack[i] = 1
  <2>1. i \in 1..Len(stack) /\ i > Highest
    BY <1>1, <1>5
  <2>2. i \notin Owing
    BY <1>3, <1>5, <2>1
  <2>3. ~(stack[i] > 1) /\ stack[i] \in 1..n
    BY <1>1, <2>1, <2>2
  <2> QED
    BY <2>3
<1> QED
  BY <1>2, <1>5, <1>6

\* When the innermost container ends nowhere, none around it ends.
LEMMA EndsNowhere ==
    ASSUME NEW b \in Seq(0..255), NEW e \in Ends(b), Ending(e, b), NEW p, NEW n \in Nat,
           NEW stack \in Seq(1..n), n <= Len(b), Len(stack) <= MaxNesting,
           NEW c, Enclosing(e, b, c, p, stack), c[Len(stack)] = 0
    PROVE  e[<<1, 1, 0>>] = 0
<1> DEFINE D == Len(stack)
           Nowhere == {k \in 0..D : c[D - k] = 0}
<1>1. D \in Nat /\ Len(b) \in Nat /\ MaxNesting \in Nat /\ \A i \in 1..D : stack[i] \in 1..n
  BY LenProperties, ElementOfSeq, BytesAssumption
<1>2. 0 \in Nowhere
  <2>1. D - 0 = D /\ 0 \in 0..D
    BY <1>1
  <2> QED
    BY <2>1
<1>3. ASSUME NEW k \in 1..D, k - 1 \in Nowhere PROVE k \in Nowhere
  <2> DEFINE i == D - k
  <2>1. i \in 0..(D - 1) /\ i + 1 = D - (k - 1) /\ k \in 0..D
    BY <1>1
  <2>2. c[i + 1] = 0
    BY <1>3, <2>1
  <2>3. c[i] = e[<<c[i + 1], Owed(stack, i) - 1, i>>]
    BY <2>1 DEF Enclosing
  <2>4. Owed(stack, i) - 1 \in 0..(Len(b) + 1) /\ i \in 0..MaxNesting
    <3> HIDE DEF Nowhere
    <3>1. i = 0 \/ i \in 1..D
      BY <1>1, <2>1
    <3>2. Owed(stack, i) = 1 \/ Owed(stack, i) \in 1..n
      BY <1>1, <3>1 DEF Owed
    <3> HIDE DEF i
    <3>3. Owed(stack, i) - 1 \in 0..(Len(b) + 1)
      BY <1>1, <3>2
    <3>4. i \in 0..MaxNesting
      BY <1>1, <2>1
    <3> QED
      BY <3>3, <3>4
  <2> HIDE DEF Nowhere
  <2>5. 0 \in 0..(Len(b) + 1)
    BY <1>1
  <2>6. e[<<0, Owed(stack, i) - 1, i>>] = EndNext(e, b, 0, Owed(stack, i) - 1, i)
    BY <2>4, <2>5 DEF Ending
  <2>7. c[i] = 0
    BY <2>2, <2>3, <2>6 DEF EndNext
  <2> QED
    BY <2>1, <2>7 DEF Nowhere
<1> HIDE DEF Nowhere
<1>4. \A k \in 0..D : k \in Nowhere
  BY <1>1, <1>2, <1>3, Reached
<1>5. D \in Nowhere /\ D - D = 0
  BY <1>1, <1>4
<1>6. c[0] = 0
  BY <1>5 DEF Nowhere
<1> QED
  BY <1>6 DEF Enclosing

LEMMA Downward ==
    ASSUME NEW m \in Nat, NEW last \in 0..m, NEW k \in 1..(m - last)
    PROVE  /\ m - k \in 0..(m - 1) /\ (m - k) + 1 = m - (k - 1) /\ k \in 0..(m - last)
           /\ (m - k) + 1 \in (last + 1)..m /\ (m - k) + 1 # 0
  OBVIOUS

\* A value that ends at q finishes containers: what is left of them ends where it did, and
\* when nothing is left the value skipped has ended.
LEMMA Closes ==
    ASSUME NEW b \in Seq(0..255), NEW e \in Ends(b), Ending(e, b), NEW p, NEW n \in Nat,
           NEW stack \in Seq(1..n), n <= Len(b), Len(stack) <= MaxNesting,
           NEW c, Enclosing(e, b, c, p, stack), NEW q \in 1..(Len(b) + 1),
           c[Len(stack)] = e[<<q, Owed(stack, Len(stack)) - 1, Len(stack)>>]
    PROVE  LET rest == Codec!FinishValue(stack)
           IN  /\ rest \in Seq(1..n) /\ Len(rest) <= Len(stack)
               /\ rest # << >> => Enclosing(e, b, c, q, rest)
               /\ rest = << >> => q = e[<<1, 1, 0>>]
<1> DEFINE D == Len(stack)
           rest == Codec!FinishValue(stack)
<1>1. D \in Nat /\ Len(b) \in Nat /\ MaxNesting \in Nat /\ \A i \in 1..D : stack[i] \in 1..n
  BY LenProperties, ElementOfSeq, BytesAssumption
<1>2. PICK last \in 0..D :
         /\ \A i \in (last + 1)..D : stack[i] = 1
         /\ last > 0 => stack[last] > 1
         /\ rest = [i \in 1..last |-> IF i = last THEN stack[i] - 1 ELSE stack[i]]
  BY Finishes
<1> HIDE DEF rest
<1>3. /\ rest \in Seq(1..n) /\ Len(rest) = last
      /\ \A i \in 1..last : rest[i] = IF i = last THEN stack[i] - 1 ELSE stack[i]
  <2>1. ASSUME NEW i \in 1..last PROVE (IF i = last THEN stack[i] - 1 ELSE stack[i]) \in 1..n
    <3>1. stack[i] \in 1..n /\ (i = last => stack[i] > 1)
      BY <1>1, <1>2
    <3> QED
      BY <3>1
  <2>2. rest \in [1..last -> 1..n]
    BY <1>2, <2>1
  <2>3. last \in Nat
    BY <1>1
  <2>4. rest \in Seq(1..n) /\ Len(rest) = last
    BY <2>2, <2>3
  <2> QED
    BY <1>2, <2>4
<1> DEFINE Reaches == {k \in 0..(D - last) : c[D - k] = e[<<q, Owed(stack, D - k) - 1, D - k>>]}
<1>4. 0 \in Reaches
  <2>1. D - 0 = D /\ 0 \in 0..(D - last)
    BY <1>1
  <2> QED
    BY <2>1
<1>5. ASSUME NEW k \in 1..(D - last), k - 1 \in Reaches PROVE k \in Reaches
  <2> DEFINE i == D - k
  <2>1. /\ i \in 0..(D - 1) /\ i + 1 = D - (k - 1) /\ k \in 0..(D - last)
        /\ i + 1 \in (last + 1)..D /\ i + 1 # 0
    <3> HIDE DEF D
    <3> QED
      BY <1>1, Downward
  <2>2. c[i + 1] = e[<<q, Owed(stack, i + 1) - 1, i + 1>>]
    BY <1>5, <2>1
  <2>3. Owed(stack, i + 1) - 1 = 0
    <3>1. stack[i + 1] = 1 /\ i + 1 # 0
      <4> HIDE DEF i, D
      <4> QED
        BY <1>2, <2>1
    <3> QED
      BY <3>1 DEF Owed
  <2>4. c[i] = e[<<c[i + 1], Owed(stack, i) - 1, i>>]
    BY <2>1 DEF Enclosing
  <2>5. 0 \in 0..(Len(b) + 1) /\ q \in 0..(Len(b) + 1) /\ i + 1 \in 0..MaxNesting
    BY <1>1, <2>1
  <2> HIDE DEF i, Reaches
  <2>6. e[<<q, 0, i + 1>>] = EndNext(e, b, q, 0, i + 1)
    BY <2>5 DEF Ending
  <2>7. c[i + 1] = q
    BY <2>2, <2>3, <2>6 DEF EndNext
  <2>8. c[i] = e[<<q, Owed(stack, i) - 1, i>>]
    BY <2>4, <2>7
  <2> QED
    BY <2>1, <2>8 DEF Reaches, i
<1> HIDE DEF Reaches
<1>6. c[last] = e[<<q, Owed(stack, last) - 1, last>>]
  <2>1. D - last \in Nat /\ D - last \in 0..(D - last) /\ D - (D - last) = last
    BY <1>1
  <2>2. D - last \in Reaches
    BY <1>4, <1>5, <2>1, Reached
  <2> QED
    BY <2>1, <2>2 DEF Reaches
<1>7. ASSUME last > 0 PROVE Enclosing(e, b, c, q, rest)
  <2>1. Owed(rest, last) = Owed(stack, last) - 1
    BY <1>1, <1>3, <1>7 DEF Owed
  <2>2. ASSUME NEW i \in 0..(last - 1) PROVE c[i] = e[<<c[i + 1], Owed(rest, i) - 1, i>>]
    <3>1. i \in 0..(D - 1) /\ (i # 0 => i \in 1..last) /\ i # last
      BY <1>1, <1>7
    <3>2. Owed(rest, i) = Owed(stack, i)
      BY <1>3, <3>1 DEF Owed
    <3> QED
      BY <3>1, <3>2 DEF Enclosing
  <2>3. c[0] = e[<<1, 1, 0>>]
    BY DEF Enclosing
  <2> QED
    BY <1>3, <1>6, <2>1, <2>2, <2>3 DEF Enclosing
<1>8. ASSUME last = 0 PROVE q = e[<<1, 1, 0>>]
  <2>1. Owed(stack, 0) - 1 = 0
    BY DEF Owed
  <2>2. 0 \in 0..(Len(b) + 1) /\ q \in 0..(Len(b) + 1) /\ 0 \in 0..MaxNesting
    BY <1>1
  <2>3. e[<<q, 0, 0>>] = EndNext(e, b, q, 0, 0)
    BY <2>2 DEF Ending
  <2>4. c[0] = q
    BY <1>6, <1>8, <2>1, <2>3 DEF EndNext
  <2> QED
    BY <2>4 DEF Enclosing
<1>9. rest = << >> <=> last = 0
  BY <1>1, <1>3, EmptySeq, LenProperties
<1>10. last <= D /\ (last = 0 \/ last > 0)
  BY <1>1
<1> QED
  BY <1>3, <1>7, <1>8, <1>9, <1>10 DEF rest

\* A container that opens ends behind what it owes.
LEMMA Opens ==
    ASSUME NEW b, NEW e, NEW p, NEW stack \in Seq(Nat), NEW c, Enclosing(e, b, c, p, stack),
           NEW body, NEW items \in Nat,
           c[Len(stack)] = e[<<e[<<body, items, Len(stack) + 1>>], Owed(stack, Len(stack)) - 1, Len(stack)>>]
    PROVE  \E f : Enclosing(e, b, f, body, Append(stack, items))
<1> DEFINE D == Len(stack)
           new == Append(stack, items)
           f == [i \in 0..(D + 1) |-> IF i = D + 1 THEN e[<<body, items, D + 1>>] ELSE c[i]]
<1>1. /\ D \in Nat /\ Len(new) = D + 1 /\ new[D + 1] = items
      /\ \A i \in 1..D : new[i] = stack[i]
  BY LenProperties, AppendProperties
<1>2. f[D + 1] = e[<<body, items, D + 1>>] /\ \A i \in 0..D : f[i] = c[i]
  BY <1>1
<1> HIDE DEF f, new
<1>3. \A i \in 0..D : Owed(new, i) = Owed(stack, i)
  BY <1>1 DEF Owed
<1>4. f[0] = e[<<1, 1, 0>>]
  <2>1. 0 \in 0..D
    BY <1>1
  <2> QED
    BY <1>2, <2>1 DEF Enclosing
<1>5. f[D + 1] = e[<<body, Owed(new, D + 1), D + 1>>]
  BY <1>1, <1>2 DEF Owed
<1>6. ASSUME NEW i \in 0..D PROVE f[i] = e[<<f[i + 1], Owed(new, i) - 1, i>>]
  <2>1. CASE i = D
    BY <1>1, <1>2, <1>3, <2>1
  <2>2. CASE i # D
    <3>1. i \in 0..(D - 1) /\ i + 1 \in 0..D
      BY <1>1, <2>2
    <3>2. c[i] = e[<<c[i + 1], Owed(stack, i) - 1, i>>]
      BY <3>1 DEF Enclosing
    <3> QED
      BY <1>2, <1>3, <3>1, <3>2
  <2> QED
    BY <2>1, <2>2
<1>7. (D + 1) - 1 = D
  BY <1>1
<1>8. Enclosing(e, b, f, body, new)
  BY <1>1, <1>4, <1>5, <1>6, <1>7 DEF Enclosing
<1> QED
  BY <1>8 DEF new

\* Nothing is open before the first byte is read.
LEMMA NothingOpen ==
    ASSUME NEW b \in Seq(0..255)
    PROVE  \E e \in Ends(b) : \E c : /\ Ending(e, b) /\ Codec!EndOf(b, 1) = e[<<1, 1, 0>>]
                                      /\ Enclosing(e, b, c, 1, << >>)
<1>1. PICK e \in Ends(b) : Ending(e, b) /\ Codec!EndOf(b, 1) = e[<<1, 1, 0>>]
  BY EndExists
<1> DEFINE c == [i \in 0..0 |-> e[<<1, 1, 0>>]]
<1>2. c[0] = e[<<1, 1, 0>>]
  OBVIOUS
<1> HIDE DEF c
<1>3. Len(<< >>) = 0 /\ 0..(0 - 1) = {}
  BY EmptySeq, LenProperties
<1>4. Enclosing(e, b, c, 1, << >>)
  <2>1. Owed(<< >>, 0) = 1
    BY DEF Owed
  <2> QED
    BY <1>2, <1>3, <2>1 DEF Enclosing
<1> QED
  BY <1>1, <1>4

\* What one turn of SkipValue's loop reads tells where the innermost open container ends.
LEMMA SkipTurn ==
    ASSUME NEW b \in Seq(0..255), NEW e \in Ends(b), Ending(e, b), NEW p \in 1..(Len(b) + 1),
           NEW stack \in Seq(1..Len(b)), Len(stack) <= MaxNesting, NEW c, Enclosing(e, b, c, p, stack)
    PROVE  LET isContainer == p <= Len(b) /\ Codec!Type(b[p]) \in {"Array", "Map"}
               body == IF p > Len(b) THEN 0
                       ELSE IF isContainer THEN Codec!ReadContainerHeader(b, p) ELSE Codec!ReadScalar(b, p)
               items == Codec!ContainerItems(b, p)
               refused == body = 0 \/ (isContainer /\ Len(stack) = MaxNesting)
               innermost == c[Len(stack)]
               owed == Owed(stack, Len(stack))
           IN  /\ refused => innermost = 0
               /\ ~refused => body \in 1..(Len(b) + 1)
               /\ ~refused /\ isContainer /\ items > 0 =>
                     /\ items \in 1..Len(b) /\ Len(stack) + 1 <= MaxNesting
                     /\ innermost = e[<<e[<<body, items, Len(stack) + 1>>], owed - 1, Len(stack)>>]
               /\ ~refused /\ ~(isContainer /\ items > 0) =>
                     innermost = e[<<body, owed - 1, Len(stack)>>]
<1> DEFINE D == Len(stack)
           isContainer == p <= Len(b) /\ Codec!Type(b[p]) \in {"Array", "Map"}
           header == Codec!ReadContainerHeader(b, p)
           scalar == Codec!ReadScalar(b, p)
           body == IF p > Len(b) THEN 0 ELSE IF isContainer THEN header ELSE scalar
           items == Codec!ContainerItems(b, p)
           behind == p + 1 + Codec!Width(b[p])
           refused == body = 0 \/ (isContainer /\ D = MaxNesting)
           innermost == c[D]
           owed == Owed(stack, D)
<1>1. D \in Nat /\ Len(b) \in Nat /\ MaxNesting \in Nat /\ \A i \in 1..D : stack[i] \in 1..Len(b)
  BY LenProperties, ElementOfSeq, BytesAssumption
<1>2. owed \in 1..(Len(b) + 1) /\ owed - 1 \in 0..(Len(b) + 1)
  <2>1. owed = 1 \/ owed \in 1..Len(b)
    BY <1>1 DEF Owed
  <2> HIDE DEF owed
  <2> QED
    BY <1>1, <2>1
<1>3. D \in 0..MaxNesting /\ p \in 0..(Len(b) + 1) /\ 0 \in 0..(Len(b) + 1)
  BY <1>1
<1> HIDE DEF owed
<1>4. innermost = EndNext(e, b, p, owed, D)
  <2>1. innermost = e[<<p, owed, D>>]
    BY DEF Enclosing, owed
  <2> QED
    BY <1>2, <1>3, <2>1 DEF Ending
<1> HIDE DEF innermost
<1>5. owed # 0 /\ p # 0
  BY <1>1, <1>2
<1>6. e[<<0, owed - 1, D>>] = 0
  <2>1. e[<<0, owed - 1, D>>] = EndNext(e, b, 0, owed - 1, D)
    BY <1>2, <1>3 DEF Ending
  <2> QED
    BY <2>1 DEF EndNext
<1> DEFINE Told ==
               /\ refused => innermost = 0
               /\ ~refused => body \in 1..(Len(b) + 1)
               /\ ~refused /\ isContainer /\ items > 0 =>
                     /\ items \in 1..Len(b) /\ D + 1 <= MaxNesting
                     /\ innermost = e[<<e[<<body, items, D + 1>>], owed - 1, D>>]
               /\ ~refused /\ ~(isContainer /\ items > 0) => innermost = e[<<body, owed - 1, D>>]
<1>7. CASE p > Len(b)
  <2>1. innermost = 0
    BY <1>4, <1>5, <1>7 DEF EndNext
  <2>2. body = 0
    BY <1>7
  <2> QED
    BY <2>1, <2>2 DEF owed, innermost
<1>8. CASE ~(p > Len(b)) /\ ~isContainer
  <2>1. p \in 1..Len(b) /\ Codec!Type(b[p]) \notin {"Array", "Map"}
    BY <1>1, <1>8
  <2>2. body = scalar
    BY <1>8
  <2>3. innermost = e[<<scalar, owed - 1, D>>]
    BY <1>4, <1>5, <1>8, <2>1 DEF EndNext
  <2>4. scalar = 0 \/ scalar \in (p + 1)..(Len(b) + 1)
    BY <2>1, ScalarEnds
  <2> HIDE DEF scalar, body
  <2>5. scalar # 0 => scalar \in 1..(Len(b) + 1)
    BY <1>1, <2>1, <2>4
  <2>6. body = 0 => innermost = 0
    BY <1>6, <2>2, <2>3
  <2> HIDE DEF isContainer
  <2>7. Told
    BY <1>8, <2>2, <2>3, <2>5, <2>6
  <2> QED
    BY <2>7 DEF owed, innermost, body, scalar, isContainer
<1>9. CASE ~(p > Len(b)) /\ isContainer
  <2>1. p \in 1..Len(b) /\ Codec!Type(b[p]) \in {"Array", "Map"}
    BY <1>1, <1>9
  <2>2. body = header
    BY <1>9
  <2>3. innermost = IF D = MaxNesting \/ ~Codec!Need(b, p, 1 + Codec!Width(b[p])) \/ items > Len(b) THEN 0
                    ELSE e[<<e[<<behind, items, D + 1>>], owed - 1, D>>]
    BY <1>4, <1>5, <1>9, <2>1 DEF EndNext
  <2> DEFINE read == Codec!Need(b, p, 1 + Codec!Width(b[p]))
  <2>4. /\ behind \in Nat /\ behind > p
        /\ read => items \in Nat
        /\ header # 0 => header = behind /\ read /\ behind + items <= Len(b) + 1
        /\ header = 0 => ~read \/ behind + items > Len(b) + 1
    BY <2>1, HeaderFits
  <2>5. read => behind \in 1..(Len(b) + 1)
    BY <2>1, BodyFits
  <2> HIDE DEF read, behind, header, items, isContainer, body
  <2>6. CASE D = MaxNesting
    <3>1. innermost = 0
      BY <2>3, <2>6
    <3> QED
      BY <1>9, <2>6, <3>1 DEF owed, innermost, body, scalar, isContainer, items, header
  <2>7. CASE D # MaxNesting /\ header = 0
    <3>1. CASE ~read \/ items > Len(b)
      <4>1. innermost = 0
        BY <2>3, <3>1 DEF read
      <4> QED
        BY <1>9, <2>2, <2>7, <4>1 DEF owed, innermost, body, scalar, isContainer, items, header
    <3>2. CASE ~(~read \/ items > Len(b))
      <4>1. innermost = e[<<e[<<behind, items, D + 1>>], owed - 1, D>>]
        BY <2>3, <2>7, <3>2 DEF read
      <4>2. items \in Nat /\ behind + items > Len(b) + 1
        BY <2>4, <2>7, <3>2
      <4>3. behind \in 0..(Len(b) + 1) /\ items \in 0..(Len(b) + 1) /\ D + 1 \in 0..MaxNesting
        BY <1>1, <1>3, <2>5, <2>7, <3>2, <4>2
      <4>4. e[<<behind, items, D + 1>>] = 0 \/ e[<<behind, items, D + 1>>] >= behind + items
        BY <4>3 DEF Ends
      <4>5. e[<<behind, items, D + 1>>] \in 0..(Len(b) + 1)
        <5>1. <<behind, items, D + 1>> \in Codec!Spots(b)
          BY <4>3 DEF Codec!Spots
        <5> QED
          BY <5>1 DEF Ends
      <4>6. e[<<behind, items, D + 1>>] = 0
        <5> DEFINE there == e[<<behind, items, D + 1>>]
        <5>1. (there = 0 \/ there >= behind + items) /\ there \in 0..(Len(b) + 1)
          BY <4>4, <4>5
        <5> HIDE DEF there
        <5>2. there = 0
          BY <1>1, <2>4, <4>2, <5>1
        <5> QED
          BY <5>2 DEF there
      <4>7. innermost = 0
        BY <1>6, <4>1, <4>6
      <4> QED
        BY <1>9, <2>2, <2>7, <4>7 DEF owed, innermost, body, scalar, isContainer, items, header
    <3> QED
      BY <3>1, <3>2
  <2>8. CASE D # MaxNesting /\ header # 0
    <3>1. header = behind /\ read /\ behind + items <= Len(b) + 1 /\ items \in Nat
      BY <2>4, <2>8
    <3>2. items <= Len(b) /\ D + 1 <= MaxNesting /\ D + 1 \in 0..MaxNesting /\ header \in 1..(Len(b) + 1)
      BY <1>1, <1>3, <2>1, <2>4, <2>5, <2>8, <3>1
    <3>3. innermost = e[<<e[<<header, items, D + 1>>], owed - 1, D>>]
      <4>1. ~(items > Len(b))
        BY <1>1, <3>1, <3>2
      <4> QED
        BY <2>3, <2>8, <3>1, <4>1 DEF read
    <3>4. CASE items > 0
      <4>1. items \in 1..Len(b)
        BY <1>1, <3>1, <3>2, <3>4
      <4>2. Told
        BY <1>9, <2>2, <2>8, <3>2, <3>3, <3>4, <4>1
      <4> QED
        BY <4>2 DEF owed, innermost, body, scalar, isContainer, items, header
    <3>5. CASE ~(items > 0)
      <4>1. items = 0
        BY <3>1, <3>5
      <4>2. e[<<header, 0, D + 1>>] = header
        <5>1. header \in 0..(Len(b) + 1)
          BY <1>1, <3>2
        <5>2. e[<<header, 0, D + 1>>] = EndNext(e, b, header, 0, D + 1)
          BY <1>3, <3>2, <5>1 DEF Ending
        <5> QED
          BY <5>2 DEF EndNext
      <4>3. innermost = e[<<header, owed - 1, D>>]
        BY <3>3, <4>1, <4>2
      <4>4. Told
        BY <1>9, <2>2, <2>8, <3>2, <3>5, <4>3
      <4> QED
        BY <4>4 DEF owed, innermost, body, scalar, isContainer, items, header
    <3> QED
      BY <3>4, <3>5
  <2> QED
    BY <2>6, <2>7, <2>8
<1> QED
  BY <1>7, <1>8, <1>9 DEF innermost, owed

\* The bytes read, and the containers open, while a value is skipped.
StackInv ==
    /\ buf \in Seq(Bytes) /\ Len(buf) <= MaxLen /\ pos \in 1..(Len(buf) + 1)
    /\ pending \in Seq(1..Len(buf)) /\ Len(pending) <= MaxNesting
    /\ skipped \in {"no", "true", "false"}

\* While SkipValue runs its stack tells where the value ends, from what is still to be read.
EndsInv ==
    skipped = "no" =>
        \E e \in Ends(buf) : \E c : /\ Ending(e, buf) /\ Codec!EndOf(buf, 1) = e[<<1, 1, 0>>]
                                     /\ Enclosing(e, buf, c, pos, pending)

CodecInv == StackInv /\ EndsInv /\ Codec!SkipIsExact

LEMMA BytesRead == ASSUME NEW s \in Seq(Bytes) PROVE s \in Seq(0..255)
<1> DEFINE All == 0..255
<1>1. Bytes \subseteq All
  BY BytesAssumption
<1> HIDE DEF All
<1>2. s \in Seq(All)
  BY <1>1, SubsetSeq
<1> QED
  BY <1>2 DEF All

LEMMA CodecInit == Codec!Init => CodecInv
<1> SUFFICES ASSUME Codec!Init PROVE CodecInv
  OBVIOUS
<1> USE DEF Codec!Init
<1>1. MaxLen \in Nat /\ MaxNesting \in Nat /\ Len(buf) = 0 /\ Len(pending) = 0
  BY BytesAssumption, EmptySeq, LenProperties
<1>2. StackInv
  <2>1. buf \in Seq(Bytes) /\ pending \in Seq(1..Len(buf))
    BY EmptySeq
  <2> QED
    BY <1>1, <2>1 DEF StackInv
<1>3. EndsInv
  <2>1. << >> \in Seq(0..255)
    BY EmptySeq
  <2>2. \E e \in Ends(<< >>) : \E c : /\ Ending(e, << >>) /\ Codec!EndOf(<< >>, 1) = e[<<1, 1, 0>>]
                                       /\ Enclosing(e, << >>, c, 1, << >>)
    BY <2>1, NothingOpen
  <2> QED
    BY <2>2 DEF EndsInv
<1>4. Codec!SkipIsExact
  BY DEF Codec!SkipIsExact
<1> QED
  BY <1>2, <1>3, <1>4 DEF CodecInv

LEMMA ByteReceived == CodecInv /\ Codec!Receive => CodecInv'
<1> SUFFICES ASSUME CodecInv, Codec!Receive PROVE CodecInv'
  OBVIOUS
<1> USE DEF CodecInv, Codec!Receive
<1>1. PICK b \in Bytes : buf' = Append(buf, b)
  OBVIOUS
<1>2. buf' \in Seq(Bytes) /\ Len(buf') = Len(buf) + 1 /\ Len(buf) \in Nat
  BY <1>1, AppendProperties, LenProperties DEF StackInv
<1>3. MaxLen \in Nat /\ MaxNesting \in Nat /\ Bytes \subseteq 0..255
  BY BytesAssumption
<1>4. pos' = 1 /\ pending' = << >> /\ skipped' = "no"
  OBVIOUS
<1>5. StackInv'
  <2>1. Len(buf') <= MaxLen /\ 1 \in 1..(Len(buf') + 1)
    BY <1>2, <1>3
  <2>2. << >> \in Seq(1..Len(buf')) /\ Len(<< >>) <= MaxNesting
    BY <1>3, EmptySeq, LenProperties
  <2> QED
    BY <1>2, <1>4, <2>1, <2>2 DEF StackInv
<1>6. EndsInv'
  <2>1. buf' \in Seq(0..255)
    BY <1>2, BytesRead
  <2>2. \E e \in Ends(buf') : \E c : /\ Ending(e, buf') /\ Codec!EndOf(buf', 1) = e[<<1, 1, 0>>]
                                      /\ Enclosing(e, buf', c, 1, << >>)
    BY <2>1, NothingOpen
  <2> QED
    BY <1>4, <2>2 DEF EndsInv
<1>7. Codec!SkipIsExact'
  BY <1>4 DEF Codec!SkipIsExact
<1> QED
  BY <1>5, <1>6, <1>7

LEMMA ValueSkipped == CodecInv /\ Codec!SkipValue => CodecInv'
<1> SUFFICES ASSUME CodecInv, Codec!SkipValue PROVE CodecInv'
  OBVIOUS
<1>1. StackInv /\ skipped = "no" /\ Codec!SkipOne /\ buf' = buf
  BY DEF CodecInv, Codec!SkipValue
<1>a. PICK e \in Ends(buf) : \E c : /\ Ending(e, buf) /\ Codec!EndOf(buf, 1) = e[<<1, 1, 0>>]
                                    /\ Enclosing(e, buf, c, pos, pending)
  BY <1>1 DEF CodecInv, EndsInv
<1>2. PICK c : Ending(e, buf) /\ Codec!EndOf(buf, 1) = e[<<1, 1, 0>>] /\ Enclosing(e, buf, c, pos, pending)
  BY <1>a
<1>3. MaxLen \in Nat /\ MaxNesting \in Nat /\ Bytes \subseteq 0..255
  BY BytesAssumption
<1>4. /\ buf \in Seq(Bytes) /\ Len(buf) <= MaxLen /\ pos \in 1..(Len(buf) + 1)
      /\ pending \in Seq(1..Len(buf)) /\ Len(pending) <= MaxNesting
      /\ Len(buf) \in Nat /\ Len(pending) \in Nat
  BY <1>1, LenProperties DEF StackInv
<1>5. buf \in Seq(0..255)
  BY <1>4, BytesRead
<1> DEFINE isContainer == pos <= Len(buf) /\ Codec!Type(buf[pos]) \in {"Array", "Map"}
           body == IF pos > Len(buf) THEN 0
                   ELSE IF isContainer THEN Codec!ReadContainerHeader(buf, pos) ELSE Codec!ReadScalar(buf, pos)
           items == Codec!ContainerItems(buf, pos)
           refused == body = 0 \/ (isContainer /\ Len(pending) = MaxNesting)
           D == Len(pending)
           owed == Owed(pending, D)
<1>6. /\ refused => c[D] = 0
      /\ ~refused => body \in 1..(Len(buf) + 1)
      /\ ~refused /\ isContainer /\ items > 0 =>
            /\ items \in 1..Len(buf) /\ D + 1 <= MaxNesting
            /\ c[D] = e[<<e[<<body, items, D + 1>>], owed - 1, D>>]
      /\ ~refused /\ ~(isContainer /\ items > 0) => c[D] = e[<<body, owed - 1, D>>]
  BY <1>2, <1>4, <1>5, SkipTurn
<1>7. IF refused THEN Codec!Refuse
      ELSE IF isContainer /\ items > 0
      THEN pos' = body /\ pending' = Append(pending, items) /\ skipped' = "no"
      ELSE Codec!Step(body, Codec!FinishValue(pending))
  BY <1>1 DEF Codec!SkipOne
<1> HIDE DEF isContainer, body, items, refused, D, owed
<1>8. CASE refused
  <2>1. skipped' = "false" /\ pos' = pos /\ pending' = pending
    BY <1>7, <1>8 DEF Codec!Refuse
  <2>2. c[Len(pending)] = 0
    BY <1>6, <1>8 DEF D
  <2>3. e[<<1, 1, 0>>] = 0
    <3>1. Len(buf) <= Len(buf)
      BY <1>4
    <3> QED
      BY <1>2, <1>4, <1>5, <2>2, <3>1, EndsNowhere
  <2>4. StackInv'
    BY <1>1, <2>1 DEF StackInv
  <2>5. EndsInv' /\ Codec!SkipIsExact'
    BY <1>1, <1>2, <2>1, <2>3 DEF EndsInv, Codec!SkipIsExact
  <2> QED
    BY <2>4, <2>5 DEF CodecInv
<1>9. CASE ~refused /\ isContainer /\ items > 0
  <2>1. pos' = body /\ pending' = Append(pending, items) /\ skipped' = "no"
    BY <1>7, <1>9
  <2>2. /\ items \in 1..Len(buf) /\ Len(pending) + 1 <= MaxNesting /\ body \in 1..(Len(buf) + 1)
        /\ c[Len(pending)] = e[<<e[<<body, items, Len(pending) + 1>>], Owed(pending, Len(pending)) - 1, Len(pending)>>]
    BY <1>6, <1>9 DEF D, owed
  <2>3. Append(pending, items) \in Seq(1..Len(buf)) /\ Len(Append(pending, items)) = Len(pending) + 1
    BY <1>4, <2>2, AppendProperties
  <2>4. StackInv'
    BY <1>1, <1>4, <2>1, <2>2, <2>3 DEF StackInv
  <2>5. \E f : Enclosing(e, buf, f, body, Append(pending, items))
    <3>1. pending \in Seq(Nat) /\ items \in Nat
      <4>1. 1..Len(buf) \subseteq Nat
        BY <1>4
      <4> QED
        BY <1>4, <2>2, <4>1, SubsetSeq
    <3> QED
      BY <1>2, <2>2, <3>1, Opens
  <2>6. EndsInv'
    BY <1>1, <1>2, <2>1, <2>5 DEF EndsInv
  <2>7. Codec!SkipIsExact'
    BY <2>1 DEF Codec!SkipIsExact
  <2> QED
    BY <2>4, <2>6, <2>7 DEF CodecInv
<1>10. CASE ~refused /\ ~(isContainer /\ items > 0)
  <2> DEFINE rest == Codec!FinishValue(pending)
  <2>1. pos' = body /\ pending' = rest /\ skipped' = (IF rest = << >> THEN "true" ELSE "no")
    BY <1>7, <1>10 DEF Codec!Step
  <2>2. body \in 1..(Len(buf) + 1) /\ c[Len(pending)] = e[<<body, Owed(pending, Len(pending)) - 1, Len(pending)>>]
    BY <1>6, <1>10 DEF D, owed
  <2>3. /\ rest \in Seq(1..Len(buf)) /\ Len(rest) <= Len(pending)
        /\ rest # << >> => Enclosing(e, buf, c, body, rest)
        /\ rest = << >> => body = e[<<1, 1, 0>>]
    <3>1. Len(buf) <= Len(buf)
      BY <1>4
    <3> QED
      BY <1>2, <1>4, <1>5, <2>2, <3>1, Closes
  <2> HIDE DEF rest
  <2>4. StackInv'
    <3>1. Len(rest) <= MaxNesting
      <4>1. Len(rest) \in Nat
        BY <2>3, LenProperties
      <4> QED
        BY <1>3, <1>4, <2>3, <4>1
    <3> QED
      BY <1>1, <1>4, <2>1, <2>2, <2>3, <3>1 DEF StackInv
  <2>5. EndsInv'
    BY <1>1, <1>2, <2>1, <2>3 DEF EndsInv
  <2>6. Codec!SkipIsExact'
    BY <1>1, <1>2, <2>1, <2>3 DEF Codec!SkipIsExact
  <2> QED
    BY <2>4, <2>5, <2>6 DEF CodecInv
<1> QED
  BY <1>8, <1>9, <1>10

LEMMA CodecStep == CodecInv /\ [Codec!Next]_(Codec!ownVars) => CodecInv'
<1> SUFFICES ASSUME CodecInv, [Codec!Next]_(Codec!ownVars) PROVE CodecInv'
  OBVIOUS
<1>1. CASE Codec!Receive
  BY <1>1, ByteReceived
<1>2. CASE Codec!SkipValue
  BY <1>2, ValueSkipped
<1>3. CASE UNCHANGED Codec!ownVars
  <2>1. UNCHANGED <<buf, pos, pending, skipped>>
    BY <1>3 DEF Codec!ownVars
  <2> QED
    BY <2>1 DEF CodecInv, StackInv, EndsInv, Codec!SkipIsExact
<1> QED
  BY <1>1, <1>2, <1>3 DEF Codec!Next

LEMMA CodecTypes == CodecInv => Codec!CodecTypeOK
<1> SUFFICES ASSUME CodecInv PROVE Codec!CodecTypeOK
  OBVIOUS
<1>1. /\ Len(buf) \in Nat /\ MaxLen \in Nat /\ Len(buf) <= MaxLen
      /\ DOMAIN buf = 1..Len(buf) /\ DOMAIN pending = 1..Len(pending)
  BY LenProperties, BytesAssumption DEF CodecInv, StackInv
<1>2. \A i \in DOMAIN buf : buf[i] \in Bytes
  BY <1>1, ElementOfSeq DEF CodecInv, StackInv
<1>3. \A i \in DOMAIN pending : pending[i] \in 1..(2 * MaxLen)
  <2>1. \A i \in DOMAIN pending : pending[i] \in 1..Len(buf)
    BY <1>1, ElementOfSeq DEF CodecInv, StackInv
  <2> QED
    BY <1>1, <2>1
<1> QED
  BY <1>1, <1>2, <1>3 DEF CodecInv, StackInv, Codec!CodecTypeOK

\* What a turn of SkipValue passes over is not empty.
LEMMA TurnPasses ==
    ASSUME NEW b \in Seq(0..255), NEW p \in 1..Len(b)
    PROVE  /\ Codec!ReadScalar(b, p) = 0 \/ Codec!ReadScalar(b, p) > p
           /\ Codec!ReadContainerHeader(b, p) = 0 \/ Codec!ReadContainerHeader(b, p) > p
<1>1. Codec!ReadScalar(b, p) = 0 \/ Codec!ReadScalar(b, p) > p
  <2>1. Codec!ReadScalar(b, p) = 0 \/ Codec!ReadScalar(b, p) \in (p + 1)..(Len(b) + 1)
    BY ScalarEnds
  <2>2. Len(b) \in Nat
    BY LenProperties
  <2> QED
    BY <2>1, <2>2
<1>2. Codec!ReadContainerHeader(b, p) = 0 \/ Codec!ReadContainerHeader(b, p) > p
  BY HeaderFits
<1> QED
  BY <1>1, <1>2

LEMMA TurnAdvances == StackInv /\ Codec!SkipValue => skipped' = "false" \/ pos' > pos
<1> SUFFICES ASSUME StackInv, Codec!SkipValue PROVE skipped' = "false" \/ pos' > pos
  OBVIOUS
<1> DEFINE isContainer == pos <= Len(buf) /\ Codec!Type(buf[pos]) \in {"Array", "Map"}
           body == IF pos > Len(buf) THEN 0
                   ELSE IF isContainer THEN Codec!ReadContainerHeader(buf, pos) ELSE Codec!ReadScalar(buf, pos)
           refused == body = 0 \/ (isContainer /\ Len(pending) = MaxNesting)
<1>1. IF refused THEN Codec!Refuse
      ELSE IF isContainer /\ Codec!ContainerItems(buf, pos) > 0
      THEN pos' = body /\ pending' = Append(pending, Codec!ContainerItems(buf, pos)) /\ skipped' = "no"
      ELSE Codec!Step(body, Codec!FinishValue(pending))
  BY DEF Codec!SkipValue, Codec!SkipOne
<1>2. body = 0 \/ body > pos
  <2>1. CASE pos > Len(buf)
    BY <2>1
  <2>2. CASE ~(pos > Len(buf))
    <3>1. buf \in Seq(0..255) /\ pos \in 1..Len(buf)
      BY <2>2, BytesRead, LenProperties DEF StackInv
    <3>2. /\ Codec!ReadScalar(buf, pos) = 0 \/ Codec!ReadScalar(buf, pos) > pos
          /\ Codec!ReadContainerHeader(buf, pos) = 0 \/ Codec!ReadContainerHeader(buf, pos) > pos
      BY <3>1, TurnPasses
    <3> QED
      BY <2>2, <3>2
  <2> QED
    BY <2>1, <2>2
<1> HIDE DEF body, isContainer
<1>3. CASE refused
  BY <1>1, <1>3 DEF Codec!Refuse
<1>4. CASE ~refused
  <2>1. pos' = body
    BY <1>1, <1>4 DEF Codec!Step
  <2> QED
    BY <1>2, <1>4, <2>1
<1> QED
  BY <1>3, <1>4

(***************************************************************************)
(* What the codec writes, and what it reads of that.                       *)
(***************************************************************************)
(***************************************************************************)
(* What the encoder writes.                                                *)
(***************************************************************************)
Octets == 0..255

LEMMA ByteOf == ASSUME NEW v \in Int
                PROVE  v \div 256 \in Int /\ v % 256 \in 0..255 /\ 256 * (v \div 256) + (v % 256) = v
  OBVIOUS

\* The numbers Shifted passes through.
RestsOf(r, v, k) == r[0] = v /\ \A i \in 1..k : r[i] = r[i - 1] \div 256

LEMMA RestsExist ==
    ASSUME NEW v \in Int, NEW k \in Nat
    PROVE  \E r : Codec!Shifted(v, k) = r[k] /\ RestsOf(r, v, k)
<1> DEFINE Eq(g) == g = [i \in 0..k |-> IF i = 0 THEN v ELSE g[i - 1] \div 256]
           step == [x \in (1..k) \X Int |-> x[2] \div 256]
<1>1. step \in [(1..k) \X Int -> Int]
  <2>1. ASSUME NEW x \in (1..k) \X Int PROVE x[2] \div 256 \in Int
    <3>1. x[2] \in Int
      OBVIOUS
    <3> QED
      BY <3>1, ByteOf
  <2> QED
    BY <2>1
<1>2. PICK g \in [0..k -> Int] : Folded(g, k, v, step)
  <2> HIDE DEF step
  <2> QED
    BY <1>1, FoldExists
<1>3. \A i \in 0..k : g[i] = IF i = 0 THEN v ELSE g[i - 1] \div 256
  <2> SUFFICES ASSUME NEW i \in 0..k PROVE g[i] = IF i = 0 THEN v ELSE g[i - 1] \div 256
    OBVIOUS
  <2>1. g[i] = IF i = 0 THEN v ELSE step[<<i, g[i - 1]>>]
    BY <1>2 DEF Folded
  <2>2. CASE i # 0
    <3>1. i \in 1..k /\ i - 1 \in 0..k
      BY <2>2
    <3>2. <<i, g[i - 1]>> \in (1..k) \X Int
      BY <3>1
    <3> QED
      BY <2>1, <2>2, <3>2
  <2> QED
    BY <2>1, <2>2
<1>4. Eq(g)
  BY <1>3
<1>5. PICK h : Eq(h) /\ Codec!Shifted(v, k) = h[k]
  BY <1>4 DEF Codec!Shifted
<1>6. RestsOf(h, v, k)
  <2>1. h[0] = v
    BY <1>5
  <2>2. ASSUME NEW i \in 1..k PROVE h[i] = h[i - 1] \div 256
    <3>1. i \in 0..k /\ i # 0
      OBVIOUS
    <3> QED
      BY <1>5, <3>1
  <2> QED
    BY <2>1, <2>2 DEF RestsOf
<1> QED
  BY <1>5, <1>6

\* A number shifted by nothing is the number, and by one byte more its quotient.
LEMMA ShiftedNext ==
    ASSUME NEW v \in Int
    PROVE  /\ Codec!Shifted(v, 0) = v
           /\ \A k \in Nat : /\ Codec!Shifted(v, k) \in Int
                             /\ Codec!Shifted(v, k + 1) = Codec!Shifted(v, k) \div 256
<1>1. Codec!Shifted(v, 0) = v
  <2>1. PICK r : Codec!Shifted(v, 0) = r[0] /\ RestsOf(r, v, 0)
    BY RestsExist
  <2> QED
    BY <2>1 DEF RestsOf
<1>2. ASSUME NEW k \in Nat
      PROVE  Codec!Shifted(v, k) \in Int /\ Codec!Shifted(v, k + 1) = Codec!Shifted(v, k) \div 256
  <2>1. PICK r : Codec!Shifted(v, k) = r[k] /\ RestsOf(r, v, k)
    BY RestsExist
  <2>2. PICK t : Codec!Shifted(v, k + 1) = t[k + 1] /\ RestsOf(t, v, k + 1)
    <3>1. k + 1 \in Nat
      OBVIOUS
    <3> QED
      BY <3>1, RestsExist
  <2> DEFINE Same == {i \in 0..k : r[i] \in Int /\ t[i] = r[i]}
  <2>3. 0 \in Same
    BY <2>1, <2>2 DEF RestsOf
  <2>4. ASSUME NEW i \in 1..k, i - 1 \in Same PROVE i \in Same
    <3>1. i \in 1..(k + 1) /\ i \in 0..k /\ r[i - 1] \in Int /\ t[i - 1] = r[i - 1]
      BY <2>4
    <3>2. r[i] = r[i - 1] \div 256 /\ t[i] = t[i - 1] \div 256
      BY <2>1, <2>2, <3>1 DEF RestsOf
    <3>3. r[i - 1] \div 256 \in Int
      BY <3>1, ByteOf
    <3> QED
      BY <3>1, <3>2, <3>3
  <2> HIDE DEF Same
  <2>5. k \in Same
    <3>1. \A i \in 0..k : i \in Same
      BY <2>3, <2>4, Reached
    <3> QED
      BY <3>1
  <2>6. r[k] \in Int /\ t[k] = r[k]
    BY <2>5 DEF Same
  <2>7. t[k + 1] = t[k] \div 256
    <3>1. k + 1 \in 1..(k + 1) /\ (k + 1) - 1 = k
      OBVIOUS
    <3> QED
      BY <2>2, <3>1 DEF RestsOf
  <2> QED
    BY <2>1, <2>2, <2>6, <2>7
<1> QED
  BY <1>1, <1>2

\* So the bytes of a number, behind what its shift leaves, are the number.
LEMMA BytesBack ==
    ASSUME NEW v \in Int, NEW width \in Nat
    PROVE  /\ Codec!ToBytes(v, width) \in Seq(Octets) /\ Len(Codec!ToBytes(v, width)) = width
           /\ \A i \in 1..width : Codec!ToBytes(v, width)[i] = Codec!Shifted(v, width - i) % 256
           /\ Codec!SignedBy(Codec!Shifted(v, width), Codec!ToBytes(v, width)) = v
<1> DEFINE s == Codec!ToBytes(v, width)
           sign == Codec!Shifted(v, width)
<1>1. \A k \in Nat : Codec!Shifted(v, k) \in Int /\ Codec!Shifted(v, k + 1) = Codec!Shifted(v, k) \div 256
  BY ShiftedNext
<1>2. \A i \in 1..width : Codec!Shifted(v, width - i) % 256 \in 0..255
  <2> SUFFICES ASSUME NEW i \in 1..width PROVE Codec!Shifted(v, width - i) % 256 \in 0..255
    OBVIOUS
  <2>1. width - i \in Nat
    OBVIOUS
  <2>2. Codec!Shifted(v, width - i) \in Int
    BY <1>1, <2>1
  <2> QED
    BY <2>2, ByteOf
<1>3. s \in [1..width -> Octets]
  BY <1>2 DEF Codec!ToBytes, Octets
<1>4. \A i \in 1..width : s[i] = Codec!Shifted(v, width - i) % 256
  BY DEF Codec!ToBytes
<1> HIDE DEF s
<1>5. Octets \subseteq Int
  BY DEF Octets
<1>6. s \in Seq(Octets) /\ Len(s) = width
  BY <1>3
<1>7. s \in Seq(Int)
  BY <1>5, <1>6, SubsetSeq
<1>8. sign \in Int
  BY <1>1
<1> HIDE DEF sign
<1>9. PICK h : Codec!SignedBy(sign, s) = h[Len(s)] /\ SumsBy(h, sign, s)
  BY <1>7, <1>8, SumsExist
<1> DEFINE Right == {i \in 0..width : h[i] = Codec!Shifted(v, width - i)}
<1>10. 0 \in Right
  <2>1. 0 \in 0..width /\ width - 0 = width
    OBVIOUS
  <2> QED
    BY <1>9, <2>1 DEF SumsBy, sign
<1>11. ASSUME NEW i \in 1..width, i - 1 \in Right PROVE i \in Right
  <2>1. width - i \in Nat /\ width - (i - 1) = (width - i) + 1 /\ i \in 0..width
    OBVIOUS
  <2>2. h[i - 1] = Codec!Shifted(v, (width - i) + 1)
    BY <1>11, <2>1
  <2>3. h[i] = 256 * h[i - 1] + s[i]
    BY <1>6, <1>9 DEF SumsBy
  <2> DEFINE rest == Codec!Shifted(v, width - i)
  <2>4. rest \in Int /\ h[i - 1] = rest \div 256 /\ s[i] = rest % 256
    BY <1>1, <1>4, <2>1, <2>2
  <2> HIDE DEF rest, Right
  <2>5. h[i] = rest
    BY <2>3, <2>4, ByteOf
  <2> QED
    BY <2>1, <2>5 DEF Right, rest
<1> HIDE DEF Right
<1>12. width \in Right
  <2>1. \A i \in 0..width : i \in Right
    BY <1>10, <1>11, Reached
  <2> QED
    BY <2>1
<1>13. h[width] = v
  <2>1. width - width = 0
    OBVIOUS
  <2> QED
    BY <1>12, <2>1, ShiftedNext DEF Right
<1> QED
  BY <1>4, <1>6, <1>9, <1>13 DEF s, sign

\* A number that its width holds without a sign.
LEMMA UnsignedBack ==
    ASSUME NEW v \in Int, NEW width \in Nat, Codec!Shifted(v, width) = 0
    PROVE  Codec!BigEndian(Codec!ToBytes(v, width)) = v
  BY BytesBack DEF Codec!BigEndian

\* A number that its width holds with a sign: the highest byte tells the sign.
LEMMA HighByte ==
    ASSUME NEW v \in -128..127
    PROVE  v \div 256 = IF v % 256 >= 128 THEN -1 ELSE 0
  OBVIOUS

LEMMA SignedBack ==
    ASSUME NEW v \in Int, NEW width \in Nat, width > 0, Codec!Shifted(v, width - 1) \in -128..127
    PROVE  Codec!TwosComplement(Codec!ToBytes(v, width)) = v
<1> DEFINE high == Codec!Shifted(v, width - 1)
<1>1. width - 1 \in Nat /\ (width - 1) + 1 = width /\ 1 \in 1..width
  OBVIOUS
<1>2. Codec!Shifted(v, width) = high \div 256
  BY <1>1, ShiftedNext
<1>3. Codec!ToBytes(v, width)[1] = high % 256
  BY <1>1, BytesBack
<1>4. Codec!Shifted(v, width) = IF Codec!ToBytes(v, width)[1] >= 128 THEN -1 ELSE 0
  BY <1>2, <1>3, HighByte
<1>5. Codec!SignedBy(Codec!Shifted(v, width), Codec!ToBytes(v, width)) = v
  BY BytesBack
<1> QED
  BY <1>4, <1>5 DEF Codec!TwosComplement

\* The numbers of 64 bits with a sign, and of 32 without.
TwoTo31 == 128 * (256 * (256 * 256))
TwoTo63 == 128 * (256 * (256 * (256 * (256 * (256 * (256 * 256))))))
Int64 == -TwoTo63..(TwoTo63 - 1)
UInt32 == 0..(2 * TwoTo31 - 1)

LEMMA Quotient ==
    ASSUME NEW v \in Int, NEW low \in Int, NEW m \in Int, 256 * low <= v, v < 256 * m
    PROVE  v \div 256 \in Int /\ low <= v \div 256 /\ v \div 256 < m
  OBVIOUS

LEMMA HighOf64 == ASSUME NEW v \in Int64 PROVE v \in Int /\ Codec!Shifted(v, 7) \in -128..127
<1> DEFINE S(k) == Codec!Shifted(v, k)
<1>1. v \in Int /\ -TwoTo63 <= v /\ v < TwoTo63
  BY DEF Int64, TwoTo63
<1>2. /\ S(0) = v /\ S(1) = S(0) \div 256 /\ S(2) = S(1) \div 256 /\ S(3) = S(2) \div 256 /\ S(4) = S(3) \div 256
      /\ S(5) = S(4) \div 256 /\ S(6) = S(5) \div 256 /\ S(7) = S(6) \div 256
  <2>1. \A k \in Nat : S(k + 1) = S(k) \div 256
    BY <1>1, ShiftedNext
  <2>2. /\ 0 + 1 = 1 /\ 1 + 1 = 2 /\ 2 + 1 = 3 /\ 3 + 1 = 4 /\ 4 + 1 = 5 /\ 5 + 1 = 6 /\ 6 + 1 = 7
        /\ 0 \in Nat /\ 1 \in Nat /\ 2 \in Nat /\ 3 \in Nat /\ 4 \in Nat /\ 5 \in Nat /\ 6 \in Nat
    OBVIOUS
  <2>3. S(0) = v
    BY <1>1, ShiftedNext
  <2> HIDE DEF S
  <2> QED
    BY <2>1, <2>2, <2>3
<1> HIDE DEF S
<1> DEFINE B6 == 128 * 256
           B5 == 128 * (256 * 256)
           B4 == 128 * (256 * (256 * 256))
           B3 == 128 * (256 * (256 * (256 * 256)))
           B2 == 128 * (256 * (256 * (256 * (256 * 256))))
           B1 == 128 * (256 * (256 * (256 * (256 * (256 * 256)))))
<1>3. /\ TwoTo63 = 256 * B1 /\ B1 = 256 * B2 /\ B2 = 256 * B3 /\ B3 = 256 * B4 /\ B4 = 256 * B5
      /\ B5 = 256 * B6 /\ B6 = 256 * 128
      /\ {B1, B2, B3, B4, B5, B6} \subseteq Int
  BY DEF TwoTo63
<1> HIDE DEF B1, B2, B3, B4, B5, B6
<1>4. ASSUME NEW x \in Int, NEW b \in Int, -(256 * b) <= x, x < 256 * b
      PROVE  x \div 256 \in Int /\ -b <= x \div 256 /\ x \div 256 < b
  BY <1>4, Quotient
<1>5. S(1) \in Int /\ -B1 <= S(1) /\ S(1) < B1
  BY <1>1, <1>2, <1>3, <1>4
<1>6. S(2) \in Int /\ -B2 <= S(2) /\ S(2) < B2
  BY <1>5, <1>2, <1>3, <1>4
<1>7. S(3) \in Int /\ -B3 <= S(3) /\ S(3) < B3
  BY <1>6, <1>2, <1>3, <1>4
<1>8. S(4) \in Int /\ -B4 <= S(4) /\ S(4) < B4
  BY <1>7, <1>2, <1>3, <1>4
<1>9. S(5) \in Int /\ -B5 <= S(5) /\ S(5) < B5
  BY <1>8, <1>2, <1>3, <1>4
<1>10. S(6) \in Int /\ -B6 <= S(6) /\ S(6) < B6
  BY <1>9, <1>2, <1>3, <1>4
<1>11. S(7) \in Int /\ -128 <= S(7) /\ S(7) < 128
  BY <1>10, <1>2, <1>3, <1>4
<1> QED
  BY <1>1, <1>11 DEF S

\* A prefix in front of bytes.
LEMMA Prefixed ==
    ASSUME NEW t \in Octets, NEW s \in Seq(Octets)
    PROVE  LET b == <<t>> \o s
           IN  /\ Len(s) \in Nat /\ Len(b) = 1 + Len(s) /\ b[1] = t /\ Tail(b) = s /\ SubSeq(b, 2, 1 + Len(s)) = s
<1> DEFINE b == <<t>> \o s
<1>1. <<t>> \in Seq(Octets) /\ Len(<<t>>) = 1 /\ <<t>>[1] = t /\ s \in Seq(Octets) /\ Len(s) \in Nat
  BY LenProperties
<1>2. /\ b \in Seq(Octets) /\ Len(b) = 1 + Len(s) /\ b[1] = t
      /\ \A i \in 1..Len(s) : b[i + 1] = s[i]
  <2>1. b \in Seq(Octets) /\ Len(b) = Len(<<t>>) + Len(s)
    BY <1>1, ConcatProperties
  <2>2. \A i \in 1..(1 + Len(s)) : b[i] = IF i <= 1 THEN <<t>>[i] ELSE s[i - 1]
    BY <1>1, ConcatProperties
  <2>3. b[1] = t
    <3>1. 1 \in 1..(1 + Len(s))
      BY <1>1
    <3> QED
      BY <1>1, <2>2, <3>1
  <2>4. ASSUME NEW i \in 1..Len(s) PROVE b[i + 1] = s[i]
    <3>1. i + 1 \in 1..(1 + Len(s)) /\ ~(i + 1 <= 1) /\ (i + 1) - 1 = i
      BY <1>1
    <3> QED
      BY <2>2, <3>1
  <2> QED
    BY <1>1, <2>1, <2>3, <2>4
<1> HIDE DEF b
<1>3. b # << >>
  BY <1>1, <1>2, EmptySeq, LenProperties
<1>4. Tail(b) \in Seq(Octets) /\ Len(Tail(b)) = Len(s) /\ \A i \in 1..Len(s) : Tail(b)[i] = s[i]
  <2>1. /\ Tail(b) \in Seq(Octets) /\ Len(Tail(b)) = Len(b) - 1
        /\ \A i \in 1..Len(Tail(b)) : Tail(b)[i] = b[i + 1]
    BY <1>2, <1>3, HeadTailProperties
  <2> QED
    BY <1>1, <1>2, <2>1
<1>5. Tail(b) = s
  BY <1>1, <1>4, SeqEqual
<1>6. SubSeq(b, 2, 1 + Len(s)) = s
  <2> DEFINE part == SubSeq(b, 2, 1 + Len(s))
  <2>1. 2 \in Int /\ 1 + Len(s) \in Int /\ \A i \in 2..(1 + Len(s)) : b[i] \in Octets
    <3>1. \A i \in 1..Len(b) : b[i] \in Octets
      BY <1>2, ElementOfSeq
    <3> QED
      BY <1>1, <1>2, <3>1
  <2>2. /\ part \in Seq(Octets) /\ Len(part) = (IF 2 <= 1 + Len(s) THEN (1 + Len(s)) - 2 + 1 ELSE 0)
        /\ \A i \in 1..((1 + Len(s)) - 2 + 1) : part[i] = b[2 + i - 1]
    BY <2>1, SubSeqProperties
  <2> HIDE DEF part
  <2>3. Len(part) = Len(s)
    BY <1>1, <2>2
  <2>4. ASSUME NEW i \in 1..Len(s) PROVE part[i] = s[i]
    <3>1. i \in 1..((1 + Len(s)) - 2 + 1) /\ 2 + i - 1 = i + 1
      BY <1>1
    <3> QED
      BY <1>2, <2>2, <3>1
  <2>5. part = s
    BY <1>1, <2>2, <2>3, <2>4, SeqEqual
  <2> QED
    BY <2>5 DEF part
<1> QED
  BY <1>1, <1>2, <1>5, <1>6 DEF b

LEMMA NumberTag == ASSUME NEW t \in 204..211 PROVE Codec!Type(t) = "Int"
  BY DEF Codec!Type

\* A number behind its prefix.
LEMMA PrefixRead ==
    ASSUME NEW t \in 204..211, NEW s \in Seq(Octets), Len(s) = Codec!Width(t)
    PROVE  /\ Codec!ReadScalar(<<t>> \o s, 1) = Len(<<t>> \o s) + 1
           /\ t <= 206 => Codec!ReadInt(<<t>> \o s) = Codec!BigEndian(s)
           /\ t >= 207 => Codec!ReadInt(<<t>> \o s) = Codec!TwosComplement(s)
<1> DEFINE b == <<t>> \o s
<1>1. t \in Octets
  BY DEF Octets
<1>2. Len(s) \in Nat /\ Len(b) = 1 + Len(s) /\ b[1] = t /\ Tail(b) = s
  BY <1>1, Prefixed
<1> HIDE DEF b
<1>3. Codec!Type(t) = "Int"
  BY NumberTag
<1>4. Codec!ReadScalar(b, 1) = Len(b) + 1
  <2>1. Codec!Need(b, 1, 1 + Codec!Width(b[1])) /\ Codec!Need(b, 1 + 1 + Codec!Width(b[1]), 0)
    BY <1>2 DEF Codec!Need
  <2>2. Codec!ReadScalar(b, 1) = 1 + 1 + Codec!Width(b[1]) + 0
    BY <1>2, <1>3, <2>1 DEF Codec!ReadScalar
  <2> QED
    BY <1>2, <2>2
<1> DEFINE plain == Codec!BigEndian(Tail(b))
           signed == Codec!TwosComplement(Tail(b))
<1>5. Codec!ReadInt(b) = CASE b[1] <= 127 -> b[1]
                           [] b[1] >= 224 -> b[1] - 256
                           [] b[1] \in 204..206 -> plain
                           [] b[1] \in 207..211 -> signed
  BY DEF Codec!ReadInt
<1>6. plain = Codec!BigEndian(s) /\ signed = Codec!TwosComplement(s)
  BY <1>2
<1> HIDE DEF plain, signed
<1>7. t <= 206 => Codec!ReadInt(b) = plain
  BY <1>2, <1>5
<1>8. t >= 207 => Codec!ReadInt(b) = signed
  BY <1>2, <1>5
<1> QED
  BY <1>4, <1>6, <1>7, <1>8 DEF b

\* A number that is its own byte.
LEMMA FixedRead ==
    ASSUME NEW t \in (0..127) \cup (224..255)
    PROVE  /\ Codec!ReadScalar(<<t>>, 1) = Len(<<t>>) + 1
           /\ Codec!ReadInt(<<t>>) = IF t <= 127 THEN t ELSE t - 256
<1> DEFINE b == <<t>>
           plain == Codec!BigEndian(Tail(b))
           signed == Codec!TwosComplement(Tail(b))
<1>1. Len(b) = 1 /\ b[1] = t
  OBVIOUS
<1>2. Codec!ReadInt(b) = CASE b[1] <= 127 -> b[1]
                           [] b[1] >= 224 -> b[1] - 256
                           [] b[1] \in 204..206 -> plain
                           [] b[1] \in 207..211 -> signed
  BY DEF Codec!ReadInt
<1> HIDE DEF plain, signed, b
<1>3. Codec!Type(t) = "Int" /\ Codec!Width(t) = 0
  BY DEF Codec!Type, Codec!Width
<1>4. Codec!ReadScalar(b, 1) = Len(b) + 1
  <2>1. Codec!Need(b, 1, 1 + 0) /\ Codec!Need(b, 1 + 1 + 0, 0)
    BY <1>1 DEF Codec!Need
  <2> QED
    BY <1>1, <1>3, <2>1 DEF Codec!ReadScalar
<1>5. Codec!ReadInt(b) = IF t <= 127 THEN t ELSE t - 256
  BY <1>1, <1>2
<1> QED
  BY <1>4, <1>5 DEF b

\* What is left of a number by the first shifts.
LEMMA FirstShifts ==
    ASSUME NEW v \in Int
    PROVE  LET S(k) == Codec!Shifted(v, k)
           IN  /\ S(0) = v /\ S(1) = v \div 256 /\ S(2) = S(1) \div 256
               /\ S(3) = S(2) \div 256 /\ S(4) = S(3) \div 256
               /\ S(1) \in Int /\ S(2) \in Int /\ S(3) \in Int
<1> DEFINE S(k) == Codec!Shifted(v, k)
<1>1. S(0) = v /\ \A k \in Nat : S(k) \in Int /\ S(k + 1) = S(k) \div 256
  BY ShiftedNext
<1>2. /\ 0 + 1 = 1 /\ 1 + 1 = 2 /\ 2 + 1 = 3 /\ 3 + 1 = 4
      /\ 0 \in Nat /\ 1 \in Nat /\ 2 \in Nat /\ 3 \in Nat
  OBVIOUS
<1> HIDE DEF S
<1>3. /\ S(0) = v /\ S(1) = v \div 256 /\ S(2) = S(1) \div 256
      /\ S(3) = S(2) \div 256 /\ S(4) = S(3) \div 256
      /\ S(1) \in Int /\ S(2) \in Int /\ S(3) \in Int
  BY <1>1, <1>2
<1> QED
  BY <1>3 DEF S

LEMMA IntReadsBack ==
    ASSUME NEW v \in Int64
    PROVE  /\ Codec!ReadInt(Codec!WriteInt(v)) = v
           /\ Codec!ReadScalar(Codec!WriteInt(v), 1) = Len(Codec!WriteInt(v)) + 1
<1> DEFINE S(k) == Codec!Shifted(v, k)
           T(k) == Codec!ToBytes(v, k)
           Back(b) == Codec!ReadInt(b) = v /\ Codec!ReadScalar(b, 1) = Len(b) + 1
<1>1. v \in Int /\ S(7) \in -128..127
  BY HighOf64
<1>2. /\ S(0) = v /\ S(1) = v \div 256 /\ S(2) = S(1) \div 256
      /\ S(3) = S(2) \div 256 /\ S(4) = S(3) \div 256
      /\ S(1) \in Int /\ S(2) \in Int /\ S(3) \in Int
  BY <1>1, FirstShifts
<1>3. /\ Codec!Width(204) = 1 /\ Codec!Width(205) = 2 /\ Codec!Width(206) = 4 /\ Codec!Width(207) = 8
      /\ Codec!Width(208) = 1 /\ Codec!Width(209) = 2 /\ Codec!Width(210) = 4 /\ Codec!Width(211) = 8
  BY DEF Codec!Width
<1>4. ASSUME NEW t \in 204..206, NEW k \in {1, 2, 4}, Codec!Width(t) = k, S(k) = 0 PROVE Back(<<t>> \o T(k))
  <2>a. k \in Nat /\ k > 0
    OBVIOUS
  <2>1. T(k) \in Seq(Octets) /\ Len(T(k)) = k
    BY <1>1, <2>a, BytesBack
  <2>2. Codec!BigEndian(T(k)) = v
    BY <1>1, <1>4, <2>a, UnsignedBack
  <2> HIDE DEF T
  <2>3. t <= 206 /\ t \in 204..211
    OBVIOUS
  <2> QED
    BY <1>4, <2>1, <2>2, <2>3, PrefixRead
<1>5. ASSUME NEW t \in 207..211, NEW k \in {1, 2, 4, 8}, Codec!Width(t) = k, S(k - 1) \in -128..127
      PROVE  Back(<<t>> \o T(k))
  <2>a. k \in Nat /\ k > 0
    OBVIOUS
  <2>1. T(k) \in Seq(Octets) /\ Len(T(k)) = k
    BY <1>1, <2>a, BytesBack
  <2>2. Codec!TwosComplement(T(k)) = v
    BY <1>1, <1>5, <2>a, SignedBack
  <2> HIDE DEF T
  <2>3. t >= 207 /\ t \in 204..211
    OBVIOUS
  <2> QED
    BY <1>5, <2>1, <2>2, <2>3, PrefixRead
<1>6. Codec!WriteInt(v) =
        IF v >= 0
        THEN IF v <= 127 THEN <<v>>
             ELSE IF v <= 255 THEN <<204>> \o T(1)
             ELSE IF v <= 65535 THEN <<205>> \o T(2)
             ELSE IF S(2) <= 65535 THEN <<206>> \o T(4) ELSE <<207>> \o T(8)
        ELSE IF v >= -32 THEN <<256 + v>>
             ELSE IF v >= -128 THEN <<208>> \o T(1)
             ELSE IF v >= -32768 THEN <<209>> \o T(2)
             ELSE IF S(2) >= -32768 THEN <<210>> \o T(4) ELSE <<211>> \o T(8)
  BY DEF Codec!WriteInt, Codec!WriteUInt
<1>7. S(8 - 1) \in -128..127
  <2>1. 8 - 1 = 7
    OBVIOUS
  <2> QED
    BY <1>1, <2>1
<1> DEFINE Written == Codec!WriteInt(v)
<1> HIDE DEF S, T, Back, Written
<1>8. CASE v >= 0 /\ v <= 127
  <2>1. Written = <<v>> /\ v \in (0..127) \cup (224..255)
    BY <1>1, <1>6, <1>8 DEF Written
  <2>2. Back(<<v>>)
    BY <1>8, <2>1, FixedRead DEF Back
  <2> QED
    BY <2>1, <2>2 DEF Back, Written
<1>9. CASE v >= 0 /\ ~(v <= 127) /\ v <= 255
  <2>1. Written = <<204>> \o T(1)
    BY <1>6, <1>9 DEF Written
  <2>2. S(1) = 0
    BY <1>1, <1>2, <1>9
  <2>3. Back(<<204>> \o T(1))
    BY <1>3, <1>4, <2>2
  <2> QED
    BY <2>1, <2>3 DEF Back, Written
<1>10. CASE v >= 0 /\ ~(v <= 127) /\ ~(v <= 255) /\ v <= 65535
  <2>1. Written = <<205>> \o T(2)
    BY <1>6, <1>10 DEF Written
  <2>2. S(2) = 0
    BY <1>1, <1>2, <1>10
  <2>3. Back(<<205>> \o T(2))
    BY <1>3, <1>4, <2>2
  <2> QED
    BY <2>1, <2>3 DEF Back, Written
<1>11. CASE v >= 0 /\ ~(v <= 127) /\ ~(v <= 255) /\ ~(v <= 65535) /\ S(2) <= 65535
  <2>1. Written = <<206>> \o T(4)
    BY <1>6, <1>11 DEF Written
  <2>2. S(4) = 0
    <3>1. S(1) >= 0 /\ S(2) >= 0
      BY <1>1, <1>2, <1>11
    <3> QED
      BY <1>2, <1>11, <3>1
  <2>3. Back(<<206>> \o T(4))
    BY <1>3, <1>4, <2>2
  <2> QED
    BY <2>1, <2>3 DEF Back, Written
<1>12. CASE v >= 0 /\ ~(v <= 127) /\ ~(v <= 255) /\ ~(v <= 65535) /\ ~(S(2) <= 65535)
  <2>1. Written = <<207>> \o T(8)
    BY <1>6, <1>12 DEF Written
  <2>2. Back(<<207>> \o T(8))
    BY <1>3, <1>5, <1>7
  <2> QED
    BY <2>1, <2>2 DEF Back, Written
<1>13. CASE ~(v >= 0) /\ v >= -32
  <2>1. Written = <<256 + v>> /\ 256 + v \in (0..127) \cup (224..255) /\ ~(256 + v <= 127) /\ (256 + v) - 256 = v
    BY <1>1, <1>6, <1>13 DEF Written
  <2> DEFINE t == 256 + v
  <2> HIDE DEF t
  <2>2. Codec!ReadScalar(<<t>>, 1) = Len(<<t>>) + 1 /\ Codec!ReadInt(<<t>>) = v
    BY <2>1, FixedRead DEF t
  <2> QED
    BY <2>1, <2>2 DEF Written, t
<1>14. CASE ~(v >= 0) /\ ~(v >= -32) /\ v >= -128
  <2>1. Written = <<208>> \o T(1)
    BY <1>6, <1>14 DEF Written
  <2>2. 1 - 1 = 0 /\ S(1 - 1) \in -128..127
    BY <1>1, <1>2, <1>14
  <2>3. Back(<<208>> \o T(1))
    BY <1>3, <1>5, <2>2
  <2> QED
    BY <2>1, <2>3 DEF Back, Written
<1>15. CASE ~(v >= 0) /\ ~(v >= -32) /\ ~(v >= -128) /\ v >= -32768
  <2>1. Written = <<209>> \o T(2)
    BY <1>6, <1>15 DEF Written
  <2>2. 2 - 1 = 1 /\ S(2 - 1) \in -128..127
    BY <1>1, <1>2, <1>15
  <2>3. Back(<<209>> \o T(2))
    BY <1>3, <1>5, <2>2
  <2> QED
    BY <2>1, <2>3 DEF Back, Written
<1>16. CASE ~(v >= 0) /\ ~(v >= -32) /\ ~(v >= -128) /\ ~(v >= -32768) /\ S(2) >= -32768
  <2>1. Written = <<210>> \o T(4)
    BY <1>6, <1>16 DEF Written
  <2>2. 4 - 1 = 3 /\ S(4 - 1) \in -128..127
    <3>1. S(1) < 0 /\ S(2) < 0
      BY <1>1, <1>2, <1>16
    <3> QED
      BY <1>2, <1>16, <3>1
  <2>3. Back(<<210>> \o T(4))
    BY <1>3, <1>5, <2>2
  <2> QED
    BY <2>1, <2>3 DEF Back, Written
<1>17. CASE ~(v >= 0) /\ ~(v >= -32) /\ ~(v >= -128) /\ ~(v >= -32768) /\ ~(S(2) >= -32768)
  <2>1. Written = <<211>> \o T(8)
    BY <1>6, <1>17 DEF Written
  <2>2. Back(<<211>> \o T(8))
    BY <1>3, <1>5, <1>7
  <2> QED
    BY <2>1, <2>2 DEF Back, Written
<1> QED
  BY <1>8, <1>9, <1>10, <1>11, <1>12, <1>13, <1>14, <1>15, <1>16, <1>17

\* Every number of 64 bits is read back as it was written, and ends where it was written to
\* (WriteInt, ReadInt).
THEOREM NumbersReadBack == Codec!IntsReadBack(Int64)
  BY IntReadsBack DEF Codec!IntsReadBack

\* A count behind its prefix.
LEMMA PrefixedCount ==
    ASSUME NEW t \in 217..223, NEW s \in Seq(Octets), Len(s) = Codec!Width(t), Len(s) > 0
    PROVE  (<<t>> \o s)[1] = t /\ Codec!Count(<<t>> \o s, 1) = Codec!BigEndian(s)
<1> DEFINE b == <<t>> \o s
<1>1. t \in Octets
  BY DEF Octets
<1>2. Len(s) \in Nat /\ b[1] = t /\ SubSeq(b, 2, 1 + Len(s)) = s
  BY <1>1, Prefixed
<1> HIDE DEF b
<1>3. Codec!Width(b[1]) > 0 /\ SubSeq(b, 1 + 1, 1 + Codec!Width(b[1])) = s
  BY <1>2
<1>4. Codec!Count(b, 1) = Codec!BigEndian(s)
  BY <1>3 DEF Codec!Count
<1> QED
  BY <1>2, <1>4 DEF b

\* A count that is part of its prefix.
LEMMA FixedTag ==
    ASSUME NEW t \in 128..191
    PROVE  /\ Codec!Width(t) = 0
           /\ t <= 143 => Codec!Type(t) = "Map"
           /\ t >= 144 /\ t <= 159 => Codec!Type(t) = "Array"
           /\ t >= 160 => Codec!Type(t) = "Str"
  BY DEF Codec!Width, Codec!Type

FixedCounts(t) ==
    /\ <<t>>[1] = t
    /\ t <= 143 => Codec!Count(<<t>>, 1) = t - 128
    /\ t >= 144 /\ t <= 159 => Codec!Count(<<t>>, 1) = t - 144
    /\ t >= 160 => Codec!Count(<<t>>, 1) = t - 160

LEMMA FixedCountRead == ASSUME NEW t \in 128..191 PROVE FixedCounts(t)
<1> DEFINE b == <<t>>
<1>1. b[1] = t
  OBVIOUS
<1> HIDE DEF b
<1>2. /\ Codec!Width(b[1]) = 0
      /\ t <= 143 => Codec!Type(b[1]) = "Map"
      /\ t >= 144 /\ t <= 159 => Codec!Type(b[1]) = "Array"
      /\ t >= 160 => Codec!Type(b[1]) = "Str"
  BY <1>1, FixedTag
<1> DEFINE type == Codec!Type(b[1])
<1>a. Codec!Count(b, 1) = IF type = "Str" THEN b[1] - 160
                          ELSE IF type = "Array" THEN b[1] - 144
                          ELSE IF type = "Map" THEN b[1] - 128 ELSE 0
  BY <1>2 DEF Codec!Count
<1>b. /\ t <= 143 => type = "Map"
      /\ t >= 144 /\ t <= 159 => type = "Array"
      /\ t >= 160 => type = "Str"
  BY <1>2
<1> HIDE DEF type
<1>3. /\ t <= 143 => Codec!Count(b, 1) = t - 128
      /\ t >= 144 /\ t <= 159 => Codec!Count(b, 1) = t - 144
      /\ t >= 160 => Codec!Count(b, 1) = t - 160
  BY <1>1, <1>a, <1>b
<1> QED
  BY <1>1, <1>3 DEF b, FixedCounts

\* The width of a count: one byte, two or four.
LEMMA CountWidth ==
    ASSUME NEW n \in UInt32
    PROVE  /\ n \in Nat
           /\ n <= 255 => Codec!Shifted(n, 1) = 0
           /\ n <= 65535 => Codec!Shifted(n, 2) = 0
           /\ Codec!Shifted(n, 4) = 0
<1> DEFINE S(k) == Codec!Shifted(n, k)
           B3 == 256
           B2 == 256 * 256
           B1 == 256 * (256 * 256)
<1>1. n \in Int /\ 0 <= n /\ n < 256 * B1
  <2>1. 2 * TwoTo31 = 256 * B1 /\ TwoTo31 \in Int
    BY DEF TwoTo31
  <2> HIDE DEF B1
  <2> QED
    BY <2>1 DEF UInt32
<1>2. B1 = 256 * B2 /\ B2 = 256 * B3 /\ {B1, B2, B3} \subseteq Int
  OBVIOUS
<1>3. /\ S(0) = n /\ S(1) = n \div 256 /\ S(2) = S(1) \div 256
      /\ S(3) = S(2) \div 256 /\ S(4) = S(3) \div 256
  BY <1>1, FirstShifts
<1> HIDE DEF S, B1, B2
<1>4. S(1) \in Int /\ 0 <= S(1) /\ S(1) < B1
  BY <1>1, <1>2, <1>3, Quotient
<1>5. S(2) \in Int /\ 0 <= S(2) /\ S(2) < B2
  BY <1>2, <1>3, <1>4, Quotient
<1>6. S(3) \in Int /\ 0 <= S(3) /\ S(3) < 256
  BY <1>2, <1>3, <1>5, Quotient
<1>7. S(4) = 0
  BY <1>3, <1>6
<1>8. n <= 255 => S(1) = 0
  BY <1>1, <1>3
<1>9. n <= 65535 => S(2) = 0
  BY <1>1, <1>3
<1> QED
  BY <1>1, <1>7, <1>8, <1>9 DEF S

\* The prefixes of longer counts, and the widths of these.
CountTags == 217..223
CountWidths == {1, 2, 4}

\* A header with its prefix, and what it announces.
Announces(header, t, n) == header[1] = t /\ Codec!Count(header, 1) = n

\* A prefix with the count behind it.
LEMMA CountReadsBack ==
    ASSUME NEW n \in UInt32, NEW t \in CountTags, NEW k \in CountWidths, Codec!Width(t) = k, Codec!Shifted(n, k) = 0
    PROVE  Announces(<<t>> \o Codec!ToBytes(n, k), t, n)
<1> DEFINE s == Codec!ToBytes(n, k)
<1>1. n \in Int /\ k \in Nat /\ k > 0 /\ t \in 217..223
  BY CountWidth DEF CountTags, CountWidths
<1>2. s \in Seq(Octets) /\ Len(s) = k /\ Codec!BigEndian(s) = n
  BY <1>1, BytesBack, UnsignedBack
<1> HIDE DEF s
<1>3. (<<t>> \o s)[1] = t /\ Codec!Count(<<t>> \o s, 1) = Codec!BigEndian(s)
  BY <1>1, <1>2, PrefixedCount
<1> QED
  BY <1>2, <1>3 DEF s, Announces

LEMMA TagsOfCounts ==
    /\ Codec!Width(217) = 1 /\ Codec!Width(218) = 2 /\ Codec!Width(219) = 4
    /\ Codec!Width(220) = 2 /\ Codec!Width(221) = 4 /\ Codec!Width(222) = 2 /\ Codec!Width(223) = 4
    /\ Codec!Type(217) = "Str" /\ Codec!Type(218) = "Str" /\ Codec!Type(219) = "Str"
    /\ Codec!Type(220) = "Array" /\ Codec!Type(221) = "Array"
    /\ Codec!Type(222) = "Map" /\ Codec!Type(223) = "Map"
  BY DEF Codec!Width, Codec!Type

LEMMA StringHeaderReadsBack ==
    ASSUME NEW n \in UInt32
    PROVE  /\ Codec!Type(Codec!WriteStringHeader(n)[1]) = "Str"
           /\ Codec!Count(Codec!WriteStringHeader(n), 1) = n
<1> DEFINE T(k) == Codec!ToBytes(n, k)
           Header == Codec!WriteStringHeader(n)
<1>1. /\ n \in Nat
      /\ n <= 255 => Codec!Shifted(n, 1) = 0
      /\ n <= 65535 => Codec!Shifted(n, 2) = 0
      /\ Codec!Shifted(n, 4) = 0
  BY CountWidth
<1>2. Header = IF n <= 31 THEN <<160 + n>>
               ELSE IF n <= 255 THEN <<217>> \o T(1)
               ELSE IF n <= 65535 THEN <<218>> \o T(2) ELSE <<219>> \o T(4)
  BY DEF Codec!WriteStringHeader
<1> HIDE DEF Header, T
<1>3. ASSUME NEW t \in CountTags, NEW k \in CountWidths, Codec!Width(t) = k, Codec!Shifted(n, k) = 0,
             Header = <<t>> \o T(k)
      PROVE  Header[1] = t /\ Codec!Count(Header, 1) = n
  <2>1. Announces(<<t>> \o Codec!ToBytes(n, k), t, n)
    BY <1>3, CountReadsBack
  <2>2. Header = <<t>> \o Codec!ToBytes(n, k)
    BY <1>3 DEF T
  <2> QED
    BY <2>1, <2>2 DEF Announces
<1>4. CASE n <= 31
  <2> DEFINE t == 160 + n
  <2>a. Header = <<t>>
    BY <1>2, <1>4
  <2>b. t \in 128..191 /\ t >= 160 /\ t - 160 = n
    BY <1>1, <1>4
  <2>1. t \in 128..191 /\ t >= 160 /\ t - 160 = n /\ Header = <<t>>
    BY <2>a, <2>b
  <2> HIDE DEF t
  <2>c. Codec!Type(t) = "Str" /\ FixedCounts(t)
    BY <2>1, FixedTag, FixedCountRead
  <2>2. Codec!Type(Header[1]) = "Str"
    BY <2>1, <2>c DEF FixedCounts
  <2>3. Codec!Count(Header, 1) = n
    BY <2>1, <2>c DEF FixedCounts
  <2> QED
    BY <2>2, <2>3 DEF Header
<1>5. CASE ~(n <= 31) /\ n <= 255
  <2>a. 217 \in CountTags /\ 1 \in CountWidths /\ Codec!Width(217) = 1
    BY TagsOfCounts DEF CountTags, CountWidths
  <2>b. Codec!Shifted(n, 1) = 0 /\ Header = <<217>> \o T(1)
    BY <1>1, <1>2, <1>5
  <2>1. Header[1] = 217 /\ Codec!Count(Header, 1) = n
    BY <1>3, <2>a, <2>b
  <2> QED
    BY <2>1, TagsOfCounts DEF Header
<1>6. CASE ~(n <= 31) /\ ~(n <= 255) /\ n <= 65535
  <2>a. 218 \in CountTags /\ 2 \in CountWidths /\ Codec!Width(218) = 2
    BY TagsOfCounts DEF CountTags, CountWidths
  <2>b. Codec!Shifted(n, 2) = 0 /\ Header = <<218>> \o T(2)
    BY <1>1, <1>2, <1>6
  <2>1. Header[1] = 218 /\ Codec!Count(Header, 1) = n
    BY <1>3, <2>a, <2>b
  <2> QED
    BY <2>1, TagsOfCounts DEF Header
<1>7. CASE ~(n <= 31) /\ ~(n <= 255) /\ ~(n <= 65535)
  <2>a. 219 \in CountTags /\ 4 \in CountWidths /\ Codec!Width(219) = 4
    BY TagsOfCounts DEF CountTags, CountWidths
  <2>b. Codec!Shifted(n, 4) = 0 /\ Header = <<219>> \o T(4)
    BY <1>1, <1>2, <1>7
  <2>1. Header[1] = 219 /\ Codec!Count(Header, 1) = n
    BY <1>3, <2>a, <2>b
  <2> QED
    BY <2>1, TagsOfCounts DEF Header
<1> QED
  BY <1>4, <1>5, <1>6, <1>7

\* The headers of the two containers: the base of the short form, and the prefix of the longer.
TagsOf(base, tag16, type) ==
    \/ base = 128 /\ tag16 = 222 /\ type = "Map"
    \/ base = 144 /\ tag16 = 220 /\ type = "Array"

LEMMA ContainerHeaderReadsBack ==
    ASSUME NEW n \in UInt32, NEW base, NEW tag16, NEW type, TagsOf(base, tag16, type)
    PROVE  /\ Codec!Type(Codec!WriteContainerHeader(base, tag16, n)[1]) = type
           /\ Codec!Count(Codec!WriteContainerHeader(base, tag16, n), 1) = n
<1> DEFINE T(k) == Codec!ToBytes(n, k)
           Header == Codec!WriteContainerHeader(base, tag16, n)
<1>1. /\ n \in Nat
      /\ n <= 65535 => Codec!Shifted(n, 2) = 0
      /\ Codec!Shifted(n, 4) = 0
  BY CountWidth
<1>2. Header = IF n <= 15 THEN <<base + n>>
               ELSE IF n <= 65535 THEN <<tag16>> \o T(2) ELSE <<tag16 + 1>> \o T(4)
  BY DEF Codec!WriteContainerHeader
<1> HIDE DEF Header, T
<1>3. ASSUME NEW t \in CountTags, NEW k \in CountWidths, Codec!Width(t) = k, Codec!Shifted(n, k) = 0,
             Header = <<t>> \o T(k)
      PROVE  Header[1] = t /\ Codec!Count(Header, 1) = n
  <2>1. Announces(<<t>> \o Codec!ToBytes(n, k), t, n)
    BY <1>3, CountReadsBack
  <2>2. Header = <<t>> \o Codec!ToBytes(n, k)
    BY <1>3 DEF T
  <2> QED
    BY <2>1, <2>2 DEF Announces
<1>4. /\ Codec!Width(tag16) = 2 /\ Codec!Width(tag16 + 1) = 4
      /\ Codec!Type(tag16) = type /\ Codec!Type(tag16 + 1) = type
  <2>1. 220 + 1 = 221 /\ 222 + 1 = 223
    OBVIOUS
  <2>2. CASE base = 128
    BY <2>1, <2>2, TagsOfCounts DEF TagsOf
  <2>3. CASE base = 144
    BY <2>1, <2>3, TagsOfCounts DEF TagsOf
  <2> QED
    BY <2>2, <2>3 DEF TagsOf
<1>5. CASE n <= 15
  <2> DEFINE t == base + n
  <2>1. t \in 128..191 /\ t - base = n /\ Header = <<t>> /\ t <= base + 15
    BY <1>1, <1>2, <1>5 DEF TagsOf
  <2> HIDE DEF t
  <2>a. FixedCounts(t)
    BY <2>1, FixedCountRead
  <2>2. CASE base = 128
    <3>1. t <= 143
      BY <2>1, <2>2
    <3>a. Codec!Type(t) = "Map"
      BY <2>1, <3>1, FixedTag
    <3>b. <<t>>[1] = t /\ Codec!Count(<<t>>, 1) = t - 128
      BY <2>a, <3>1 DEF FixedCounts
    <3>2. Header[1] = t /\ Codec!Type(t) = "Map" /\ Codec!Count(Header, 1) = t - 128
      BY <2>1, <3>a, <3>b
    <3> QED
      BY <2>1, <2>2, <3>2 DEF Header, TagsOf
  <2>3. CASE base = 144
    <3>1. t >= 144 /\ t <= 159
      BY <1>1, <2>1, <2>3 DEF t
    <3>a. Codec!Type(t) = "Array"
      BY <2>1, <3>1, FixedTag
    <3>b. <<t>>[1] = t /\ Codec!Count(<<t>>, 1) = t - 144
      BY <2>a, <3>1 DEF FixedCounts
    <3>2. Header[1] = t /\ Codec!Type(t) = "Array" /\ Codec!Count(Header, 1) = t - 144
      BY <2>1, <3>a, <3>b
    <3> QED
      BY <2>1, <2>3, <3>2 DEF Header, TagsOf
  <2> QED
    BY <2>2, <2>3 DEF TagsOf
<1>6. CASE ~(n <= 15) /\ n <= 65535
  <2>1. tag16 \in CountTags /\ 2 \in CountWidths
    BY DEF CountTags, CountWidths, TagsOf
  <2>a. Codec!Shifted(n, 2) = 0 /\ Header = <<tag16>> \o T(2)
    BY <1>1, <1>2, <1>6
  <2>2. Header[1] = tag16 /\ Codec!Count(Header, 1) = n
    BY <1>3, <1>4, <2>1, <2>a
  <2> QED
    BY <1>4, <2>2 DEF Header
<1>7. CASE ~(n <= 15) /\ ~(n <= 65535)
  <2>1. tag16 + 1 \in CountTags /\ 4 \in CountWidths
    BY DEF CountTags, CountWidths, TagsOf
  <2>a. Codec!Shifted(n, 4) = 0 /\ Header = <<tag16 + 1>> \o T(4)
    BY <1>1, <1>2, <1>7
  <2>2. Header[1] = tag16 + 1 /\ Codec!Count(Header, 1) = n
    BY <1>3, <1>4, <2>1, <2>a
  <2> QED
    BY <1>4, <2>2 DEF Header
<1> QED
  BY <1>5, <1>6, <1>7

\* The header of a string, an array or a map announces what it was written for, for every
\* count of 32 bits (WriteString, WriteArrayHeader, WriteMapHeader).
THEOREM HeadersAreReadBack == Codec!HeadersReadBack(UInt32)
<1> SUFFICES ASSUME NEW n \in UInt32
             PROVE  /\ Codec!Type(Codec!WriteStringHeader(n)[1]) = "Str"
                    /\ Codec!Count(Codec!WriteStringHeader(n), 1) = n
                    /\ Codec!Type(Codec!WriteArrayHeader(n)[1]) = "Array"
                    /\ Codec!Count(Codec!WriteArrayHeader(n), 1) = n
                    /\ Codec!Type(Codec!WriteMapHeader(n)[1]) = "Map"
                    /\ Codec!Count(Codec!WriteMapHeader(n), 1) = n
  BY DEF Codec!HeadersReadBack
<1>1. /\ Codec!Type(Codec!WriteArrayHeader(n)[1]) = "Array"
      /\ Codec!Count(Codec!WriteArrayHeader(n), 1) = n
  BY ContainerHeaderReadsBack DEF Codec!WriteArrayHeader, TagsOf
<1>2. /\ Codec!Type(Codec!WriteMapHeader(n)[1]) = "Map"
      /\ Codec!Count(Codec!WriteMapHeader(n), 1) = n
  BY ContainerHeaderReadsBack DEF Codec!WriteMapHeader, TagsOf
<1> QED
  BY <1>1, <1>2, StringHeaderReadsBack

(***************************************************************************)
(* All panels.                                                             *)
(***************************************************************************)
PanelsInv ==
    /\ panel = "draw" => IInv
    /\ panel = "console" => ConsoleInv
    /\ panel = "inventory" => ObjVarsInv
    /\ panel = "browser" => BrowserInv
    /\ panel = "reply" => CodecInv
    /\ panel = "pushed" => PushedInv
    /\ panel = "actions" => HistoryInv
    /\ panel = "overlay" => OverlayInv

LEMMA PanelsInitInv == PanelsInit => PanelsInv
<1> SUFFICES ASSUME PanelsInit PROVE PanelsInv
  OBVIOUS
<1>1. /\ Init /\ Console!Init /\ Inventory!Init /\ Browser!Init /\ Codec!Init
      /\ Pushed!Init /\ Actions!Init /\ Overlay!Init
  BY DEF PanelsInit
<1> QED
  BY <1>1, InitInv, ConsoleInit, ObjVarsInit, BrowserInit, CodecInit, PushedInit, HistoryInit,
     OverlayInit DEF PanelsInv

\* A step that is none of a panel.
LEMMA PanelsIdle == UNCHANGED allVars =>
    /\ panel' = panel /\ UNCHANGED vars /\ UNCHANGED Console!vars /\ UNCHANGED Inventory!vars
    /\ UNCHANGED Browser!vars /\ UNCHANGED Codec!ownVars /\ UNCHANGED Pushed!vars
    /\ UNCHANGED Actions!vars /\ UNCHANGED Overlay!vars
<1> SUFFICES ASSUME UNCHANGED allVars
             PROVE  /\ panel' = panel /\ UNCHANGED vars /\ UNCHANGED Console!vars /\ UNCHANGED Inventory!vars
                    /\ UNCHANGED Browser!vars /\ UNCHANGED Codec!ownVars /\ UNCHANGED Pushed!vars
                    /\ UNCHANGED Actions!vars /\ UNCHANGED Overlay!vars
  OBVIOUS
<1>1. ui' = ui /\ panel' = panel /\ UNCHANGED firstVars /\ UNCHANGED laterVars
  BY DEF allVars
<1>2. UNCHANGED <<connected, drawVars, consoleVars, inventoryVars, browserVars, codecVars>>
  BY <1>1 DEF firstVars
<1>3. UNCHANGED <<session, pushedVars, actionVars, overlayVars>>
  BY <1>1 DEF laterVars
<1>4. UNCHANGED vars
  BY <1>1, <1>2 DEF drawVars, vars, ownVars
<1>5. UNCHANGED Console!vars
  BY <1>1, <1>2 DEF consoleVars, Console!vars, Console!ownVars
<1>6. UNCHANGED Inventory!vars
  BY <1>1, <1>2 DEF inventoryVars, Inventory!vars, Inventory!ownVars
<1>7. UNCHANGED Browser!vars
  BY <1>1, <1>2, Zenon DEF browserVars, Browser!vars, Browser!ownVars, Browser!listVars,
     Browser!rowVars, Browser!walkVars
<1>8. UNCHANGED Codec!ownVars
  BY <1>2 DEF codecVars, Codec!ownVars
<1>9. UNCHANGED Pushed!vars
  BY <1>1, <1>3 DEF pushedVars, Pushed!vars, Pushed!ownVars, Pushed!linkVars,
     Pushed!pickVars, Pushed!noteVars
<1>10. UNCHANGED Actions!vars
  BY <1>1, <1>3 DEF actionVars, Actions!vars, Actions!ownVars, Actions!agentVars
<1>11. UNCHANGED Overlay!vars
  BY <1>1, <1>3 DEF overlayVars, Overlay!vars, Overlay!ownVars, Overlay!overlayVars,
     Overlay!desktopVars
<1> QED
  BY <1>1, <1>4, <1>5, <1>6, <1>7, <1>8, <1>9, <1>10, <1>11

LEMMA PanelsStepInv == PanelsInv /\ [PanelsNext]_allVars => PanelsInv'
<1> SUFFICES ASSUME PanelsInv, [PanelsNext]_allVars PROVE PanelsInv'
  OBVIOUS
<1>1. CASE Drawing
  <2>1. panel = "draw" /\ panel' = panel /\ Next
    BY <1>1 DEF Drawing, OnlyDraw
  <2> QED
    BY <2>1, StepInv DEF PanelsInv
<1>2. CASE Calling
  <2>1. panel = "console" /\ panel' = panel /\ Console!Next
    BY <1>2 DEF Calling, OnlyConsole
  <2> QED
    BY <2>1, ConsoleStep DEF PanelsInv
<1>3. CASE Inspecting
  <2>1. panel = "inventory" /\ panel' = panel /\ Inventory!Next
    BY <1>3 DEF Inspecting, OnlyInventory
  <2> QED
    BY <2>1, ObjVarsStep DEF PanelsInv
<1>4. CASE Browsing
  <2>1. panel = "browser" /\ panel' = panel /\ Browser!Next
    BY <1>4 DEF Browsing, OnlyBrowser
  <2> QED
    BY <2>1, BrowserStep DEF PanelsInv
<1>5. CASE Decoding
  <2>1. panel = "reply" /\ panel' = panel /\ Codec!Next
    BY <1>5 DEF Decoding, OnlyReply
  <2> QED
    BY <2>1, CodecStep DEF PanelsInv
<1>6. CASE Listening
  <2>1. panel = "pushed" /\ panel' = panel /\ Pushed!Next
    BY <1>6 DEF Listening, OnlyPushed
  <2> QED
    BY <2>1, PushedStep DEF PanelsInv
<1>7. CASE Recalling
  <2>1. panel = "actions" /\ panel' = panel /\ Actions!Next
    BY <1>7 DEF Recalling, OnlyActions
  <2> QED
    BY <2>1, HistoryStep DEF PanelsInv
<1>8. CASE Overlaying
  <2>1. panel = "overlay" /\ panel' = panel /\ Overlay!Next
    BY <1>8 DEF Overlaying, OnlyOverlay
  <2> QED
    BY <2>1, OverlayStep DEF PanelsInv
<1>9. CASE UNCHANGED allVars
  <2>1. /\ panel' = panel /\ UNCHANGED vars /\ UNCHANGED Console!vars /\ UNCHANGED Inventory!vars
        /\ UNCHANGED Browser!vars /\ UNCHANGED Codec!ownVars /\ UNCHANGED Pushed!vars
        /\ UNCHANGED Actions!vars /\ UNCHANGED Overlay!vars
    BY <1>9, PanelsIdle
  <2> QED
    BY <2>1, StepInv, ConsoleStep, ObjVarsStep, BrowserStep, CodecStep, PushedStep, HistoryStep,
       OverlayStep DEF PanelsInv
<1> QED
  BY <1>1, <1>2, <1>3, <1>4, <1>5, <1>6, <1>7, <1>8, <1>9 DEF PanelsNext

LEMMA PanelsInductive == PanelsSpec => []PanelsInv
  BY PanelsInitInv, PanelsStepInv, PTL DEF PanelsSpec

\* Types of every panel for any constants: no store, history, walk, stack or ring of a panel
\* passes its cap, and an overlay that is shown is over a window of its process (FetchListPage,
\* PushHistory, Navigate, SkipValue, OnPayload, UpdateTracking).
THEOREM PanelsTypesCorrect == PanelsSpec => []PanelsTypeOK
<1>1. IInv => TypeOK
  BY DEF IInv
<1>2. ObjVarsInv => Inventory!TypeOK
  BY DEF ObjVarsInv
<1>3. PushedInv => Pushed!TypeOK
  BY DEF PushedInv
<1>4. HistoryInv => Actions!TypeOK
  BY DEF HistoryInv
<1>5. OverlayInv => Overlay!TypeOK
  BY DEF OverlayInv
<1>6. PanelsInv => PanelsTypeOK
  BY <1>1, <1>2, <1>3, <1>4, <1>5, ConsoleTypes, BrowserTypes, CodecTypes DEF PanelsInv, PanelsTypeOK
<1> QED
  BY <1>6, PanelsInductive, PTL

\* Methods and answers shown are those of the process the console was last matched to, for
\* any processes and any lists of methods, cut short or whole (EnsureConnection).
THEOREM ConsoleOfOneProcess == PanelsSpec => []ConsoleIsOfOneProcess
<1>1. PanelsInv => ConsoleIsOfOneProcess
  BY ConsoleOfOne DEF PanelsInv, ConsoleIsOfOneProcess
<1> QED
  BY <1>1, PanelsInductive, PTL

\* Ids and names listed are those of the type shown in the cache that is open, for any
\* types and any caches (ReloadIds, Load, DrawCacheOpen).
THEOREM ListOfOpenCache == PanelsSpec => []ListIsOfOpenCache
<1>1. PanelsInv => ListIsOfOpenCache
  BY BrowserList DEF PanelsInv, ListIsOfOpenCache
<1> QED
  BY <1>1, PanelsInductive, PTL

\* The rows drawn are those the filter matches, and a list that is indexed has all its names,
\* for lists of any length and budgets of any size (RecomputeFiltered, PumpNameIndex,
\* ShortlistFor).
THEOREM RowsMatch == PanelsSpec => []RowsAreTheMatches
<1>1. PanelsInv => RowsAreTheMatches
  BY BrowserRows DEF PanelsInv, RowsAreTheMatches
<1> QED
  BY <1>1, PanelsInductive, PTL

\* The detail shown is where the history stands, for a history of any length (Navigate,
\* GoHistory).
THEOREM ShownVisited == PanelsSpec => []ShownIsVisited
<1>1. PanelsInv => ShownIsVisited
  BY BrowserWalk DEF PanelsInv, ShownIsVisited
<1> QED
  BY <1>1, PanelsInductive, PTL

\* SkipValue stops behind the last byte of the value or refuses one that has no end, for a
\* buffer of any bytes and any length and for any bound on the nesting (Reader::SkipValue,
\* ReadContainerHeader).
THEOREM SkipExact == PanelsSpec => []SkipIsExact
<1>1. PanelsInv => SkipIsExact
  BY DEF PanelsInv, CodecInv, SkipIsExact
<1> QED
  BY <1>1, PanelsInductive, PTL

\* A turn of SkipValue's loop refuses the reply or passes at least a byte, so a reply of any
\* bytes is through after as many turns as it has bytes (SkipValue).
THEOREM SkipAdvances ==
    PanelsSpec =>
        [][Decoding /\ Codec!SkipValue => skipped' = "false" \/ pos' > pos]_(Codec!ownVars)
<1>1. PanelsInv /\ [PanelsNext]_allVars =>
         [Decoding /\ Codec!SkipValue => skipped' = "false" \/ pos' > pos]_(Codec!ownVars)
  BY TurnAdvances DEF PanelsInv, CodecInv, Decoding, OnlyReply
<1> QED
  BY <1>1, PanelsInductive, PTL DEF PanelsSpec

\* Rows of one process, a detail of the row it was picked from and annotations that are
\* current, for rings of any size and any number of payloads (OnTap, OnPayload,
\* EnsureSubscription, Clear).
THEOREM TapRowsOfOnePid == PanelsSpec => []TapRowsAgree
<1>1. PanelsInv => TapRowsAgree
  BY DEF PanelsInv, PushedInv, TapRowsAgree
<1> QED
  BY <1>1, PanelsInductive, PTL
=============================================================================
