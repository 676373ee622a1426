--------------------------- MODULE InterfacePanel ---------------------------
(***************************************************************************)
(* The Interfaces panel and the overlay that paints what it publishes.     *)
(*                                                                         *)
(* One thread runs a frame as a series of places (`ui`): match the shared  *)
(* RPC client to the session, menus and the Attach panel, the Interfaces   *)
(* panel if it is shown, the overlay.  Between two places agents open and  *)
(* close interfaces, and every RPC may fail.  The panel keeps an           *)
(* interface, a component and a tree that were fetched at three different  *)
(* moments; what is at stake is that they go together.                     *)
(*                                                                         *)
(* A component is reduced to the interface it is of, since nothing here    *)
(* depends on which of its components it is; `pid`, the process it was     *)
(* read from, is a history field.  Hidden components are left out.         *)
(***************************************************************************)
EXTENDS Naturals, Sequences

CONSTANTS
    Pids, NoPid,    \* processes to attach to, and the pid 0 of the code
    Ifaces, None    \* interface ids, and the -1 of the code

ASSUME PidAssumption == NoPid \notin Pids
ASSUME IfaceAssumption == None \notin Ifaces

VARIABLES
    session, rpcTo,         \* pid attached to; pid the shared client's pipe is open to
    ui, acted,              \* place in the frame; has the user acted in it
    shown, auto, pick,      \* panel open; "Auto" and "Pick mode" ticked
    lastPid, listed,        \* PanelState: lastAttachedPid; open list read this frame
    selIface, sel,          \* selectedIface; the selected component, << >> if not valid
    tree,                   \* the tree
    view,                   \* App::interfaceView.boxes
    enabled, overlay,       \* overlayEnabled; pid the overlay window is for
    opened, good            \* open interfaces of the attached process; are RPCs answered

frameVars == <<session, rpcTo, ui, acted>>
panelVars == <<shown, auto, pick, lastPid, listed, selIface, sel, tree>>
viewVars  == <<view, enabled, overlay>>
agentVars == <<opened, good>>
vars == <<frameVars, panelVars, viewVars, agentVars>>

Comp == [pid : Pids, iface : Ifaces]

Nothing == selIface = None /\ sel = << >> /\ tree = << >>

Init ==
    /\ session = NoPid /\ rpcTo = NoPid
    /\ ui = "rpc" /\ acted = FALSE
    /\ shown = FALSE /\ auto = TRUE /\ pick = FALSE
    /\ lastPid = NoPid /\ listed = {} /\ Nothing
    /\ view = {} /\ enabled = FALSE /\ overlay = NoPid
    /\ opened \in SUBSET Ifaces /\ good \in BOOLEAN

(***************************************************************************)
(* The frame around the panel.                                             *)
(***************************************************************************)

\* App::UpdateRpcConnection.
FollowSession ==
    /\ ui = "rpc" /\ ui' = "menu"
    /\ rpcTo' \in IF rpcTo = session THEN {rpcTo} ELSE IF good THEN {session} ELSE {session, NoPid}
    /\ UNCHANGED <<session, acted, panelVars, viewVars, agentVars>>

\* The user does one thing in a frame: a click has one target.
Act == ~acted /\ acted' = TRUE

Attach(p) ==        \* Session::Open may fail and leave the session closed
    /\ ui = "menu" /\ Act /\ session' \in {p, NoPid}
    /\ IF session' = session THEN UNCHANGED opened ELSE opened' \in SUBSET Ifaces
    /\ UNCHANGED <<rpcTo, ui, panelVars, viewVars, good>>

Detach ==
    /\ ui = "menu" /\ Act /\ session # NoPid /\ session' = NoPid
    /\ UNCHANGED <<rpcTo, ui, panelVars, viewVars, agentVars>>

ToggleShown ==
    /\ ui = "menu" /\ Act /\ shown' = ~shown
    /\ UNCHANGED <<session, rpcTo, ui, auto, pick, lastPid, listed, selIface, sel, tree,
                   viewVars, agentVars>>

ToggleOverlay ==
    /\ ui = "menu" /\ Act /\ enabled' = ~enabled
    /\ UNCHANGED <<session, rpcTo, ui, panelVars, view, overlay, agentVars>>

\* Another panel's call on the shared client fails and closes the pipe.
OtherCallFails ==
    /\ ui \in {"menu", "panes", "overlay"} /\ rpcTo # NoPid /\ ~good /\ rpcTo' = NoPid
    /\ UNCHANGED <<session, ui, acted, panelVars, viewVars, agentVars>>

BeginPanels ==
    /\ ui = "menu"
    /\ ui' = IF shown THEN "panel" ELSE "overlay"
    /\ UNCHANGED <<session, rpcTo, acted, panelVars, viewVars, agentVars>>

(***************************************************************************)
(* DrawInterfacePanel, up to the first RPC.                                *)
(***************************************************************************)

\* Fault: a change of process is noted, the selection kept.
EnsureConnectionKeeping ==
    /\ lastPid' = session
    /\ UNCHANGED <<pick, selIface, sel, tree>>

\* EnsureConnection: everything derived from the old process is dropped.
EnsureConnection ==
    /\ lastPid' = session
    /\ IF session = lastPid
       THEN UNCHANGED <<pick, selIface, sel, tree>>
       ELSE pick' = FALSE /\ selIface' = None /\ sel' = << >> /\ tree' = << >>

\* Fault: the tree survives the selection.
ClearSelectionKeepingTree == selIface' = None /\ sel' = << >> /\ UNCHANGED tree

ClearSelection == selIface' = None /\ sel' = << >> /\ tree' = << >>

\* HandleStaleTree: the selected interface is no longer in the open list.
Prepare ==
    /\ ui = "panel" /\ ui' = "refresh"
    /\ listed' = IF session = NoPid THEN {} ELSE opened
    /\ IF session = lastPid /\ session # NoPid /\ selIface \notin listed' \cup {None}
       THEN ClearSelection /\ UNCHANGED <<pick, lastPid>>
       ELSE EnsureConnection
    /\ UNCHANGED <<session, rpcTo, acted, shown, auto, viewVars, agentVars>>

(***************************************************************************)
(* The RPCs.  A failed call may have closed the pipe.                      *)
(***************************************************************************)
At(p, i) == [pid |-> p, iface |-> i]

\* get_interface_tree: the root first, then perhaps a mounted interface.
TreeReplies(p, i) ==
    IF i \in opened
    THEN {<<At(p, i)>>} \cup {<<At(p, i), At(p, j)>> : j \in opened \ {i}}
    ELSE {<< >>}

CallFails(res) ==       \* what a call that is not Ok leaves
    /\ rpcTo # NoPid /\ ~good
    /\ rpcTo' \in {rpcTo, NoPid} /\ res

\* CallTree: without a connection it returns before anything is touched.
CallTree(i) ==
    \/ rpcTo = NoPid /\ UNCHANGED <<rpcTo, tree>>
    \/ CallFails(tree' = << >>)
    \/ rpcTo # NoPid /\ good /\ tree' \in TreeReplies(rpcTo, i) /\ UNCHANGED rpcTo

AdoptComponent(c) == selIface' = c.iface /\ sel' = <<c>>

\* MaybeAutoRefresh when the interval is not over, or there is nothing to do.
SkipRefresh ==
    /\ ui = "refresh" /\ ui' = "pick"
    /\ UNCHANGED <<session, rpcTo, acted, panelVars, viewVars, agentVars>>

RefreshDueOnce == auto /\ selIface # None /\ tree = << >>  \* fault: a tree is never replaced

RefreshDue == auto /\ selIface # None

\* MaybeAutoRefresh; the selection is taken from the new tree if still there.
AutoRefresh ==
    /\ ui = "refresh" /\ ui' = "pick"
    /\ RefreshDue /\ CallTree(selIface)
    /\ LET same == {k \in 1..Len(tree') : sel # << >> /\ tree'[k].iface = sel[1].iface}
       IN  IF same = {} THEN UNCHANGED <<selIface, sel>>
           ELSE \E k \in same : AdoptComponent(tree'[k])
    /\ UNCHANGED <<session, acted, shown, auto, pick, lastPid, listed, viewVars, agentVars>>

\* find_component_at: a component under the cursor, or one of interface -1.
FindReplies(p) == {At(p, i) : i \in opened \cup {None}}

Found(c) == c.iface # None

\* PublishOverlayView, at the end of either: the boxes of the tree.
PublishOverlayView == ui' = "panes" /\ view' = {tree[k] : k \in 1..Len(tree)}

PickHit ==
    /\ ui = "pick" /\ pick /\ rpcTo # NoPid /\ good
    /\ \E c \in FindReplies(rpcTo) : Found(c) /\ AdoptComponent(c)
    /\ PublishOverlayView
    /\ UNCHANGED <<session, rpcTo, acted, shown, auto, pick, lastPid, listed, tree,
                   enabled, overlay, agentVars>>

\* Not due, cursor not moved, nothing there, or the call failed.
PickNothing ==
    /\ ui = "pick"
    /\ UNCHANGED rpcTo \/ (pick /\ CallFails(TRUE))
    /\ PublishOverlayView
    /\ UNCHANGED <<session, acted, panelVars, enabled, overlay, agentVars>>

(***************************************************************************)
(* What the user clicks in the panes.                                      *)
(***************************************************************************)
Click == ui = "panes" /\ Act

\* DrawIfaceRow: fetch the tree and adopt its root, whatever tree is there.
ClickRow(i) ==
    /\ Click /\ i \in listed /\ i # selIface
    /\ CallTree(i)
    /\ IF tree' = << >> THEN selIface' = i /\ sel' = << >> ELSE AdoptComponent(tree'[1])
    /\ UNCHANGED <<session, ui, shown, auto, pick, lastPid, listed, viewVars, agentVars>>

ClickRefresh ==
    /\ Click /\ selIface # None /\ CallTree(selIface)
    /\ UNCHANGED <<session, ui, shown, auto, pick, lastPid, listed, selIface, sel,
                   viewVars, agentVars>>

ClickNode(k) ==
    /\ Click /\ selIface # None /\ AdoptComponent(tree[k])
    /\ UNCHANGED <<session, rpcTo, ui, shown, auto, pick, lastPid, listed, tree,
                   viewVars, agentVars>>

\* "Re-fetch": SelectComponent by get_component; a failure unselects.
ClickRefetch ==
    /\ Click /\ sel # << >> /\ selIface' = sel[1].iface
    /\ \/ rpcTo = NoPid /\ sel' = << >> /\ UNCHANGED rpcTo
       \/ CallFails(sel' = << >>)
       \/ /\ rpcTo # NoPid /\ good /\ UNCHANGED rpcTo
          /\ sel' = IF sel[1].iface \in opened THEN <<At(rpcTo, sel[1].iface)>> ELSE << >>
    /\ UNCHANGED <<session, ui, shown, auto, pick, lastPid, listed, tree,
                   viewVars, agentVars>>

ToggleAuto ==
    /\ Click /\ auto' = ~auto
    /\ UNCHANGED <<session, rpcTo, ui, shown, pick, lastPid, listed, selIface, sel, tree,
                   viewVars, agentVars>>

TogglePick ==
    /\ Click /\ pick' = ~pick
    /\ UNCHANGED <<session, rpcTo, ui, shown, auto, lastPid, listed, selIface, sel, tree,
                   viewVars, agentVars>>

(***************************************************************************)
(* main.cpp after App::Update: the overlay window.                         *)
(***************************************************************************)

\* Fault: an overlay that exists is used whatever process it is for.
RenderOverlayKept ==
    /\ ui \in {"panes", "overlay"} /\ ui' = "rpc" /\ acted' = FALSE /\ listed' = {}
    /\ IF enabled /\ session # NoPid
       THEN overlay' = (IF overlay = NoPid THEN session ELSE overlay)
       ELSE overlay' = NoPid
    /\ UNCHANGED <<session, rpcTo, shown, auto, pick, lastPid, selIface, sel, tree,
                   view, enabled, agentVars>>

\* Creating the window fails or not; a failure switches the overlay off.
RenderOverlay ==
    /\ ui \in {"panes", "overlay"} /\ ui' = "rpc" /\ acted' = FALSE /\ listed' = {}
    /\ IF enabled /\ session # NoPid
       THEN \/ overlay' = session /\ UNCHANGED enabled
            \/ overlay # session /\ overlay' = NoPid /\ enabled' = FALSE
       ELSE overlay' = NoPid /\ UNCHANGED enabled
    /\ UNCHANGED <<session, rpcTo, shown, auto, pick, lastPid, selIface, sel, tree,
                   view, agentVars>>

(***************************************************************************)
(* Agents (external).                                                      *)
(***************************************************************************)
OpenOrClose(i) ==
    /\ opened' = IF i \in opened THEN opened \ {i} ELSE opened \cup {i}
    /\ UNCHANGED <<frameVars, panelVars, viewVars, good>>

Answering == good' = ~good /\ UNCHANGED <<frameVars, panelVars, viewVars, opened>>

-----------------------------------------------------------------------------
Frame ==
    \/ FollowSession \/ BeginPanels \/ Prepare \/ SkipRefresh \/ AutoRefresh
    \/ PickHit \/ PickNothing \/ RenderOverlay

User ==
    \/ Detach \/ ToggleShown \/ ToggleOverlay \/ (\E p \in Pids : Attach(p))
    \/ ClickRefresh \/ ClickRefetch \/ ToggleAuto \/ TogglePick
    \/ (\E i \in Ifaces : ClickRow(i)) \/ (\E k \in 1..Len(tree) : ClickNode(k))

Environment == OtherCallFails \/ Answering \/ \E i \in Ifaces : OpenOrClose(i)

Next == Frame \/ User \/ Environment

Spec == Init /\ [][Next]_vars

\* The frame loop runs, and again and again the refresh interval is over when
\* it gets there; nothing is assumed of the user and the agents.
FairSpec == Spec /\ WF_vars(Frame) /\ SF_vars(AutoRefresh)

-----------------------------------------------------------------------------
(* Properties *)

Places == {"rpc", "menu", "panel", "refresh", "pick", "panes", "overlay"}

TypeOK ==
    /\ session \in Pids \cup {NoPid} /\ rpcTo \in Pids \cup {NoPid}
    /\ ui \in Places /\ acted \in BOOLEAN
    /\ shown \in BOOLEAN /\ auto \in BOOLEAN /\ pick \in BOOLEAN
    /\ lastPid \in Pids \cup {NoPid} /\ listed \subseteq Ifaces
    /\ selIface \in Ifaces \cup {None} /\ sel \in {<< >>} \cup {<<c>> : c \in Comp}
    /\ tree \in Seq(Comp)
    /\ view \subseteq Comp
    /\ enabled \in BOOLEAN /\ overlay \in Pids \cup {NoPid}
    /\ opened \subseteq Ifaces /\ good \in BOOLEAN

\* Everything the panel shows was read from the process it last saw attached,
\* although in the frame of an attach the shared client still talks to the old
\* one: by then EnsureConnection has left nothing selected to fetch for.
PanelIsOfOneProcess ==
    /\ \A k \in 1..Len(tree) : tree[k].pid = lastPid
    /\ sel # << >> => sel[1].pid = lastPid /\ sel[1].iface = selIface

\* In a frame that draws the panel, the overlay paints boxes of the process
\* whose window it lies over, and that is the attached one.
OverlayIsOfItsGame ==
    ui = "rpc" /\ overlay # NoPid /\ shown =>
        overlay = session /\ \A b \in view : b.pid = overlay

\* A pick changes the selection and not the tree; with "Auto" on and RPCs
\* answered, the tree comes to be the selected interface's.
TreeFollowsSelection ==
    \A p \in Pids, i \in Ifaces :
        <>[](session = p /\ shown /\ auto /\ good /\ selIface = i /\ i \in opened)
            => <>[](tree # << >> /\ tree[1].iface = i)

\* An interface that was closed is let go for good, even when the user goes on
\* clicking and no RPC is answered any more.
ClosedIsLetGo ==
    \A p \in Pids, i \in Ifaces :
        <>[](session = p /\ shown /\ i \notin opened) => <>[](selIface # i)
=============================================================================
