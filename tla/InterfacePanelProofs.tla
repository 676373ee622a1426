------------------------- MODULE InterfacePanelProofs -------------------------
(***************************************************************************)
(* That the Interfaces panel never mixes two processes, for any number of  *)
(* processes and interfaces.                                               *)
(*                                                                         *)
(* The danger is the frame of an attach, in which the session is already   *)
(* the new process and the shared client still talks to the old one.  The  *)
(* invariant says why it is harmless: such a frame is one the user has     *)
(* acted in, so nothing more is clicked, and a panel that is drawn in it   *)
(* was drawn for the old process in the frame before, so EnsureConnection  *)
(* sees a change and leaves nothing to fetch for.                          *)
(***************************************************************************)
EXTENDS InterfacePanel, SequenceTheorems, TLAPS

InPanel == ui \in {"refresh", "pick", "panes"}

\* Nothing the panel could make a call for.
Bare == selIface = None /\ sel = << >> /\ tree = << >> /\ ~pick

\* The shared client's pipe against the session.
ClientInv ==
    /\ ui = "menu" /\ ~acted => rpcTo \in {NoPid, session}
    /\ ui \in {"menu", "panel"} =>
         rpcTo \in {NoPid, session} \/ (acted /\ (shown => lastPid # session))
    /\ InPanel => rpcTo \in {NoPid, session} \/ (acted /\ Bare)

\* A panel that was drawn has seen the session.
DrawnInv ==
    /\ ui = "rpc" /\ shown => lastPid = session
    /\ ui = "menu" /\ ~acted /\ shown => lastPid = session
    /\ ui = "panel" => shown
    /\ InPanel => shown /\ lastPid = session
    /\ ui = "overlay" => ~shown

\* What was published in this frame.
ViewInv ==
    /\ ui = "panes" => \A b \in view : b.pid = session
    /\ ui = "rpc" /\ shown => \A b \in view : b.pid = session
    /\ ui = "rpc" => overlay \in {NoPid, session}

IInv == TypeOK /\ PanelIsOfOneProcess /\ ClientInv /\ DrawnInv /\ ViewInv

\* What the agent of p answers to get_interface_tree is a tree of p.
LEMMA TreesAreOfTheirProcess ==
    ASSUME NEW p \in Pids, NEW i \in Ifaces, opened \subseteq Ifaces, NEW t \in TreeReplies(p, i)
    PROVE  t \in Seq(Comp) /\ \A k \in 1..Len(t) : t[k].pid = p
<1>1. \A j \in Ifaces : At(p, j) \in Comp /\ At(p, j).pid = p
  BY DEF At, Comp
<1>2. CASE t = << >>
  BY <1>2
<1>3. CASE t = <<At(p, i)>>
  BY <1>1, <1>3
<1>4. CASE \E j \in opened \ {i} : t = <<At(p, i), At(p, j)>>
  <2>1. PICK j \in Ifaces : t = <<At(p, i), At(p, j)>>
    BY <1>4
  <2>2. Len(t) = 2 /\ t[1] = At(p, i) /\ t[2] = At(p, j)
    BY <2>1
  <2>3. t \in Seq(Comp)
    BY <2>1, <1>1
  <2> QED
    BY <2>2, <2>3, <1>1
<1> QED
  BY <1>2, <1>3, <1>4 DEF TreeReplies

\* A fetch leaves the pipe where it was or closed, and a tree of its process.
LEMMA FetchEffect ==
    ASSUME IInv, InPanel, NEW i \in Ifaces, CallTree(i), rpcTo \in {NoPid, session}
    PROVE  /\ rpcTo' \in {NoPid, rpcTo}
           /\ tree' \in Seq(Comp) /\ \A k \in 1..Len(tree') : tree'[k].pid = lastPid
<1>1. CASE rpcTo = NoPid /\ UNCHANGED <<rpcTo, tree>>
  BY <1>1 DEF IInv, TypeOK, PanelIsOfOneProcess
<1>2. CASE CallFails(tree' = << >>)
  BY <1>2 DEF CallFails
<1>3. CASE rpcTo # NoPid /\ good /\ tree' \in TreeReplies(rpcTo, i) /\ UNCHANGED rpcTo
  <2>1. rpcTo \in Pids /\ rpcTo = lastPid
    BY <1>3 DEF IInv, TypeOK, DrawnInv
  <2> QED
    BY <1>3, <2>1, TreesAreOfTheirProcess DEF IInv, TypeOK
<1> QED
  BY <1>1, <1>2, <1>3 DEF CallTree

\* The frame's steps outside the panel.
LEMMA OuterStep ==
    ASSUME IInv, FollowSession \/ BeginPanels \/ RenderOverlay PROVE IInv'
<1> USE PidAssumption, IfaceAssumption DEF IInv, TypeOK, PanelIsOfOneProcess, ClientInv, DrawnInv,
        ViewInv, InPanel, Bare, Places
<1>1. CASE FollowSession
  BY <1>1 DEF FollowSession, panelVars, viewVars, agentVars
<1>2. CASE BeginPanels
  BY <1>2 DEF BeginPanels, panelVars, viewVars, agentVars
<1>3. CASE RenderOverlay
  <2>1. /\ ui \in {"panes", "overlay"} /\ ui' = "rpc" /\ acted' = FALSE /\ listed' = {}
        /\ overlay' \in {NoPid, session} /\ enabled' \in BOOLEAN
        /\ UNCHANGED <<session, rpcTo, shown, auto, pick, lastPid, selIface, sel, tree,
                       view, opened, good>>
    BY <1>3 DEF RenderOverlay, agentVars
  <2>2. TypeOK' /\ PanelIsOfOneProcess'
    BY <2>1
  <2> QED
    BY <2>1, <2>2
<1> QED
  BY <1>1, <1>2, <1>3

\* The user outside the panel, the agents and the other panels.
LEMMA MenuStep ==
    ASSUME IInv,
           \/ Detach \/ ToggleShown \/ ToggleOverlay \/ (\E p \in Pids : Attach(p)) \/ Environment
    PROVE  IInv'
<1> USE PidAssumption, IfaceAssumption DEF IInv, TypeOK, PanelIsOfOneProcess, ClientInv, DrawnInv,
        ViewInv, InPanel, Bare, Places, Act
<1>1. CASE Detach
  BY <1>1 DEF Detach, panelVars, viewVars, agentVars
<1>2. CASE ToggleShown
  BY <1>2 DEF ToggleShown, viewVars, agentVars
<1>3. CASE ToggleOverlay
  BY <1>3 DEF ToggleOverlay, panelVars, agentVars
<1>4. CASE \E p \in Pids : Attach(p)
  BY <1>4 DEF Attach, panelVars, viewVars
<1>5. CASE OtherCallFails
  BY <1>5 DEF OtherCallFails, panelVars, viewVars, agentVars
<1>6. CASE Answering
  BY <1>6 DEF Answering, frameVars, panelVars, viewVars
<1>7. CASE \E i \in Ifaces : OpenOrClose(i)
  BY <1>7 DEF OpenOrClose, frameVars, panelVars, viewVars
<1> QED
  BY <1>1, <1>2, <1>3, <1>4, <1>5, <1>6, <1>7 DEF Environment

\* The panel up to the panes.
LEMMA PanelStep ==
    ASSUME IInv, Prepare \/ SkipRefresh \/ AutoRefresh \/ PickHit \/ PickNothing PROVE IInv'
<1> USE PidAssumption, IfaceAssumption
<1>1. CASE Prepare
  <2>1. /\ ui = "panel" /\ ui' = "refresh" /\ lastPid' = session /\ listed' \subseteq Ifaces
        /\ UNCHANGED <<session, rpcTo, acted, shown, auto, view, enabled, overlay, opened, good>>
    BY <1>1 DEF Prepare, EnsureConnection, viewVars, agentVars, IInv, TypeOK
  <2>2. \/ selIface' = None /\ sel' = << >> /\ tree' = << >> /\ pick' \in {pick, FALSE}
        \/ UNCHANGED <<pick, selIface, sel, tree>> /\ lastPid = session
    BY <1>1 DEF Prepare, EnsureConnection, ClearSelection
  <2>3. lastPid # session => Bare'
    BY <1>1 DEF Prepare, EnsureConnection, Bare
  <2>4. TypeOK' /\ PanelIsOfOneProcess'
    <3>1. CASE selIface' = None /\ sel' = << >> /\ tree' = << >> /\ pick' \in {pick, FALSE}
      <4>1. tree' \in Seq(Comp) /\ Len(tree') = 0
        BY <3>1, EmptySeq
      <4>2. TypeOK'
        BY <2>1, <3>1, <4>1 DEF IInv, TypeOK, Places
      <4> QED
        BY <3>1, <4>1, <4>2 DEF PanelIsOfOneProcess
    <3>2. CASE UNCHANGED <<pick, selIface, sel, tree>> /\ lastPid = session
      BY <2>1, <3>2 DEF IInv, TypeOK, PanelIsOfOneProcess, Places
    <3> QED
      BY <2>2, <3>1, <3>2
  <2>5. ClientInv'
    BY <2>1, <2>3 DEF IInv, ClientInv, DrawnInv, InPanel
  <2> QED
    BY <2>1, <2>4, <2>5 DEF IInv, DrawnInv, ViewInv, InPanel
<1>2. CASE SkipRefresh
  BY <1>2 DEF SkipRefresh, panelVars, viewVars, agentVars, IInv, TypeOK,
     PanelIsOfOneProcess, ClientInv, DrawnInv, ViewInv, InPanel, Bare, Places
<1>3. CASE AutoRefresh
  <2>1. /\ ui = "refresh" /\ ui' = "pick" /\ selIface # None /\ CallTree(selIface)
        /\ UNCHANGED <<session, acted, shown, auto, pick, lastPid, listed, view, enabled, overlay,
                       opened, good>>
    BY <1>3 DEF AutoRefresh, RefreshDue, viewVars, agentVars
  <2>2. selIface \in Ifaces /\ InPanel /\ rpcTo \in {NoPid, session}
    BY <2>1 DEF IInv, TypeOK, ClientInv, InPanel, Bare
  <2>3. /\ rpcTo' \in {NoPid, rpcTo}
        /\ tree' \in Seq(Comp) /\ \A k \in 1..Len(tree') : tree'[k].pid = lastPid
    BY <2>1, <2>2, FetchEffect
  <2>4. \/ UNCHANGED <<selIface, sel>>
        \/ \E k \in 1..Len(tree') : selIface' = tree'[k].iface /\ sel' = <<tree'[k]>>
    BY <1>3 DEF AutoRefresh, AdoptComponent
  <2>5. /\ selIface' \in Ifaces \cup {None} /\ sel' \in {<< >>} \cup {<<c>> : c \in Comp}
        /\ sel' # << >> => sel'[1].pid = lastPid /\ sel'[1].iface = selIface'
    <3>1. CASE UNCHANGED <<selIface, sel>>
      BY <3>1 DEF IInv, TypeOK, PanelIsOfOneProcess
    <3>2. CASE \E k \in 1..Len(tree') : selIface' = tree'[k].iface /\ sel' = <<tree'[k]>>
      <4>1. PICK k \in 1..Len(tree') : selIface' = tree'[k].iface /\ sel' = <<tree'[k]>>
        BY <3>2
      <4>2. tree'[k] \in Comp
        BY <4>1, <2>3, ElementOfSeq
      <4> QED
        BY <4>1, <4>2, <2>3 DEF Comp
    <3> QED
      BY <2>4, <3>1, <3>2
  <2>6. TypeOK' /\ PanelIsOfOneProcess'
    BY <2>1, <2>2, <2>3, <2>5 DEF IInv, TypeOK, PanelIsOfOneProcess, Places
  <2> QED
    BY <2>1, <2>2, <2>3, <2>6 DEF IInv, ClientInv, DrawnInv, ViewInv, InPanel
<1>4. CASE PickHit \/ PickNothing
  <2>1. /\ ui = "pick" /\ ui' = "panes"
        /\ rpcTo' \in {NoPid, rpcTo} /\ UNCHANGED tree
        /\ view' = {tree[k] : k \in 1..Len(tree)}
        /\ UNCHANGED <<session, acted, shown, auto, pick, lastPid, listed, enabled, overlay,
                       opened, good>>
    BY <1>4 DEF PickHit, PickNothing, CallFails, PublishOverlayView, panelVars, agentVars
  <2>2. \A k \in 1..Len(tree) : tree[k] \in Comp
    BY ElementOfSeq DEF IInv, TypeOK
  <2>3. view' \subseteq Comp /\ \A b \in view' : b.pid = session
    BY <2>1, <2>2 DEF IInv, PanelIsOfOneProcess, DrawnInv, InPanel
  <2>4. \/ UNCHANGED <<selIface, sel>>
        \/ pick /\ rpcTo # NoPid /\ \E i \in Ifaces : selIface' = i /\ sel' = <<At(rpcTo, i)>>
    <3>1. CASE PickNothing
      BY <3>1 DEF PickNothing, panelVars
    <3>2. CASE PickHit
      <4>1. PICK c \in FindReplies(rpcTo) : c.iface # None /\ selIface' = c.iface /\ sel' = <<c>>
        BY <3>2 DEF PickHit, Found, AdoptComponent
      <4>2. PICK i \in opened \cup {None} : c = At(rpcTo, i)
        BY DEF FindReplies
      <4>3. i \in Ifaces /\ selIface' = i /\ sel' = <<At(rpcTo, i)>>
        BY <4>1, <4>2 DEF At, IInv, TypeOK
      <4> QED
        BY <3>2, <4>3 DEF PickHit
    <3> QED
      BY <1>4, <3>1, <3>2
  <2>5. /\ selIface' \in Ifaces \cup {None} /\ sel' \in {<< >>} \cup {<<c>> : c \in Comp}
        /\ sel' # << >> => sel'[1].pid = lastPid /\ sel'[1].iface = selIface'
    <3>1. CASE UNCHANGED <<selIface, sel>>
      BY <3>1 DEF IInv, TypeOK, PanelIsOfOneProcess
    <3>2. CASE pick /\ rpcTo # NoPid /\ \E i \in Ifaces : selIface' = i /\ sel' = <<At(rpcTo, i)>>
      <4>1. rpcTo \in Pids /\ rpcTo = lastPid
        BY <2>1, <3>2 DEF IInv, TypeOK, ClientInv, DrawnInv, InPanel, Bare
      <4>2. PICK i \in Ifaces : selIface' = i /\ sel' = <<At(rpcTo, i)>>
        BY <3>2
      <4> QED
        BY <4>1, <4>2 DEF At, Comp
    <3> QED
      BY <2>4, <3>1, <3>2
  <2>6. TypeOK' /\ PanelIsOfOneProcess'
    BY <2>1, <2>3, <2>5 DEF IInv, TypeOK, PanelIsOfOneProcess, Places
  <2>7. ClientInv'
    <3>1. CASE rpcTo \in {NoPid, session}
      BY <2>1, <3>1 DEF ClientInv, InPanel
    <3>2. CASE acted /\ Bare
      BY <2>1, <2>4, <3>2 DEF ClientInv, InPanel, Bare
    <3> QED
      BY <2>1, <3>1, <3>2 DEF IInv, ClientInv, InPanel
  <2> QED
    BY <2>1, <2>3, <2>6, <2>7 DEF IInv, DrawnInv, ViewInv, InPanel
<1> QED
  BY <1>1, <1>2, <1>3, <1>4

\* The user in the panes: nothing was clicked before, so the client talks to
\* the process the panel shows, or to none.
LEMMA ClickStep ==
    ASSUME IInv,
           \/ ClickRefresh \/ ClickRefetch \/ ToggleAuto \/ TogglePick
           \/ (\E i \in Ifaces : ClickRow(i)) \/ (\E k \in 1..Len(tree) : ClickNode(k))
    PROVE  IInv'
<1> USE PidAssumption, IfaceAssumption
<1>1. /\ ui = "panes" /\ ~acted /\ acted'
      /\ UNCHANGED <<session, ui, shown, lastPid, listed, view, enabled, overlay, opened, good>>
  BY DEF ClickRefresh, ClickRefetch, ToggleAuto, TogglePick, ClickRow, ClickNode, Click, Act,
     viewVars, agentVars
<1>2. InPanel /\ rpcTo \in {NoPid, session} /\ lastPid = session
  BY <1>1 DEF IInv, ClientInv, DrawnInv, InPanel
<1>3. SUFFICES /\ rpcTo' \in {NoPid, rpcTo} /\ auto' \in BOOLEAN /\ pick' \in BOOLEAN
               /\ tree' \in Seq(Comp) /\ \A k \in 1..Len(tree') : tree'[k].pid = lastPid
               /\ selIface' \in Ifaces \cup {None} /\ sel' \in {<< >>} \cup {<<c>> : c \in Comp}
               /\ sel' # << >> => sel'[1].pid = lastPid /\ sel'[1].iface = selIface'
  <2>1. TypeOK' /\ PanelIsOfOneProcess'
    BY <1>1, <1>2, <1>3 DEF IInv, TypeOK, PanelIsOfOneProcess
  <2> QED
    BY <1>1, <1>2, <1>3, <2>1 DEF IInv, ClientInv, DrawnInv, ViewInv, InPanel
<1>4. CASE ToggleAuto \/ TogglePick
  BY <1>4 DEF ToggleAuto, TogglePick, IInv, TypeOK, PanelIsOfOneProcess
<1>5. CASE ClickRefresh
  BY <1>2, <1>5, FetchEffect DEF ClickRefresh, IInv, TypeOK, PanelIsOfOneProcess
<1>6. CASE \E i \in Ifaces : ClickRow(i)
  <2>1. PICK i \in Ifaces :
          /\ CallTree(i) /\ UNCHANGED <<auto, pick>>
          /\ IF tree' = << >> THEN selIface' = i /\ sel' = << >> ELSE AdoptComponent(tree'[1])
    BY <1>6 DEF ClickRow
  <2>2. /\ rpcTo' \in {NoPid, rpcTo}
        /\ tree' \in Seq(Comp) /\ \A k \in 1..Len(tree') : tree'[k].pid = lastPid
    BY <1>2, <2>1, FetchEffect
  <2>3. CASE tree' = << >>
    BY <2>1, <2>2, <2>3 DEF IInv, TypeOK
  <2>4. CASE tree' # << >>
    <3>1. 1 \in 1..Len(tree') /\ tree'[1] \in Comp
      BY <2>2, <2>4, ElementOfSeq, EmptySeq, LenProperties
    <3> QED
      BY <2>1, <2>2, <2>4, <3>1 DEF AdoptComponent, Comp, IInv, TypeOK
  <2> QED
    BY <2>3, <2>4
<1>7. CASE \E k \in 1..Len(tree) : ClickNode(k)
  <2>1. PICK k \in 1..Len(tree) : AdoptComponent(tree[k]) /\ UNCHANGED <<rpcTo, auto, pick, tree>>
    BY <1>7 DEF ClickNode
  <2>2. tree[k] \in Comp /\ tree[k].pid = lastPid
    BY <2>1, ElementOfSeq DEF IInv, TypeOK, PanelIsOfOneProcess
  <2> QED
    BY <2>1, <2>2 DEF AdoptComponent, Comp, IInv, TypeOK, PanelIsOfOneProcess
<1>8. CASE ClickRefetch
  <2>1. /\ sel # << >> /\ selIface' = sel[1].iface /\ UNCHANGED <<auto, pick, tree>>
        /\ rpcTo' \in {NoPid, rpcTo}
        /\ sel' = << >> \/ (rpcTo # NoPid /\ sel' = <<At(rpcTo, sel[1].iface)>>)
    BY <1>8 DEF ClickRefetch, CallFails
  <2>2. sel[1].iface \in Ifaces
    BY <2>1 DEF IInv, TypeOK, Comp
  <2>3. rpcTo # NoPid => rpcTo \in Pids /\ rpcTo = lastPid
    BY <1>2 DEF IInv, TypeOK
  <2>4. sel' # << >> => sel' = <<At(lastPid, selIface')>> /\ At(lastPid, selIface') \in Comp
    BY <2>1, <2>2, <2>3 DEF At, Comp
  <2> QED
    BY <2>1, <2>2, <2>4 DEF At, IInv, TypeOK, PanelIsOfOneProcess
<1> QED
  BY <1>4, <1>5, <1>6, <1>7, <1>8

\* The inductive invariant.
THEOREM Inductive == Spec => []IInv
<1>1. Init => IInv
  <2> SUFFICES ASSUME Init PROVE IInv
    OBVIOUS
  <2>1. TypeOK
    BY EmptySeq DEF Init, Nothing, TypeOK, Places
  <2>2. PanelIsOfOneProcess
    BY EmptySeq DEF Init, Nothing, PanelIsOfOneProcess
  <2> QED
    BY <2>1, <2>2 DEF Init, IInv, ClientInv, DrawnInv, ViewInv, InPanel
<1>2. IInv /\ [Next]_vars => IInv'
  <2> SUFFICES ASSUME IInv, [Next]_vars PROVE IInv'
    OBVIOUS
  <2>1. CASE Frame
    BY <2>1, OuterStep, PanelStep DEF Frame
  <2>2. CASE User
    BY <2>2, MenuStep, ClickStep DEF User
  <2>3. CASE Environment
    BY <2>3, MenuStep
  <2>4. CASE UNCHANGED vars
    BY <2>4 DEF vars, frameVars, panelVars, viewVars, agentVars, IInv, TypeOK, PanelIsOfOneProcess,
       ClientInv, DrawnInv, ViewInv, InPanel, Bare
  <2> QED
    BY <2>1, <2>2, <2>3, <2>4 DEF Next
<1> QED
  BY <1>1, <1>2, PTL DEF Spec

\* The types, for any number of processes and interfaces.
THEOREM TypeCorrect == Spec => []TypeOK
<1>1. IInv => TypeOK
  BY DEF IInv
<1> QED
  BY <1>1, Inductive, PTL

\* Tree and selection are of the process the panel last saw attached.
THEOREM PanelNeverMixesProcesses == Spec => []PanelIsOfOneProcess
<1>1. IInv => PanelIsOfOneProcess
  BY DEF IInv
<1> QED
  BY <1>1, Inductive, PTL

\* A drawn panel's overlay paints the attached game's own boxes.
THEOREM DrawnOverlayIsOfItsGame == Spec => []OverlayIsOfItsGame
<1>1. IInv => OverlayIsOfItsGame
  BY DEF IInv, ViewInv, OverlayIsOfItsGame
<1> QED
  BY <1>1, Inductive, PTL
=============================================================================
