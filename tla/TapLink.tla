------------------------------ MODULE TapLink ------------------------------
(***************************************************************************)
(* The push connection: App::UpdateTapConnection, TapClient with its       *)
(* reader thread, and the panels that subscribe to topics over it (RPC tap *)
(* and Script context, whose EnsureSubscription are the same code).        *)
(*                                                                         *)
(* Two threads: the UI thread runs one frame after another (`ui` is its    *)
(* place in the frame) and the reader thread (`reader`) takes frames off   *)
(* the pipe and calls the panels' callbacks.  They share the registry      *)
(* `topics` and the panels' rings, each under its own mutex, so one access *)
(* is one step.  The agent is external: it accepts connections or not,     *)
(* publishes on subscribed topics, sends garbage, and goes away.           *)
(***************************************************************************)
EXTENDS Integers, Sequences

CONSTANTS
    Pids,       \* processes the debugger can attach to
    NoPid,      \* the pid 0 of the code
    Topics,     \* one per subscribing panel; a panel is named by its topic
    RingCap,    \* kRingCap / kTraceRingCap of a panel
    MaxFrames   \* bound: frames the agents publish

ASSUME PidAssumption == NoPid \notin Pids
ASSUME CapAssumption == RingCap \in Nat \ {0}
ASSUME FramesAssumption == MaxFrames \in Nat

VARIABLES
    session,                \* pid the SHM session is attached to, or NoPid
    tapPid,                 \* App::tapConnectedPid
    ui, todo,               \* place in the frame; panels still to draw
    connected, stop, status, topics,    \* TapClient: pipe_ valid, stop_, lastStatus_, topics_
    reader, held,           \* reader thread: its place, the frame in its hands
    pipe, broken, subs,     \* the open connection: frames under way, far end
                            \* gone, topics the agent has for it
    shown, lastSub, paused, ring,   \* each panel: visible, lastSubscribedPid, paused, ring
    accepts, published      \* the agents: what a connect to a pid meets; frames so far

appVars   == <<session, tapPid, ui, todo>>
tapVars   == <<connected, stop, status, topics>>
readVars  == <<reader, held>>
pipeVars  == <<pipe, broken, subs>>
panelVars == <<shown, lastSub, paused, ring>>
envVars   == <<accepts, published>>
vars == <<appVars, tapVars, readVars, pipeVars, panelVars, envVars>>

Bad   == "badFrame"                                \* a length of 0 or above 4 MiB
Frame == [pid : Pids, topic : Topics \cup {Bad}]

Init ==
    /\ session = NoPid /\ tapPid = NoPid /\ ui = "update" /\ todo = {}
    /\ connected = FALSE /\ stop = FALSE /\ status = "Disconnected" /\ topics = {}
    /\ reader = "none" /\ held = << >>
    /\ pipe = << >> /\ broken = FALSE /\ subs = {}
    /\ shown = [t \in Topics |-> FALSE] /\ lastSub = [t \in Topics |-> NoPid]
    /\ paused = [t \in Topics |-> FALSE] /\ ring = [t \in Topics |-> << >>]
    /\ accepts \in [Pids -> {"yes", "busy", "absent"}] /\ published = 0

(***************************************************************************)
(* App::UpdateTapConnection, first thing of every frame.                   *)
(***************************************************************************)
KeepConnection ==
    /\ ui = "update"
    /\ session = tapPid /\ (session = NoPid \/ connected)
    /\ ui' = "user"
    /\ UNCHANGED <<session, tapPid, todo, tapVars, readVars, pipeVars, panelVars, envVars>>

\* Fault: a connection is tried only when the attach changes.
RetryConnectionNever ==
    /\ ui = "update"
    /\ session = tapPid /\ session # NoPid /\ ~connected
    /\ ui' = "user"
    /\ UNCHANGED <<session, tapPid, todo, tapVars, readVars, pipeVars, panelVars, envVars>>

\* The pid is the same and there is no connection: try again this frame.
RetryConnection ==
    /\ ui = "update"
    /\ session = tapPid /\ session # NoPid /\ ~connected
    /\ ui' = "connect"
    /\ UNCHANGED <<session, tapPid, todo, tapVars, readVars, pipeVars, panelVars, envVars>>

\* Fault: Disconnect closes the handles without telling the reader to stop.
DropConnectionSilently ==
    /\ ui = "update" /\ session # tapPid
    /\ IF connected THEN ui' = "join" /\ UNCHANGED tapPid
                    ELSE ui' = "connect" /\ tapPid' = session
    /\ UNCHANGED <<session, todo, tapVars, readVars, pipeVars, panelVars, envVars>>

\* The attach changed.  TapClient::Disconnect returns at once when there is
\* nothing to close; otherwise it stops the reader and waits for it.
DropConnection ==
    /\ ui = "update" /\ session # tapPid
    /\ IF connected THEN ui' = "join" /\ stop' = TRUE /\ UNCHANGED tapPid
                    ELSE ui' = "connect" /\ tapPid' = session /\ UNCHANGED stop
    /\ UNCHANGED <<session, todo, connected, status, topics, readVars, pipeVars, panelVars, envVars>>

\* reader_.join() has returned: the rest of Disconnect, back in the caller.
CloseConnection ==
    /\ connected' = FALSE /\ status' = "Disconnected" /\ topics' = {}
    /\ reader' = "none" /\ held' = << >>
    /\ pipe' = << >> /\ broken' = FALSE /\ subs' = {}
    /\ tapPid' = session /\ ui' = "connect"
    /\ UNCHANGED <<session, todo, stop, panelVars, envVars>>

\* Fault: the reader is detached, and lives on over the next connection.
JoinReaderDetached ==
    /\ ui = "join"
    /\ connected' = FALSE /\ status' = "Disconnected"
    /\ pipe' = << >> /\ broken' = FALSE /\ subs' = {}
    /\ tapPid' = session /\ ui' = "connect"
    /\ UNCHANGED <<session, todo, stop, topics, readVars, panelVars, envVars>>

JoinReader == ui = "join" /\ reader = "exited" /\ CloseConnection

\* TapClient::Connect, for an attached pid: CreateFileW finds a free pipe
\* instance, or all of them taken, or no pipe.
Connect ==
    /\ ui = "connect" /\ ui' = "user"
    /\ \/ /\ session # NoPid /\ accepts[session] = "yes"
          /\ connected' = TRUE /\ stop' = FALSE /\ status' = "Connecting" /\ reader' = "top"
       \/ /\ session # NoPid /\ accepts[session] = "busy"
          /\ status' = "Busy" /\ UNCHANGED <<connected, stop, reader>>
       \/ /\ session # NoPid /\ accepts[session] = "absent"
          /\ status' = "Error" /\ UNCHANGED <<connected, stop, reader>>
       \/ session = NoPid /\ UNCHANGED <<connected, stop, status, reader>>
    /\ UNCHANGED <<session, tapPid, todo, topics, held, pipeVars, panelVars, envVars>>

(***************************************************************************)
(* The rest of the frame.  Menus and the Attach panel come before the      *)
(* panels that subscribe, so what the user does there is seen by them with *)
(* the connection UpdateTapConnection left: it follows one frame later.    *)
(***************************************************************************)
Attach(p) ==    \* DrawCandidateList; Session::Open may fail and leave it closed
    /\ ui = "user" /\ session' \in {p, NoPid}
    /\ UNCHANGED <<tapPid, ui, todo, tapVars, readVars, pipeVars, panelVars, envVars>>

Detach ==       \* DrawAttachedHero
    /\ ui = "user" /\ session # NoPid /\ session' = NoPid
    /\ UNCHANGED <<tapPid, ui, todo, tapVars, readVars, pipeVars, panelVars, envVars>>

ToggleShown(t) ==   \* View menu, or the panel's tab or collapse arrow
    /\ ui = "user" /\ shown' = [shown EXCEPT ![t] = ~@]
    /\ UNCHANGED <<appVars, tapVars, readVars, pipeVars, lastSub, paused, ring, envVars>>

TogglePause(t) ==
    /\ ui = "user" /\ shown[t] /\ paused' = [paused EXCEPT ![t] = ~@]
    /\ UNCHANGED <<appVars, tapVars, readVars, pipeVars, shown, lastSub, ring, envVars>>

ClearRing(t) ==
    /\ ui = "user" /\ shown[t] /\ ring[t] # << >> /\ ring' = [ring EXCEPT ![t] = << >>]
    /\ UNCHANGED <<appVars, tapVars, readVars, pipeVars, shown, lastSub, paused, envVars>>

BeginPanels ==
    /\ ui = "user" /\ ui' = "panels" /\ todo' = {t \in Topics : shown[t]}
    /\ UNCHANGED <<session, tapPid, tapVars, readVars, pipeVars, panelVars, envVars>>

(***************************************************************************)
(* EnsureSubscription, run by a panel that is drawn.                       *)
(***************************************************************************)
Current(t) == tapPid = lastSub[t] /\ (tapPid = NoPid \/ connected)

\* Fault: the panel keeps its rows when the pid changes.
ForgetOldPidKeepingRows(t) ==
    /\ lastSub' = [lastSub EXCEPT ![t] = tapPid]
    /\ UNCHANGED <<shown, paused, ring>>

\* The pid changed: what the ring holds belongs to the old one.
ForgetOldPid(t) ==
    /\ lastSub' = [lastSub EXCEPT ![t] = tapPid]
    /\ ring' = IF tapPid = lastSub[t] THEN ring ELSE [ring EXCEPT ![t] = << >>]
    /\ UNCHANGED <<shown, paused>>

DrawPanel(t) ==
    /\ ui = "panels" /\ t \in todo
    /\ todo' = todo \ {t}
    /\ IF Current(t) THEN UNCHANGED panelVars ELSE ForgetOldPid(t)
    /\ IF ~Current(t) /\ tapPid # NoPid /\ connected
       THEN ui' = "send" /\ topics' = topics \cup {t}
       ELSE UNCHANGED <<ui, topics>>
    /\ UNCHANGED <<session, tapPid, connected, stop, status, readVars, pipeVars, envVars>>

\* TapClient::Subscribe after the callback is registered: WriteAll waits, on the UI thread
\* and with no timeout, for the agent to take the request; the stop event it also waits for
\* is only ever set by this thread.  So when this step is taken is up to the agent.
SendSubscribe ==
    /\ ui = "send" /\ ui' = "panels"
    /\ ~broken
    /\ status' = "Subscribed" /\ subs' = topics
    /\ UNCHANGED <<session, tapPid, todo, connected, stop, topics, readVars, pipe, broken, panelVars, envVars>>

\* The write ends by itself only when the far end is gone: nothing is subscribed.
SendFails ==
    /\ ui = "send" /\ ui' = "panels"
    /\ broken
    /\ UNCHANGED <<session, tapPid, todo, tapVars, readVars, pipeVars, panelVars, envVars>>

EndFrame ==
    /\ ui = "panels" /\ todo = {} /\ ui' = "update"
    /\ UNCHANGED <<session, tapPid, todo, tapVars, readVars, pipeVars, panelVars, envVars>>

(***************************************************************************)
(* TapClient::ReaderLoop and DispatchFrame, on the reader thread.          *)
(***************************************************************************)
ReaderTo(place) == reader' = place /\ UNCHANGED <<appVars, tapVars, pipeVars, panelVars, envVars>>

LoopTop == reader = "top" /\ ReaderTo(IF stop THEN "exited" ELSE "read") /\ UNCHANGED held

\* ReadExact fails: the stop event is set, or the far end is gone.
ReadFails ==
    /\ reader = "read" /\ (stop \/ (broken /\ pipe = << >>))
    /\ ReaderTo("exited") /\ UNCHANGED held

\* A read that already has its bytes completes even after stop_ is set.
ReadFrame ==
    /\ reader = "read" /\ pipe # << >>
    /\ held' = <<Head(pipe)>> /\ pipe' = Tail(pipe)
    /\ reader' = IF Head(pipe).topic = Bad THEN "exited" ELSE "lookup"
    /\ UNCHANGED <<appVars, tapVars, broken, subs, panelVars, envVars>>

Lookup ==
    /\ reader = "lookup"
    /\ ReaderTo(IF held[1].topic \in topics THEN "call" ELSE "top") /\ UNCHANGED held

PushedUncapped(s, f) == Append(s, f)         \* fault: the oldest row is never popped

Pushed(s, f) == Append(IF Len(s) >= RingCap THEN Tail(s) ELSE s, f)

\* The panel's callback (OnTap, OnPayload).
Callback ==
    /\ reader = "call" /\ reader' = "top"
    /\ LET t == held[1].topic IN
       ring' = IF paused[t] THEN ring ELSE [ring EXCEPT ![t] = Pushed(@, held[1])]
    /\ UNCHANGED <<appVars, tapVars, held, pipeVars, shown, lastSub, paused, envVars>>

(***************************************************************************)
(* The agents (external).                                                  *)
(***************************************************************************)
Publish(t) ==
    /\ connected /\ ~broken /\ published < MaxFrames
    /\ t \in subs \cup {Bad}
    /\ pipe' = Append(pipe, [pid |-> tapPid, topic |-> t])
    /\ published' = published + 1
    /\ UNCHANGED <<appVars, tapVars, readVars, broken, subs, panelVars, accepts>>

PipeBreaks ==   \* bytes not read yet may or may not be lost
    /\ connected /\ ~broken
    /\ broken' = TRUE /\ pipe' \in {pipe, << >>}
    /\ UNCHANGED <<appVars, tapVars, readVars, subs, panelVars, envVars>>

Availability(p) ==
    /\ \E a \in {"yes", "busy", "absent"} \ {accepts[p]} : accepts' = [accepts EXCEPT ![p] = a]
    /\ UNCHANGED <<appVars, tapVars, readVars, pipeVars, panelVars, published>>

-----------------------------------------------------------------------------
Ui ==
    \/ KeepConnection \/ RetryConnection \/ DropConnection \/ JoinReader \/ Connect
    \/ BeginPanels \/ (\E t \in Topics : DrawPanel(t)) \/ SendFails \/ EndFrame

Reader == LoopTop \/ ReadFails \/ ReadFrame \/ Lookup \/ Callback

User ==
    \/ \E p \in Pids : Attach(p)
    \/ Detach
    \/ \E t \in Topics : ToggleShown(t) \/ TogglePause(t) \/ ClearRing(t)

Agent ==
    \/ \E t \in Topics \cup {Bad} : Publish(t)
    \/ PipeBreaks
    \/ \E p \in Pids : Availability(p)

Next == Ui \/ SendSubscribe \/ Reader \/ User \/ Agent

Spec == Init /\ [][Next]_vars

\* Both threads are scheduled; the user and the agents may do nothing, and an agent that
\* does nothing does not take a request either (SendSubscribe).
FairSpec == Spec /\ WF_vars(Ui) /\ WF_vars(Reader)

-----------------------------------------------------------------------------
(* Properties *)

\* Types of all variables, and the rings stay within their cap.
TypeOK ==
    /\ session \in Pids \cup {NoPid} /\ tapPid \in Pids \cup {NoPid}
    /\ ui \in {"update", "join", "connect", "user", "panels", "send"} /\ todo \subseteq Topics
    /\ connected \in BOOLEAN /\ stop \in BOOLEAN /\ topics \subseteq Topics
    /\ status \in {"Disconnected", "Connecting", "Subscribed", "Busy", "Error"}
    /\ reader \in {"none", "top", "read", "lookup", "call", "exited"}
    /\ held \in {<< >>} \cup {<<f>> : f \in Frame}
    /\ pipe \in Seq(Frame) /\ broken \in BOOLEAN /\ subs \subseteq Topics
    /\ shown \in [Topics -> BOOLEAN] /\ paused \in [Topics -> BOOLEAN]
    /\ lastSub \in [Topics -> Pids \cup {NoPid}] /\ ring \in [Topics -> Seq(Frame)]
    /\ \A t \in Topics : Len(ring[t]) <= RingCap
    /\ accepts \in [Pids -> {"yes", "busy", "absent"}] /\ published \in 0..MaxFrames

\* A panel never shows rows of two processes, and its rows are of the process
\* it last subscribed for: Disconnect joins the reader before the pid changes,
\* so no callback is left to push an old frame into a ring already cleared.
RingIsOfOnePid ==
    \A t \in Topics : \A i \in 1..Len(ring[t]) : ring[t][i].pid = lastSub[t]

\* The one place the frame loop can hang at is the write of a request to a pipe that nobody
\* reads and nobody breaks (SendSubscribeFrame): whatever else the pipe and the agent do, the
\* reader sees the stop event and the join() of Disconnect returns.
FrameLoopHangs == ui = "send" /\ ~broken
FrameLoopRuns == []<>(ui = "update") \/ <>[]FrameLoopHangs

\* A connect that meets a busy or absent agent is retried every frame, so an
\* attached process that lets the debugger in ends up connected, unless the
\* frame loop hangs in a write (UpdateTapConnection).
EventuallyConnected ==
    \A p \in Pids :
        <>[](session = p /\ accepts[p] = "yes")
            => <>[](tapPid = p /\ connected) \/ <>[]FrameLoopHangs

\* TapClient.h: Subscribed is "happy path: pipe + reader thread + at least one
\* topic".  When the pipe breaks the reader exits and nobody tells the status.
SubscribedIsAlive ==
    status = "Subscribed" => connected /\ topics # {} /\ reader # "exited"

\* App.cpp: subscriptions "re-register themselves in their own EnsureConnection
\* helpers when the pid changes".  A panel drawn while the connect was still
\* refused has already noted the pid, and never subscribes afterwards.
ShownPanelIsRegistered ==
    ui = "panels" /\ connected => \A t \in Topics \ todo : shown[t] => t \in topics
=============================================================================
