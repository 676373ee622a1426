--------------------------- MODULE TapLinkProofs ---------------------------
(***************************************************************************)
(* Theorems about TapLink, for any processes, topics and ring capacity.    *)
(***************************************************************************)
EXTENDS TapLink, SequenceTheorems, TLAPS

\* What a connection, its reader and the pid it was made for have in common.
LinkInv ==
    /\ ui = "join" => connected
    /\ ui = "connect" => ~connected /\ tapPid = session
    /\ connected => tapPid # NoPid
    /\ ~connected => reader = "none" /\ pipe = << >> /\ topics = {}

\* Every frame on its way to a panel is of the process tapPid names.
FrameInv ==
    /\ \A i \in 1..Len(pipe) : pipe[i].pid = tapPid
    /\ reader \in {"lookup", "call"} => Len(held) = 1 /\ held[1].pid = tapPid
    /\ reader = "call" => held[1].topic \in topics

\* A registered panel has already cleared its ring for tapPid.
TopicInv == \A t \in topics : lastSub[t] = tapPid

IInv == TypeOK /\ LinkInv /\ FrameInv /\ TopicInv /\ RingIsOfOnePid

\* A pushed row is the newest, the older ones keep their order, the cap holds.
LEMMA PushedRows ==
    ASSUME NEW s \in Seq(Frame), Len(s) <= RingCap, NEW f \in Frame
    PROVE  /\ Pushed(s, f) \in Seq(Frame)
           /\ Len(Pushed(s, f)) <= RingCap
           /\ \A i \in 1..Len(Pushed(s, f)) :
                  Pushed(s, f)[i] = f \/ \E j \in 1..Len(s) : Pushed(s, f)[i] = s[j]
<1> USE CapAssumption
<1>1. Len(s) \in Nat
  BY LenProperties
<1>2. CASE Len(s) >= RingCap
  <2>1. s # << >>
    BY <1>1, <1>2, EmptySeq
  <2>2. /\ Tail(s) \in Seq(Frame) /\ Len(Tail(s)) = Len(s) - 1
        /\ \A i \in 1..Len(Tail(s)) : Tail(s)[i] = s[i + 1]
    BY <2>1, HeadTailProperties
  <2>3. Pushed(s, f) = Append(Tail(s), f)
    BY <1>2 DEF Pushed
  <2>4. /\ Append(Tail(s), f) \in Seq(Frame)
        /\ Len(Append(Tail(s), f)) = Len(Tail(s)) + 1
        /\ \A i \in 1..Len(Tail(s)) : Append(Tail(s), f)[i] = Tail(s)[i]
        /\ Append(Tail(s), f)[Len(Tail(s)) + 1] = f
    BY <2>2, AppendProperties
  <2>5. Len(Pushed(s, f)) = Len(s)
    BY <1>1, <2>2, <2>3, <2>4
  <2>6. ASSUME NEW i \in 1..Len(s)
        PROVE  Pushed(s, f)[i] = f \/ \E j \in 1..Len(s) : Pushed(s, f)[i] = s[j]
    <3>1. CASE i = Len(s)
      BY <1>1, <2>2, <2>3, <2>4, <3>1
    <3>2. CASE i # Len(s)
      <4>1. i \in 1..Len(Tail(s)) /\ i + 1 \in 1..Len(s)
        BY <1>1, <2>2, <3>2
      <4>2. Pushed(s, f)[i] = s[i + 1]
        BY <2>2, <2>3, <2>4, <4>1
      <4> QED
        BY <4>1, <4>2
    <3> QED
      BY <3>1, <3>2
  <2> QED
    BY <2>3, <2>4, <2>5, <2>6
<1>3. CASE Len(s) < RingCap
  <2>1. Pushed(s, f) = Append(s, f)
    BY <1>1, <1>3 DEF Pushed
  <2>2. /\ Append(s, f) \in Seq(Frame)
        /\ Len(Append(s, f)) = Len(s) + 1
        /\ \A i \in 1..Len(s) : Append(s, f)[i] = s[i]
        /\ Append(s, f)[Len(s) + 1] = f
    BY AppendProperties
  <2>3. ASSUME NEW i \in 1..(Len(s) + 1)
        PROVE  Append(s, f)[i] = f \/ \E j \in 1..Len(s) : Append(s, f)[i] = s[j]
    <3>1. CASE i = Len(s) + 1
      BY <2>2, <3>1
    <3>2. CASE i # Len(s) + 1
      <4>1. i \in 1..Len(s)
        BY <1>1, <3>2
      <4> QED
        BY <2>2, <4>1
    <3> QED
      BY <3>1, <3>2
  <2> QED
    BY <1>1, <1>3, <2>1, <2>2, <2>3
<1> QED
  BY <1>1, <1>2, <1>3

-----------------------------------------------------------------------------
(* One lemma per kind of step *)

\* UpdateTapConnection, Disconnect and Connect: the pid only moves on when no
\* reader and no registration is left.
LEMMA ConnectionStep ==
    ASSUME IInv, KeepConnection \/ RetryConnection \/ DropConnection \/ JoinReader \/ Connect
    PROVE  IInv'
<1> USE PidAssumption
<1>1. /\ UNCHANGED panelVars /\ UNCHANGED envVars /\ UNCHANGED <<session, todo>>
  BY DEF KeepConnection, RetryConnection, DropConnection, JoinReader, CloseConnection, Connect
<1>2. RingIsOfOnePid'
  BY <1>1 DEF IInv, RingIsOfOnePid, panelVars
<1>3. CASE KeepConnection \/ RetryConnection
  <2>1. /\ UNCHANGED <<tapPid, tapVars, readVars, pipeVars>>
        /\ ui' = "user" \/ (ui' = "connect" /\ ~connected /\ tapPid = session)
    BY <1>3 DEF KeepConnection, RetryConnection
  <2> QED
    BY <1>1, <1>2, <2>1 DEF IInv, TypeOK, LinkInv, FrameInv, TopicInv, tapVars, readVars, pipeVars, panelVars, envVars
<1>4. CASE DropConnection /\ connected
  <2>1. /\ UNCHANGED <<tapPid, connected, status, topics, readVars, pipeVars>>
        /\ ui' = "join" /\ stop' = TRUE
    BY <1>4 DEF DropConnection
  <2> QED
    BY <1>1, <1>2, <1>4, <2>1 DEF IInv, TypeOK, LinkInv, FrameInv, TopicInv, readVars, pipeVars, panelVars, envVars
<1>5. CASE DropConnection /\ ~connected
  <2>1. /\ UNCHANGED <<connected, stop, status, topics, readVars, pipeVars>>
        /\ ui' = "connect" /\ tapPid' = session
    BY <1>5 DEF DropConnection
  <2>2. reader = "none" /\ pipe = << >> /\ topics = {}
    BY <1>5 DEF IInv, LinkInv
  <2>3. Len(pipe) = 0
    BY <2>2
  <2> QED
    BY <1>1, <1>2, <1>5, <2>1, <2>2, <2>3 DEF IInv, TypeOK, LinkInv, FrameInv, TopicInv, readVars, pipeVars, panelVars, envVars
<1>6. CASE JoinReader
  <2>1. /\ connected' = FALSE /\ status' = "Disconnected" /\ topics' = {} /\ stop' = stop
        /\ reader' = "none" /\ held' = << >> /\ pipe' = << >> /\ broken' = FALSE /\ subs' = {}
        /\ tapPid' = session /\ ui' = "connect"
    BY <1>6 DEF JoinReader, CloseConnection
  <2>2. Len(pipe') = 0 /\ pipe' \in Seq(Frame)
    BY <2>1
  <2>3. TypeOK'
    BY <1>1, <2>1, <2>2 DEF IInv, TypeOK, panelVars, envVars
  <2> QED
    BY <1>1, <1>2, <2>1, <2>2, <2>3 DEF IInv, LinkInv, FrameInv, TopicInv
<1>7. CASE Connect
  <2>1. /\ UNCHANGED <<tapPid, topics, held, pipe, broken, subs>>
        /\ ui = "connect" /\ ui' = "user"
        /\ \/ session # NoPid /\ connected' = TRUE /\ stop' = FALSE /\ status' = "Connecting" /\ reader' = "top"
           \/ UNCHANGED <<connected, stop, reader>> /\ status' \in {"Busy", "Error", status}
    BY <1>7 DEF Connect, pipeVars
  <2>2. ~connected /\ tapPid = session
    BY <2>1 DEF IInv, LinkInv
  <2>3. TypeOK'
    <3>1. /\ connected' \in BOOLEAN /\ stop' \in BOOLEAN
      BY <2>1 DEF IInv, TypeOK
    <3>2. /\ reader' \in {"none", "top", "read", "lookup", "call", "exited"}
          /\ status' \in {"Disconnected", "Connecting", "Subscribed", "Busy", "Error"}
      BY <2>1 DEF IInv, TypeOK
    <3> QED
      BY <1>1, <2>1, <3>1, <3>2 DEF IInv, TypeOK, panelVars, envVars
  <2>4. reader = "none" /\ pipe = << >> /\ topics = {}
    BY <2>2 DEF IInv, LinkInv
  <2> QED
    BY <1>1, <1>2, <2>1, <2>2, <2>3, <2>4 DEF IInv, LinkInv, FrameInv, TopicInv
<1> QED
  BY <1>3, <1>4, <1>5, <1>6, <1>7 DEF DropConnection

\* The user: nothing of the connection changes, a ring can only be cleared.
LEMMA UserStep == ASSUME IInv, User PROVE IInv'
<1>1. /\ UNCHANGED <<tapPid, ui, todo>> /\ UNCHANGED tapVars /\ UNCHANGED readVars
      /\ UNCHANGED pipeVars /\ UNCHANGED envVars /\ UNCHANGED lastSub
      /\ ui = "user"
  BY DEF User, Attach, Detach, ToggleShown, TogglePause, ClearRing, appVars, panelVars
<1>2. /\ session' \in Pids \cup {NoPid}
      /\ shown' \in [Topics -> BOOLEAN] /\ paused' \in [Topics -> BOOLEAN]
  BY DEF IInv, TypeOK, User, Attach, Detach, ToggleShown, TogglePause, ClearRing, appVars, panelVars
<1>3. ring' = ring \/ \E t \in Topics : ring' = [ring EXCEPT ![t] = << >>]
  BY DEF User, Attach, Detach, ToggleShown, TogglePause, ClearRing, panelVars
<1>4. \A t \in Topics : ring'[t] = ring[t] \/ ring'[t] = << >>
  BY <1>3 DEF IInv, TypeOK
<1>5. ring' \in [Topics -> Seq(Frame)] /\ \A t \in Topics : Len(ring'[t]) <= RingCap
  <2>1. << >> \in Seq(Frame) /\ Len(<< >>) = 0 /\ 0 <= RingCap
    BY CapAssumption
  <2>2. ring' \in [Topics -> Seq(Frame)]
    BY <1>3, <2>1 DEF IInv, TypeOK
  <2> QED
    BY <1>4, <2>1, <2>2 DEF IInv, TypeOK
<1>6. RingIsOfOnePid'
  <2>1. ASSUME NEW t \in Topics, NEW i \in 1..Len(ring'[t]) PROVE ring'[t][i].pid = lastSub[t]
    <3>1. CASE ring'[t] = ring[t]
      BY <3>1 DEF IInv, RingIsOfOnePid
    <3>2. CASE ring'[t] = << >>
      BY <3>2
    <3> QED
      BY <1>4, <3>1, <3>2
  <2> QED
    BY <1>1, <2>1 DEF RingIsOfOnePid
<1>7. TypeOK'
  BY <1>1, <1>2, <1>5 DEF IInv, TypeOK, tapVars, readVars, pipeVars, envVars
<1> QED
  BY <1>1, <1>6, <1>7 DEF IInv, LinkInv, FrameInv, TopicInv, tapVars, readVars, pipeVars

\* Drawing the panels: a panel registers only after it cleared its ring.
LEMMA PanelStep ==
    ASSUME IInv,
           BeginPanels \/ (\E t \in Topics : DrawPanel(t)) \/ SendSubscribe \/ SendFails \/ EndFrame
    PROVE  IInv'
<1>1. CASE BeginPanels \/ SendSubscribe \/ SendFails \/ EndFrame
  <2>1. /\ UNCHANGED <<session, tapPid, connected, stop, topics, pipe, broken>>
        /\ UNCHANGED readVars /\ UNCHANGED panelVars /\ UNCHANGED envVars
        /\ ui' \in {"panels", "update"} /\ todo' \subseteq Topics
        /\ status' \in {status, "Subscribed"} /\ subs' \in {subs, topics}
    BY <1>1 DEF BeginPanels, SendSubscribe, SendFails, EndFrame, tapVars, pipeVars, IInv, TypeOK
  <2>2. TypeOK'
    BY <2>1 DEF IInv, TypeOK, readVars, panelVars, envVars
  <2> QED
    BY <2>1, <2>2 DEF IInv, LinkInv, FrameInv, TopicInv, RingIsOfOnePid, readVars, panelVars
<1>2. ASSUME NEW t \in Topics, DrawPanel(t) PROVE IInv'
  <2>1. /\ UNCHANGED <<session, tapPid, connected, stop, status, shown, paused>>
        /\ UNCHANGED readVars /\ UNCHANGED pipeVars /\ UNCHANGED envVars
        /\ todo' = todo \ {t} /\ ui' \in {"panels", "send"}
        /\ topics' \in {topics, topics \cup {t}}
    BY <1>2 DEF DrawPanel, ForgetOldPid, panelVars
  <2>2. CASE Current(t)
    <3>1. UNCHANGED <<lastSub, ring>> /\ topics' = topics
      BY <1>2, <2>2 DEF DrawPanel, panelVars
    <3>2. TypeOK'
      BY <2>1, <3>1 DEF IInv, TypeOK, readVars, pipeVars, envVars
    <3> QED
      BY <2>1, <3>1, <3>2 DEF IInv, LinkInv, FrameInv, TopicInv, RingIsOfOnePid, readVars, pipeVars
  <2>3. CASE ~Current(t)
    <3>1. /\ lastSub' = [lastSub EXCEPT ![t] = tapPid]
          /\ ring' = IF tapPid = lastSub[t] THEN ring ELSE [ring EXCEPT ![t] = << >>]
          /\ topics' # topics => connected
      BY <1>2, <2>3 DEF DrawPanel, ForgetOldPid
    <3>2. /\ lastSub' \in [Topics -> Pids \cup {NoPid}]
          /\ \A u \in Topics : lastSub'[u] = IF u = t THEN tapPid ELSE lastSub[u]
      BY <3>1 DEF IInv, TypeOK
    <3>3. \A u \in Topics :
             \/ ring'[u] = ring[u] /\ lastSub'[u] = lastSub[u]
             \/ ring'[u] = << >>
      BY <3>1, <3>2 DEF IInv, TypeOK
    <3>4. ring' \in [Topics -> Seq(Frame)] /\ \A u \in Topics : Len(ring'[u]) <= RingCap
      <4>1. << >> \in Seq(Frame) /\ Len(<< >>) = 0 /\ 0 <= RingCap
        BY CapAssumption
      <4>2. ring' \in [Topics -> Seq(Frame)]
        BY <3>1, <4>1 DEF IInv, TypeOK
      <4> QED
        BY <3>3, <4>1, <4>2 DEF IInv, TypeOK
    <3>5. TypeOK'
      BY <2>1, <3>2, <3>4 DEF IInv, TypeOK, readVars, pipeVars, envVars
    <3>6. RingIsOfOnePid'
      <4>1. ASSUME NEW u \in Topics, NEW i \in 1..Len(ring'[u]) PROVE ring'[u][i].pid = lastSub'[u]
        <5>1. CASE ring'[u] = ring[u] /\ lastSub'[u] = lastSub[u]
          BY <5>1 DEF IInv, RingIsOfOnePid
        <5>2. CASE ring'[u] = << >>
          BY <5>2
        <5> QED
          BY <3>3, <5>1, <5>2
      <4> QED
        BY <4>1 DEF RingIsOfOnePid
    <3>7. TopicInv'
      BY <2>1, <3>2 DEF IInv, TypeOK, TopicInv
    <3>8. LinkInv' /\ FrameInv'
      BY <2>1, <3>1 DEF IInv, LinkInv, FrameInv, readVars, pipeVars
    <3> QED
      BY <3>5, <3>6, <3>7, <3>8 DEF IInv
  <2> QED
    BY <2>2, <2>3
<1> QED
  BY <1>1, <1>2

\* The reader thread: what it takes off the pipe and pushes is of tapPid.
LEMMA ReaderStep == ASSUME IInv, Reader PROVE IInv'
<1>1. CASE LoopTop \/ ReadFails \/ Lookup
  <2>1. /\ UNCHANGED appVars /\ UNCHANGED tapVars /\ UNCHANGED pipeVars /\ UNCHANGED panelVars
        /\ UNCHANGED envVars /\ UNCHANGED held
        /\ reader \in {"top", "read", "lookup"} /\ reader' \in {"exited", "read", "call", "top"}
        /\ reader' = "call" => reader = "lookup" /\ held[1].topic \in topics
    BY <1>1 DEF LoopTop, ReadFails, Lookup, ReaderTo
  <2>2. connected
    BY <2>1 DEF IInv, LinkInv
  <2>3. TypeOK'
    BY <2>1 DEF IInv, TypeOK, appVars, tapVars, pipeVars, panelVars, envVars
  <2> QED
    BY <2>1, <2>2, <2>3 DEF IInv, LinkInv, FrameInv, TopicInv, RingIsOfOnePid, appVars, tapVars, pipeVars, panelVars
<1>2. CASE ReadFrame
  <2>1. /\ UNCHANGED appVars /\ UNCHANGED tapVars /\ UNCHANGED panelVars
        /\ UNCHANGED envVars /\ UNCHANGED <<broken, subs>>
        /\ reader = "read" /\ reader' \in {"exited", "lookup"}
        /\ pipe # << >> /\ held' = <<Head(pipe)>> /\ pipe' = Tail(pipe)
    BY <1>2 DEF ReadFrame
  <2>2. pipe \in Seq(Frame)
    BY DEF IInv, TypeOK
  <2>3. /\ Head(pipe) \in Frame /\ Tail(pipe) \in Seq(Frame) /\ Len(Tail(pipe)) = Len(pipe) - 1
        /\ \A i \in 1..Len(Tail(pipe)) : Tail(pipe)[i] = pipe[i + 1]
        /\ Len(pipe) \in Nat \ {0} /\ Head(pipe) = pipe[1]
    BY <2>1, <2>2, HeadTailProperties, EmptySeq
  <2>4. Len(held') = 1 /\ held'[1] = pipe[1] /\ held' \in {<<f>> : f \in Frame}
    BY <2>1, <2>3
  <2>5. connected
    BY <2>1 DEF IInv, LinkInv
  <2>6. FrameInv'
    BY <2>1, <2>3, <2>4 DEF IInv, FrameInv, appVars, tapVars
  <2>7. TypeOK'
    BY <2>1, <2>3, <2>4 DEF IInv, TypeOK, appVars, tapVars, panelVars, envVars
  <2> QED
    BY <2>1, <2>5, <2>6, <2>7 DEF IInv, LinkInv, TopicInv, RingIsOfOnePid, appVars, tapVars, panelVars
<1>3. CASE Callback
  <2> DEFINE t == held[1].topic
             f == held[1]
  <2>1. /\ UNCHANGED appVars /\ UNCHANGED tapVars /\ UNCHANGED pipeVars /\ UNCHANGED envVars
        /\ UNCHANGED <<held, shown, lastSub, paused>>
        /\ reader = "call" /\ reader' = "top"
        /\ ring' = IF paused[t] THEN ring ELSE [ring EXCEPT ![t] = Pushed(ring[t], f)]
    BY <1>3 DEF Callback
  <2>2. /\ t \in Topics /\ f \in Frame /\ f.pid = lastSub[t] /\ connected
    <3>1. Len(held) = 1 /\ f.pid = tapPid /\ t \in topics
      BY <2>1 DEF IInv, FrameInv
    <3>2. f \in Frame
      <4>1. held = << >> \/ \E g \in Frame : held = <<g>>
        BY DEF IInv, TypeOK
      <4> QED
        BY <3>1, <4>1
    <3> QED
      BY <2>1, <3>1, <3>2 DEF IInv, TypeOK, TopicInv, LinkInv
  <2> HIDE DEF t, f
  <2>3. ring[t] \in Seq(Frame) /\ Len(ring[t]) <= RingCap
    BY <2>2 DEF IInv, TypeOK
  <2> DEFINE row == Pushed(ring[t], f)
  <2>4. /\ row \in Seq(Frame) /\ Len(row) <= RingCap
        /\ \A i \in 1..Len(row) : row[i] = f \/ \E j \in 1..Len(ring[t]) : row[i] = ring[t][j]
    BY <2>2, <2>3, PushedRows
  <2>5. \A i \in 1..Len(row) : row[i].pid = lastSub[t]
    BY <2>2, <2>4 DEF IInv, RingIsOfOnePid
  <2> HIDE DEF row
  <2>6. ring' = ring \/ ring' = [ring EXCEPT ![t] = row]
    BY <2>1 DEF row
  <2>7. /\ ring' \in [Topics -> Seq(Frame)]
        /\ \A u \in Topics : ring'[u] = ring[u] \/ (u = t /\ ring'[u] = row)
    BY <2>4, <2>6 DEF IInv, TypeOK
  <2>8. RingIsOfOnePid'
    <3>1. ASSUME NEW u \in Topics, NEW i \in 1..Len(ring'[u]) PROVE ring'[u][i].pid = lastSub[u]
      <4>1. CASE ring'[u] = ring[u]
        BY <4>1 DEF IInv, RingIsOfOnePid
      <4>2. CASE u = t /\ ring'[u] = row
        BY <2>5, <4>2
      <4> QED
        BY <2>7, <4>1, <4>2
    <3> QED
      BY <2>1, <3>1 DEF RingIsOfOnePid
  <2>9. TypeOK'
    <3>1. \A u \in Topics : Len(ring'[u]) <= RingCap
      BY <2>4, <2>7 DEF IInv, TypeOK
    <3> QED
      BY <2>1, <2>7, <3>1 DEF IInv, TypeOK, appVars, tapVars, pipeVars, envVars
  <2> QED
    BY <2>1, <2>2, <2>8, <2>9 DEF IInv, LinkInv, FrameInv, TopicInv, appVars, tapVars, pipeVars
<1> QED
  BY <1>1, <1>2, <1>3 DEF Reader

\* The agents: a frame put on the pipe is of the process the pipe goes to.
LEMMA AgentStep == ASSUME IInv, Agent PROVE IInv'
<1>1. ASSUME NEW t \in Topics \cup {Bad}, Publish(t) PROVE IInv'
  <2> DEFINE f == [pid |-> tapPid, topic |-> t]
  <2>1. /\ UNCHANGED appVars /\ UNCHANGED tapVars /\ UNCHANGED readVars /\ UNCHANGED panelVars
        /\ UNCHANGED <<broken, subs, accepts>>
        /\ connected /\ published < MaxFrames /\ published' = published + 1
        /\ pipe' = Append(pipe, f)
    BY <1>1 DEF Publish
  <2>2. pipe \in Seq(Frame) /\ f \in Frame
    BY <2>1 DEF IInv, TypeOK, LinkInv, Frame
  <2>3. /\ pipe' \in Seq(Frame) /\ Len(pipe') = Len(pipe) + 1 /\ Len(pipe) \in Nat
        /\ \A i \in 1..Len(pipe) : pipe'[i] = pipe[i]
        /\ pipe'[Len(pipe) + 1] = f
    BY <2>1, <2>2, AppendProperties, LenProperties
  <2>4. \A i \in 1..Len(pipe') : pipe'[i].pid = tapPid
    <3>1. ASSUME NEW i \in 1..Len(pipe') PROVE pipe'[i].pid = tapPid
      <4>1. CASE i = Len(pipe) + 1
        BY <2>3, <4>1
      <4>2. CASE i # Len(pipe) + 1
        <5>1. i \in 1..Len(pipe)
          BY <2>3, <4>2
        <5> QED
          BY <2>3, <5>1 DEF IInv, FrameInv
      <4> QED
        BY <4>1, <4>2
    <3> QED
      BY <3>1
  <2>5. published' \in 0..MaxFrames
    BY <2>1, FramesAssumption DEF IInv, TypeOK
  <2>6. TypeOK'
    BY <2>1, <2>3, <2>5 DEF IInv, TypeOK, appVars, tapVars, readVars, panelVars
  <2> QED
    BY <2>1, <2>4, <2>6 DEF IInv, LinkInv, FrameInv, TopicInv, RingIsOfOnePid, appVars, tapVars, readVars, panelVars
<1>2. CASE PipeBreaks
  <2>1. /\ UNCHANGED appVars /\ UNCHANGED tapVars /\ UNCHANGED readVars /\ UNCHANGED panelVars
        /\ UNCHANGED envVars /\ UNCHANGED subs
        /\ broken' = TRUE /\ connected /\ pipe' \in {pipe, << >>}
    BY <1>2 DEF PipeBreaks
  <2>2. pipe' \in Seq(Frame) /\ \A i \in 1..Len(pipe') : pipe'[i].pid = tapPid
    <3>1. CASE pipe' = pipe
      BY <3>1 DEF IInv, TypeOK, FrameInv
    <3>2. CASE pipe' = << >>
      BY <3>2
    <3> QED
      BY <2>1, <3>1, <3>2
  <2>3. TypeOK'
    BY <2>1, <2>2 DEF IInv, TypeOK, appVars, tapVars, readVars, panelVars, envVars
  <2> QED
    BY <2>1, <2>2, <2>3 DEF IInv, LinkInv, FrameInv, TopicInv, RingIsOfOnePid, appVars, tapVars, readVars, panelVars
<1>3. ASSUME NEW p \in Pids, Availability(p) PROVE IInv'
  <2>1. /\ UNCHANGED appVars /\ UNCHANGED tapVars /\ UNCHANGED readVars /\ UNCHANGED pipeVars
        /\ UNCHANGED panelVars /\ UNCHANGED published
        /\ accepts' \in [Pids -> {"yes", "busy", "absent"}]
    BY <1>3 DEF Availability, IInv, TypeOK
  <2>2. TypeOK'
    BY <2>1 DEF IInv, TypeOK, appVars, tapVars, readVars, pipeVars, panelVars
  <2> QED
    BY <2>1, <2>2 DEF IInv, LinkInv, FrameInv, TopicInv, RingIsOfOnePid, appVars, tapVars, readVars, pipeVars, panelVars
<1> QED
  BY <1>1, <1>2, <1>3 DEF Agent

-----------------------------------------------------------------------------
\* The strengthening is inductive.
THEOREM Inductive == Spec => []IInv
<1>1. Init => IInv
  <2> SUFFICES ASSUME Init PROVE IInv
    OBVIOUS
  <2>1. \A t \in Topics : ring[t] = << >> /\ Len(ring[t]) = 0
    BY DEF Init
  <2>2. /\ ring \in [Topics -> Seq(Frame)] /\ pipe \in Seq(Frame) /\ Len(pipe) = 0
    BY DEF Init
  <2>3. \A t \in Topics : Len(ring[t]) <= RingCap
    BY <2>1, CapAssumption
  <2>4. TypeOK
    <3>1. /\ session \in Pids \cup {NoPid} /\ tapPid \in Pids \cup {NoPid}
          /\ lastSub \in [Topics -> Pids \cup {NoPid}]
      BY DEF Init
    <3>2. /\ connected \in BOOLEAN /\ stop \in BOOLEAN /\ broken \in BOOLEAN
          /\ shown \in [Topics -> BOOLEAN] /\ paused \in [Topics -> BOOLEAN]
      BY DEF Init
    <3>3. held \in {<< >>} \cup {<<f>> : f \in Frame} /\ published \in 0..MaxFrames
      BY FramesAssumption DEF Init
    <3> QED
      BY <2>2, <2>3, <3>1, <3>2, <3>3 DEF Init, TypeOK
  <2>5. RingIsOfOnePid
    BY <2>1 DEF RingIsOfOnePid
  <2> QED
    BY <2>2, <2>4, <2>5 DEF Init, IInv, LinkInv, FrameInv, TopicInv
<1>2. IInv /\ [Next]_vars => IInv'
  <2> SUFFICES ASSUME IInv, [Next]_vars PROVE IInv'
    OBVIOUS
  <2>1. CASE UNCHANGED vars
    <3>1. TypeOK'
      BY <2>1 DEF vars, IInv, TypeOK, appVars, tapVars, readVars, pipeVars, panelVars, envVars
    <3> QED
      BY <2>1, <3>1 DEF vars, IInv, LinkInv, FrameInv, TopicInv, RingIsOfOnePid,
         appVars, tapVars, readVars, pipeVars, panelVars
  <2> QED
    BY <2>1, ConnectionStep, UserStep, PanelStep, ReaderStep, AgentStep DEF Next, Ui
<1> QED
  BY <1>1, <1>2, PTL DEF Spec

\* Type correctness of the tap link, and the cap of the panels' rings with it.
THEOREM TypeCorrect == Spec => []TypeOK
<1>1. IInv => TypeOK
  BY DEF IInv
<1> QED
  BY <1>1, Inductive, PTL

\* A panel never shows rows of two processes (Disconnect joins the reader
\* before the pid moves on, and a panel clears its ring before it registers).
THEOREM RingsAreOfOnePid == Spec => []RingIsOfOnePid
<1>1. IInv => RingIsOfOnePid
  BY DEF IInv
<1> QED
  BY <1>1, Inductive, PTL
=============================================================================
