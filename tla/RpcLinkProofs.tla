--------------------------- MODULE RpcLinkProofs ---------------------------
(***************************************************************************)
(* Theorems about RpcLink, for any processes, any number of pipe slots and *)
(* any number of calls.                                                    *)
(***************************************************************************)
EXTENDS RpcLink, SequenceTheorems, TLAPS

Empty == req = << >> /\ rep = << >> /\ owes = << >>

OnePiece(s, part) == Len(s) = 1 /\ s[1].part = part

\* What the stream can hold while a call waits for its length prefix, ...
AwaitsLen ==
    \/ Len(req) = 1 /\ rep = << >> /\ owes = << >>
    \/ req = << >> /\ OnePiece(rep, "len") /\ OnePiece(owes, "body")
    \/ req = << >> /\ Len(rep) = 2 /\ rep[1].part = "len" /\ rep[2].part = "body" /\ owes = << >>
    \/ req = << >> /\ OnePiece(rep, "badLen") /\ owes = << >>
    \/ req = << >> /\ broken /\ OnePiece(rep, "len") /\ owes = << >>
    \/ broken /\ Empty

\* ... and while it waits for the body: never more than its own reply.
AwaitsBody ==
    \/ req = << >> /\ rep = << >> /\ OnePiece(owes, "body")
    \/ req = << >> /\ OnePiece(rep, "body") /\ owes = << >>
    \/ broken /\ Empty

StreamInv ==
    /\ ui \notin {"readLen", "readBody"} => Empty
    /\ ui = "readLen" => AwaitsLen
    /\ ui = "readBody" => AwaitsBody

\* Where a handle is open, and where it still occupies an instance.
HandleInv ==
    /\ ui \in InCall => pipe # NoPid
    /\ ui = "connect" => pipe = NoPid
    /\ broken => pipe # NoPid
    /\ pipe # NoPid /\ ~broken => up[pipe]

IInv == TypeOK /\ StreamInv /\ HandleInv /\ NoSlotIsLeaked

\* No slot is taken or freed by a step that leaves the three counts alone.
LEMMA UsedKept ==
    ASSUME TypeOK, UNCHANGED <<held, closed, other>>
    PROVE  \A p \in Pids : Used(p)' <= PipeSlots
<1>1. \A p \in Pids : Used(p)' = Used(p)
  BY DEF Used
<1> QED
  BY <1>1 DEF TypeOK

\* Closing the handle gives its instance back and empties the connection.
LEMMA DisconnectEffect ==
    ASSUME TypeOK, HandleInv, NoSlotIsLeaked, Disconnect, up' = up, other' = other
    PROVE  /\ pipe' = NoPid /\ Empty' /\ broken' = FALSE
           /\ held' = [p \in Pids |-> 0]
           /\ closed' \in [Pids -> Nat]
           /\ \A p \in Pids : Used(p)' <= PipeSlots
<1> USE PidAssumption, SlotsAssumption
<1>1. pipe' = NoPid /\ Empty' /\ broken' = FALSE
  BY DEF Disconnect, EmptyConnection, Empty
<1>2. CASE pipe # NoPid /\ ~broken
  <2>1. /\ pipe \in Pids
        /\ held' = [held EXCEPT ![pipe] = @ - 1]
        /\ closed' = [closed EXCEPT ![pipe] = @ + 1]
    BY <1>2 DEF Disconnect, CloseHandle, TypeOK
  <2>2. \A p \in Pids : held'[p] = 0
    BY <1>2, <2>1 DEF TypeOK, NoSlotIsLeaked
  <2>3. held' = [p \in Pids |-> 0]
    BY <2>1, <2>2 DEF TypeOK
  <2>4. closed' \in [Pids -> Nat]
    BY <2>1 DEF TypeOK
  <2>5. \A p \in Pids : held'[p] + closed'[p] = held[p] + closed[p]
    BY <2>1 DEF TypeOK
  <2>6. \A p \in Pids : Used(p)' <= PipeSlots
    BY <2>5 DEF TypeOK, Used
  <2> QED
    BY <1>1, <2>3, <2>4, <2>6
<1>3. CASE ~(pipe # NoPid /\ ~broken)
  <2>1. held' = held /\ closed' = closed
    BY <1>3 DEF Disconnect, CloseHandle
  <2>2. \A p \in Pids : held[p] = 0
    BY <1>3 DEF NoSlotIsLeaked, TypeOK
  <2>3. held' = [p \in Pids |-> 0]
    BY <2>1, <2>2 DEF TypeOK
  <2>4. \A p \in Pids : Used(p)' <= PipeSlots
    BY <2>1 DEF TypeOK, Used
  <2> QED
    BY <1>1, <2>1, <2>3, <2>4 DEF TypeOK
<1> QED
  BY <1>2, <1>3

\* Every step that ends in Disconnect keeps the invariant.
LEMMA DisconnectStep ==
    ASSUME IInv, Disconnect,
           up' = up, other' = other, id' = id, nextId' = nextId,
           session' = session, rpcPid' \in {rpcPid, session},
           ui' \in {"connect", "panels"}, status' \in Statuses
    PROVE  IInv'
<1> USE PidAssumption, SlotsAssumption DEF IInv
<1>1. /\ pipe' = NoPid /\ Empty' /\ broken' = FALSE
      /\ held' = [p \in Pids |-> 0]
      /\ closed' \in [Pids -> Nat]
      /\ \A p \in Pids : Used(p)' <= PipeSlots
  BY DisconnectEffect
<1>2. TypeOK'
  <2>1. req' \in Seq(Nat) /\ rep' \in Seq(Pieces) /\ owes' \in Seq(Pieces)
    BY <1>1 DEF Empty
  <2> QED
    BY <1>1, <2>1 DEF TypeOK
<1>3. StreamInv' /\ HandleInv' /\ NoSlotIsLeaked'
  BY <1>1 DEF StreamInv, HandleInv, NoSlotIsLeaked, InCall
<1> QED
  BY <1>2, <1>3

\* The steps of a call.
LEMMA CallStep == ASSUME IInv, Call PROVE IInv'
<1> USE PidAssumption, SlotsAssumption DEF IInv
<1>1. CASE WriteRequest
  <2>1. /\ UNCHANGED <<session, rpcPid, id, pipe, nextId, status, rep, owes, broken, up, held, closed, other>>
        /\ ui = "write" /\ ui' = "readLen" /\ ~broken
        /\ req' = Append(req, id)
    BY <1>1 DEF WriteRequest, appVars, clientVars, agentVars
  <2>2. Empty
    BY <2>1 DEF StreamInv
  <2>3. Len(req') = 1 /\ req' \in Seq(Nat)
    <3>1. req \in Seq(Nat) /\ id \in Nat
      BY DEF TypeOK
    <3>2. Len(req) = 0
      BY <2>2, EmptySeq DEF Empty
    <3>3. req' = Append(req, id)
      BY <2>1
    <3>4. /\ Append(req, id) \in Seq(Nat)
          /\ Len(Append(req, id)) = Len(req) + 1
      BY <3>1, AppendProperties
    <3> QED
      BY <3>2, <3>3, <3>4
  <2>4. TypeOK'
    BY <2>1, <2>3 DEF TypeOK, Used, InCall
  <2>5. StreamInv'
    BY <2>1, <2>2, <2>3 DEF StreamInv, AwaitsLen, Empty
  <2> QED
    BY <2>1, <2>4, <2>5 DEF HandleInv, NoSlotIsLeaked, InCall
<1>2. CASE WriteFails
  BY <1>2, DisconnectStep DEF WriteFails, Return, appVars, Statuses
<1>3. CASE ReadFails
  BY <1>3, DisconnectStep DEF ReadFails, Return, appVars, Statuses
<1>4. CASE ReadBadLen
  BY <1>4, DisconnectStep DEF ReadBadLen, Return, appVars, Statuses
<1>5. CASE ReadLen
  <2>1. /\ UNCHANGED <<session, rpcPid, id, pipe, nextId, status, req, owes, broken, up, held, closed, other>>
        /\ ui = "readLen" /\ ui' = "readBody"
        /\ rep # << >> /\ rep[1].part = "len" /\ rep' = Tail(rep)
    BY <1>5 DEF ReadLen, appVars, clientVars, agentVars, TypeOK
  <2>2. /\ rep \in Seq(Pieces) /\ rep' \in Seq(Pieces) /\ Len(rep') = Len(rep) - 1
        /\ \A i \in 1..Len(rep') : rep'[i] = rep[i + 1]
    <3>1. rep \in Seq(Pieces)
      BY DEF TypeOK
    <3> QED
      BY <2>1, <3>1, HeadTailProperties
  <2>3. Len(rep') = 0 => rep' = << >>
    BY <2>2, EmptySeq
  <2>4. AwaitsLen
    BY <2>1 DEF StreamInv
  <2>5. AwaitsBody'
    BY <2>1, <2>2, <2>3, <2>4 DEF AwaitsLen, AwaitsBody, OnePiece, Empty
  <2>6. TypeOK'
    BY <2>1, <2>2 DEF TypeOK, Used, InCall
  <2> QED
    BY <2>1, <2>5, <2>6 DEF StreamInv, HandleInv, NoSlotIsLeaked, InCall
<1>6. CASE ReadBody
  <2>1. /\ UNCHANGED <<session, rpcPid, id, pipe, nextId, req, owes, broken, up, held, closed, other>>
        /\ ui = "readBody" /\ ui' = "panels"
        /\ rep # << >> /\ rep[1].part = "body" /\ rep' = Tail(rep)
        /\ status' \in Statuses
    BY <1>6 DEF ReadBody, Return, Outcome, Statuses, appVars, agentVars, TypeOK
  <2>2. /\ rep \in Seq(Pieces) /\ rep' \in Seq(Pieces) /\ Len(rep') = Len(rep) - 1
        /\ Len(rep') = 0 => rep' = << >>
    <3>1. rep \in Seq(Pieces)
      BY DEF TypeOK
    <3> QED
      BY <2>1, <3>1, HeadTailProperties, EmptySeq
  <2>3. AwaitsBody
    BY <2>1 DEF StreamInv
  <2>4. Empty'
    BY <2>1, <2>2, <2>3 DEF AwaitsBody, OnePiece, Empty
  <2>5. TypeOK'
    BY <2>1, <2>2 DEF TypeOK, Used
  <2> QED
    BY <2>1, <2>4, <2>5 DEF StreamInv, HandleInv, NoSlotIsLeaked, InCall
<1> QED
  BY <1>1, <1>2, <1>3, <1>4, <1>5, <1>6 DEF Call

\* A step that leaves the client, the connection and the agents as they were.
LEMMA QuietStep ==
    ASSUME IInv, UNCHANGED <<rpcPid, id, pipe, connVars, agentVars>>, nextId' \in Nat \ {0},
           session' \in Pids \cup {NoPid}, status' \in Statuses,
           ui \notin InCall, ui' \in {"update", "panels"} \/ (ui' = "connect" /\ pipe = NoPid)
    PROVE  IInv'
<1>1. TypeOK'
  BY DEF IInv, TypeOK, Used, connVars, agentVars
<1>2. StreamInv'
  BY DEF IInv, StreamInv, Empty, InCall, connVars
<1>3. HandleInv' /\ NoSlotIsLeaked'
  BY DEF IInv, HandleInv, NoSlotIsLeaked, InCall, connVars, agentVars
<1> QED
  BY <1>1, <1>2, <1>3 DEF IInv

\* The frame's bookkeeping and the user.
LEMMA FrameStep == ASSUME IInv, Frame \/ User PROVE IInv'
<1> USE PidAssumption, SlotsAssumption
<1>1. CASE KeepConnection \/ RetryConnection \/ EndFrame
  BY <1>1, QuietStep DEF IInv, TypeOK, InCall, KeepConnection, RetryConnection, EndFrame, appVars, clientVars
<1>2. CASE FollowSession
  BY <1>2, DisconnectStep DEF FollowSession, Statuses, IInv, TypeOK
<1>3. CASE Connect
  <2>1. /\ UNCHANGED <<session, rpcPid, id, nextId, req, rep, owes, broken, up, closed, other>>
        /\ ui = "connect" /\ ui' = "panels" /\ pipe = NoPid
    BY <1>3 DEF Connect, IInv, HandleInv, appVars, connVars
  <2>2. Empty /\ ~broken /\ \A p \in Pids : held[p] = 0
    BY <2>1 DEF IInv, StreamInv, HandleInv, NoSlotIsLeaked, TypeOK
  <2>3. CASE Connected
    <3>1. /\ rpcPid \in Pids /\ up[rpcPid] /\ pipe' = rpcPid /\ status' = "Ok"
          /\ held' = [held EXCEPT ![rpcPid] = @ + 1]
          /\ held[rpcPid] + closed[rpcPid] + other[rpcPid] < PipeSlots
      BY <2>3 DEF Connected, IInv, TypeOK, Used
    <3>2. /\ held' \in [Pids -> Nat]
          /\ \A p \in Pids : held'[p] = IF p = rpcPid THEN 1 ELSE 0
      BY <2>2, <3>1 DEF IInv, TypeOK
    <3>3. \A p \in Pids : Used(p)' <= PipeSlots
      BY <2>1, <2>2, <3>1, <3>2 DEF IInv, TypeOK, Used
    <3>4. TypeOK'
      BY <2>1, <3>1, <3>2, <3>3 DEF IInv, TypeOK, Statuses
    <3>5. StreamInv'
      BY <2>1, <2>2 DEF StreamInv, Empty
    <3>6. HandleInv' /\ NoSlotIsLeaked'
      BY <2>1, <2>2, <3>1, <3>2 DEF HandleInv, NoSlotIsLeaked, InCall
    <3> QED
      BY <3>4, <3>5, <3>6 DEF IInv
  <2>4. CASE UNCHANGED <<pipe, held>> /\ status' \in Statuses
    BY <2>1, <2>4, QuietStep DEF IInv, TypeOK, InCall, connVars, agentVars
  <2>5. Connected \/ (UNCHANGED <<pipe, held>> /\ status' \in Statuses)
    BY <1>3 DEF Connect, Refused, IInv, TypeOK, Statuses
  <2> QED
    BY <2>3, <2>4, <2>5
<1>4. CASE CallUnconnected \/ Detach \/ \E p \in Pids : Attach(p)
  BY <1>4, QuietStep DEF IInv, TypeOK, InCall, CallUnconnected, Detach, Attach, Return, appVars, clientVars, Statuses
<1>6. CASE CallUnsent
  <2>1. /\ UNCHANGED <<rpcPid, id, pipe, connVars, agentVars>> /\ session' = session
        /\ ui = "panels" /\ ui' = "panels" /\ nextId' = nextId + 1
        /\ status' \in {"ProtocolError", "Disconnected"}
    BY <1>6 DEF CallUnsent, Return, appVars
  <2>2. nextId' \in Nat \ {0} /\ session \in Pids \cup {NoPid}
    BY <2>1 DEF IInv, TypeOK
  <2> QED
    BY <2>1, <2>2, QuietStep DEF InCall, Statuses
<1>5. CASE BeginCall
  <2>1. /\ UNCHANGED <<session, rpcPid, pipe, status, req, rep, owes, broken, up, held, closed, other>>
        /\ ui = "panels" /\ ui' = "write" /\ pipe # NoPid
        /\ id' = nextId /\ nextId' = nextId + 1
    BY <1>5 DEF BeginCall, appVars, connVars, agentVars
  <2>2. TypeOK'
    <3>1. \A p \in Pids : Used(p)' <= PipeSlots
      BY <2>1, UsedKept DEF IInv
    <3> QED
      BY <2>1, <3>1 DEF IInv, TypeOK, InCall
  <2>3. StreamInv' /\ HandleInv' /\ NoSlotIsLeaked'
    BY <2>1 DEF IInv, StreamInv, Empty, HandleInv, NoSlotIsLeaked, InCall
  <2> QED
    BY <2>2, <2>3 DEF IInv
<1> QED
  BY <1>1, <1>2, <1>3, <1>4, <1>5, <1>6 DEF Frame, User

\* The agent writes the two pieces of a reply, only to a request it was sent.
LEMMA ReplyStep == ASSUME IInv, AgentReplies \/ AgentFinishes PROVE IInv'
<1>1. /\ UNCHANGED <<session, rpcPid, ui, id, pipe, nextId, status, broken, up, held, closed, other>>
      /\ ~broken
  BY DEF AgentReplies, AgentFinishes, appVars, clientVars, agentVars
<1>2. /\ req \in Seq(Nat) /\ rep \in Seq(Pieces) /\ owes \in Seq(Pieces)
  BY DEF IInv, TypeOK
<1>3. CASE AgentReplies
  <2>1. req # << >> /\ req' = Tail(req) /\ Head(req) \in Nat
    BY <1>2, <1>3, HeadTailProperties DEF AgentReplies
  <2>2. ui = "readLen" /\ Len(req) = 1 /\ rep = << >> /\ owes = << >>
    <3>1. ui \in {"readLen", "readBody"}
      BY <2>1 DEF IInv, StreamInv, Empty
    <3> QED
      BY <1>1, <2>1, <3>1 DEF IInv, StreamInv, AwaitsLen, AwaitsBody, Empty
  <2>3. req' = << >>
    BY <1>2, <2>1, <2>2, HeadTailProperties, EmptySeq
  <2>4. \E piece \in Pieces :
            /\ rep' = <<piece>>
            /\ \/ piece.part = "badLen" /\ owes' = << >>
               \/ /\ piece.part = "len"
                  /\ \E body \in Pieces : body.part = "body" /\ owes' = <<body>>
    <3>1. CASE \E k \in Kinds :
                 LET body == [part |-> "body", kind |-> k, id |-> IF k = "noId" THEN 0 ELSE Head(req)]
                 IN  owes' = <<body>> /\ rep' = Append(rep, [body EXCEPT !.part = "len"])
      <4>1. PICK k \in Kinds :
                 LET body == [part |-> "body", kind |-> k, id |-> IF k = "noId" THEN 0 ELSE Head(req)]
                 IN  owes' = <<body>> /\ rep' = Append(rep, [body EXCEPT !.part = "len"])
        BY <3>1
      <4> DEFINE n == IF k = "noId" THEN 0 ELSE Head(req)
                 body == [part |-> "body", kind |-> k, id |-> n]
                 piece == [part |-> "len", kind |-> k, id |-> n]
      <4>2. n \in Nat
        BY <2>1
      <4>3. body \in Pieces /\ piece \in Pieces
        BY <4>2 DEF Pieces
      <4>4. owes' = <<body>> /\ rep' = <<piece>>
        BY <2>2, <4>1
      <4> QED
        BY <4>3, <4>4
    <3>2. CASE rep' = Append(rep, [part |-> "badLen", id |-> Head(req), kind |-> "garbled"])
               /\ UNCHANGED owes
      <4> DEFINE piece == [part |-> "badLen", id |-> Head(req), kind |-> "garbled"]
      <4>1. piece \in Pieces
        BY <2>1 DEF Pieces, Kinds
      <4>2. rep' = <<piece>> /\ owes' = << >>
        BY <2>2, <3>2
      <4> QED
        BY <4>1, <4>2
    <3> QED
      BY <1>3, <3>1, <3>2 DEF AgentReplies
  <2>5. rep' \in Seq(Pieces) /\ owes' \in Seq(Pieces) /\ AwaitsLen'
    <3>1. PICK piece \in Pieces :
            /\ rep' = <<piece>>
            /\ \/ piece.part = "badLen" /\ owes' = << >>
               \/ /\ piece.part = "len"
                  /\ \E body \in Pieces : body.part = "body" /\ owes' = <<body>>
      BY <2>4
    <3>2. rep' \in Seq(Pieces) /\ Len(rep') = 1 /\ rep'[1] = piece
      BY <3>1
    <3>3. CASE piece.part = "badLen" /\ owes' = << >>
      BY <2>3, <3>2, <3>3 DEF AwaitsLen, OnePiece
    <3>4. CASE piece.part = "len" /\ \E body \in Pieces : body.part = "body" /\ owes' = <<body>>
      <4>1. PICK body \in Pieces : body.part = "body" /\ owes' = <<body>>
        BY <3>4
      <4>2. owes' \in Seq(Pieces) /\ Len(owes') = 1 /\ owes'[1].part = "body"
        BY <4>1
      <4> QED
        BY <2>3, <3>2, <3>4, <4>2 DEF AwaitsLen, OnePiece
    <3> QED
      BY <3>1, <3>3, <3>4
  <2>6. TypeOK'
    <3>1. req' \in Seq(Nat)
      BY <2>3
    <3>2. \A p \in Pids : Used(p)' <= PipeSlots
      BY <1>1, UsedKept DEF IInv
    <3> QED
      BY <1>1, <2>5, <3>1, <3>2 DEF IInv, TypeOK
  <2> QED
    BY <1>1, <2>2, <2>5, <2>6 DEF IInv, StreamInv, HandleInv, NoSlotIsLeaked
<1>4. CASE AgentFinishes
  <2>1. owes # << >> /\ req' = req /\ rep' = rep \o owes /\ owes' = << >>
    BY <1>4 DEF AgentFinishes
  <2>2. ui \in {"readLen", "readBody"}
    BY <2>1 DEF IInv, StreamInv, Empty
  <2>3. /\ req = << >> /\ OnePiece(owes, "body")
        /\ ui = "readLen" => OnePiece(rep, "len")
        /\ ui = "readBody" => rep = << >>
    BY <1>1, <2>1, <2>2 DEF IInv, StreamInv, AwaitsLen, AwaitsBody, OnePiece, Empty
  <2>4. /\ rep' \in Seq(Pieces)
        /\ Len(rep') = Len(rep) + Len(owes)
        /\ \A i \in 1..Len(rep') : rep'[i] = IF i <= Len(rep) THEN rep[i] ELSE owes[i - Len(rep)]
    BY <1>2, <2>1, ConcatProperties
  <2>5. ui = "readLen" => AwaitsLen'
    BY <2>1, <2>3, <2>4 DEF AwaitsLen, OnePiece
  <2>6. ui = "readBody" => AwaitsBody'
    BY <2>1, <2>3, <2>4, EmptySeq DEF AwaitsBody, OnePiece
  <2>7. TypeOK'
    <3>1. owes' \in Seq(Pieces)
      BY <2>1
    <3>2. \A p \in Pids : Used(p)' <= PipeSlots
      BY <1>1, UsedKept DEF IInv
    <3> QED
      BY <1>1, <1>2, <2>1, <2>4, <3>1, <3>2 DEF IInv, TypeOK
  <2> QED
    BY <1>1, <2>2, <2>5, <2>6, <2>7 DEF IInv, StreamInv, HandleInv, NoSlotIsLeaked
<1> QED
  BY <1>3, <1>4

\* Agents come and go, other clients take and leave slots, slots are recycled.
LEMMA ServerStep ==
    ASSUME IInv, NEW p \in Pids,
           AgentStops(p) \/ AgentStarts(p) \/ OtherClient(p) \/ Recycle(p)
    PROVE  IInv'
<1> USE PidAssumption, SlotsAssumption
<1>1. CASE AgentStops(p)
  <2>1. /\ UNCHANGED <<session, rpcPid, ui, id, pipe, nextId, status>>
        /\ up' = [up EXCEPT ![p] = FALSE] /\ held' = [held EXCEPT ![p] = 0]
        /\ closed' = [closed EXCEPT ![p] = 0] /\ other' = [other EXCEPT ![p] = 0]
    BY <1>1 DEF AgentStops, appVars, clientVars
  <2>2. \/ pipe # p /\ UNCHANGED <<req, rep, owes, broken>>
        \/ pipe = p /\ broken' = TRUE /\ req' = << >> /\ owes' = << >> /\ rep' \in {rep, << >>}
    BY <1>1 DEF AgentStops, connVars
  <2>3. TypeOK'
    <3>1. req' \in Seq(Nat) /\ rep' \in Seq(Pieces) /\ owes' \in Seq(Pieces) /\ broken' \in BOOLEAN
      <4>1. << >> \in Seq(Nat) /\ << >> \in Seq(Pieces)
        OBVIOUS
      <4> QED
        BY <2>2, <4>1 DEF IInv, TypeOK
    <3>2. /\ up' \in [Pids -> BOOLEAN] /\ held' \in [Pids -> Nat]
          /\ closed' \in [Pids -> Nat] /\ other' \in [Pids -> Nat]
      BY <2>1 DEF IInv, TypeOK
    <3>3. \A q \in Pids : Used(q)' <= PipeSlots
      <4> SUFFICES ASSUME NEW q \in Pids PROVE Used(q)' <= PipeSlots
        OBVIOUS
      <4>1. CASE q = p
        BY <2>1, <4>1 DEF IInv, TypeOK, Used
      <4>2. CASE q # p
        BY <2>1, <4>2 DEF IInv, TypeOK, Used
      <4> QED
        BY <4>1, <4>2
    <3> QED
      BY <2>1, <3>1, <3>2, <3>3 DEF IInv, TypeOK
  <2>4. HandleInv' /\ NoSlotIsLeaked'
    BY <2>1, <2>2 DEF IInv, TypeOK, HandleInv, NoSlotIsLeaked
  <2>5. StreamInv'
    <3>1. CASE UNCHANGED <<req, rep, owes, broken>>
      BY <2>1, <3>1 DEF IInv, StreamInv, AwaitsLen, AwaitsBody, OnePiece, Empty
    <3>2. CASE broken' = TRUE /\ req' = << >> /\ owes' = << >> /\ rep' = << >>
      BY <2>1, <3>2 DEF StreamInv, AwaitsLen, AwaitsBody, Empty
    <3>3. CASE broken' = TRUE /\ req' = << >> /\ owes' = << >> /\ rep' = rep
      BY <2>1, <3>3 DEF IInv, StreamInv, AwaitsLen, AwaitsBody, OnePiece, Empty
    <3> QED
      BY <2>2, <3>1, <3>2, <3>3
  <2> QED
    BY <2>3, <2>4, <2>5 DEF IInv
<1>2. CASE AgentStarts(p) \/ OtherClient(p) \/ Recycle(p)
  <2>1. UNCHANGED <<session, rpcPid, ui, id, pipe, nextId, status, req, rep, owes, broken, held>>
    BY <1>2 DEF AgentStarts, OtherClient, Recycle, appVars, clientVars, connVars
  <2>2. /\ up' \in [Pids -> BOOLEAN]
        /\ closed' \in [Pids -> Nat] /\ other' \in [Pids -> Nat]
        /\ \A q \in Pids : up[q] => up'[q]
        /\ \A q \in Pids : Used(q)' <= PipeSlots
    <3>1. CASE AgentStarts(p)
      <4>1. up' = [up EXCEPT ![p] = TRUE] /\ UNCHANGED <<held, closed, other>>
        BY <3>1 DEF AgentStarts
      <4> QED
        BY <4>1, UsedKept DEF IInv, TypeOK
    <3>2. CASE OtherClient(p)
      <4>1. up' = up /\ closed' = closed /\ held' = held
        BY <3>2 DEF OtherClient
      <4>2. /\ held \in [Pids -> Nat] /\ closed \in [Pids -> Nat] /\ other \in [Pids -> Nat]
            /\ \A q \in Pids : held[q] + closed[q] + other[q] <= PipeSlots
        BY DEF IInv, TypeOK, Used
      <4>3. CASE Used(p) < PipeSlots /\ other' = [other EXCEPT ![p] = @ + 1]
        <5>1. held[p] + closed[p] + other[p] + 1 <= PipeSlots
          BY <4>2, <4>3 DEF Used
        <5>2. other' \in [Pids -> Nat] /\ \A q \in Pids : held[q] + closed[q] + other'[q] <= PipeSlots
          BY <4>2, <4>3, <5>1
        <5> QED
          BY <4>1, <5>2 DEF Used, IInv, TypeOK
      <4>4. CASE other[p] > 0 /\ other' = [other EXCEPT ![p] = @ - 1]
        <5>1. other' \in [Pids -> Nat] /\ \A q \in Pids : held[q] + closed[q] + other'[q] <= PipeSlots
          BY <4>2, <4>4
        <5> QED
          BY <4>1, <5>1 DEF Used, IInv, TypeOK
      <4> QED
        BY <3>2, <4>3, <4>4 DEF OtherClient
    <3>3. CASE Recycle(p)
      <4>1. up' = up /\ other' = other /\ held' = held
        BY <3>3 DEF Recycle
      <4>2. /\ held \in [Pids -> Nat] /\ closed \in [Pids -> Nat] /\ other \in [Pids -> Nat]
            /\ \A q \in Pids : held[q] + closed[q] + other[q] <= PipeSlots
        BY DEF IInv, TypeOK, Used
      <4>3. closed[p] > 0 /\ closed' = [closed EXCEPT ![p] = @ - 1]
        BY <3>3 DEF Recycle
      <4>4. closed' \in [Pids -> Nat] /\ \A q \in Pids : held[q] + closed'[q] + other[q] <= PipeSlots
        BY <4>2, <4>3
      <4> QED
        BY <4>1, <4>4 DEF Used, IInv, TypeOK
    <3> QED
      BY <1>2, <3>1, <3>2, <3>3
  <2>3. TypeOK'
    BY <2>1, <2>2 DEF IInv, TypeOK
  <2>4. HandleInv' /\ NoSlotIsLeaked'
    BY <2>1, <2>2 DEF IInv, TypeOK, HandleInv, NoSlotIsLeaked
  <2>5. StreamInv'
    BY <2>1 DEF IInv, StreamInv, AwaitsLen, AwaitsBody, OnePiece, Empty
  <2> QED
    BY <2>3, <2>4, <2>5 DEF IInv
<1> QED
  BY <1>1, <1>2

\* The strengthening is inductive.
THEOREM Inductive == Spec => []IInv
<1>1. Init => IInv
  <2> SUFFICES ASSUME Init PROVE IInv
    OBVIOUS
  <2>1. \A p \in Pids : Used(p) <= PipeSlots
    <3> SUFFICES ASSUME NEW p \in Pids PROVE held[p] + closed[p] + other[p] <= PipeSlots
      BY DEF Used
    <3>1. held[p] = 0 /\ closed[p] = 0 /\ other[p] = 0
      BY DEF Init
    <3> QED
      BY <3>1, SlotsAssumption
  <2>2. req \in Seq(Nat) /\ rep \in Seq(Pieces) /\ owes \in Seq(Pieces)
    BY DEF Init
  <2>3. TypeOK
    <3>1. /\ held \in [Pids -> Nat] /\ closed \in [Pids -> Nat] /\ other \in [Pids -> Nat]
          /\ up \in [Pids -> BOOLEAN]
      BY DEF Init
    <3>2. /\ session \in Pids \cup {NoPid} /\ rpcPid \in Pids \cup {NoPid}
          /\ pipe \in Pids \cup {NoPid} /\ ui \in {"update", "connect", "panels"} \cup InCall
      BY DEF Init
    <3>3. id \in Nat /\ nextId \in Nat \ {0}
      BY DEF Init
    <3>4. status \in Statuses
      BY DEF Init, Statuses
    <3>5. broken \in BOOLEAN
      BY DEF Init
    <3> QED
      BY <2>1, <2>2, <3>1, <3>2, <3>3, <3>4, <3>5 DEF TypeOK
  <2> QED
    BY <2>3, PidAssumption DEF Init, IInv, StreamInv, Empty, HandleInv, NoSlotIsLeaked, InCall
<1>2. IInv /\ [Next]_vars => IInv'
  <2> SUFFICES ASSUME IInv, [Next]_vars PROVE IInv'
    OBVIOUS
  <2>1. CASE Call
    BY <2>1, CallStep
  <2>2. CASE Frame \/ User
    BY <2>2, FrameStep
  <2>3. CASE Agent \/ \E p \in Pids : Recycle(p)
    BY <2>3, ReplyStep, ServerStep DEF Agent
  <2>4. CASE UNCHANGED vars
    BY <2>4 DEF vars, appVars, clientVars, connVars, agentVars, IInv, TypeOK, Used,
       StreamInv, AwaitsLen, AwaitsBody, OnePiece, Empty, HandleInv, NoSlotIsLeaked
  <2> QED
    BY <2>1, <2>2, <2>3, <2>4 DEF Next
<1> QED
  BY <1>1, <1>2, PTL DEF Spec

\* Type correctness of the RPC link, and the agents' slot limit with it.
THEOREM TypeCorrect == Spec => []TypeOK
<1>1. IInv => TypeOK
  BY DEF IInv
<1> QED
  BY <1>1, Inductive, PTL

\* No call ever starts on a connection with bytes of an earlier one on it
\* (every early return of RpcClient::Call either closes the pipe or has read
\* the whole frame).
THEOREM StreamStaysInStep == Spec => []PipeIsInStep
<1>1. IInv => PipeIsInStep
  BY DEF IInv, StreamInv, Empty, InCall, PipeIsInStep
<1> QED
  BY <1>1, Inductive, PTL

\* The debugger never keeps a pipe instance beyond its open handle.
THEOREM SlotsAreReturned == Spec => []NoSlotIsLeaked
<1>1. IInv => NoSlotIsLeaked
  BY DEF IInv
<1> QED
  BY <1>1, Inductive, PTL

-----------------------------------------------------------------------------
(***************************************************************************)
(* RpcLink implements RpcCall: whatever is on the stream belongs to the    *)
(* running call, and says so.                                              *)
(***************************************************************************)
Own(piece, n) ==
    /\ piece.part = "body" => piece.id = IF piece.kind = "noId" THEN 0 ELSE n
    /\ piece.part = "badLen" => piece.kind = "garbled"

OwnInv ==
    /\ id < nextId
    /\ ui \in InCall => id > 0
    /\ \A i \in 1..Len(req) : req[i] = id
    /\ \A i \in 1..Len(rep) : Own(rep[i], id)
    /\ \A i \in 1..Len(owes) : Own(owes[i], id)

\* An empty connection has nothing on it that could be somebody else's.
LEMMA OwnOfEmpty ==
    ASSUME Empty', id' < nextId', ui' \in InCall => id' > 0
    PROVE  OwnInv'
<1>1. Len(req') = 0 /\ Len(rep') = 0 /\ Len(owes') = 0
  BY DEF Empty
<1> QED
  BY <1>1 DEF OwnInv

\* What is taken off the stream, or left on it, was the call's before.
LEMMA OwnOfFewer ==
    ASSUME OwnInv, id' = id, nextId' = nextId, ui' \in InCall => ui \in InCall,
           \A i \in 1..Len(req') : \E j \in 1..Len(req) : req'[i] = req[j],
           \A i \in 1..Len(rep') : \/ \E j \in 1..Len(rep) : rep'[i] = rep[j]
                                   \/ \E j \in 1..Len(owes) : rep'[i] = owes[j],
           \A i \in 1..Len(owes') : \E j \in 1..Len(owes) : owes'[i] = owes[j]
    PROVE  OwnInv'
<1>1. /\ \A i \in 1..Len(rep') : Own(rep'[i], id')
      /\ \A i \in 1..Len(owes') : Own(owes'[i], id')
  BY DEF OwnInv
<1> QED
  BY <1>1 DEF OwnInv

\* What the agent puts on an empty stream when it takes the request up.
LEMMA ReplyEffect ==
    ASSUME IInv, OwnInv, AgentReplies
    PROVE  /\ ui = "readLen" /\ rep = << >> /\ owes = << >>
           /\ req' = << >> /\ broken = FALSE
           /\ \E piece \in Pieces :
                 /\ rep' = <<piece>>
                 /\ \/ piece.part = "badLen" /\ piece.kind = "garbled" /\ owes' = << >>
                    \/ /\ piece.part = "len"
                       /\ \E body \in Pieces :
                             /\ body.part = "body" /\ owes' = <<body>>
                             /\ body.id = IF body.kind = "noId" THEN 0 ELSE id
<1>1. req \in Seq(Nat) /\ req # << >> /\ owes = << >> /\ ~broken /\ broken \in BOOLEAN /\ req' = Tail(req)
  BY DEF IInv, TypeOK, AgentReplies
<1>2. Len(req) = 1 /\ rep = << >> /\ ui = "readLen"
  BY <1>1 DEF IInv, StreamInv, AwaitsLen, AwaitsBody, Empty
<1>3. Head(req) = id /\ id \in Nat
  BY <1>1, <1>2, HeadTailProperties DEF OwnInv, IInv, TypeOK
<1>4. req' = << >>
  BY <1>1, <1>2, HeadTailProperties, EmptySeq
<1>5. CASE \E k \in Kinds :
             LET body == [part |-> "body", kind |-> k, id |-> IF k = "noId" THEN 0 ELSE Head(req)]
             IN  owes' = <<body>> /\ rep' = Append(rep, [body EXCEPT !.part = "len"])
  <2>1. PICK k \in Kinds :
             LET body == [part |-> "body", kind |-> k, id |-> IF k = "noId" THEN 0 ELSE Head(req)]
             IN  owes' = <<body>> /\ rep' = Append(rep, [body EXCEPT !.part = "len"])
    BY <1>5
  <2> DEFINE n == IF k = "noId" THEN 0 ELSE id
             body == [part |-> "body", kind |-> k, id |-> n]
             piece == [part |-> "len", kind |-> k, id |-> n]
  <2>2. n \in Nat
    BY <1>3
  <2>3. body \in Pieces /\ piece \in Pieces
    BY <2>2 DEF Pieces
  <2>4. owes' = <<body>> /\ rep' = <<piece>>
    BY <1>2, <1>3, <2>1
  <2> QED
    BY <1>1, <1>2, <1>4, <2>3, <2>4
<1>6. CASE rep' = Append(rep, [part |-> "badLen", id |-> Head(req), kind |-> "garbled"])
           /\ UNCHANGED owes
  <2> DEFINE piece == [part |-> "badLen", id |-> Head(req), kind |-> "garbled"]
  <2>1. piece \in Pieces
    BY <1>3 DEF Pieces, Kinds
  <2>2. rep' = <<piece>> /\ owes' = << >>
    BY <1>1, <1>2, <1>6
  <2> QED
    BY <1>1, <1>2, <1>4, <2>1, <2>2
<1> QED
  BY <1>5, <1>6 DEF AgentReplies

\* Every step of the link keeps what is on the stream the running call's.
LEMMA OwnStep == ASSUME IInv, OwnInv, [Next]_vars, IInv' PROVE OwnInv'
<1> USE DEF IInv
<1>0. /\ id \in Nat /\ nextId \in Nat \ {0}
      /\ req \in Seq(Nat) /\ rep \in Seq(Pieces) /\ owes \in Seq(Pieces)
  BY DEF TypeOK
<1>1. CASE Disconnect /\ UNCHANGED <<id, nextId>> /\ ui' \in {"connect", "panels"}
  BY <1>1, OwnOfEmpty DEF Disconnect, EmptyConnection, Empty, OwnInv, InCall
<1>2. CASE connVars' = connVars /\ id' = id /\ nextId' \in {nextId, nextId + 1} /\ (ui' \in InCall => ui \in InCall)
  <2>1. UNCHANGED <<req, rep, owes>> /\ id' < nextId'
    BY <1>0, <1>2 DEF connVars, OwnInv
  <2> QED
    BY <1>2, <2>1 DEF OwnInv
<1>3. CASE BeginCall
  <2>1. ui = "panels" /\ id' = nextId /\ nextId' = nextId + 1 /\ UNCHANGED <<req, rep, owes>>
    BY <1>3 DEF BeginCall, connVars
  <2>2. Empty'
    BY <2>1 DEF StreamInv, Empty
  <2> QED
    BY <1>0, <2>1, <2>2, OwnOfEmpty
<1>4. CASE WriteRequest
  <2>1. /\ ui = "write" /\ UNCHANGED <<id, nextId, rep, owes>> /\ req' = Append(req, id)
        /\ Empty
    BY <1>4 DEF WriteRequest, clientVars, StreamInv
  <2>2. req' = <<id>> /\ Len(rep') = 0 /\ Len(owes') = 0 /\ Len(req') = 1 /\ req'[1] = id
    BY <2>1 DEF Empty
  <2> QED
    BY <2>1, <2>2 DEF OwnInv, InCall
<1>5. CASE ReadLen \/ ReadBody
  <2>1. /\ UNCHANGED <<id, nextId, req, owes>> /\ rep # << >> /\ rep' = Tail(rep)
        /\ ui \in InCall
    BY <1>5 DEF ReadLen, ReadBody, clientVars, InCall
  <2>2. Len(rep') = Len(rep) - 1 /\ \A i \in 1..Len(rep') : rep'[i] = rep[i + 1]
    BY <1>0, <2>1, HeadTailProperties
  <2>3. \A i \in 1..Len(rep') : \E j \in 1..Len(rep) : rep'[i] = rep[j]
    <3> SUFFICES ASSUME NEW i \in 1..Len(rep') PROVE \E j \in 1..Len(rep) : rep'[i] = rep[j]
      OBVIOUS
    <3>1. Len(rep) \in Nat
      BY <1>0
    <3>2. i + 1 \in 1..Len(rep) /\ rep'[i] = rep[i + 1]
      BY <2>2, <3>1
    <3> QED
      BY <3>2
  <2> QED
    BY <2>1, <2>3, OwnOfFewer
<1>6. CASE AgentReplies
  <2>1. UNCHANGED <<ui, id, nextId>> /\ req' = << >>
    BY <1>6, ReplyEffect DEF AgentReplies, clientVars
  <2>2. PICK piece \in Pieces :
                 /\ rep' = <<piece>>
                 /\ \/ piece.part = "badLen" /\ piece.kind = "garbled" /\ owes' = << >>
                    \/ /\ piece.part = "len"
                       /\ \E body \in Pieces :
                             /\ body.part = "body" /\ owes' = <<body>>
                             /\ body.id = IF body.kind = "noId" THEN 0 ELSE id
    BY <1>6, ReplyEffect
  <2>3. Len(rep') = 1 /\ rep'[1] = piece /\ Len(req') = 0 /\ Own(piece, id')
    BY <2>1, <2>2 DEF Own
  <2>4. \A i \in 1..Len(owes') : Own(owes'[i], id')
    <3>1. CASE owes' = << >>
      BY <3>1
    <3>2. CASE \E body \in Pieces :
                             /\ body.part = "body" /\ owes' = <<body>>
                             /\ body.id = IF body.kind = "noId" THEN 0 ELSE id
      <4>1. PICK body \in Pieces :
                             /\ body.part = "body" /\ owes' = <<body>>
                             /\ body.id = IF body.kind = "noId" THEN 0 ELSE id
        BY <3>2
      <4>2. Own(body, id') /\ Len(owes') = 1 /\ owes'[1] = body
        BY <2>1, <4>1 DEF Own
      <4> QED
        BY <4>2
    <3> QED
      BY <2>2, <3>1, <3>2
  <2> QED
    BY <2>1, <2>3, <2>4 DEF OwnInv
<1>7. CASE AgentFinishes
  <2>1. /\ UNCHANGED <<ui, id, nextId, req>> /\ rep' = rep \o owes /\ owes' = << >>
    BY <1>7 DEF AgentFinishes, clientVars
  <2>2. /\ Len(rep') = Len(rep) + Len(owes)
        /\ \A i \in 1..Len(rep') : rep'[i] = IF i <= Len(rep) THEN rep[i] ELSE owes[i - Len(rep)]
    BY <1>0, <2>1, ConcatProperties
  <2>3. \A i \in 1..Len(rep') : \/ \E j \in 1..Len(rep) : rep'[i] = rep[j]
                                \/ \E j \in 1..Len(owes) : rep'[i] = owes[j]
    <3> SUFFICES ASSUME NEW i \in 1..Len(rep')
                 PROVE  \/ \E j \in 1..Len(rep) : rep'[i] = rep[j]
                        \/ \E j \in 1..Len(owes) : rep'[i] = owes[j]
      OBVIOUS
    <3>1. Len(rep) \in Nat /\ Len(owes) \in Nat
      BY <1>0
    <3>2. CASE i <= Len(rep)
      <4>1. i \in 1..Len(rep) /\ rep'[i] = rep[i]
        BY <2>2, <3>1, <3>2
      <4> QED
        BY <4>1
    <3>3. CASE ~(i <= Len(rep))
      <4>1. i - Len(rep) \in 1..Len(owes) /\ rep'[i] = owes[i - Len(rep)]
        BY <2>2, <3>1, <3>3
      <4> QED
        BY <4>1
    <3> QED
      BY <3>2, <3>3
  <2>4. Len(owes') = 0
    BY <2>1
  <2> QED
    BY <2>1, <2>3, <2>4, OwnOfFewer
<1>8. CASE \E p \in Pids : AgentStops(p)
  <2>1. UNCHANGED <<ui, id, nextId>>
    BY <1>8 DEF AgentStops, clientVars
  <2>2. /\ req' \in {req, << >>} /\ rep' \in {rep, << >>} /\ owes' \in {owes, << >>}
    BY <1>8 DEF AgentStops, connVars
  <2>3. /\ \A i \in 1..Len(req') : \E j \in 1..Len(req) : req'[i] = req[j]
        /\ \A i \in 1..Len(rep') : \E j \in 1..Len(rep) : rep'[i] = rep[j]
        /\ \A i \in 1..Len(owes') : \E j \in 1..Len(owes) : owes'[i] = owes[j]
    BY <2>2
  <2> QED
    BY <2>1, <2>3, OwnOfFewer
<1>9. CASE UNCHANGED vars
  BY <1>2, <1>9 DEF vars, clientVars
<1>10. CASE Call
  BY <1>1, <1>4, <1>5, <1>10 DEF Call, WriteFails, ReadFails, ReadBadLen, Return
<1>11. CASE Frame
  BY <1>1, <1>2, <1>11 DEF Frame, KeepConnection, FollowSession, RetryConnection, Connect, EndFrame,
     clientVars, InCall
<1>12. CASE User
  BY <1>2, <1>3, <1>12 DEF User, Detach, CallUnconnected, CallUnsent, Attach, Return, clientVars, InCall
<1>13. CASE Agent \/ \E p \in Pids : Recycle(p)
  BY <1>2, <1>6, <1>7, <1>8, <1>13 DEF Agent, AgentStarts, OtherClient, Recycle, clientVars
<1> QED
  BY <1>9, <1>10, <1>11, <1>12, <1>13 DEF Next

\* CallReply, case by case.
LEMMA ReplyOf ==
    ASSUME broken \in BOOLEAN
    PROVE  CallReply = IF CallStage # "asked" THEN "none"
                       ELSE IF owes # << >> THEN owes[1].kind
                       ELSE IF rep # << >> /\ rep[Len(rep)].part # "len" THEN rep[Len(rep)].kind
                       ELSE IF broken THEN "lost" ELSE "none"
<1>1. CASE CallStage # "asked"
  BY <1>1 DEF CallReply
<1>2. CASE CallStage = "asked" /\ owes # << >>
  BY <1>2 DEF CallReply
<1>3. CASE CallStage = "asked" /\ owes = << >> /\ rep # << >> /\ rep[Len(rep)].part # "len"
  BY <1>3 DEF CallReply
<1>4. CASE CallStage = "asked" /\ owes = << >> /\ ~(rep # << >> /\ rep[Len(rep)].part # "len")
  BY <1>4 DEF CallReply
<1> QED
  BY <1>1, <1>2, <1>3, <1>4

LEMMA StageOf ==
    CallStage = IF ui = "write" THEN "begun"
                ELSE IF ui \in {"readLen", "readBody"} THEN "asked" ELSE "over"
BY DEF CallStage


\* A step that neither moves the call nor touches its answer.
LEMMA StutterStep ==
    ASSUME UNCHANGED <<id, status>>, CallStage' = CallStage, CallReply' = CallReply
    PROVE  [Contract!Next]_Contract!vars
BY DEF Contract!vars

\* A call that comes to its end.
LEMMA EndStep ==
    ASSUME NEW v, id' = id, status' = v, ui' \notin InCall
    PROVE  Contract!End(v)
<1>1. CallStage' = "over"
  BY StageOf DEF CallStage, InCall
<1>2. CallReply' = "none"
  BY <1>1 DEF CallReply
<1> QED
  BY <1>1, <1>2 DEF Contract!End

\* The steps of RpcClient::Call.
LEMMA CallRefines == ASSUME IInv, OwnInv, Call, IInv' PROVE [Contract!Next]_Contract!vars
<1> USE DEF IInv
<1>0. /\ id \in Nat /\ broken \in BOOLEAN /\ broken' \in BOOLEAN
      /\ req \in Seq(Nat) /\ rep \in Seq(Pieces) /\ owes \in Seq(Pieces)
  BY DEF TypeOK
<1>1. CASE WriteRequest
  <2>1. /\ ui = "write" /\ ui' = "readLen" /\ UNCHANGED <<id, status, rep, owes, broken>> /\ ~broken
        /\ Empty
    BY <1>1 DEF WriteRequest, clientVars, StreamInv
  <2>2. CallStage = "begun" /\ CallStage' = "asked" /\ CallReply = "none"
    BY <2>1 DEF CallStage, CallReply
  <2>3. CallReply' = "none"
    BY <1>0, <2>1, <2>2 DEF CallReply, Empty
  <2> QED
    BY <2>1, <2>2, <2>3 DEF Contract!Next, Contract!Ask
<1>2. CASE WriteFails
  <2>1. CallStage = "begun" /\ Contract!End("Disconnected")
    BY <1>2, EndStep DEF WriteFails, Return, CallStage, InCall
  <2> QED
    BY <2>1 DEF Contract!Next, Contract!Unasked
<1>3. CASE ReadFails
  <2>1. CallStage = "asked" /\ Contract!End("Timeout")
    BY <1>3, EndStep DEF ReadFails, Return, CallStage, InCall
  <2> QED
    BY <2>1 DEF Contract!Next, Contract!GiveUp
<1>4. CASE ReadBadLen
  <2>1. /\ ui = "readLen" /\ id' = id /\ ui' = "panels" /\ status' = "ProtocolError"
        /\ rep # << >> /\ rep[1].part = "badLen"
    BY <1>0, <1>4 DEF ReadBadLen, Return
  <2>2. Len(rep) = 1 /\ owes = << >> /\ rep[1].kind = "garbled"
    BY <1>0, <2>1 DEF StreamInv, AwaitsLen, OnePiece, Empty, OwnInv, Own
  <2>3. CallStage = "asked" /\ CallReply = "garbled"
    BY <1>0, <2>1, <2>2, StageOf, ReplyOf
  <2>4. Contract!End("ProtocolError")
    BY <2>1, EndStep DEF InCall
  <2> QED
    BY <2>3, <2>4 DEF Contract!Next, Contract!Taken, Contract!Replies
<1>5. CASE ReadLen
  <2>1. /\ UNCHANGED <<id, status, owes, broken>> /\ ui = "readLen" /\ ui' = "readBody"
        /\ rep # << >> /\ rep[1].part = "len" /\ rep' = Tail(rep)
    BY <1>0, <1>5 DEF ReadLen, clientVars
  <2>2. Len(rep') = Len(rep) - 1 /\ \A i \in 1..Len(rep') : rep'[i] = rep[i + 1]
    BY <1>0, <2>1, HeadTailProperties
  <2>3. AwaitsLen /\ (Len(rep') = 0 => rep' = << >>)
    BY <1>0, <2>1, <2>2, HeadTailProperties, EmptySeq DEF StreamInv
  <2>4. CallStage = "asked" /\ CallStage' = "asked"
    BY <2>1 DEF CallStage
  <2>5. CASE owes # << >>
    BY <2>1, <2>4, <2>5, StutterStep DEF CallReply
  <2>6. CASE owes = << >> /\ Len(rep) = 2 /\ rep[2].part = "body"
    <3>1. rep' # << >> /\ Len(rep') = 1 /\ rep'[1] = rep[2]
      BY <2>2, <2>6
    <3>2. CallReply = rep[2].kind
      BY <1>0, <2>1, <2>4, <2>6, ReplyOf
    <3>3. CallReply' = rep[2].kind
      BY <2>1, <2>4, <2>6, <3>1 DEF CallReply
    <3> QED
      BY <2>1, <2>4, <3>2, <3>3, StutterStep
  <2>7. CASE owes = << >> /\ broken /\ OnePiece(rep, "len")
    <3>1. rep' = << >>
      BY <2>2, <2>3, <2>7 DEF OnePiece
    <3>2. CallReply = "lost"
      BY <1>0, <2>4, <2>7, ReplyOf DEF OnePiece
    <3>3. CallReply' = "lost"
      BY <2>1, <2>4, <2>7, <3>1 DEF CallReply
    <3> QED
      BY <2>1, <2>4, <3>2, <3>3, StutterStep
  <2> QED
    BY <2>1, <2>3, <2>5, <2>6, <2>7 DEF AwaitsLen, OnePiece, Empty
<1>6. CASE ReadBody
  <2>1. /\ ui = "readBody" /\ id' = id /\ ui' = "panels" /\ status' = Outcome(rep[1])
        /\ rep # << >> /\ rep[1].part = "body"
    BY <1>0, <1>6 DEF ReadBody, Return
  <2>2. Len(rep) = 1 /\ owes = << >>
    BY <1>0, <2>1 DEF StreamInv, AwaitsBody, OnePiece, Empty
  <2>3. CallStage = "asked" /\ CallReply = rep[1].kind
    BY <1>0, <2>1, <2>2, StageOf, ReplyOf
  <2>4. rep[1] \in Pieces /\ rep[1].kind \in Kinds
    BY <1>0, <2>2 DEF Pieces
  <2>5. id > 0 /\ Own(rep[1], id)
    BY <2>1, <2>2 DEF OwnInv, InCall
  <2>6. Outcome(rep[1]) = CASE rep[1].kind = "result" -> "Ok"
                            [] rep[1].kind = "error"  -> "HandlerError"
                            [] OTHER                  -> "ProtocolError"
    <3>1. rep[1].id = IF rep[1].kind = "noId" THEN 0 ELSE id
      BY <2>1, <2>5 DEF Own
    <3> QED
      BY <1>0, <2>4, <2>5, <3>1 DEF Outcome, Kinds
  <2>7. Contract!End(Outcome(rep[1]))
    BY <2>1, EndStep DEF InCall
  <2> QED
    BY <2>3, <2>4, <2>6, <2>7 DEF Contract!Next, Contract!Taken, Contract!Replies, Kinds
<1> QED
  BY <1>1, <1>2, <1>3, <1>4, <1>5, <1>6 DEF Call

\* Between calls: the frame, the user, and the start of a call.
LEMMA FrameRefines == ASSUME IInv, OwnInv, Frame \/ User, IInv' PROVE [Contract!Next]_Contract!vars
<1>1. ui \notin InCall
  BY DEF Frame, User, KeepConnection, FollowSession, RetryConnection, Connect, EndFrame,
     Detach, CallUnconnected, CallUnsent, BeginCall, Attach, InCall
<1>2. CallStage = "over" /\ CallReply = "none"
  BY <1>1 DEF CallStage, CallReply, InCall
<1>3. CASE BeginCall
  <2>1. ui' = "write" /\ id' = nextId /\ status' = status
    BY <1>3 DEF BeginCall
  <2>2. CallStage' = "begun"
    BY <2>1 DEF CallStage
  <2>3. CallReply' = "none"
    BY <2>2 DEF CallReply
  <2>4. id' \in Nat /\ id' > id
    BY <2>1 DEF IInv, TypeOK, OwnInv
  <2> QED
    BY <1>2, <2>1, <2>2, <2>3, <2>4 DEF Contract!Next, Contract!Begin
<1>4. CASE ~BeginCall
  <2>1. /\ id' = id /\ ui' \notin InCall
        /\ status' \in {status, "Ok", "Busy", "Disconnected", "ProtocolError"}
    <3>1. CASE Frame
      BY <3>1 DEF Frame, KeepConnection, FollowSession, RetryConnection, Connect, Connected, Refused,
         EndFrame, clientVars, InCall
    <3>2. CASE User
      BY <1>1, <1>4, <3>2 DEF User, Detach, CallUnconnected, CallUnsent, Attach, Return, clientVars, InCall
    <3> QED
      BY <3>1, <3>2
  <2>2. CallStage' = "over"
    BY <2>1 DEF CallStage, InCall
  <2>3. CallReply' = "none"
    BY <2>2 DEF CallReply
  <2> QED
    BY <1>2, <2>1, <2>2, <2>3 DEF Contract!Next, Contract!Elsewhere
<1> QED
  BY <1>3, <1>4

\* The agent: its answer is the call's, and dies with it.
LEMMA AgentRefines ==
    ASSUME IInv, OwnInv, Agent \/ \E p \in Pids : Recycle(p), IInv'
    PROVE  [Contract!Next]_Contract!vars
<1> USE DEF IInv
<1>0. /\ broken \in BOOLEAN /\ broken' \in BOOLEAN
      /\ req \in Seq(Nat) /\ rep \in Seq(Pieces) /\ owes \in Seq(Pieces)
      /\ rep' \in Seq(Pieces) /\ owes' \in Seq(Pieces)
  BY DEF TypeOK
<1>1. UNCHANGED <<ui, id, status>>
  BY DEF Agent, AgentReplies, AgentFinishes, AgentStops, AgentStarts, OtherClient, Recycle, clientVars
<1>2. CallStage' = CallStage
  BY <1>1 DEF CallStage
<1>3. CASE CallStage # "asked"
  BY <1>1, <1>2, <1>3, StutterStep DEF CallReply
<1>4. CASE CallStage = "asked" /\ connVars' = connVars
  BY <1>1, <1>2, <1>4, StutterStep DEF CallReply, connVars
<1>5. CASE CallStage = "asked" /\ AgentReplies
  <2>1. rep = << >> /\ owes = << >> /\ broken = FALSE
    BY <1>5, ReplyEffect
  <2>2. CallReply = "none"
    BY <1>5, <2>1 DEF CallReply
  <2>3. CallReply' \in Kinds
    <3>1. PICK piece \in Pieces :
                 /\ rep' = <<piece>>
                 /\ \/ piece.part = "badLen" /\ piece.kind = "garbled" /\ owes' = << >>
                    \/ /\ piece.part = "len"
                       /\ \E body \in Pieces :
                             /\ body.part = "body" /\ owes' = <<body>>
                             /\ body.id = IF body.kind = "noId" THEN 0 ELSE id
      BY <1>5, ReplyEffect
    <3>2. CASE piece.part = "badLen" /\ piece.kind = "garbled" /\ owes' = << >>
      <4>1. rep' # << >> /\ Len(rep') = 1 /\ rep'[1] = piece
        BY <3>1
      <4> QED
        BY <1>2, <1>5, <3>2, <4>1 DEF CallReply, Kinds
    <3>3. CASE \E body \in Pieces : body.part = "body" /\ owes' = <<body>>
      <4>1. PICK body \in Pieces : owes' = <<body>>
        BY <3>3
      <4>2. owes' # << >> /\ owes'[1] = body /\ body.kind \in Kinds
        BY <4>1 DEF Pieces
      <4> QED
        BY <1>2, <1>5, <4>2 DEF CallReply
    <3> QED
      BY <3>1, <3>2, <3>3
  <2> QED
    BY <1>1, <1>2, <1>5, <2>2, <2>3 DEF Contract!Next, Contract!Answer, Contract!Replies, Kinds
<1>6. CASE CallStage = "asked" /\ AgentFinishes
  <2>1. owes # << >> /\ rep' = rep \o owes /\ owes' = << >>
    BY <1>6 DEF AgentFinishes
  <2>2. OnePiece(owes, "body")
    <3>1. ui \in {"readLen", "readBody"}
      BY <1>6 DEF CallStage
    <3> QED
      BY <2>1, <3>1 DEF StreamInv, AwaitsLen, AwaitsBody, Empty
  <2>3. Len(rep') = Len(rep) + 1 /\ rep'[Len(rep')] = owes[1] /\ Len(rep) \in Nat
    <3>1. /\ Len(rep') = Len(rep) + Len(owes) /\ Len(rep) \in Nat
          /\ \A i \in 1..Len(rep') : rep'[i] = IF i <= Len(rep) THEN rep[i] ELSE owes[i - Len(rep)]
      BY <1>0, <2>1, ConcatProperties
    <3>2. Len(owes) = 1
      BY <2>2 DEF OnePiece
    <3> QED
      BY <3>1, <3>2
  <2>4. CallReply = owes[1].kind
    BY <1>6, <2>1 DEF CallReply
  <2>5. CallReply' = owes[1].kind
    <3>1. rep' # << >>
      BY <2>3
    <3> QED
      BY <1>2, <1>6, <2>1, <2>2, <2>3, <3>1 DEF CallReply, OnePiece
  <2> QED
    BY <1>1, <1>2, <2>4, <2>5, StutterStep
<1>7. CASE CallStage = "asked" /\ connVars' # connVars /\ \E p \in Pids : AgentStops(p)
  <2>1. broken' = TRUE /\ owes' = << >> /\ rep' \in {rep, << >>}
    BY <1>7 DEF AgentStops
  <2>2. CallReply' \in {CallReply, "lost"}
    <3>1. CASE rep' # << >> /\ rep'[Len(rep')].part # "len"
      <4>1. CallReply' = rep[Len(rep)].kind /\ rep' = rep
        BY <1>2, <1>7, <2>1, <3>1 DEF CallReply
      <4>2. owes = << >>
        <5>1. ui \in {"readLen", "readBody"}
          BY <1>7 DEF CallStage
        <5> QED
          BY <2>1, <3>1, <4>1, <5>1 DEF StreamInv, AwaitsLen, AwaitsBody, OnePiece, Empty
      <4> QED
        BY <1>0, <1>7, <3>1, <4>1, <4>2, ReplyOf
    <3>2. CASE ~(rep' # << >> /\ rep'[Len(rep')].part # "len")
      BY <1>2, <1>7, <2>1, <3>2 DEF CallReply
    <3> QED
      BY <3>1, <3>2
  <2> QED
    BY <1>1, <1>2, <1>7, <2>2, StutterStep DEF Contract!Next, Contract!Lose
<1> QED
  BY <1>3, <1>4, <1>5, <1>6, <1>7
     DEF Agent, AgentStarts, OtherClient, Recycle

\* The contract of RpcClient::Call: the pipe, its bytes and its deadlines
\* implement calls that run one at a time under rising numbers, each answered
\* at most once, and report only what the answer to the running call said.
THEOREM CallsAreExchanges == Spec => CallIsOneExchange
<1>1. Init => Contract!Init
  BY DEF Init, Contract!Init, CallStage, CallReply
<1>2. IInv /\ OwnInv /\ [Next]_vars /\ IInv' => [Contract!Next]_Contract!vars
  <2> SUFFICES ASSUME IInv, OwnInv, [Next]_vars, IInv' PROVE [Contract!Next]_Contract!vars
    OBVIOUS
  <2>1. CASE UNCHANGED vars
    BY <2>1, StutterStep DEF vars, clientVars, connVars, CallStage, CallReply
  <2> QED
    BY <2>1, CallRefines, FrameRefines, AgentRefines DEF Next
<1>3. Init => OwnInv
  BY DEF Init, OwnInv, InCall
<1>4. IInv /\ OwnInv /\ [Next]_vars /\ IInv' => OwnInv'
  BY OwnStep
<1> QED
  BY <1>1, <1>2, <1>3, <1>4, Inductive, PTL DEF Spec, CallIsOneExchange, Contract!Spec
=============================================================================
