------------------------------ MODULE RpcLink ------------------------------
(***************************************************************************)
(* The request/reply connection every panel shares: RpcClient (Connect,    *)
(* Disconnect, Call) and App::UpdateRpcConnection, which matches it to the *)
(* attached process once a frame.  All of it runs on the UI thread; what   *)
(* it races with is the agent, external, at the other end of the pipe.     *)
(*                                                                         *)
(* The pipe is a byte stream.  A reply is two pieces of it, the length     *)
(* prefix and the body, written and read apart, so a call can be left with *)
(* half a reply.  A deadline is a choice: any wait may run out.            *)
(***************************************************************************)
EXTENDS Integers, Sequences

CONSTANTS
    Pids,       \* processes the debugger can attach to
    NoPid,      \* the pid 0 of the code
    PipeSlots,  \* kPipeMaxInstances (4): clients one agent serves at a time
    MaxCalls    \* bound: calls in a behaviour

ASSUME PidAssumption == NoPid \notin Pids
ASSUME SlotsAssumption == PipeSlots \in Nat \ {0}
ASSUME CallsAssumption == MaxCalls \in Nat

VARIABLES
    session, rpcPid,        \* pid of the SHM session; App::rpcConnectedPid
    ui, id,                 \* UI thread: place in the frame; id of the running call
    pipe, nextId, status,   \* RpcClient: pid pipe_ is open to, nextId_, lastStatus_
    req, rep, owes, broken, \* the connection: requests not taken up, bytes not read,
                            \* body the agent still has to write, far end gone
    up, held, closed, other \* each agent: running; instances held by us, closed
                            \* by us and not recycled yet, taken by other clients

appVars    == <<session, rpcPid>>
clientVars == <<pipe, nextId, status>>
connVars   == <<req, rep, owes, broken>>
agentVars  == <<up, held, closed, other>>
vars == <<appVars, ui, id, clientVars, connVars, agentVars>>

Kinds  == {"result", "error", "noId", "garbled"}       \* what a body can be
Pieces == [part : {"len", "badLen"}, id : Nat, kind : Kinds] \cup
          [part : {"body"}, id : Nat, kind : Kinds]

InCall == {"write", "readLen", "readBody"}      \* the timed waits of a call

Used(p) == held[p] + closed[p] + other[p]

Init ==
    /\ session = NoPid /\ rpcPid = NoPid
    /\ ui = "update" /\ id = 0
    /\ pipe = NoPid /\ nextId = 1 /\ status = "Disconnected"
    /\ req = << >> /\ rep = << >> /\ owes = << >> /\ broken = FALSE
    /\ up \in [Pids -> BOOLEAN]
    /\ held = [p \in Pids |-> 0] /\ closed = [p \in Pids |-> 0] /\ other = [p \in Pids |-> 0]

(***************************************************************************)
(* RpcClient::Disconnect: whatever was under way on the pipe dies with it, *)
(* and the agent has an instance to recycle.                               *)
(***************************************************************************)
EmptyConnection == req' = << >> /\ rep' = << >> /\ owes' = << >> /\ broken' = FALSE

CloseHandle ==
    IF pipe # NoPid /\ ~broken
    THEN held' = [held EXCEPT ![pipe] = @ - 1] /\ closed' = [closed EXCEPT ![pipe] = @ + 1]
    ELSE UNCHANGED <<held, closed>>

Disconnect == pipe' = NoPid /\ EmptyConnection /\ CloseHandle

(***************************************************************************)
(* App::UpdateRpcConnection.                                               *)
(***************************************************************************)
KeepConnection ==
    /\ ui = "update"
    /\ session = rpcPid /\ (session = NoPid \/ pipe # NoPid)
    /\ ui' = "panels"
    /\ UNCHANGED <<appVars, id, clientVars, connVars, agentVars>>

\* Fault: the pid is noted and the open handle to the old one forgotten.
FollowSessionLeaking ==
    /\ ui = "update" /\ session # rpcPid
    /\ rpcPid' = session
    /\ pipe' = NoPid /\ EmptyConnection /\ status' = "Disconnected"
    /\ ui' = "connect"
    /\ UNCHANGED <<session, id, nextId, agentVars>>

FollowSession ==
    /\ ui = "update" /\ session # rpcPid
    /\ rpcPid' = session
    /\ Disconnect /\ status' = "Disconnected"
    /\ ui' = "connect"
    /\ UNCHANGED <<session, id, nextId, up, other>>

\* Fault: a lost connection is not looked for again.
RetryConnectionNever ==
    /\ ui = "update" /\ session = rpcPid /\ session # NoPid /\ pipe = NoPid
    /\ ui' = "panels"
    /\ UNCHANGED <<appVars, id, clientVars, connVars, agentVars>>

RetryConnection ==
    /\ ui = "update" /\ session = rpcPid /\ session # NoPid /\ pipe = NoPid
    /\ ui' = "connect"
    /\ UNCHANGED <<appVars, id, clientVars, connVars, agentVars>>

\* RpcClient::Connect; its own Disconnect finds nothing open here.
Connected ==
    /\ rpcPid # NoPid /\ up[rpcPid] /\ Used(rpcPid) < PipeSlots
    /\ pipe' = rpcPid /\ held' = [held EXCEPT ![rpcPid] = @ + 1] /\ status' = "Ok"

Refused ==
    /\ rpcPid # NoPid
    /\ ~up[rpcPid] \/ Used(rpcPid) >= PipeSlots
    /\ status' = IF up[rpcPid] THEN "Busy" ELSE "Disconnected"
    /\ UNCHANGED <<pipe, held>>

Connect ==
    /\ ui = "connect" /\ ui' = "panels"
    /\ Connected \/ Refused \/ (rpcPid = NoPid /\ UNCHANGED <<pipe, held, status>>)
    /\ UNCHANGED <<appVars, id, nextId, connVars, up, closed, other>>

(***************************************************************************)
(* The rest of the frame: the user attaches or detaches, panels call.      *)
(***************************************************************************)
Attach(p) ==
    /\ ui = "panels" /\ session' \in {p, NoPid}
    /\ UNCHANGED <<rpcPid, ui, id, clientVars, connVars, agentVars>>

Detach ==
    /\ ui = "panels" /\ session # NoPid /\ session' = NoPid
    /\ UNCHANGED <<rpcPid, ui, id, clientVars, connVars, agentVars>>

EndFrame ==
    /\ ui = "panels" /\ ui' = "update"
    /\ UNCHANGED <<appVars, id, clientVars, connVars, agentVars>>

(***************************************************************************)
(* RpcClient::Call.                                                        *)
(***************************************************************************)
Return(s) == ui' = "panels" /\ status' = s

\* A panel that goes on calling after a failed call (FetchObjVars) gets here.
CallUnconnected ==
    /\ ui = "panels" /\ pipe = NoPid
    /\ Return("Disconnected")
    /\ UNCHANGED <<appVars, id, pipe, nextId, connVars, agentVars>>

BeginCall ==
    /\ ui = "panels" /\ pipe # NoPid /\ nextId <= MaxCalls
    /\ ui' = "write" /\ id' = nextId /\ nextId' = nextId + 1
    /\ UNCHANGED <<appVars, pipe, status, connVars, agentVars>>

\* The envelope does not fit its buffer, or no event object is to be had.
CallUnsent ==
    /\ ui = "panels" /\ pipe # NoPid /\ nextId <= MaxCalls
    /\ nextId' = nextId + 1
    /\ \E s \in {"ProtocolError", "Disconnected"} : Return(s)
    /\ UNCHANGED <<appVars, id, pipe, connVars, agentVars>>

WriteRequest ==
    /\ ui = "write" /\ ~broken
    /\ req' = Append(req, id) /\ ui' = "readLen"
    /\ UNCHANGED <<appVars, id, clientVars, rep, owes, broken, agentVars>>

\* A wait that fails, be it that its deadline passed or that the far end is gone.
WriteFails ==
    /\ ui = "write"
    /\ Return("Disconnected")
    /\ Disconnect
    /\ UNCHANGED <<appVars, id, nextId, up, other>>

\* Fault: the deadline passes and the pipe stays open with a reply to come.
ReadFailsKeepingPipe ==
    /\ ui \in {"readLen", "readBody"}
    /\ Return("Timeout")
    /\ UNCHANGED <<appVars, id, pipe, nextId, connVars, agentVars>>

\* Fault: the wait has no deadline.
ReadFailsOnlyBroken ==
    /\ ui \in {"readLen", "readBody"}
    /\ broken /\ rep = << >> /\ Return("Timeout")
    /\ Disconnect
    /\ UNCHANGED <<appVars, id, nextId, up, other>>

ReadFails ==
    /\ ui \in {"readLen", "readBody"}
    /\ Return("Timeout")
    /\ Disconnect
    /\ UNCHANGED <<appVars, id, nextId, up, other>>

ReadLen ==
    /\ ui = "readLen" /\ rep # << >> /\ Head(rep).part = "len"
    /\ rep' = Tail(rep) /\ ui' = "readBody"
    /\ UNCHANGED <<appVars, id, clientVars, req, owes, broken, agentVars>>

\* Zero, or more than kMaxFrameBytes.
ReadBadLen ==
    /\ ui = "readLen" /\ rep # << >> /\ Head(rep).part = "badLen"
    /\ Return("ProtocolError")
    /\ Disconnect
    /\ UNCHANGED <<appVars, id, nextId, up, other>>

\* Fault: whose answer it is goes unasked.
OutcomeUnchecked(body) ==
    IF body.kind = "garbled" THEN "ProtocolError"
    ELSE IF body.kind = "error" THEN "HandlerError" ELSE "Ok"

\* What the parsed envelope makes of the call.
Outcome(body) ==
    IF body.kind = "garbled" \/ body.id # id THEN "ProtocolError"
    ELSE IF body.kind = "error" THEN "HandlerError" ELSE "Ok"

ReadBody ==
    /\ ui = "readBody" /\ rep # << >> /\ Head(rep).part = "body"
    /\ rep' = Tail(rep)
    /\ Return(Outcome(Head(rep)))
    /\ UNCHANGED <<appVars, id, pipe, nextId, req, owes, broken, agentVars>>

(***************************************************************************)
(* The agent (external): one reply per request, whatever it says, in two   *)
(* writes; it can stop with the reply half written, and start again.       *)
(***************************************************************************)
AgentReplies ==
    /\ ~broken /\ req # << >> /\ owes = << >>
    /\ req' = Tail(req)
    /\ \/ \E k \in Kinds :
            LET body == [part |-> "body", kind |-> k, id |-> IF k = "noId" THEN 0 ELSE Head(req)]
            IN  owes' = <<body>> /\ rep' = Append(rep, [body EXCEPT !.part = "len"])
       \/ /\ rep' = Append(rep, [part |-> "badLen", id |-> Head(req), kind |-> "garbled"])
          /\ UNCHANGED owes
    /\ UNCHANGED <<appVars, ui, id, clientVars, broken, agentVars>>

AgentFinishes ==
    /\ ~broken /\ owes # << >>
    /\ rep' = rep \o owes /\ owes' = << >>
    /\ UNCHANGED <<appVars, ui, id, clientVars, req, broken, agentVars>>

AgentStops(p) ==
    /\ up[p] /\ up' = [up EXCEPT ![p] = FALSE]
    /\ held' = [held EXCEPT ![p] = 0] /\ closed' = [closed EXCEPT ![p] = 0]
    /\ other' = [other EXCEPT ![p] = 0]
    /\ IF pipe = p
       THEN broken' = TRUE /\ req' = << >> /\ owes' = << >> /\ rep' \in {rep, << >>}
       ELSE UNCHANGED connVars
    /\ UNCHANGED <<appVars, ui, id, clientVars>>

AgentStarts(p) ==
    /\ ~up[p] /\ up' = [up EXCEPT ![p] = TRUE]
    /\ UNCHANGED <<appVars, ui, id, clientVars, connVars, held, closed, other>>

Recycle(p) ==
    /\ closed[p] > 0 /\ closed' = [closed EXCEPT ![p] = @ - 1]
    /\ UNCHANGED <<appVars, ui, id, clientVars, connVars, up, held, other>>

OtherClient(p) ==
    /\ up[p]
    /\ \/ Used(p) < PipeSlots /\ other' = [other EXCEPT ![p] = @ + 1]
       \/ other[p] > 0 /\ other' = [other EXCEPT ![p] = @ - 1]
    /\ UNCHANGED <<appVars, ui, id, clientVars, connVars, up, held, closed>>

-----------------------------------------------------------------------------
Call ==
    \/ WriteRequest \/ WriteFails
    \/ ReadLen \/ ReadBadLen \/ ReadBody \/ ReadFails

Frame == KeepConnection \/ FollowSession \/ RetryConnection \/ Connect \/ EndFrame

User == Detach \/ CallUnconnected \/ CallUnsent \/ BeginCall \/ \E p \in Pids : Attach(p)

Agent ==
    \/ AgentReplies \/ AgentFinishes
    \/ \E p \in Pids : AgentStops(p) \/ AgentStarts(p) \/ OtherClient(p)

Next == Call \/ Frame \/ User \/ Agent \/ \E p \in Pids : Recycle(p)

Spec == Init /\ [][Next]_vars

\* The frame loop and the deadlines of the UI thread, and a server that goes
\* back to listening on an instance its client has closed.
FairSpec ==
    /\ Spec
    /\ WF_vars(Call) /\ WF_vars(Frame)
    /\ \A p \in Pids : WF_vars(Recycle(p))

-----------------------------------------------------------------------------
(* Properties *)

Statuses == {"Ok", "Busy", "Disconnected", "Timeout", "ProtocolError", "HandlerError"}

\* Types of all variables; no agent ever serves more than PipeSlots clients.
TypeOK ==
    /\ session \in Pids \cup {NoPid} /\ rpcPid \in Pids \cup {NoPid}
    /\ ui \in {"update", "connect", "panels"} \cup InCall /\ id \in Nat
    /\ pipe \in Pids \cup {NoPid} /\ nextId \in Nat \ {0} /\ status \in Statuses
    /\ req \in Seq(Nat) /\ rep \in Seq(Pieces) /\ owes \in Seq(Pieces) /\ broken \in BOOLEAN
    /\ up \in [Pids -> BOOLEAN]
    /\ held \in [Pids -> Nat] /\ closed \in [Pids -> Nat] /\ other \in [Pids -> Nat]
    /\ \A p \in Pids : Used(p) <= PipeSlots

\* Between two calls the connection is empty: no request, no reply and no half
\* of one is left on it, so the first bytes a call reads are those of its own
\* reply.  Every way a call can end early closes the pipe; the ways that keep it
\* open have read the whole frame.
PipeIsInStep ==
    ui \notin InCall /\ pipe # NoPid => req = << >> /\ rep = << >> /\ owes = << >>

\* The debugger holds exactly the pipe instance its one open handle is for, and
\* none at any other agent: a timeout, a garbled reply or a switch of process
\* never leaves a slot of the few an agent has taken.
NoSlotIsLeaked ==
    \A p \in Pids : held[p] = IF pipe = p /\ ~broken THEN 1 ELSE 0

\* The running call as RpcCall sees it: how far it is, and what became of its
\* answer, whose last piece is with the agent, on the stream, or gone with them.
CallStage ==
    CASE ui = "write"                     -> "begun"
      [] ui \in {"readLen", "readBody"} -> "asked"
      [] OTHER                            -> "over"

CallReply ==
    CASE CallStage # "asked"                             -> "none"
      [] CallStage = "asked" /\ owes # << >>             -> owes[1].kind
      [] /\ CallStage = "asked" /\ owes = << >>
         /\ rep # << >> /\ rep[Len(rep)].part # "len"    -> rep[Len(rep)].kind
      [] OTHER                                           -> IF broken THEN "lost" ELSE "none"

Contract ==
    INSTANCE RpcCall WITH number <- id, stage <- CallStage, reply <- CallReply, verdict <- status

\* Two pieces of bytes, deadlines, half replies and agents that stop add up to
\* a call: "Ok" and "HandlerError" only ever report the answer to the request
\* this call wrote, never one an earlier call left behind, and an answer that
\* is not whole or not this call's is never taken for one.
CallIsOneExchange == Contract!Spec

\* A call blocks the frame loop; whatever the agent does with it, it returns.
CallReturns == (ui \in InCall) ~> (ui \notin InCall)

\* While a process stays attached, its agent runs and other clients leave a
\* slot, the shared client is connected again and again: it is never given up
\* after a refusal, a timeout or a broken pipe.
Reconnects ==
    \A p \in Pids :
        <>[](session = p /\ up[p] /\ other[p] < PipeSlots) => []<>(pipe = p)
=============================================================================
