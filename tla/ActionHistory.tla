--------------------------- MODULE ActionHistory ---------------------------
(***************************************************************************)
(* The Snapshot panel's action history: rows read with get_action_history  *)
(* when an event says that an action was executed, and once a second.      *)
(*                                                                         *)
(* The panel has no eye for the process: the rows stay over an attach, and *)
(* in the frame of an attach the shared client still talks to the process  *)
(* before.                                                                 *)
(***************************************************************************)
EXTENDS Integers

CONSTANTS Pids, NoPid,
          MaxActions        \* bound: actions an agent executes

VARIABLES
    ui,                     \* place in the frame
    session, client,        \* process attached to; process App::rpc talks to
    executed,               \* agents: actions in their logs
    arrived,                \* an action_executed event no scan has passed
    primedSeq, rows         \* rows: which log they are of, up to where, whole or cut short

agentVars == <<executed, arrived>>
ownVars   == <<session, client, agentVars, primedSeq, rows>>
vars      == <<ui, ownVars>>

NoRows == [of |-> NoPid, upTo |-> 0, whole |-> TRUE]
Log(p) == [of |-> p, upTo |-> executed[p], whole |-> TRUE]

TypeOK ==
    /\ ui \in {"update", "attach", "panel", "fetch"}
    /\ {session, client} \subseteq Pids \cup {NoPid}
    /\ executed \in [Pids -> 0..MaxActions]
    /\ {arrived, primedSeq} \subseteq BOOLEAN
    /\ rows \in [of : Pids \cup {NoPid}, upTo : 0..MaxActions, whole : BOOLEAN]

Init ==
    /\ ui = "update" /\ session = NoPid /\ client = NoPid
    /\ executed = [p \in Pids |-> 0] /\ arrived = FALSE
    /\ primedSeq = FALSE /\ rows = NoRows

\* The event may be dropped on its way, or be of a process nobody is attached to.
AgentActs ==
    /\ \E p \in Pids :
          executed[p] < MaxActions /\ executed' = [executed EXCEPT ![p] = @ + 1]
    /\ arrived' \in {arrived, TRUE}
    /\ UNCHANGED <<ui, session, client, primedSeq, rows>>

UpdateRpcConnection ==
    /\ ui = "update" /\ ui' = "attach"
    /\ client' \in {session, NoPid}
    /\ UNCHANGED <<session, agentVars, primedSeq, rows>>

\* The Attach panel, and the panels drawn before this one: a call of theirs may break the pipe.
EarlierPanels ==
    /\ ui = "attach" /\ ui' = "panel"
    /\ session' \in Pids \cup {NoPid} /\ client' \in {client, NoPid}
    /\ UNCHANGED <<agentVars, primedSeq, rows>>

Skipped == ui = "panel" /\ ui' = "update" /\ UNCHANGED ownVars

\* Fault: only an event makes a fetch due.
UpdateActionHistoryOnEvent(timer) ==
    /\ ui = "panel" /\ session # NoPid
    /\ primedSeq' = TRUE /\ arrived' = FALSE
    /\ ui' = IF primedSeq /\ arrived /\ client # NoPid THEN "fetch" ELSE "update"
    /\ UNCHANGED <<session, client, executed, rows>>

\* The first scan only notes where the backlog ends.  What is due is used up, connected or not.
UpdateActionHistory(timer) ==
    /\ ui = "panel" /\ session # NoPid
    /\ primedSeq' = TRUE /\ arrived' = FALSE
    /\ ui' = IF (timer \/ (primedSeq /\ arrived)) /\ client # NoPid THEN "fetch" ELSE "update"
    /\ UNCHANGED <<session, client, executed, rows>>

\* A row that does not decode ends the list; a call that fails leaves the rows there are.
FetchActionHistory ==
    /\ ui = "fetch" /\ ui' = "update"
    /\ \/ rows' \in {Log(client), [Log(client) EXCEPT !.whole = FALSE]} /\ UNCHANGED client
       \/ client' \in {client, NoPid} /\ UNCHANGED rows
    /\ UNCHANGED <<session, agentVars, primedSeq>>

Frame ==
    \/ UpdateRpcConnection \/ EarlierPanels \/ Skipped
    \/ \E timer \in BOOLEAN : UpdateActionHistory(timer)
    \/ FetchActionHistory

Next == AgentActs \/ Frame

Spec == Init /\ [][Next]_vars

\* Frames go on, and the second of a panel that is drawn runs out again and again.
Fairness == WF_vars(Frame) /\ SF_vars(UpdateActionHistory(TRUE))

FairSpec == Spec /\ Fairness

\* Nothing is executed, the attach and the pipe hold, and calls are answered whole.
Calm ==
    /\ UNCHANGED <<session, executed>> /\ session # NoPid /\ client' = session
    /\ ui = "fetch" => rows' = Log(client)

\* The history comes to be the whole log of the process attached to: after the rows of the
\* one before, a reply cut short, or an event that was dropped (UpdateActionHistory).
HistorySettles == <>[][Calm]_vars => <>[](session # NoPid => rows = Log(session))
=============================================================================
