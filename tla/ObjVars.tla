------------------------------ MODULE ObjVars ------------------------------
(***************************************************************************)
(* The Inventory panel's object variables: read with one blocking call per *)
(* container, when an event says that some changed and once a second.      *)
(*                                                                         *)
(* The loop over the containers reads the list from the live mapping       *)
(* around its calls, so the agent may have replaced it half way.  What one *)
(* fetch misses the next one must bring.                                   *)
(***************************************************************************)
EXTENDS Integers, Sequences

CONSTANTS
    Invs,        \* container ids
    Values, None \* the variables a container's slots may carry; None: none yet

VARIABLES
    ui,                        \* place in the frame
    attached, connected,       \* a snapshot is mapped; App::rpc holds a pipe
    containers, carried,       \* agent: open containers, in order, and what they carry
    posted,                    \* an obj var event in the backlog that no scan has passed
    showObjVars, objDirty, objPrimedSeq,
    at,                        \* FetchObjVars' i
    objVars                    \* container -> what was fetched

ownVars == <<attached, connected, containers, carried, posted, showObjVars, objDirty,
             objPrimedSeq, at, objVars>>
vars == <<ui, ownVars>>

Cut == "cut"             \* a reply whose decoding ended early
Empty == [i \in {} |-> Cut]

\* The lists the snapshot may show: every container at most once.
Lists == {l \in UNION {[1..n -> Invs] : n \in 0..2} :
             \A i, j \in DOMAIN l : l[i] = l[j] => i = j}

TypeOK ==
    /\ ui \in {"update", "panel", "vars", "fetch"}
    /\ \A b \in {attached, connected, posted, showObjVars, objDirty, objPrimedSeq} : b \in BOOLEAN
    /\ containers \in Lists /\ carried \in [Invs -> Values \cup {None}] /\ at \in 0..3
    /\ DOMAIN objVars \subseteq Invs /\ \A i \in DOMAIN objVars : objVars[i] \in Values \cup {None, Cut}

Init ==
    /\ ui = "update" /\ attached = FALSE /\ connected = FALSE
    /\ containers = << >> /\ carried = [i \in Invs |-> None] /\ posted = FALSE
    /\ showObjVars = FALSE /\ objDirty = FALSE /\ objPrimedSeq = FALSE
    /\ at = 0 /\ objVars = Empty

panelVars == <<showObjVars, objDirty, objPrimedSeq, at, objVars>>

\* Publishes come at any time; an event may come with one, or be dropped on the way.
AgentPublishes ==
    /\ \/ containers' \in Lists /\ UNCHANGED carried
       \/ \E i \in Invs, v \in Values : carried' = [carried EXCEPT ![i] = v] /\ UNCHANGED containers
    /\ posted' \in {posted, TRUE}
    /\ UNCHANGED <<ui, attached, connected, panelVars>>

\* App::Update: attaches, detaches, the connection; the panel keeps all it has.
Update ==
    /\ ui = "update" /\ ui' = "panel"
    /\ attached' \in BOOLEAN /\ connected' \in BOOLEAN
    /\ UNCHANGED <<containers, carried, posted, panelVars>>

Skipped ==
    /\ ui = "panel" /\ ui' = "update"                \* collapsed, or nothing is attached
    /\ UNCHANGED ownVars

DrawToolbar ==
    /\ ui = "panel" /\ attached /\ ui' = "vars"
    /\ \/ showObjVars' = ~showObjVars /\ objDirty' = TRUE
       \/ UNCHANGED <<showObjVars, objDirty>>
    /\ UNCHANGED <<attached, connected, containers, carried, posted, objPrimedSeq, at, objVars>>

HideObjVars ==
    /\ ui = "vars" /\ ~showObjVars /\ ui' = "update"
    /\ objVars' = Empty
    /\ UNCHANGED <<attached, connected, containers, carried, posted, showObjVars, objDirty,
                   objPrimedSeq, at>>

\* Fault: only an event makes a fetch due.
UpdateObjVarsOnEvent(timer) ==
    /\ ui = "vars" /\ showObjVars
    /\ objPrimedSeq' = TRUE /\ posted' = FALSE
    /\ LET due == objDirty \/ (objPrimedSeq /\ posted)
       IN  /\ objDirty' = FALSE
           /\ IF due /\ connected
              THEN objVars' = Empty /\ at' = 1 /\ ui' = "fetch"
              ELSE ui' = "update" /\ UNCHANGED <<objVars, at>>
    /\ UNCHANGED <<attached, connected, containers, carried, showObjVars>>

\* The first scan only notes where the backlog ends.  What is due is used up, connected or not.
UpdateObjVars(timer) ==
    /\ ui = "vars" /\ showObjVars
    /\ objPrimedSeq' = TRUE /\ posted' = FALSE
    /\ LET due == objDirty \/ (objPrimedSeq /\ posted) \/ timer
       IN  /\ objDirty' = FALSE
           /\ IF due /\ connected
              THEN objVars' = Empty /\ at' = 1 /\ ui' = "fetch"
              ELSE ui' = "update" /\ UNCHANGED <<objVars, at>>
    /\ UNCHANGED <<attached, connected, containers, carried, showObjVars>>

\* DecodeObjVars: slots that carry nothing are left out; a bad item ends a slot's list.
Answer(inv) == {carried[inv], Cut}

Store(inv, v) == objVars' = [i \in DOMAIN objVars \cup {inv} |-> IF i = inv THEN v ELSE objVars[i]]

\* One turn of FetchObjVars' loop, over the list as it stands now.
FetchObjVars ==
    /\ ui = "fetch"
    /\ IF at > Len(containers)
       THEN ui' = "update" /\ at' = 0 /\ UNCHANGED <<objVars, connected>>
       ELSE /\ at' = at + 1 /\ UNCHANGED ui
            /\ \/ connected /\ (\E v \in Answer(containers[at]) : Store(containers[at], v))
                  /\ UNCHANGED connected
               \/ connected' \in {connected, FALSE} /\ UNCHANGED objVars      \* the call failed
    /\ UNCHANGED <<attached, containers, carried, posted, showObjVars, objDirty, objPrimedSeq>>

Frame ==
    \/ Update \/ Skipped \/ DrawToolbar \/ HideObjVars
    \/ \E timer \in BOOLEAN : UpdateObjVars(timer)
    \/ FetchObjVars

Next == AgentPublishes \/ Frame

Spec == Init /\ [][Next]_vars

\* Frames go on, the panel is drawn, and its second runs out again and again.
Fairness == WF_vars(Frame) /\ SF_vars(DrawToolbar) /\ SF_vars(UpdateObjVars(TRUE))

FairSpec == Spec /\ Fairness

\* The inventories stay, the session and the pipe hold, and calls are answered whole.
Calm ==
    /\ UNCHANGED <<containers, carried, showObjVars>>
    /\ attached' /\ connected'
    /\ ui = "fetch" /\ at <= Len(containers)
          => LET inv == containers[at] IN inv \in DOMAIN objVars' /\ objVars'[inv] = carried[inv]

\* Whatever was missed, cut or read while the list moved, the variables shown come to be
\* those of the open containers and of nothing else, also when the event that should have
\* told was dropped (UpdateObjVars, FetchObjVars).
ObjVarsSettle ==
    <>[][Calm /\ showObjVars]_vars
        => <>[](ui = "panel" => objVars = [i \in {containers[n] : n \in DOMAIN containers} |-> carried[i]])
=============================================================================
