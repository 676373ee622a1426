------------------------------ MODULE TapRows ------------------------------
(***************************************************************************)
(* What the two panels that subscribe to pushes do with them: the RPC tap  *)
(* panel its ring of calls and the call picked from it, the Script context *)
(* panel its rings of states and traces and its table of annotations.      *)
(*                                                                         *)
(* The reader thread adds rows between any two steps of the frame; each    *)
(* access is under the panel's mutex and so a step.  TapLink has the       *)
(* connection below; here a callback is registered or not, and a pid that  *)
(* changes or a connection made again takes it away.                       *)
(***************************************************************************)
EXTENDS Integers, Sequences

CONSTANTS
    Pids, NoPid,
    NoteKeys, None,     \* (script, key) pairs of annotations
    RowCap,             \* kRingCap, kStateRingCap, kTraceRingCap
    MaxPayloads         \* bound: payloads pushed

VARIABLES
    ui, topic,                     \* place in the frame; which of the two panels
    tapPid, tapUp,                 \* App::tapConnectedPid, TapClient::IsConnected
    registered,                    \* the panel's callback is in TapClient's registry
    lastSubscribedPid, paused,
    kept,                          \* ring, states, traces
    annotations, totalReceived,
    selectedRow, detail,           \* 0: no row; the call rendered below the table
    sent,                          \* payloads pushed so far
    slid,                          \* history: rows dropped in front of the selected one
    latest, missed                 \* history: last value of each key; keys one was dropped of

linkVars == <<tapPid, tapUp, registered>>
pickVars == <<selectedRow, detail, slid>>
noteVars == <<annotations, totalReceived, latest, missed>>
ownVars  == <<linkVars, topic, lastSubscribedPid, paused, kept, pickVars, noteVars, sent>>
vars     == <<ui, ownVars>>

Kinds   == {"call", "state", "trace"}
Entry   == [of : Pids, n : 1..MaxPayloads]
NoRows  == [k \in Kinds |-> << >>]
NoNotes == [k \in NoteKeys |-> None]

TypeOK ==
    /\ ui \in {"update", "panel", "bar", "rows"} /\ topic \in {"rpc.tap", "script.context"}
    /\ {tapPid, lastSubscribedPid} \subseteq Pids \cup {NoPid}
    /\ {tapUp, registered, paused} \subseteq BOOLEAN
    /\ kept \in [Kinds -> Seq(Entry)] /\ \A k \in Kinds : Len(kept[k]) <= RowCap
    /\ annotations \in [NoteKeys -> Entry \cup {None}] /\ latest \in [NoteKeys -> Entry \cup {None}]
    /\ missed \subseteq NoteKeys /\ totalReceived \in 0..MaxPayloads /\ sent \in 0..MaxPayloads
    /\ selectedRow \in 0..RowCap /\ slid \in 0..MaxPayloads /\ detail \in Entry \cup {None}

Init ==
    /\ ui = "update" /\ topic \in {"rpc.tap", "script.context"}
    /\ tapPid = NoPid /\ tapUp = FALSE /\ registered = FALSE
    /\ lastSubscribedPid = NoPid /\ paused = FALSE
    /\ kept = NoRows /\ annotations = NoNotes /\ totalReceived = 0
    /\ selectedRow = 0 /\ detail = None /\ sent = 0
    /\ slid = 0 /\ latest = NoNotes /\ missed = {}

(***************************************************************************)
(* The reader thread: OnTap and OnPayload.                                 *)
(***************************************************************************)
Arrived == [of |-> tapPid, n |-> sent + 1]

Push(k) ==
    kept' = [kept EXCEPT ![k] = Append(IF Len(@) >= RowCap THEN Tail(@) ELSE @, Arrived)]

OnTap ==
    /\ topic = "rpc.tap" /\ UNCHANGED noteVars
    /\ IF paused THEN UNCHANGED <<kept, slid>>
       ELSE /\ Push("call")
            /\ slid' = IF selectedRow # 0 /\ Len(kept["call"]) >= RowCap THEN slid + 1 ELSE slid

\* State transitions and traces make rows.
OnRow ==
    /\ topic = "script.context" /\ totalReceived' = totalReceived + 1
    /\ IF paused THEN UNCHANGED kept ELSE \E k \in {"state", "trace"} : Push(k)
    /\ UNCHANGED <<slid, annotations, latest, missed>>

\* An annotation replaces the value its key has.
OnAnnotation ==
    /\ topic = "script.context" /\ totalReceived' = totalReceived + 1
    /\ \E k \in NoteKeys :
          /\ latest' = [latest EXCEPT ![k] = Arrived]
          /\ IF paused
             THEN missed' = missed \cup {k} /\ UNCHANGED annotations
             ELSE missed' = missed \ {k} /\ annotations' = [annotations EXCEPT ![k] = Arrived]
    /\ UNCHANGED <<slid, kept>>

Receive ==
    /\ registered /\ sent < MaxPayloads /\ sent' = sent + 1
    /\ OnTap \/ OnRow \/ OnAnnotation
    /\ UNCHANGED <<ui, linkVars, topic, lastSubscribedPid, paused, selectedRow, detail>>

(***************************************************************************)
(* The frame.                                                              *)
(***************************************************************************)
\* UpdateTapConnection: another process, or the same one again, or a refusal.
UpdateTapConnection ==
    /\ ui = "update" /\ ui' = "panel"
    /\ \/ UNCHANGED linkVars
       \/ tapPid' \in (Pids \cup {NoPid}) \ {tapPid} /\ registered' = FALSE
          /\ tapUp' \in (IF tapPid' = NoPid THEN {FALSE} ELSE BOOLEAN)
       \/ tapPid # NoPid /\ ~tapUp /\ tapUp' = TRUE /\ UNCHANGED <<tapPid, registered>>
    /\ UNCHANGED <<topic, lastSubscribedPid, paused, kept, pickVars, noteVars, sent>>

Collapsed == ui = "panel" /\ ui' = "update" /\ UNCHANGED ownVars

Unpick == selectedRow' = 0 /\ detail' = None /\ slid' = 0

ForgetNotes == annotations' = NoNotes /\ latest' = NoNotes /\ missed' = {}

\* Fault: the annotations of the last process stay.
EnsureSubscriptionKeeps ==
    /\ ui = "panel" /\ ui' = "bar"
    /\ IF tapPid = lastSubscribedPid
       THEN UNCHANGED <<registered, lastSubscribedPid, kept, pickVars, noteVars>>
       ELSE /\ kept' = NoRows /\ Unpick /\ totalReceived' = 0
            /\ lastSubscribedPid' = tapPid /\ registered' = tapUp
            /\ UNCHANGED <<annotations, latest, missed>>
    /\ UNCHANGED <<tapPid, tapUp, topic, paused, sent>>

\* The rows go with the process; a callback is registered if the connection is up by now.
EnsureSubscription ==
    /\ ui = "panel" /\ ui' = "bar"
    /\ IF tapPid = lastSubscribedPid
       THEN UNCHANGED <<registered, lastSubscribedPid, kept, pickVars, noteVars>>
       ELSE /\ kept' = NoRows /\ Unpick /\ ForgetNotes /\ totalReceived' = 0
            /\ lastSubscribedPid' = tapPid /\ registered' = tapUp
    /\ UNCHANGED <<tapPid, tapUp, topic, paused, sent>>

\* The pause switch, or Clear, which leaves the total alone.
DrawControlBar ==
    /\ ui = "bar" /\ ui' = "rows"
    /\ \/ UNCHANGED <<paused, kept, pickVars, noteVars>>
       \/ paused' = ~paused /\ UNCHANGED <<kept, pickVars, noteVars>>
       \/ kept' = NoRows /\ Unpick /\ ForgetNotes /\ UNCHANGED <<paused, totalReceived>>
    /\ UNCHANGED <<linkVars, topic, lastSubscribedPid, sent>>

\* A click on a row renders its call; the filter may leave any rows out.
DrawTable ==
    /\ ui = "rows" /\ ui' = "update"
    /\ \/ UNCHANGED pickVars
       \/ \E i \in DOMAIN kept["call"] :
             selectedRow' = i /\ detail' = kept["call"][i] /\ slid' = 0
    /\ UNCHANGED <<linkVars, topic, lastSubscribedPid, paused, kept, noteVars, sent>>

Next ==
    \/ Receive
    \/ UpdateTapConnection \/ Collapsed \/ EnsureSubscription \/ DrawControlBar \/ DrawTable

Spec == Init /\ [][Next]_vars

(***************************************************************************)
(* Properties.                                                             *)
(***************************************************************************)
\* Everything a panel shows was pushed by the process it was last matched to.
ShownIsOfOnePid ==
    /\ \A k \in Kinds : \A i \in DOMAIN kept[k] : kept[k][i].of = lastSubscribedPid
    /\ \A k \in NoteKeys : annotations[k] # None => annotations[k].of = lastSubscribedPid
    /\ detail # None => detail.of = lastSubscribedPid

\* The call below the table is the one that was picked: it stands as many rows above the
\* highlighted one as the reader has dropped since, if it is there still.
DetailIsOfRow ==
    /\ selectedRow = 0 <=> detail = None
    /\ selectedRow > slid => /\ selectedRow - slid \in DOMAIN kept["call"]
                             /\ detail = kept["call"][selectedRow - slid]

\* An annotation is its key's current value, unless one came while the panel was paused.
AnnotationIsCurrent == \A k \in NoteKeys \ missed : annotations[k] = latest[k]

\* Rows of one process, a detail of the row it was picked from, and current annotations,
\* however the reader's payloads fall between a frame's steps (EnsureSubscription, OnTap,
\* OnPayload, DrawControlBar, DrawTable).
TapRowsAgree == ShownIsOfOnePid /\ DetailIsOfRow /\ AnnotationIsCurrent
=============================================================================
