----------------------------- MODULE RpcConsole -----------------------------
(***************************************************************************)
(* The RPC console: a client of its own, the agent's list of methods, a    *)
(* selection in it, and a history of calls.                                *)
(*                                                                         *)
(* Each drawn frame it makes its client match the attached process, reads  *)
(* the method list when that is dirty, and then takes a click in each of   *)
(* its cards.  A call blocks the frame; one that breaks or is late closes  *)
(* the client.                                                             *)
(***************************************************************************)
EXTENDS Integers, Sequences

CONSTANTS
    Pids, NoPid,     \* agents' processes; NoPid: nothing is attached (pid 0)
    Methods,         \* the method names each agent answers rpc.list_methods with
    HistoryCap       \* kHistoryCap (64)


VARIABLES
    ui,                  \* place in the frame
    attached,            \* App::session's pid
    linked,              \* the console's client holds a pipe
    lastAttachedPid,
    names, dirty,        \* MethodList
    cut,                 \* history: the list answered last ended at an item that is no string
    selectedIdx,         \* an index into names, 0 when nothing was selected
    calls                \* history: newest first; "of" is the process that answered

ownVars == <<attached, linked, lastAttachedPid, names, dirty, cut, selectedIdx, calls>>
vars == <<ui, ownVars>>

Places == {"update", "console", "list", "status", "methods", "call"}
Status == {"ok", "herr", "proto", "timeout"}

MethodNames == UNION {{Methods[p][i] : i \in DOMAIN Methods[p]} : p \in Pids}

TypeOK ==
    /\ ui \in Places /\ attached \in Pids \cup {NoPid} /\ lastAttachedPid \in Pids \cup {NoPid}
    /\ linked \in BOOLEAN /\ dirty \in BOOLEAN /\ cut \in BOOLEAN
    /\ names \in Seq(MethodNames) /\ selectedIdx \in Nat
    /\ calls \in Seq([method : MethodNames, status : Status, of : Pids])
    /\ Len(calls) <= HistoryCap

Init ==
    /\ ui = "update" /\ attached = NoPid /\ lastAttachedPid = NoPid
    /\ linked = FALSE /\ names = << >> /\ dirty = TRUE /\ cut = FALSE
    /\ selectedIdx = 0 /\ calls = << >>

\* Between two frames of the console the Attach panel may attach or detach.
Update ==
    /\ ui = "update" /\ ui' = "console"
    /\ attached' \in Pids \cup {NoPid}
    /\ UNCHANGED <<linked, lastAttachedPid, names, dirty, cut, selectedIdx, calls>>

Collapsed ==
    /\ ui = "console" /\ ui' = "update"
    /\ UNCHANGED <<attached, linked, lastAttachedPid, names, dirty, cut, selectedIdx, calls>>

\* Fault: only the client is renewed when another process is attached.
EnsureConnectionOnly ==
    /\ ui = "console" /\ ui' = "list"
    /\ lastAttachedPid' = attached
    /\ LET kept == linked /\ attached = lastAttachedPid
       IN  /\ linked' \in IF attached = NoPid THEN {FALSE} ELSE IF kept THEN {TRUE} ELSE BOOLEAN
           /\ dirty' = (dirty \/ (linked' /\ ~kept))
    /\ UNCHANGED <<attached, names, cut, calls, selectedIdx>>

EnsureConnection ==
    /\ ui = "console" /\ ui' = "list"
    /\ lastAttachedPid' = attached
    /\ LET moved == attached # lastAttachedPid
           kept == linked /\ ~moved
       IN  /\ names' = IF moved THEN << >> ELSE names
           /\ calls' = IF moved THEN << >> ELSE calls
           /\ linked' \in IF attached = NoPid THEN {FALSE} ELSE IF kept THEN {TRUE} ELSE BOOLEAN
           /\ dirty' = (dirty \/ moved \/ (linked' /\ ~kept))
    /\ UNCHANGED <<attached, cut, selectedIdx>>

\* A list ends at the first item that is no string, be it the first of all, and counts as
\* the whole list: it is not asked for again.
ListAnswers ==
    /\ \E n \in 0..Len(Methods[attached]) :
          names' = SubSeq(Methods[attached], 1, n) /\ cut' = (n < Len(Methods[attached]))
    /\ dirty' = FALSE /\ UNCHANGED linked

\* Fault: a list that failed is not asked for again.
ListFailsOnce == names' = << >> /\ dirty' = FALSE /\ linked' \in BOOLEAN /\ UNCHANGED cut

\* Refused, unusable, or the pipe broke: try again later.
ListFails == names' = << >> /\ dirty' = TRUE /\ linked' \in BOOLEAN /\ UNCHANGED cut

RefreshMethodList ==
    /\ ui = "list" /\ ui' = "status"
    /\ IF linked /\ dirty THEN ListAnswers \/ ListFails ELSE UNCHANGED <<names, dirty, cut, linked>>
    /\ UNCHANGED <<attached, lastAttachedPid, selectedIdx, calls>>

(***************************************************************************)
(* The cards.                                                              *)
(***************************************************************************)
Retry ==
    /\ ~linked /\ attached # NoPid
    /\ linked' \in BOOLEAN /\ dirty' = (dirty \/ linked')

RefreshMethods == linked /\ dirty' = TRUE /\ UNCHANGED linked

Disconnect == linked /\ linked' = FALSE /\ UNCHANGED dirty

StatusCard ==
    /\ ui = "status" /\ ui' = "methods"
    /\ Retry \/ RefreshMethods \/ Disconnect \/ UNCHANGED <<linked, dirty>>
    /\ UNCHANGED <<attached, lastAttachedPid, names, cut, selectedIdx, calls>>

\* An index is kept, whatever list stands behind it later.
MethodList ==
    /\ ui = "methods" /\ ui' = "call"
    /\ selectedIdx' \in {selectedIdx} \cup DOMAIN names
    /\ UNCHANGED <<attached, linked, lastAttachedPid, names, dirty, cut, calls>>

PushHistory(entry) ==
    calls' = SubSeq(<<entry>> \o calls, 1,
                    IF Len(calls) < HistoryCap THEN Len(calls) + 1 ELSE HistoryCap)

Call ==
    /\ ui = "call" /\ ui' = "update"
    /\ linked /\ selectedIdx \in DOMAIN names
    /\ \E s \in Status :
          /\ PushHistory([method |-> names[selectedIdx], status |-> s, of |-> lastAttachedPid])
          /\ linked' = (s # "timeout")
    /\ UNCHANGED <<attached, lastAttachedPid, names, dirty, cut, selectedIdx>>

NoCall ==
    /\ ui = "call" /\ ui' = "update"
    /\ UNCHANGED <<attached, linked, lastAttachedPid, names, dirty, cut, selectedIdx, calls>>

DrawRpcConsole ==
    EnsureConnection \/ RefreshMethodList \/ StatusCard \/ MethodList \/ Call \/ NoCall

Next == Update \/ Collapsed \/ DrawRpcConsole

Spec == Init /\ [][Next]_vars

\* Frames go on, and the console is drawn again and again.
Fairness == WF_vars(Next) /\ SF_vars(EnsureConnection)

FairSpec == Spec /\ Fairness

(***************************************************************************)
(* Properties.                                                             *)
(***************************************************************************)
\* The methods listed and the answers shown are those of the process the console was last
\* matched to, through any attaches while it was collapsed (EnsureConnection).
ConsoleIsOfOneProcess ==
    /\ names # << >> => /\ lastAttachedPid # NoPid
                        /\ names = SubSeq(Methods[lastAttachedPid], 1, Len(names))
    /\ \A i \in DOMAIN calls : calls[i].of = lastAttachedPid

\* The process stays attached, connects, and answers with the list it has.
ListAnswered ==
    /\ UNCHANGED attached /\ attached # NoPid
    /\ ui = "console" /\ ui' = "list" => linked'
    /\ ui = "list" /\ linked /\ dirty => names' = Methods[attached]

\* However often the list failed before, once the agent answers the console shows its
\* methods in every frame, whatever is clicked (RefreshMethodList, EnsureConnection).  The
\* code makes one exception, which is stated with it: a list that ended at a bad item, even
\* before its first name, is taken for whole and stays as it is.
ListedAtLast ==
    <>[][ListAnswered]_vars
        => <>[](ui = "call" /\ attached # NoPid => names = Methods[attached] \/ cut)
=============================================================================
