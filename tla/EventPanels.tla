----------------------------- MODULE EventPanels -----------------------------
(***************************************************************************)
(* What becomes of events after the ring: App's backlog, filled once a     *)
(* frame and cut to a cap, and two of the panels that scan it, the Var     *)
(* Watcher (values of the client's variables, polled and by event) and the *)
(* Session panel (has the last token refresh failed).  A panel keeps the   *)
(* number of the last event it saw, from session to session, while every   *)
(* agent numbers its own events from 0.                                    *)
(*                                                                         *)
(* An event is its process and its number; what it was is in the agent's   *)
(* `log`.  The value of a variable is the number of changes of the log up  *)
(* to the last one of that variable, so that two values are never equal by *)
(* chance.  EventRing tells how events are lost before they get here.      *)
(***************************************************************************)
EXTENDS Naturals, Sequences, FiniteSetsExt

CONSTANTS
    Pids, NoPid,        \* processes to attach to, and the pid 0 of the code
    Polled, Unpolled,   \* watchable variables: with a read RPC, and without one
    Cap,                \* kEventBacklogCap
    MaxEvents,          \* bound: events the agents publish
    Layouts             \* bound: sets of panels a behaviour has in use

ASSUME PidAssumption == NoPid \notin Pids
ASSUME CapAssumption == Cap \in Nat \ {0}
ASSUME MaxAssumption == MaxEvents \in Nat
ASSUME LayoutAssumption == Layouts \subseteq SUBSET {"watch", "token"}

VARIABLES
    session, rpcTo, ui,         \* pid attached to; pid the shared client's pipe is
                                \* open to; place in the frame
    layout, shown,              \* panels in use, those of them open now
    at, ready,                  \* EventReader: next number, and is it primed
    backlog,                    \* App::eventBacklog
    lastSeen, primed,           \* each panel: lastSeenSeq, primedSeq
    scanned, from,              \* history of each panel: how much of the backlog it
                                \* has been through; process of its lastSeen
    watched, value,             \* Var Watcher: its rows, and what they show
    token, failed, refreshed,   \* Session panel: polled state, last event of each kind
    ending,                     \* history: kind of the last of those events it saw
    log, now, good              \* agents: events so far, values; are RPCs answered

frameVars  == <<session, rpcTo, layout, shown>>
readerVars == <<at, ready>>
scanVars   == <<lastSeen, primed, scanned, from>>
watchVars  == <<watched, value>>
tokenVars  == <<token, failed, refreshed, ending>>
panelVars  == <<scanVars, watchVars, tokenVars>>
agentVars  == <<log, now, good>>
vars == <<ui, frameVars, readerVars, backlog, panelVars, agentVars>>

Panels == {"watch", "token"}
Vars   == Polled \cup Unpolled
Endings == {"failed", "refreshed"}      \* kEventTokenRefreshFailed, kEventTokenRefreshed
Kinds  == Vars \cup Endings
KindsFor(w) == IF w = "watch" THEN Vars ELSE Endings

ASSUME KindsAssumption == Vars \cap Endings = {}

Event == [pid : Pids, seq : Nat]
Value == [pid : Pids, n : Nat]
NoEvent == [pid |-> NoPid, seq |-> 0]

KindOf(e) == log[e.pid][e.seq + 1]

Init ==
    /\ session = NoPid /\ rpcTo = NoPid /\ ui = "drain"
    /\ layout \in Layouts /\ shown = {}
    /\ at = 0 /\ ready = FALSE /\ backlog = << >>
    /\ lastSeen = [w \in Panels |-> 0] /\ primed = [w \in Panels |-> FALSE]
    /\ scanned = [w \in Panels |-> 0] /\ from = [w \in Panels |-> NoPid]
    /\ watched = {} /\ value = [x \in Vars |-> << >>]
    /\ token = "other" /\ failed = NoEvent /\ refreshed = NoEvent /\ ending = "none"
    /\ log = [p \in Pids |-> << >>] /\ now = [p \in Pids |-> [x \in Vars |-> 0]]
    /\ good \in BOOLEAN

(***************************************************************************)
(* App::DrainEvents.  The first drain of a session only primes the reader; *)
(* later ones hand over what was published since, some of it lost.         *)
(***************************************************************************)
Minus(n, k) == IF n > k THEN n - k ELSE 0

\* Fault: nothing is cut.
PushedUncut(s, e) == Append(s, e)

Pushed(s, e) == IF Len(s) < Cap THEN Append(s, e) ELSE Append(Tail(s), e)

PrimeReader ==
    /\ ui = "drain" /\ session # NoPid /\ ~ready
    /\ ready' = TRUE /\ at' = Len(log[session])
    /\ UNCHANGED <<ui, frameVars, backlog, panelVars, agentVars>>

Draining == ui = "drain" /\ session # NoPid /\ ready /\ at < Len(log[session])

DrainEvent ==
    /\ Draining
    /\ at' = at + 1 /\ backlog' = Pushed(backlog, [pid |-> session, seq |-> at])
    /\ scanned' = [w \in Panels |-> Minus(scanned[w], IF Len(backlog) < Cap THEN 0 ELSE 1)]
    /\ UNCHANGED <<ui, frameVars, ready, lastSeen, primed, from, watchVars, tokenVars, agentVars>>

LoseEvent ==
    /\ Draining
    /\ at' = at + 1
    /\ UNCHANGED <<ui, frameVars, ready, backlog, panelVars, agentVars>>

\* Paused, or all is drained.  UpdateRpcConnection follows in the frame.
EndDrain ==
    /\ ui = "drain" /\ ui' = "menu"
    /\ rpcTo' \in IF rpcTo = session THEN {rpcTo} ELSE IF good THEN {session} ELSE {session, NoPid}
    /\ UNCHANGED <<session, layout, shown, readerVars, backlog, panelVars, agentVars>>

(***************************************************************************)
(* The user: View menu, Attach panel, Events panel.                        *)
(***************************************************************************)
ResetReader == at' = 0 /\ ready' = FALSE

\* Session::Open may fail and leave the session closed.
Attach(p) ==
    /\ ui = "menu" /\ session' \in {p, NoPid} /\ ResetReader
    /\ UNCHANGED <<rpcTo, ui, layout, shown, backlog, panelVars, agentVars>>

Detach ==
    /\ ui = "menu" /\ session # NoPid /\ session' = NoPid /\ ResetReader
    /\ UNCHANGED <<rpcTo, ui, layout, shown, backlog, panelVars, agentVars>>

ToggleShown(w) ==
    /\ ui = "menu" /\ w \in layout
    /\ shown' = IF w \in shown THEN shown \ {w} ELSE shown \cup {w}
    /\ UNCHANGED <<session, rpcTo, ui, layout, readerVars, backlog, panelVars, agentVars>>

\* The Events panel is drawn before the two panels.
Clear ==
    /\ ui = "menu" /\ backlog # << >>
    /\ backlog' = << >> /\ scanned' = [w \in Panels |-> 0]
    /\ UNCHANGED <<ui, frameVars, readerVars, lastSeen, primed, from, watchVars, tokenVars, agentVars>>

BeginPanels ==
    /\ ui = "menu" /\ ui' = IF "watch" \in shown THEN "watch" ELSE "token"
    /\ UNCHANGED <<frameVars, readerVars, backlog, panelVars, agentVars>>

(***************************************************************************)
(* ScanEvents, the same in both panels.                                    *)
(***************************************************************************)

\* Fault: the last event seen is taken once more.
PickedAgain(w) == {i \in 1..Len(backlog) : primed[w] /\ backlog[i].seq >= lastSeen[w]}

\* Entries of the backlog this panel's scan would apply.
Picked(w) == {i \in 1..Len(backlog) : primed[w] /\ backlog[i].seq > lastSeen[w]}

\* Where in the backlog the last applied event of kind k is; 0, if there is none.
LastPicked(w, k, i) ==
    LET hits == {j \in Picked(w) : KindOf(backlog[j]) = k}
    IN  IF hits = {} THEN i = 0 ELSE i \in hits /\ \A j \in hits : j <= i

Remember(w) ==
    /\ primed' = [primed EXCEPT ![w] = TRUE]
    /\ scanned' = [scanned EXCEPT ![w] = Len(backlog)]
    /\ IF backlog = << >> THEN UNCHANGED <<lastSeen, from>>
       ELSE /\ lastSeen' = [lastSeen EXCEPT ![w] = backlog[Len(backlog)].seq]
            /\ from' = [from EXCEPT ![w] = backlog[Len(backlog)].pid]

(***************************************************************************)
(* Var Watcher.                                                            *)
(***************************************************************************)
ValueOf(e) == <<[pid |-> e.pid, n |-> e.seq + 1]>>

\* ApplyEvent for all of them: the last one of a variable stays.
ScanVars ==
    /\ ui = "watch" /\ ui' = "poll"
    /\ \E last \in [Vars -> 0..Len(backlog)] :
          /\ \A x \in Vars : LastPicked("watch", x, last[x])
          /\ value' = [x \in Vars |-> IF x \in watched /\ last[x] # 0
                                      THEN ValueOf(backlog[last[x]]) ELSE value[x]]
    /\ Remember("watch")
    /\ UNCHANGED <<frameVars, readerVars, backlog, watched, tokenVars, agentVars>>

CallFails == rpcTo # NoPid /\ ~good /\ rpcTo' \in {rpcTo, NoPid}

Fetched(x) == <<[pid |-> rpcTo, n |-> now[rpcTo][x]]>>

\* Fault: a row that shows a value already is not written.
AnsweredOnce(xs) ==
    value' = [x \in Vars |-> IF x \in xs /\ value[x] = << >> THEN Fetched(x) ELSE value[x]]

Answered(xs) == value' = [x \in Vars |-> IF x \in xs THEN Fetched(x) ELSE value[x]]

\* Poll, when the interval is over or "Poll now" was pressed.
PollVars ==
    /\ ui = "poll" /\ ui' = "rows" /\ rpcTo # NoPid
    /\ \/ good /\ Answered(watched \cap Polled) /\ UNCHANGED rpcTo
       \/ CallFails /\ \E xs \in SUBSET (watched \cap Polled) : Answered(xs)
    /\ UNCHANGED <<session, layout, shown, readerVars, backlog, scanVars, watched, tokenVars, agentVars>>

SkipPollVars ==     \* not due, or not connected
    /\ ui = "poll" /\ ui' = "rows"
    /\ UNCHANGED <<frameVars, readerVars, backlog, panelVars, agentVars>>

AddWatch(x) ==
    /\ ui = "rows" /\ x \notin watched /\ watched' = watched \cup {x}
    /\ UNCHANGED <<ui, frameVars, readerVars, backlog, scanVars, value, tokenVars, agentVars>>

RemoveWatch(x) ==
    /\ ui = "rows" /\ x \in watched
    /\ watched' = watched \ {x} /\ value' = [value EXCEPT ![x] = << >>]
    /\ UNCHANGED <<ui, frameVars, readerVars, backlog, scanVars, tokenVars, agentVars>>

EndWatch ==
    /\ ui = "rows" /\ ui' = "token"
    /\ UNCHANGED <<frameVars, readerVars, backlog, panelVars, agentVars>>

(***************************************************************************)
(* Session panel.                                                          *)
(***************************************************************************)
SkipToken ==
    /\ ui = "token" /\ "token" \notin shown /\ ui' = "drain"
    /\ UNCHANGED <<frameVars, readerVars, backlog, panelVars, agentVars>>

\* Fault: a refresh that succeeded leaves the failure standing.
ApplyTokenFailures(last) ==
    /\ failed' = IF last["failed"] = 0 THEN failed ELSE backlog[last["failed"]]
    /\ UNCHANGED refreshed

\* ApplyTokenEvent for all of them.
ApplyTokenEvents(last) ==
    /\ failed'    = IF last["failed"] = 0 THEN failed ELSE backlog[last["failed"]]
    /\ refreshed' = IF last["refreshed"] = 0 THEN refreshed ELSE backlog[last["refreshed"]]

ScanToken ==
    /\ ui = "token" /\ "token" \in shown /\ ui' = "pollToken"
    /\ \E last \in [Endings -> 0..Len(backlog)] :
          /\ \A k \in Endings : LastPicked("token", k, last[k])
          /\ ApplyTokenEvents(last)
          /\ ending' = IF last["failed"] = last["refreshed"] THEN ending
                       ELSE IF last["failed"] > last["refreshed"] THEN "failed" ELSE "refreshed"
    /\ Remember("token")
    /\ UNCHANGED <<frameVars, readerVars, backlog, watchVars, token, agentVars>>

\* Poll: without a connection there is no data; a failed call leaves the old.
PollToken ==
    /\ ui = "pollToken" /\ ui' = "drain"
    /\ \/ rpcTo = NoPid /\ token' = "other" /\ UNCHANGED rpcTo
       \/ rpcTo # NoPid /\ good /\ token' \in {"other", "settled"} /\ UNCHANGED rpcTo
       \/ CallFails /\ UNCHANGED token
       \/ rpcTo # NoPid /\ UNCHANGED <<rpcTo, token>>
    /\ UNCHANGED <<session, layout, shown, readerVars, backlog, scanVars, watchVars,
                   failed, refreshed, ending, agentVars>>

\* DeriveStatus: no data, disabled and refreshing ("other") come before a failure.
SaysFailed == token = "settled" /\ failed.seq > refreshed.seq /\ failed.seq # 0

(***************************************************************************)
(* Agents (external).                                                      *)
(***************************************************************************)
Publish(p, k) ==
    /\ k \in UNION {KindsFor(w) : w \in layout}
    /\ MapThenSumSet(LAMBDA q : Len(log[q]), Pids) < MaxEvents
    /\ log' = [log EXCEPT ![p] = Append(@, k)]
    /\ now' = IF k \in Vars THEN [now EXCEPT ![p][k] = Len(log[p]) + 1] ELSE now
    /\ UNCHANGED <<ui, frameVars, readerVars, backlog, panelVars, good>>

Answering ==
    /\ good' = ~good
    /\ UNCHANGED <<ui, frameVars, readerVars, backlog, panelVars, log, now>>

-----------------------------------------------------------------------------
Frame ==
    \/ PrimeReader \/ DrainEvent \/ LoseEvent \/ EndDrain \/ BeginPanels
    \/ ScanVars \/ PollVars \/ SkipPollVars \/ EndWatch
    \/ SkipToken \/ ScanToken \/ PollToken

User ==
    \/ Detach \/ Clear \/ (\E p \in Pids : Attach(p)) \/ (\E w \in Panels : ToggleShown(w))
    \/ \E x \in Vars : AddWatch(x) \/ RemoveWatch(x)

Next == Frame \/ User \/ Answering \/ \E p \in Pids, k \in Kinds : Publish(p, k)

Spec == Init /\ [][Next]_vars

\* The frame loop runs, and again and again the poll interval is over when the
\* panel gets to it.
FairSpec == Spec /\ WF_vars(Frame) /\ SF_vars(PollVars)

-----------------------------------------------------------------------------
(* Properties *)

TypeOK ==
    /\ session \in Pids \cup {NoPid} /\ rpcTo \in Pids \cup {NoPid}
    /\ ui \in {"drain", "menu", "watch", "poll", "rows", "token", "pollToken"}
    /\ layout \in Layouts /\ shown \subseteq layout
    /\ at \in Nat /\ ready \in BOOLEAN
    /\ backlog \in Seq(Event) /\ Len(backlog) <= Cap
    /\ lastSeen \in [Panels -> Nat] /\ primed \in [Panels -> BOOLEAN]
    /\ scanned \in [Panels -> Nat] /\ from \in [Panels -> Pids \cup {NoPid}]
    /\ watched \subseteq Vars
    /\ value \in [Vars -> Seq(Value)] /\ \A x \in Vars : Len(value[x]) <= 1
    /\ token \in {"other", "settled"}
    /\ failed \in Event \cup {NoEvent} /\ refreshed \in Event \cup {NoEvent}
    /\ ending \in Endings \cup {"none"}
    /\ log \in [Pids -> Seq(Kinds)] /\ now \in [Pids -> [Vars -> Nat]] /\ good \in BOOLEAN

\* What is in the backlog, and what the panel saw last, is of one process.
OneStream(w) ==
    \E p \in Pids : from[w] \in {p, NoPid} /\ \A i \in 1..Len(backlog) : backlog[i].pid = p

\* A scan applies each event once: all that came since the last one and nothing
\* from before, however the backlog was cut or cleared and the panel hidden in
\* between.  Event 0 is never applied: its number is not above the initial 0.
ScanIsExact ==
    \A w \in Panels : primed[w] /\ OneStream(w) =>
        Picked(w) = {i \in (scanned[w] + 1)..Len(backlog) : backlog[i].seq # 0}

\* "last refresh failed" is said exactly when the newest end of a refresh the
\* panel was told of is a failure, as long as both it compares are of one process.
FailedIsLatest ==
    token = "settled" /\ (failed.pid = refreshed.pid \/ NoPid \in {failed.pid, refreshed.pid}) =>
        (SaysFailed <=> ending = "failed")

\* The row of a variable that has settled comes to show its value, although
\* events drained after a poll may be older than what the poll has read.
RowsSettle ==
    \A p \in Pids, x \in Polled :
        <>[](session = p /\ "watch" \in shown /\ good /\ x \in watched /\ OneStream("watch"))
                /\ <>[][FALSE]_now
            => <>[](value[x] = <<[pid |-> p, n |-> now[p][x]]>>)

\* VarWatcherPanel.cpp: a varbit row "updates only when a kEventVarbitChange
\* flows past on the event ring".  After an attach to an agent whose numbers are
\* smaller, what the panel saw before is above lastSeenSeq again, every frame.
AppliedOnce == \A w \in Panels : \A i \in Picked(w) : i > scanned[w]
=============================================================================
