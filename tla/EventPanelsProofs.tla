-------------------------- MODULE EventPanelsProofs --------------------------
(***************************************************************************)
(* That a scan applies what came since the last one and nothing else, and  *)
(* that a failure is shown when it is the latest the panel was told of, for *)
(* any agents, any number of events and any cap of the backlog.            *)
(*                                                                         *)
(* What the backlog holds of one process is in increasing order and behind *)
(* the reader; so the part of it a panel has been through is, as far as it *)
(* is of the process the panel saw last, what is not above lastSeen.       *)
(***************************************************************************)
EXTENDS EventPanels, SequenceTheorems, TLAPS

Places == 1..Len(backlog)

\* An event the agent has published and this session's reader has gone past.
Passed(e) ==
    /\ e.pid \in Pids /\ e.seq \in Nat /\ e.seq < Len(log[e.pid])
    /\ ready /\ e.pid = session => e.seq < at

ReaderInv == ready => session \in Pids /\ at <= Len(log[session])

BacklogInv ==
    /\ \A i \in Places : Passed(backlog[i])
    /\ \A i, j \in Places :
          i < j /\ backlog[i].pid = backlog[j].pid => backlog[i].seq < backlog[j].seq

SeenInv ==
    \A w \in Panels :
        /\ scanned[w] <= Len(backlog)
        /\ from[w] = NoPid => scanned[w] = 0 /\ lastSeen[w] = 0
        /\ from[w] # NoPid => Passed([pid |-> from[w], seq |-> lastSeen[w]])
        /\ \A i \in Places :
              backlog[i].pid = from[w] => (backlog[i].seq > lastSeen[w] <=> i > scanned[w])

\* e is the last applied event of kind k, if there is one: as long as an older
\* one of its process is in the backlog, it is there behind it.
EndInv(e, k) ==
    e # NoEvent =>
        /\ Passed(e) /\ e.seq # 0 /\ KindOf(e) = k
        /\ \A i \in Places : backlog[i].pid = e.pid /\ backlog[i].seq < e.seq =>
              \E j \in Places : i < j /\ backlog[j] = e

Newer(e, f) == e # NoEvent /\ (f = NoEvent \/ (e.pid = f.pid /\ e.seq > f.seq))

EndingInv ==
    /\ EndInv(failed, "failed") /\ EndInv(refreshed, "refreshed")
    /\ failed = NoEvent /\ refreshed = NoEvent => ending = "none"
    /\ Newer(failed, refreshed) => ending = "failed"
    /\ Newer(refreshed, failed) => ending = "refreshed"

IInv == TypeOK /\ ReaderInv /\ BacklogInv /\ SeenInv /\ EndingInv

-----------------------------------------------------------------------------
(* Types *)

\* What is pushed goes to the end; of a full backlog the first entry goes.
LEMMA PushedProperties ==
    ASSUME NEW s \in Seq(Event), NEW e \in Event, Len(s) <= Cap
    PROVE  /\ Pushed(s, e) \in Seq(Event) /\ Len(Pushed(s, e)) <= Cap
           /\ Len(s) < Cap => /\ Len(Pushed(s, e)) = Len(s) + 1
                              /\ \A i \in 1..Len(s) : Pushed(s, e)[i] = s[i]
           /\ ~(Len(s) < Cap) => /\ Len(s) > 0 /\ Len(Pushed(s, e)) = Len(s)
                                 /\ \A i \in 1..Len(s) - 1 : Pushed(s, e)[i] = s[i + 1]
           /\ Pushed(s, e)[Len(Pushed(s, e))] = e
<1> USE CapAssumption
<1>1. CASE Len(s) < Cap
  <2>1. Pushed(s, e) = Append(s, e)
    BY <1>1 DEF Pushed
  <2> QED
    BY <1>1, <2>1, AppendProperties
<1>2. CASE ~(Len(s) < Cap)
  <2>1. Len(s) > 0 /\ s # << >>
    BY <1>2, LenProperties, EmptySeq
  <2>2. /\ Tail(s) \in Seq(Event) /\ Len(Tail(s)) = Len(s) - 1
        /\ \A i \in 1..Len(Tail(s)) : Tail(s)[i] = s[i + 1]
    BY <2>1, HeadTailProperties
  <2>3. Pushed(s, e) = Append(Tail(s), e)
    BY <1>2 DEF Pushed
  <2>4. /\ Append(Tail(s), e) \in Seq(Event)
        /\ Len(Append(Tail(s), e)) = Len(Tail(s)) + 1
        /\ \A i \in 1..Len(Tail(s)) : Append(Tail(s), e)[i] = Tail(s)[i]
        /\ Append(Tail(s), e)[Len(Tail(s)) + 1] = e
    BY <2>2, AppendProperties
  <2>5. Len(Pushed(s, e)) = Len(s) /\ Len(s) <= Cap
    BY <2>2, <2>3, <2>4, LenProperties
  <2>6. \A i \in 1..Len(s) - 1 : Pushed(s, e)[i] = s[i + 1]
    BY <2>2, <2>3, <2>4, LenProperties
  <2>7. Pushed(s, e)[Len(Pushed(s, e))] = e
    BY <2>2, <2>3, <2>4, LenProperties
  <2> QED
    BY <1>2, <2>1, <2>3, <2>4, <2>5, <2>6, <2>7
<1> QED
  BY <1>1, <1>2

LEMMA TypesInit == Init => TypeOK
<1> SUFFICES ASSUME Init PROVE TypeOK
  OBVIOUS
<1> USE PidAssumption, CapAssumption, LayoutAssumption
<1>1. /\ backlog \in Seq(Event) /\ Len(backlog) <= Cap
      /\ value \in [Vars -> Seq(Value)] /\ \A x \in Vars : Len(value[x]) <= 1
      /\ log \in [Pids -> Seq(Kinds)]
  BY EmptySeq DEF Init
<1> QED
  BY <1>1 DEF Init, TypeOK, Panels

\* The steps that leave backlog, rows and logs alone.
LEMMA TypesQuiet ==
    ASSUME TypeOK,
           \/ PrimeReader \/ LoseEvent \/ EndDrain \/ BeginPanels \/ SkipPollVars \/ EndWatch
           \/ SkipToken \/ PollToken \/ Detach \/ Answering
           \/ (\E p \in Pids : Attach(p)) \/ (\E w \in Panels : ToggleShown(w))
           \/ (\E x \in Vars : AddWatch(x))
    PROVE  TypeOK'
<1> USE DEF TypeOK, vars, frameVars, readerVars, scanVars, watchVars, tokenVars, panelVars, agentVars
<1>1. CASE PrimeReader
  <2>1. Len(log[session]) \in Nat
    BY <1>1, LenProperties DEF PrimeReader
  <2> QED
    BY <1>1, <2>1 DEF PrimeReader
<1>2. CASE LoseEvent
  BY <1>2 DEF LoseEvent, Draining
<1>3. CASE EndDrain
  BY <1>3 DEF EndDrain
<1>4. CASE BeginPanels
  BY <1>4 DEF BeginPanels
<1>5. CASE SkipPollVars \/ EndWatch \/ SkipToken
  BY <1>5 DEF SkipPollVars, EndWatch, SkipToken
<1>6. CASE PollToken
  BY <1>6 DEF PollToken, CallFails
<1>7. CASE Detach \/ \E p \in Pids : Attach(p)
  <2>1. /\ session' \in Pids \cup {NoPid} /\ at' = 0 /\ ready' = FALSE
        /\ UNCHANGED <<rpcTo, ui, layout, shown, backlog, panelVars, agentVars>>
    BY <1>7, Zenon DEF Detach, Attach, ResetReader
  <2> QED
    BY <2>1
<1>8. CASE \E w \in Panels : ToggleShown(w)
  BY <1>8 DEF ToggleShown
<1>9. CASE Answering
  BY <1>9 DEF Answering
<1>10. CASE \E x \in Vars : AddWatch(x)
  BY <1>10 DEF AddWatch
<1> QED
  BY <1>1, <1>2, <1>3, <1>4, <1>5, <1>6, <1>7, <1>8, <1>9, <1>10

\* The backlog, its cursors and the logs.
LEMMA TypesFeed ==
    ASSUME TypeOK, DrainEvent \/ Clear \/ \E p \in Pids, k \in Kinds : Publish(p, k)
    PROVE  TypeOK'
<1> USE DEF TypeOK, vars, frameVars, readerVars, scanVars, watchVars, tokenVars, panelVars, agentVars
<1>1. CASE DrainEvent
  <2>1. [pid |-> session, seq |-> at] \in Event
    BY <1>1 DEF DrainEvent, Draining, Event
  <2>2. backlog' \in Seq(Event) /\ Len(backlog') <= Cap
    BY <1>1, <2>1, PushedProperties DEF DrainEvent
  <2>3. scanned' \in [Panels -> Nat] /\ at' \in Nat
    BY <1>1 DEF DrainEvent, Minus
  <2> QED
    BY <1>1, <2>2, <2>3 DEF DrainEvent
<1>2. CASE Clear
  <2>1. backlog' \in Seq(Event) /\ Len(backlog') <= Cap
    BY <1>2, EmptySeq, CapAssumption DEF Clear
  <2> QED
    BY <1>2, <2>1 DEF Clear
<1>3. ASSUME NEW p \in Pids, NEW k \in Kinds, Publish(p, k) PROVE TypeOK'
  <2>1. /\ log' = [log EXCEPT ![p] = Append(@, k)]
        /\ now' = IF k \in Vars THEN [now EXCEPT ![p][k] = Len(log[p]) + 1] ELSE now
        /\ UNCHANGED <<ui, frameVars, readerVars, backlog, panelVars, good>>
    BY <1>3, Zenon DEF Publish
  <2>2. Append(log[p], k) \in Seq(Kinds) /\ Len(log[p]) \in Nat
    BY AppendProperties, LenProperties
  <2>3. log' \in [Pids -> Seq(Kinds)] /\ now' \in [Pids -> [Vars -> Nat]]
    BY <2>1, <2>2
  <2> QED
    BY <2>1, <2>3
<1> QED
  BY <1>1, <1>2, <1>3

LEMMA SingleIsRow == ASSUME NEW v \in Value PROVE <<v>> \in Seq(Value) /\ Len(<<v>>) = 1
OBVIOUS

LEMMA EventIsRow == ASSUME NEW e \in Event PROVE ValueOf(e) \in Seq(Value) /\ Len(ValueOf(e)) = 1
<1>1. [pid |-> e.pid, n |-> e.seq + 1] \in Value
  BY DEF Event, Value
<1> QED
  BY <1>1, SingleIsRow, Zenon DEF ValueOf

\* A scan moves the cursors to the end of the backlog.
LEMMA TypesRemember ==
    ASSUME TypeOK, NEW w \in Panels, Remember(w)
    PROVE  /\ lastSeen' \in [Panels -> Nat] /\ primed' \in [Panels -> BOOLEAN]
           /\ scanned' \in [Panels -> Nat] /\ from' \in [Panels -> Pids \cup {NoPid}]
<1>1. Len(backlog) \in Nat
  BY LenProperties DEF TypeOK
<1>2. CASE backlog = << >>
  BY <1>1, <1>2 DEF Remember, TypeOK
<1>3. CASE backlog # << >>
  <2>1. Len(backlog) \in 1..Len(backlog)
    BY <1>1, <1>3, EmptySeq DEF TypeOK
  <2>2. backlog[Len(backlog)] \in Event
    BY <2>1, ElementOfSeq DEF TypeOK
  <2> QED
    BY <1>1, <1>3, <2>2 DEF Remember, TypeOK, Event
<1> QED
  BY <1>2, <1>3

\* The rows of the Var Watcher.
LEMMA TypesRows ==
    ASSUME TypeOK, ScanVars \/ PollVars \/ \E x \in Vars : RemoveWatch(x)
    PROVE  TypeOK'
<1> USE DEF TypeOK, vars, frameVars, readerVars, watchVars, tokenVars, agentVars
<1>1. CASE ScanVars
  <2>1. PICK last \in [Vars -> 0..Len(backlog)] :
          value' = [x \in Vars |-> IF x \in watched /\ last[x] # 0
                                   THEN ValueOf(backlog[last[x]]) ELSE value[x]]
    BY <1>1 DEF ScanVars
  <2>2. ASSUME NEW x \in Vars, last[x] # 0
        PROVE  ValueOf(backlog[last[x]]) \in Seq(Value) /\ Len(ValueOf(backlog[last[x]])) = 1
    <3>1. last[x] \in 1..Len(backlog)
      BY <2>1, <2>2, LenProperties
    <3>2. backlog[last[x]] \in Event
      BY <3>1, ElementOfSeq
    <3> QED
      BY <3>2, EventIsRow, Zenon
  <2>3. value' \in [Vars -> Seq(Value)] /\ \A x \in Vars : Len(value'[x]) <= 1
    <3>1. ASSUME NEW x \in Vars PROVE value'[x] \in Seq(Value) /\ Len(value'[x]) <= 1
      <4>1. CASE x \in watched /\ last[x] # 0
        <5>1. value'[x] = ValueOf(backlog[last[x]])
          BY <2>1, <4>1, Zenon
        <5>2. ValueOf(backlog[last[x]]) \in Seq(Value) /\ Len(ValueOf(backlog[last[x]])) = 1
          BY <2>2, <4>1, Zenon
        <5> QED
          BY ONLY <5>1, <5>2
      <4>2. CASE ~(x \in watched /\ last[x] # 0)
        <5>1. value'[x] = value[x]
          BY <2>1, <4>2, Zenon
        <5> QED
          BY <5>1
      <4> QED
        BY <4>1, <4>2
    <3>2. value' = [x \in Vars |-> value'[x]]
      BY <2>1, Zenon
    <3> QED
      BY <3>1, <3>2
  <2>4. /\ lastSeen' \in [Panels -> Nat] /\ primed' \in [Panels -> BOOLEAN]
        /\ scanned' \in [Panels -> Nat] /\ from' \in [Panels -> Pids \cup {NoPid}]
    BY <1>1, TypesRemember DEF ScanVars, Panels
  <2>5. /\ ui' = "poll"
        /\ UNCHANGED <<frameVars, readerVars, backlog, watched, tokenVars, agentVars>>
    BY <1>1, Zenon DEF ScanVars
  <2> QED
    BY <2>3, <2>4, <2>5
<1>2. CASE PollVars
  <2>1. /\ rpcTo \in Pids /\ ui' = "rows" /\ rpcTo' \in {rpcTo, NoPid}
        /\ UNCHANGED <<session, layout, shown, readerVars, backlog, scanVars, watched, tokenVars, agentVars>>
    BY <1>2 DEF PollVars, CallFails
  <2>2. PICK xs : Answered(xs)
    BY <1>2, Zenon DEF PollVars
  <2>3. ASSUME NEW x \in Vars PROVE Fetched(x) \in Seq(Value) /\ Len(Fetched(x)) <= 1
    BY <2>1, SingleIsRow DEF Fetched, Value
  <2>4. value' \in [Vars -> Seq(Value)] /\ \A x \in Vars : Len(value'[x]) <= 1
    BY <2>2, <2>3 DEF Answered
  <2> QED
    BY <2>1, <2>4 DEF scanVars
<1>3. ASSUME NEW x \in Vars, RemoveWatch(x) PROVE TypeOK'
  <2>1. << >> \in Seq(Value) /\ Len(<< >>) = 0
    BY EmptySeq
  <2> QED
    BY <1>3, <2>1 DEF RemoveWatch, scanVars
<1> QED
  BY <1>1, <1>2, <1>3

\* What the Session panel keeps of token events.
LEMMA TypesToken == ASSUME TypeOK, ScanToken PROVE TypeOK'
<1> USE DEF TypeOK, vars, frameVars, readerVars, watchVars, tokenVars, agentVars
<1>1. PICK last \in [Endings -> 0..Len(backlog)] :
        /\ ApplyTokenEvents(last)
        /\ ending' = IF last["failed"] = last["refreshed"] THEN ending
                     ELSE IF last["failed"] > last["refreshed"] THEN "failed" ELSE "refreshed"
  BY DEF ScanToken
<1>2. ASSUME NEW k \in Endings, last[k] # 0 PROVE backlog[last[k]] \in Event
  <2>1. last[k] \in 1..Len(backlog)
    BY <1>1, <1>2, LenProperties
  <2> QED
    BY <2>1, ElementOfSeq
<1>3. failed' \in Event \cup {NoEvent} /\ refreshed' \in Event \cup {NoEvent}
  BY <1>1, <1>2 DEF ApplyTokenEvents, Endings
<1>4. ending' \in Endings \cup {"none"}
  BY <1>1 DEF Endings
<1>5. /\ lastSeen' \in [Panels -> Nat] /\ primed' \in [Panels -> BOOLEAN]
      /\ scanned' \in [Panels -> Nat] /\ from' \in [Panels -> Pids \cup {NoPid}]
  BY TypesRemember DEF ScanToken, Panels
<1>6. /\ ui' = "pollToken"
      /\ UNCHANGED <<frameVars, readerVars, backlog, watchVars, token, agentVars>>
  BY Zenon DEF ScanToken
<1> QED
  BY <1>3, <1>4, <1>5, <1>6

LEMMA TypesStep == ASSUME TypeOK, [Next]_vars PROVE TypeOK'
<1>1. CASE UNCHANGED vars
  BY <1>1 DEF TypeOK, vars, frameVars, readerVars, scanVars, watchVars, tokenVars, panelVars, agentVars
<1>2. CASE Next
  BY <1>2, TypesQuiet, TypesFeed, TypesRows, TypesToken, Zenon DEF Next, Frame, User
<1> QED
  BY <1>1, <1>2

\* Every variable keeps its type, and the backlog never grows past its cap
\* (App::DrainEvents), for any number of agents, variables and events.
THEOREM TypeCorrect == Spec => []TypeOK
<1> QED
  BY TypesInit, TypesStep, PTL DEF Spec

-----------------------------------------------------------------------------
(* Scans *)

\* Steps that change neither the backlog nor what a panel knows: what has been
\* passed stays so, and the log keeps what it was.
LEMMA PassedStep ==
    ASSUME IInv, ReaderInv', UNCHANGED <<backlog, lastSeen, scanned, from, failed, refreshed, ending>>,
           \A e \in Event : Passed(e) => Passed(e)' /\ KindOf(e)' = KindOf(e)
    PROVE  BacklogInv' /\ SeenInv' /\ EndingInv'
<1> USE DEF IInv
<1>1. \A i \in Places : backlog[i] \in Event
  BY ElementOfSeq DEF TypeOK, Places
<1>2. BacklogInv'
  BY <1>1 DEF BacklogInv, Places
<1>3. ASSUME NEW w \in Panels, from[w] # NoPid PROVE Passed([pid |-> from[w], seq |-> lastSeen[w]])'
  <2>1. [pid |-> from[w], seq |-> lastSeen[w]] \in Event
    BY <1>3 DEF TypeOK, Event
  <2>2. Passed([pid |-> from[w], seq |-> lastSeen[w]])
    BY <1>3 DEF SeenInv
  <2>3. lastSeen' = lastSeen /\ from' = from
    OBVIOUS
  <2> QED
    BY <2>1, <2>2, <2>3 DEF Passed
<1>4. SeenInv'
  BY <1>3 DEF SeenInv, Places
<1>5. ASSUME NEW e \in Event \cup {NoEvent}, NEW k, EndInv(e, k) PROVE EndInv(e, k)'
  BY <1>5 DEF EndInv, Places
<1>6. EndInv(failed, "failed")' /\ EndInv(refreshed, "refreshed")'
  BY <1>5 DEF EndingInv, TypeOK
<1>7. EndingInv'
  BY <1>6 DEF EndingInv, Newer
<1> QED
  BY <1>2, <1>4, <1>7

\* The reader is primed, loses an event or starts anew; the rest of the frame.
LEMMA ReaderStep ==
    ASSUME IInv,
           \/ PrimeReader \/ LoseEvent \/ Detach \/ (\E p \in Pids : Attach(p))
           \/ UNCHANGED <<session, at, ready, backlog, lastSeen, scanned, from, failed, refreshed,
                          ending, log>>
    PROVE  ReaderInv' /\ BacklogInv' /\ SeenInv' /\ EndingInv'
<1> USE DEF frameVars, readerVars, scanVars, tokenVars, panelVars, agentVars
<1>1. UNCHANGED <<backlog, lastSeen, scanned, from, failed, refreshed, ending, log>>
  BY Zenon DEF PrimeReader, LoseEvent, Detach, Attach
<1>2. /\ ready' => session' \in Pids /\ at' <= Len(log[session'])
      /\ \A e \in Event : e.seq < Len(log[e.pid]) /\ (ready /\ e.pid = session => e.seq < at) =>
            (ready' /\ e.pid = session' => e.seq < at')
  <2>0. \A p \in Pids : Len(log[p]) \in Nat
    BY LenProperties DEF IInv, TypeOK
  <2> USE <2>0
  <2>1. CASE PrimeReader
    BY <2>1 DEF PrimeReader, IInv, TypeOK
  <2>2. CASE LoseEvent
    BY <2>2 DEF LoseEvent, Draining, IInv, TypeOK, ReaderInv, Event
  <2>3. CASE Detach \/ \E p \in Pids : Attach(p)
    <3>1. ready' = FALSE
      BY <2>3, Zenon DEF Detach, Attach, ResetReader
    <3> QED
      BY <3>1
  <2>4. CASE UNCHANGED <<session, at, ready, backlog, lastSeen, scanned, from, failed, refreshed,
                         ending, log>>
    BY <2>4 DEF IInv, ReaderInv
  <2> QED
    BY <2>1, <2>2, <2>3, <2>4
<1>3. ReaderInv'
  BY <1>1, <1>2 DEF ReaderInv
<1>4. \A e \in Event : Passed(e) => Passed(e)' /\ KindOf(e)' = KindOf(e)
  BY <1>1, <1>2 DEF Passed, KindOf
<1> QED
  BY <1>1, <1>3, <1>4, PassedStep

\* An agent publishes an event: its log grows at the end.
LEMMA PublishStep ==
    ASSUME IInv, NEW p \in Pids, NEW k \in Kinds, Publish(p, k)
    PROVE  ReaderInv' /\ BacklogInv' /\ SeenInv' /\ EndingInv'
<1> USE DEF frameVars, readerVars, scanVars, tokenVars, panelVars
<1>1. /\ UNCHANGED <<session, at, ready, backlog, lastSeen, scanned, from, failed, refreshed, ending>>
      /\ log' = [log EXCEPT ![p] = Append(@, k)]
  BY Zenon DEF Publish
<1>2. /\ Len(log[p]) \in Nat /\ Len(Append(log[p], k)) = Len(log[p]) + 1
      /\ \A i \in 1..Len(log[p]) : Append(log[p], k)[i] = log[p][i]
  BY AppendProperties, LenProperties DEF IInv, TypeOK
<1>3. \A q \in Pids : /\ Len(log[q]) \in Nat /\ Len(log[q]) <= Len(log'[q])
                      /\ \A i \in 1..Len(log[q]) : log'[q][i] = log[q][i]
  <2>1. \A q \in Pids : Len(log[q]) \in Nat
    BY LenProperties DEF IInv, TypeOK
  <2>2. \A q \in Pids : log'[q] = IF q = p THEN Append(log[p], k) ELSE log[q]
    BY <1>1 DEF IInv, TypeOK
  <2>3. ASSUME NEW q \in Pids, q # p PROVE log'[q] = log[q]
    BY <2>2, <2>3
  <2>4. log'[p] = Append(log[p], k)
    BY <2>2
  <2> QED
    BY ONLY <2>1, <2>3, <2>4, <1>2, p \in Pids
<1>4. ReaderInv'
  BY <1>1, <1>3 DEF IInv, TypeOK, ReaderInv
<1>5. ASSUME NEW e \in Event, Passed(e) PROVE Passed(e)' /\ KindOf(e)' = KindOf(e)
  <2>1. e.seq + 1 \in 1..Len(log[e.pid]) /\ e.pid \in Pids
    BY <1>3, <1>5 DEF Passed
  <2>2. KindOf(e)' = KindOf(e)
    BY <2>1, <1>3 DEF KindOf
  <2> QED
    BY <1>1, <1>3, <1>5, <2>2 DEF Passed
<1> QED
  BY <1>1, <1>4, <1>5, PassedStep

\* What the reader hands over goes to the end, and a cut moves all by one place.
LEMMA DrainStep ==
    ASSUME IInv, DrainEvent
    PROVE  ReaderInv' /\ BacklogInv' /\ SeenInv' /\ EndingInv'
<1> DEFINE n == Len(backlog)
           d == IF n < Cap THEN 0 ELSE 1
<1>1. PICK new \in Event :
        /\ new.pid = session /\ new.seq = at /\ backlog' = Pushed(backlog, new)
        /\ session \in Pids /\ ready /\ at \in Nat /\ at < Len(log[session]) /\ at' = at + 1
        /\ scanned' = [w \in Panels |-> Minus(scanned[w], d)]
        /\ UNCHANGED <<session, ready, lastSeen, from, failed, refreshed, ending, log>>
  <2>1. /\ session # NoPid /\ ready /\ at < Len(log[session]) /\ at' = at + 1
        /\ backlog' = Pushed(backlog, [pid |-> session, seq |-> at])
        /\ scanned' = [w \in Panels |-> Minus(scanned[w], d)]
        /\ UNCHANGED <<session, ready, lastSeen, from, failed, refreshed, ending, log>>
    BY Zenon DEF DrainEvent, Draining, frameVars, tokenVars, agentVars
  <2>2. session \in Pids /\ at \in Nat
    BY <2>1 DEF IInv, TypeOK
  <2>3. [pid |-> session, seq |-> at] \in Event
    BY <2>2 DEF Event
  <2> QED
    BY <2>1, <2>2, <2>3
<1>2. n \in Nat /\ n <= Cap /\ \A p \in Pids : Len(log[p]) \in Nat
  BY LenProperties DEF IInv, TypeOK
<1>3. /\ d \in {0, 1} /\ d <= n /\ Len(backlog') = n + 1 - d
      /\ \A i \in 1..(n - d) : backlog'[i] = backlog[i + d]
      /\ backlog'[n + 1 - d] = new
  <2>1. /\ n < Cap => Len(backlog') = n + 1 /\ \A i \in 1..n : backlog'[i] = backlog[i]
        /\ ~(n < Cap) => n > 0 /\ Len(backlog') = n /\ \A i \in 1..n - 1 : backlog'[i] = backlog[i + 1]
        /\ backlog'[Len(backlog')] = new
    BY <1>1, <1>2, PushedProperties DEF IInv, TypeOK
  <2> QED
    BY <2>1, <1>2
<1>4. /\ \A i \in 1..n : backlog[i] \in Event
      /\ \A w \in Panels : scanned[w] \in Nat /\ lastSeen[w] \in Nat /\ from[w] \in Pids \cup {NoPid}
      /\ failed \in Event \cup {NoEvent} /\ refreshed \in Event \cup {NoEvent}
  BY ElementOfSeq DEF IInv, TypeOK
<1> HIDE DEF n, d
\* An entry of the new backlog is an old one, d places further back, or the last.
<1>a. ASSUME NEW i \in Places'
      PROVE  \/ i = n + 1 - d /\ backlog'[i] = new
             \/ i < n + 1 - d /\ i + d \in Places /\ backlog'[i] = backlog[i + d]
  BY <1>2, <1>3 DEF Places, n
<1>5. \A e \in Event : Passed(e) => Passed(e)'
  BY <1>1 DEF Passed, Event
<1>6. Passed(new)'
  BY <1>1, <1>2 DEF Passed, Event
<1>7. BacklogInv'
  <2>1. ASSUME NEW i \in Places', NEW e \in Event, e = backlog'[i] PROVE Passed(e)'
    BY <1>a, <1>5, <1>6, <2>1 DEF IInv, BacklogInv
  <2>2. \A i \in Places' : backlog'[i] \in Event
    BY <1>a, <1>1, <1>4 DEF Places, n
  <2>3. ASSUME NEW i \in Places', NEW j \in Places', i < j, backlog'[i].pid = backlog'[j].pid
        PROVE  backlog'[i].seq < backlog'[j].seq
    <3>1. i + d \in Places /\ backlog'[i] = backlog[i + d]
      BY <1>a, <2>3, <1>2, <1>3 DEF Places
    <3>2. CASE backlog'[j] = new
      BY <3>1, <3>2, <2>3, <1>1 DEF IInv, BacklogInv, Passed
    <3>3. CASE j + d \in Places /\ backlog'[j] = backlog[j + d]
      BY <3>1, <3>3, <2>3, <1>2, <1>3 DEF IInv, BacklogInv, Places
    <3> QED
      BY <1>a, <3>2, <3>3
  <2> QED
    BY <2>1, <2>2, <2>3 DEF BacklogInv, Passed
<1>8. SeenInv'
  <2> SUFFICES ASSUME NEW w \in Panels
               PROVE  /\ scanned'[w] <= Len(backlog')
                      /\ from[w] = NoPid => scanned'[w] = 0 /\ lastSeen[w] = 0
                      /\ from[w] # NoPid => Passed([pid |-> from[w], seq |-> lastSeen[w]])'
                      /\ \A i \in Places' : backlog'[i].pid = from[w] =>
                            (backlog'[i].seq > lastSeen[w] <=> i > scanned'[w])
    BY <1>1 DEF SeenInv
  <2>1. scanned'[w] = IF scanned[w] > d THEN scanned[w] - d ELSE 0
    BY <1>1 DEF Minus
  <2>2. /\ scanned[w] <= n
        /\ from[w] = NoPid => scanned[w] = 0 /\ lastSeen[w] = 0
        /\ from[w] # NoPid => Passed([pid |-> from[w], seq |-> lastSeen[w]])
        /\ \A i \in Places : backlog[i].pid = from[w] => (backlog[i].seq > lastSeen[w] <=> i > scanned[w])
    BY DEF IInv, SeenInv, n
  <2>3. scanned'[w] <= Len(backlog') /\ (from[w] = NoPid => scanned'[w] = 0 /\ lastSeen[w] = 0)
    BY <2>1, <2>2, <1>2, <1>3, <1>4
  <2>4. ASSUME from[w] # NoPid PROVE Passed([pid |-> from[w], seq |-> lastSeen[w]])'
    BY <2>2, <2>4, <1>1 DEF Passed
  <2>5. ASSUME NEW i \in Places', backlog'[i].pid = from[w]
        PROVE  backlog'[i].seq > lastSeen[w] <=> i > scanned'[w]
    <3>1. CASE i = n + 1 - d /\ backlog'[i] = new
      <4>1. from[w] = session /\ from[w] # NoPid
        BY <2>5, <3>1, <1>1, PidAssumption
      <4>2. lastSeen[w] < at
        BY <4>1, <2>2, <1>1 DEF Passed
      <4>3. backlog'[i].seq > lastSeen[w]
        BY <4>2, <3>1, <1>1, <1>4
      <4>4. i > scanned'[w]
        BY <3>1, <2>1, <2>2, <1>2, <1>3, <1>4
      <4> QED
        BY <4>3, <4>4
    <3>2. CASE i + d \in Places /\ backlog'[i] = backlog[i + d]
      <4>1. backlog[i + d].seq > lastSeen[w] <=> i + d > scanned[w]
        BY <3>2, <2>2, <2>5
      <4>2. i + d > scanned[w] <=> i > scanned'[w]
        BY <2>1, <1>3, <1>4 DEF Places
      <4> QED
        BY <4>1, <4>2, <3>2
    <3> QED
      BY <1>a, <3>1, <3>2
  <2> QED
    BY <2>3, <2>4, <2>5
<1>9. ASSUME NEW e \in Event \cup {NoEvent}, NEW k, EndInv(e, k) PROVE EndInv(e, k)'
  <2> SUFFICES ASSUME e # NoEvent
               PROVE  /\ Passed(e)' /\ e.seq # 0 /\ KindOf(e)' = k
                      /\ \A i \in Places' : backlog'[i].pid = e.pid /\ backlog'[i].seq < e.seq =>
                            \E j \in Places' : i < j /\ backlog'[j] = e
    BY DEF EndInv
  <2>1. /\ Passed(e) /\ e.seq # 0 /\ KindOf(e) = k
        /\ \A i \in Places : backlog[i].pid = e.pid /\ backlog[i].seq < e.seq =>
              \E j \in Places : i < j /\ backlog[j] = e
    BY <1>9 DEF EndInv
  <2>2. Passed(e)' /\ KindOf(e)' = k
    BY <2>1, <1>1, <1>5 DEF KindOf
  <2>3. ASSUME NEW i \in Places', backlog'[i].pid = e.pid, backlog'[i].seq < e.seq
        PROVE  \E j \in Places' : i < j /\ backlog'[j] = e
    <3>1. backlog'[i] # new
      BY <2>1, <2>3, <1>1 DEF Passed, Event
    <3>2. i + d \in Places /\ backlog'[i] = backlog[i + d]
      BY <3>1, <1>a
    <3>3. PICK j \in Places : i + d < j /\ backlog[j] = e
      BY <3>2, <2>1, <2>3
    <3>4. j - d \in Places' /\ j - d \in 1..(n - d) /\ i < j - d /\ j - d + d = j
      BY <3>2, <3>3, <1>2, <1>3 DEF Places, n
    <3> QED
      BY <3>3, <3>4, <1>3
  <2> QED
    BY <2>1, <2>2, <2>3
<1>10. EndingInv'
  BY <1>1, <1>4, <1>9 DEF IInv, EndingInv, Newer
<1>11. ReaderInv'
  BY <1>1, <1>2 DEF ReaderInv
<1> QED
  BY <1>7, <1>8, <1>10, <1>11

LEMMA ClearStep ==
    ASSUME IInv, Clear
    PROVE  ReaderInv' /\ BacklogInv' /\ SeenInv' /\ EndingInv'
<1>1. /\ scanned' = [w \in Panels |-> 0] /\ Places' = {} /\ Len(backlog') = 0
      /\ UNCHANGED <<session, at, ready, lastSeen, from, failed, refreshed, ending, log>>
  BY EmptySeq DEF Clear, Places, frameVars, readerVars, tokenVars, agentVars
<1>2. ReaderInv' /\ BacklogInv'
  BY <1>1 DEF IInv, ReaderInv, BacklogInv
<1>3. SeenInv'
  BY <1>1 DEF IInv, SeenInv, Passed
<1>4. EndingInv'
  BY <1>1 DEF IInv, EndingInv, EndInv, Newer, Passed, KindOf
<1> QED
  BY <1>2, <1>3, <1>4

\* The cursors of a panel whose scan has come to the end of the backlog.
LEMMA RememberStep ==
    ASSUME IInv, NEW w \in Panels, Remember(w), UNCHANGED <<session, at, ready, backlog, log>>
    PROVE  SeenInv'
<1>1. Len(backlog) \in Nat /\ \A i \in Places : backlog[i] \in Event
  BY LenProperties, ElementOfSeq DEF IInv, TypeOK, Places
<1>2. /\ scanned' = [scanned EXCEPT ![w] = Len(backlog)]
      /\ \A v \in Panels : v # w => lastSeen'[v] = lastSeen[v] /\ from'[v] = from[v]
  BY DEF Remember, IInv, TypeOK
<1>3. ASSUME NEW v \in Panels, v # w
      PROVE  /\ scanned'[v] <= Len(backlog)
             /\ from'[v] = NoPid => scanned'[v] = 0 /\ lastSeen'[v] = 0
             /\ from'[v] # NoPid => Passed([pid |-> from[v], seq |-> lastSeen[v]])
             /\ \A i \in Places : backlog[i].pid = from'[v] =>
                   (backlog[i].seq > lastSeen'[v] <=> i > scanned'[v])
  BY <1>2, <1>3 DEF IInv, TypeOK, SeenInv
<1>4. CASE backlog = << >>
  <2>1. /\ Places = {} /\ Len(backlog) = 0 /\ UNCHANGED <<lastSeen, from>>
    BY <1>4, EmptySeq DEF Remember, Places
  <2> QED
    BY <2>1, <1>2 DEF IInv, TypeOK, SeenInv, Places, Passed
<1>5. CASE backlog # << >>
  <2>1. Len(backlog) \in Places
    BY <1>5, <1>1, EmptySeq DEF IInv, TypeOK, Places
  <2>2. /\ lastSeen'[w] = backlog[Len(backlog)].seq /\ from'[w] = backlog[Len(backlog)].pid
        /\ scanned'[w] = Len(backlog)
    BY <1>5 DEF Remember, IInv, TypeOK
  <2>3. Passed(backlog[Len(backlog)]) /\ from'[w] # NoPid
    BY <2>1, <2>2, PidAssumption DEF IInv, BacklogInv, Passed
  <2>4. ASSUME NEW i \in Places, backlog[i].pid = from'[w]
        PROVE  backlog[i].seq > lastSeen'[w] <=> i > scanned'[w]
    <3>1. CASE i = Len(backlog)
      BY <3>1, <2>2, <1>1, <2>1 DEF Event
    <3>2. CASE i < Len(backlog)
      BY <3>2, <2>1, <2>2, <2>4, <1>1 DEF IInv, BacklogInv, Event
    <3> QED
      BY <3>1, <3>2, <1>1 DEF Places
  <2>5. \A v \in Panels :
          /\ scanned'[v] <= Len(backlog)
          /\ from'[v] = NoPid => scanned'[v] = 0 /\ lastSeen'[v] = 0
          /\ from'[v] # NoPid => Passed([pid |-> from'[v], seq |-> lastSeen'[v]])
          /\ \A i \in Places : backlog[i].pid = from'[v] =>
                (backlog[i].seq > lastSeen'[v] <=> i > scanned'[v])
    BY <1>1, <1>2, <1>3, <2>2, <2>3, <2>4 DEF Passed
  <2> QED
    BY <2>5 DEF SeenInv, Passed, Places
<1> QED
  BY <1>4, <1>5

\* What a scan finds of one kind: an event it picked, the last of that kind.
LEMMA LastPickedIs ==
    ASSUME NEW k, NEW i \in Nat, LastPicked("token", k, i)
    PROVE  /\ i # 0 => i \in Picked("token") /\ KindOf(backlog[i]) = k
           /\ \A j \in Picked("token") : KindOf(backlog[j]) = k => i # 0 /\ j <= i
BY DEF LastPicked, Picked

\* It can be what the panel keeps of that kind.
LEMMA LastPickedEnds ==
    ASSUME IInv, NEW k, NEW i \in Nat \ {0}, LastPicked("token", k, i)
    PROVE  EndInv(backlog[i], k) /\ backlog[i] \in Event /\ backlog[i] # NoEvent
<1>1. i \in Places /\ KindOf(backlog[i]) = k /\ backlog[i].seq > lastSeen["token"]
  BY LastPickedIs DEF Picked, Places
<1>2. \A j \in Places : backlog[j] \in Event
  BY ElementOfSeq DEF IInv, TypeOK, Places
<1>3. Passed(backlog[i]) /\ backlog[i].seq # 0 /\ backlog[i] # NoEvent
  <2>1. lastSeen["token"] \in Nat
    BY DEF IInv, TypeOK, Panels
  <2>2. backlog[i].pid \in Pids /\ backlog[i].seq \in Nat
    BY <1>1, <1>2 DEF Event
  <2>3. backlog[i].seq # 0 /\ backlog[i] # NoEvent
    BY <1>1, <2>1, <2>2, PidAssumption DEF NoEvent
  <2> QED
    BY <1>1, <2>3 DEF IInv, BacklogInv
<1>4. ASSUME NEW j \in Places, backlog[j].pid = backlog[i].pid, backlog[j].seq < backlog[i].seq
      PROVE  j < i
  <2>1. i \in Nat /\ j \in Nat /\ backlog[i].seq \in Nat /\ backlog[j].seq \in Nat
    BY <1>1, <1>2 DEF Places, Event
  <2>2. i < j => backlog[i].seq < backlog[j].seq
    BY <1>1, <1>4 DEF IInv, BacklogInv
  <2>3. i # j
    BY <1>4, <2>1
  <2> QED
    BY ONLY <1>4, <2>1, <2>2, <2>3
<1> QED
  BY <1>1, <1>2, <1>3, <1>4 DEF EndInv

\* No event of the other kind that the panel keeps after the scan, found by the
\* scan or known before, is newer than the later of the two found.
LEMMA LaterIsNewest ==
    ASSUME IInv, NEW k, NEW l, k # l, NEW i \in Nat, NEW j \in Nat, j < i,
           LastPicked("token", k, i), LastPicked("token", l, j),
           NEW e \in Event \cup {NoEvent}, EndInv(e, l)
    PROVE  ~Newer(IF j = 0 THEN e ELSE backlog[j], backlog[i])
<1>1. /\ i \in Places /\ i \in Picked("token") /\ KindOf(backlog[i]) = k
      /\ backlog[i] # NoEvent
  BY LastPickedIs, LastPickedEnds DEF Picked, Places
<1>2. \A m \in Places : backlog[m] \in Event
  BY ElementOfSeq DEF IInv, TypeOK, Places
<1>3. CASE j # 0
  <2>1. j \in Places
    BY <1>3, LastPickedIs DEF Picked, Places
  <2> QED
    BY <2>1, <1>1, <1>2, <1>3 DEF IInv, BacklogInv, Newer, Event
<1>4. CASE j = 0
  <2> SUFFICES ASSUME e # NoEvent, e.pid = backlog[i].pid, e.seq > backlog[i].seq PROVE FALSE
    BY <1>1, <1>4 DEF Newer
  <2>1. PICK m \in Places : i < m /\ backlog[m] = e
    BY <1>1, <1>2 DEF EndInv, Event
  <2>2. m \in Picked("token")
    <3>1. lastSeen["token"] \in Nat /\ backlog[i].seq \in Nat /\ backlog[m].seq \in Nat
      BY <1>1, <1>2 DEF IInv, TypeOK, Panels, Event
    <3>2. primed["token"] /\ backlog[i].seq > lastSeen["token"] /\ backlog[m].seq > backlog[i].seq
      BY <1>1, <2>1 DEF Picked
    <3>3. backlog[m].seq > lastSeen["token"]
      BY <3>1, <3>2
    <3> QED
      BY <3>2, <3>3 DEF Picked, Places
  <2>3. KindOf(backlog[m]) = l
    BY <2>1 DEF EndInv
  <2> QED
    BY <2>2, <2>3, <1>4, LastPickedIs
<1> QED
  BY <1>3, <1>4

LEMMA TokenStep == ASSUME IInv, ScanToken PROVE EndingInv'
<1>1. PICK last \in [Endings -> 0..Len(backlog)] :
        /\ LastPicked("token", "failed", last["failed"])
        /\ LastPicked("token", "refreshed", last["refreshed"])
        /\ ApplyTokenEvents(last)
        /\ ending' = IF last["failed"] = last["refreshed"] THEN ending
                     ELSE IF last["failed"] > last["refreshed"] THEN "failed" ELSE "refreshed"
  BY DEF ScanToken, Endings
<1> DEFINE i == last["failed"]
           j == last["refreshed"]
<1>2. i \in Nat /\ j \in Nat
  BY <1>1, LenProperties DEF Endings, IInv, TypeOK
<1>3. /\ failed' = IF i = 0 THEN failed ELSE backlog[i]
      /\ refreshed' = IF j = 0 THEN refreshed ELSE backlog[j]
      /\ UNCHANGED <<session, at, ready, backlog, log>>
  BY <1>1, Zenon DEF ApplyTokenEvents, ScanToken, frameVars, readerVars, agentVars
<1> HIDE DEF i, j
<1>4. /\ EndInv(failed, "failed") /\ EndInv(refreshed, "refreshed")
      /\ failed \in Event \cup {NoEvent} /\ refreshed \in Event \cup {NoEvent}
  BY DEF IInv, EndingInv, TypeOK
<1>5. ASSUME NEW e, NEW k, EndInv(e, k) PROVE EndInv(e, k)'
  BY <1>3, <1>5 DEF EndInv, Passed, KindOf, Places
<1>6. /\ i # 0 => EndInv(backlog[i], "failed") /\ backlog[i] # NoEvent
      /\ j # 0 => EndInv(backlog[j], "refreshed") /\ backlog[j] # NoEvent
  BY <1>1, <1>2, LastPickedEnds DEF i, j
<1>7. EndInv(failed, "failed")' /\ EndInv(refreshed, "refreshed")'
  <2>1. PICK f : f = failed' /\ EndInv(f, "failed")
    BY <1>3, <1>4, <1>6
  <2>2. PICK r : r = refreshed' /\ EndInv(r, "refreshed")
    BY <1>3, <1>4, <1>6
  <2>3. EndInv(f, "failed")' /\ EndInv(r, "refreshed")'
    BY <2>1, <2>2, <1>5
  <2> QED
    BY <2>1, <2>2, <2>3 DEF EndInv, Passed, KindOf
<1>8. CASE i = j
  <2>1. i = 0 /\ j = 0
    BY <1>1, <1>2, <1>8, LastPickedIs DEF i, j
  <2> QED
    BY <2>1, <1>1, <1>3, <1>7 DEF IInv, EndingInv, Newer, i, j
<1>9. CASE i > j
  <2>1. failed' = backlog[i] /\ failed' # NoEvent /\ ending' = "failed"
    BY <1>1, <1>2, <1>3, <1>6, <1>9 DEF i, j
  <2>2. ~Newer(refreshed', failed')
    BY <1>1, <1>2, <1>3, <1>4, <1>9, <2>1, LaterIsNewest DEF i, j
  <2> QED
    BY <2>1, <2>2, <1>7 DEF EndingInv, Newer
<1>10. CASE j > i
  <2>1. refreshed' = backlog[j] /\ refreshed' # NoEvent /\ ending' = "refreshed"
    BY <1>1, <1>2, <1>3, <1>6, <1>10 DEF i, j
  <2>2. ~Newer(failed', refreshed')
    BY <1>1, <1>2, <1>3, <1>4, <1>10, <2>1, LaterIsNewest DEF i, j
  <2> QED
    BY <2>1, <2>2, <1>7 DEF EndingInv, Newer
<1> QED
  BY <1>2, <1>8, <1>9, <1>10

\* Either panel's scan.
LEMMA ScanStep ==
    ASSUME IInv, ScanVars \/ ScanToken
    PROVE  ReaderInv' /\ BacklogInv' /\ SeenInv' /\ EndingInv'
<1>1. UNCHANGED <<session, at, ready, backlog, log>>
  BY Zenon DEF ScanVars, ScanToken, frameVars, readerVars, agentVars
<1>2. ReaderInv' /\ BacklogInv'
  BY <1>1 DEF IInv, ReaderInv, BacklogInv, Passed, Places
<1>3. SeenInv'
  <2>1. \E w \in Panels : Remember(w)
    BY DEF ScanVars, ScanToken, Panels
  <2> QED
    BY <2>1, <1>1, RememberStep
<1>4. CASE ScanVars
  <2>1. UNCHANGED <<failed, refreshed, ending>>
    BY <1>4, Zenon DEF ScanVars, tokenVars
  <2>2. EndingInv'
    BY <2>1, <1>1 DEF IInv, EndingInv, EndInv, Newer, Passed, KindOf, Places
  <2> QED
    BY <2>2, <1>2, <1>3
<1> QED
  BY <1>2, <1>3, <1>4, TokenStep

LEMMA InvInit == Init => IInv
<1> SUFFICES ASSUME Init PROVE IInv
  OBVIOUS
<1>1. TypeOK
  BY TypesInit
<1>2. Places = {} /\ Len(backlog) = 0
  BY EmptySeq DEF Init, Places
<1>3. ReaderInv /\ BacklogInv /\ SeenInv
  BY <1>2 DEF Init, ReaderInv, BacklogInv, SeenInv
<1>4. EndingInv
  BY DEF Init, EndingInv, EndInv, Newer
<1> QED
  BY <1>1, <1>3, <1>4 DEF IInv

LEMMA InvStep == ASSUME IInv, [Next]_vars PROVE IInv'
<1>1. TypeOK'
  BY TypesStep DEF IInv
<1>2. CASE \/ UNCHANGED vars
           \/ EndDrain \/ BeginPanels \/ PollVars \/ SkipPollVars \/ EndWatch \/ SkipToken \/ PollToken
           \/ Answering \/ (\E w \in Panels : ToggleShown(w))
           \/ (\E x \in Vars : AddWatch(x) \/ RemoveWatch(x))
  <2>1. UNCHANGED <<session, at, ready, backlog, lastSeen, scanned, from, failed, refreshed, ending, log>>
    BY <1>2, Zenon DEF vars, EndDrain, BeginPanels, PollVars, SkipPollVars, EndWatch, SkipToken, PollToken,
       Answering, ToggleShown, AddWatch, RemoveWatch,
       frameVars, readerVars, scanVars, tokenVars, panelVars, agentVars
  <2> QED
    BY <2>1, <1>1, ReaderStep DEF IInv
<1>3. CASE PrimeReader \/ LoseEvent \/ Detach \/ \E p \in Pids : Attach(p)
  BY <1>3, <1>1, ReaderStep DEF IInv
<1>4. CASE \E p \in Pids, k \in Kinds : Publish(p, k)
  BY <1>4, <1>1, PublishStep DEF IInv
<1>5. CASE DrainEvent
  BY <1>5, <1>1, DrainStep DEF IInv
<1>6. CASE Clear
  BY <1>6, <1>1, ClearStep DEF IInv
<1>7. CASE ScanVars \/ ScanToken
  BY <1>7, <1>1, ScanStep DEF IInv
<1> QED
  BY <1>2, <1>3, <1>4, <1>5, <1>6, <1>7, Zenon DEF Next, Frame, User

LEMMA InvHolds == Spec => []IInv
<1> QED
  BY InvInit, InvStep, PTL DEF Spec

\* ScanEvents of either panel applies every event that came since its last scan
\* and none from before, however the backlog was cut or cleared, as long as all
\* of it and what the panel saw last are of one process.
THEOREM ScansAreExact == Spec => []ScanIsExact
<1>1. ASSUME IInv PROVE ScanIsExact
  <2>1. ASSUME NEW w \in Panels, NEW p \in Pids, from[w] \in {p, NoPid},
               \A i \in 1..Len(backlog) : backlog[i].pid = p
        PROVE  \A i \in Places : backlog[i].seq > lastSeen[w] <=>
                                  i > scanned[w] /\ backlog[i].seq # 0
    <3>0. lastSeen[w] \in Nat /\ \A i \in Places : backlog[i] \in Event
      BY <1>1, ElementOfSeq DEF IInv, TypeOK, Places
    <3>1. lastSeen[w] \in Nat /\ \A i \in Places : backlog[i].seq \in Nat /\ backlog[i].pid = p
      BY <3>0, <2>1 DEF Places, Event
    <3>a. scanned[w] \in Nat /\ Places \subseteq Nat
      BY <1>1 DEF IInv, TypeOK, Places
    <3>2. CASE from[w] = p
      <4>1. \A i \in Places : backlog[i].seq > lastSeen[w] <=> i > scanned[w]
        BY <1>1, <3>1, <3>2 DEF IInv, SeenInv
      <4> QED
        BY ONLY <4>1, <3>1, <3>a
    <3>3. CASE from[w] = NoPid
      <4>1. scanned[w] = 0 /\ lastSeen[w] = 0
        BY <1>1, <3>3 DEF IInv, SeenInv
      <4>2. ASSUME NEW i \in Places
            PROVE  backlog[i].seq > lastSeen[w] <=> i > scanned[w] /\ backlog[i].seq # 0
        <5>1. i \in Nat /\ i > 0 /\ backlog[i].seq \in Nat
          BY <3>1 DEF Places
        <5> QED
          BY ONLY <5>1, <4>1
      <4> QED
        BY <4>2
    <3> QED
      BY <2>1, <3>2, <3>3
  <2>2. Len(backlog) \in Nat /\ \A w \in Panels : scanned[w] \in Nat
    BY <1>1, LenProperties DEF IInv, TypeOK
  <2>3. ASSUME NEW w \in Panels, primed[w], OneStream(w)
        PROVE  Picked(w) = {i \in (scanned[w] + 1)..Len(backlog) : backlog[i].seq # 0}
    <3>1. \A i \in Places : backlog[i].seq > lastSeen[w] <=> i > scanned[w] /\ backlog[i].seq # 0
      BY <2>1, <2>3 DEF OneStream
    <3> QED
      BY <2>2, <2>3, <3>1 DEF Picked, Places
  <2> QED
    BY <2>3 DEF ScanIsExact
<1> QED
  BY <1>1, InvHolds, PTL

\* DeriveStatus says "last refresh failed" exactly when the latest end of a
\* refresh the Session panel applied is a failure, as long as the two events it
\* compares are of one process.
THEOREM FailureIsLatest == Spec => []FailedIsLatest
<1>1. ASSUME IInv PROVE FailedIsLatest
  <2> SUFFICES ASSUME token = "settled",
                      failed.pid = refreshed.pid \/ NoPid \in {failed.pid, refreshed.pid}
               PROVE  SaysFailed <=> ending = "failed"
    BY DEF FailedIsLatest
  <2>1. /\ failed = NoEvent \/ (failed.pid \in Pids /\ failed.seq \in Nat \ {0} /\ KindOf(failed) = "failed")
        /\ refreshed = NoEvent
             \/ (refreshed.pid \in Pids /\ refreshed.seq \in Nat \ {0} /\ KindOf(refreshed) = "refreshed")
    BY <1>1 DEF IInv, EndingInv, EndInv, Passed
  <2>2. /\ failed = NoEvent /\ refreshed = NoEvent => ending = "none"
        /\ Newer(failed, refreshed) => ending = "failed"
        /\ Newer(refreshed, failed) => ending = "refreshed"
    BY <1>1 DEF IInv, EndingInv
  <2>3. NoEvent.pid = NoPid /\ NoEvent.seq = 0
    BY DEF NoEvent
  <2>4. CASE failed = NoEvent
    BY <2>1, <2>2, <2>3, <2>4 DEF SaysFailed, Newer
  <2>5. CASE failed # NoEvent /\ refreshed = NoEvent
    BY <2>1, <2>2, <2>3, <2>5 DEF SaysFailed, Newer
  <2>6. CASE failed # NoEvent /\ refreshed # NoEvent
    <3>1. failed.pid = refreshed.pid
      BY <2>1, <2>6, PidAssumption
    <3>2. failed.seq # refreshed.seq
      BY <2>1, <2>6, <3>1 DEF KindOf
    <3> QED
      BY <2>1, <2>2, <2>6, <3>1, <3>2 DEF SaysFailed, Newer
  <2> QED
    BY <2>4, <2>5, <2>6
<1> QED
  BY <1>1, InvHolds, PTL
=============================================================================
