----------------------------- MODULE EventRing -----------------------------
(***************************************************************************)
(* The lock-free event ring in shared memory (wire/ipc/SharedLayout.h) and *)
(* the debugger's reader of it, EventReader::Drain (src/wire).             *)
(*                                                                         *)
(* The agent's producer threads claim a number from `head`, fill the slot  *)
(* and commit it by storing the number into the slot; they are external to *)
(* this repository and follow the writer protocol SharedLayout.h states.   *)
(* The reader takes one step per shared-memory access, so every            *)
(* interleaving of a drain with the producers is explored.  A payload is   *)
(* abstracted to two words, `type` (type and bodyLen) and `body`, each     *)
(* holding the number of the event that wrote it.                          *)
(***************************************************************************)
EXTENDS Integers, Sequences

CONSTANTS
    Writers,    \* producer threads of the agent
    Slots,      \* number of ring slots (kEventRingSlots, 1024 in the code)
    MaxSeq      \* bound: events claimed in a behaviour

ASSUME SlotsAssumption == Slots \in Nat \ {0}
ASSUME MaxSeqAssumption == MaxSeq \in Nat

VARIABLES
    head, slots,                \* the shared ring
    wr,                         \* each producer: what it is doing, for which event
    lastSeq, dropped, primed,   \* EventReader's members
    pc, hd, cur, rec,           \* the running Drain: its place and its locals
    open, paused,               \* App: session attached, event intake paused
    feed,                       \* history: numbers Drain has returned
    start, got,                 \* history of this session: where it was primed,
    broke, overtaken            \* how many it returned, did a drain stop early,
                                \* was one overtaken by the producers

agentVars   == <<head, slots, wr>>
readerVars  == <<lastSeq, dropped, primed>>
drainVars   == <<pc, hd, cur, rec>>
appVars     == <<open, paused>>
historyVars == <<feed, start, got, broke, overtaken>>
vars == <<agentVars, readerVars, drainVars, appVars, historyVars>>

Blank == -1                                  \* payload word never written
Word  == {Blank} \cup Nat
Record == [type : Word, body : Word]

IndexOf(seq) == seq % Slots                  \* seq & slotMask
SlotOf(seq)  == slots[IndexOf(seq)]

(***************************************************************************)
(* Init: a freshly created (zero-filled) mapping, nothing attached.        *)
(***************************************************************************)
Init ==
    /\ head = 0
    /\ slots = [i \in 0..(Slots - 1) |-> [seq |-> 0, type |-> Blank, body |-> Blank]]
    /\ wr = [w \in Writers |-> [pc |-> "idle", seq |-> 0]]
    /\ lastSeq = 0 /\ dropped = 0 /\ primed = FALSE
    /\ pc = "idle" /\ hd = 0 /\ cur = 0 /\ rec = [type |-> Blank, body |-> Blank]
    /\ open = FALSE /\ paused = FALSE
    /\ feed = << >> /\ start = 0 /\ got = 0 /\ broke = FALSE /\ overtaken = FALSE

(***************************************************************************)
(* The producers (external).  A producer that stalls for a whole lap would *)
(* corrupt the ring under any reader; claims assume none does.             *)
(***************************************************************************)
NobodyLapped == \A w \in Writers : wr[w].pc # "idle" => head - wr[w].seq < Slots

Claim(w) ==
    /\ wr[w].pc = "idle" /\ head < MaxSeq /\ NobodyLapped
    /\ wr' = [wr EXCEPT ![w] = [pc |-> "type", seq |-> head]]
    /\ head' = head + 1
    /\ UNCHANGED <<slots, readerVars, drainVars, appVars, historyVars>>

\* Producer w, at place `from`, stores its number into one field of its slot.
Store(w, from, field, to) ==
    /\ wr[w].pc = from
    /\ slots' = [slots EXCEPT ![IndexOf(wr[w].seq)][field] = wr[w].seq]
    /\ wr' = [wr EXCEPT ![w].pc = to]
    /\ UNCHANGED <<head, readerVars, drainVars, appVars, historyVars>>

FillType(w) == Store(w, "type", "type", "body")
FillBody(w) == Store(w, "body", "body", "commit")
Commit(w)   == Store(w, "commit", "seq", "idle")

(***************************************************************************)
(* EventReader::Drain, called once per frame by DrainEvents when a session *)
(* is open and intake is not paused.                                       *)
(***************************************************************************)
MayDrain == pc = "idle" /\ open /\ ~paused

\* The first drain of a session only remembers where the stream is.
PrimeDrain ==
    /\ MayDrain /\ ~primed
    /\ lastSeq' = head /\ primed' = TRUE
    /\ start' = head /\ got' = 0 /\ broke' = FALSE /\ overtaken' = FALSE
    /\ UNCHANGED <<agentVars, dropped, drainVars, appVars, feed>>

BeginDrain ==
    /\ MayDrain /\ primed
    /\ pc' = "check" /\ hd' = head /\ cur' = lastSeq
    /\ UNCHANGED <<agentVars, readerVars, rec, appVars, historyVars>>

AtSlot == pc = "check" /\ cur < hd           \* the loop looks at the slot of cur

\* Fault: the slot is copied without waiting for its producer's commit.
SlotReadyUnchecked ==
    /\ AtSlot /\ SlotOf(cur).seq <= cur
    /\ pc' = "copyType"
    /\ UNCHANGED <<agentVars, readerVars, hd, cur, rec, appVars, historyVars>>

\* The slot holds the number the loop is at: go on to copy it.
SlotReady ==
    /\ AtSlot /\ SlotOf(cur).seq = cur
    /\ pc' = "copyType"
    /\ UNCHANGED <<agentVars, readerVars, hd, cur, rec, appVars, historyVars>>

\* Fault: the gap is counted, and the loop goes on with the next number of it.
SlotOverrunRecounted ==
    /\ AtSlot /\ SlotOf(cur).seq > cur
    /\ dropped' = dropped + (SlotOf(cur).seq - cur)
    /\ cur' = cur + 1
    /\ UNCHANGED <<agentVars, lastSeq, primed, pc, hd, rec, appVars, historyVars>>

\* Fault: the loop resumes at the number found and forgets to count the gap.
SlotOverrunUncounted ==
    /\ AtSlot /\ SlotOf(cur).seq > cur
    /\ cur' = SlotOf(cur).seq
    /\ UNCHANGED <<agentVars, readerVars, pc, hd, rec, appVars, historyVars>>

\* The slot was overwritten: count the gap and resume at the number found.
SlotOverrun ==
    /\ AtSlot /\ SlotOf(cur).seq > cur
    /\ dropped' = dropped + (SlotOf(cur).seq - cur)
    /\ cur' = SlotOf(cur).seq
    /\ UNCHANGED <<agentVars, lastSeq, primed, pc, hd, rec, appVars, historyVars>>

\* The producer has claimed the slot and not committed it: leave the loop.
SlotUncommitted ==
    /\ AtSlot /\ SlotOf(cur).seq < cur
    /\ pc' = "finish"
    /\ broke' = TRUE
    /\ UNCHANGED <<agentVars, readerVars, hd, cur, rec, appVars, feed, start, got, overtaken>>

CopyType ==
    /\ pc = "copyType"
    /\ rec' = [rec EXCEPT !.type = SlotOf(cur).type]
    /\ pc' = "copyBody"
    /\ UNCHANGED <<agentVars, readerVars, hd, cur, appVars, historyVars>>

CopyBody ==
    /\ pc = "copyBody"
    /\ rec' = [rec EXCEPT !.body = SlotOf(cur).body]
    /\ pc' = "push"
    /\ UNCHANGED <<agentVars, readerVars, hd, cur, appVars, historyVars>>

PushRecord ==
    /\ pc = "push"
    /\ feed' = Append(feed, cur) /\ got' = got + 1
    /\ cur' = cur + 1 /\ pc' = "check"
    /\ UNCHANGED <<agentVars, readerVars, hd, rec, appVars, start, broke, overtaken>>

\* History: events were claimed while this drain ran, up to a lap or more past the event it
\* began with, so that an overrun may have taken the loop beyond its head.
NoteOvertaking ==
    /\ overtaken' = (overtaken \/ (head > hd /\ head > lastSeq + Slots))
    /\ UNCHANGED <<feed, start, got, broke>>

\* Fault: lastSeq is moved only past the slots that were processed.
FinishDrainAtCursor ==
    /\ pc = "finish" \/ (pc = "check" /\ cur >= hd)
    /\ lastSeq' = cur /\ pc' = "idle"
    /\ NoteOvertaking
    /\ UNCHANGED <<agentVars, dropped, primed, hd, cur, rec, appVars>>

\* Fault: an off-by-one leaves the newest event to be drained again.
FinishDrainOneShort ==
    /\ pc = "finish" \/ (pc = "check" /\ cur >= hd)
    /\ lastSeq' = (IF hd > lastSeq THEN hd - 1 ELSE hd) /\ pc' = "idle"
    /\ NoteOvertaking
    /\ UNCHANGED <<agentVars, dropped, primed, hd, cur, rec, appVars>>

\* Whatever ended the loop, and wherever it got to, lastSeq_ becomes the head this drain
\* started from.
FinishDrain ==
    /\ pc = "finish" \/ (pc = "check" /\ cur >= hd)
    /\ lastSeq' = hd /\ pc' = "idle"
    /\ NoteOvertaking
    /\ UNCHANGED <<agentVars, dropped, primed, hd, cur, rec, appVars>>

(***************************************************************************)
(* The user, between two frames (the UI thread runs drains to the end).    *)
(***************************************************************************)
ResetReader ==
    /\ lastSeq' = 0 /\ dropped' = 0 /\ primed' = FALSE
    /\ start' = 0 /\ got' = 0 /\ broke' = FALSE /\ overtaken' = FALSE

\* Session::Open closes the old session first and may then fail; the reader
\* is reset either way.
Attach ==
    /\ pc = "idle"
    /\ open' \in BOOLEAN
    /\ ResetReader
    /\ UNCHANGED <<agentVars, drainVars, paused, feed>>

Detach ==
    /\ pc = "idle" /\ open
    /\ open' = FALSE
    /\ ResetReader
    /\ UNCHANGED <<agentVars, drainVars, paused, feed>>

TogglePause ==
    /\ pc = "idle"
    /\ paused' = ~paused
    /\ UNCHANGED <<agentVars, readerVars, drainVars, open, historyVars>>

-----------------------------------------------------------------------------
Producer == \E w \in Writers : Claim(w) \/ FillType(w) \/ FillBody(w) \/ Commit(w)

Drain ==
    \/ PrimeDrain \/ BeginDrain
    \/ SlotReady \/ SlotOverrun \/ SlotUncommitted
    \/ CopyType \/ CopyBody \/ PushRecord
    \/ FinishDrain

User == Attach \/ Detach \/ TogglePause

Next == Producer \/ Drain \/ User

Spec == Init /\ [][Next]_vars

\* The frame loop calls DrainEvents every frame and a call runs to its end;
\* nothing is assumed of the producers or of the user.
FairSpec == Spec /\ WF_vars(Drain)

-----------------------------------------------------------------------------
(* Properties *)

WriterState == [pc : {"idle", "type", "body", "commit"}, seq : Nat]

\* Types of all variables; `cur` may pass `hd` after an overrun, never `head`.
TypeOK ==
    /\ head \in Nat
    /\ slots \in [0..(Slots - 1) -> [seq : Nat, type : Word, body : Word]]
    /\ wr \in [Writers -> WriterState]
    /\ lastSeq \in Nat /\ dropped \in Nat /\ primed \in BOOLEAN
    /\ pc \in {"idle", "check", "copyType", "copyBody", "push", "finish"}
    /\ hd \in Nat /\ cur \in Nat /\ rec \in Record
    /\ open \in BOOLEAN /\ paused \in BOOLEAN
    /\ feed \in Seq(Nat) /\ start \in Nat /\ got \in Nat
    /\ broke \in BOOLEAN /\ overtaken \in BOOLEAN

\* The ring and its reader implement the abstract feed: no event number is
\* returned twice, out of order or before a producer claimed it, across
\* overruns, early stops, pauses and re-attaching.
Feed == INSTANCE EventFeed WITH next <- head, feed <- feed
FeedIsOrdered == Feed!Spec

\* A record about to be returned carries the type and the body of its own
\* event, unless producers have claimed a whole lap since (head > cur + Slots).
\* EventReader.cpp does not re-read slot.seq after the copy, so the premise is
\* needed. Event 0 is left out: a zero-filled slot already looks committed.
IntactUnlessLapped ==
    pc = "push" /\ cur # 0 /\ head <= cur + Slots =>
        rec = [type |-> cur, body |-> cur]

\* As long as no drain stopped at an uncommitted slot, every event of the
\* session that was not returned has been added to dropCount() (the branches of Drain's
\* loop).
LossIsCounted ==
    pc = "idle" /\ primed /\ ~broke => got + dropped >= lastSeq - start

\* No event is counted as dropped that was returned, nor counted twice, however far the
\* reader had fallen behind before its drains (SlotOverrun, FinishDrain).  The premise leaves
\* out what the code does get wrong: a drain the producers overtake while it runs counts
\* events beyond its head, which the next drain returns or counts again.
CountedOnce ==
    pc = "idle" /\ primed /\ ~overtaken => got + dropped <= lastSeq - start

\* A producer that stalls inside its slot, or producers that never stop, cannot
\* hold the reader back: what is claimed is behind the reader after a while,
\* unless the user pauses or detaches.
CatchesUp ==
    \A h \in 0..MaxSeq :
        (open /\ ~paused /\ head >= h) ~> (lastSeq >= h \/ paused \/ ~open)

\* EventReader.cpp says of an uncommitted slot "retry next tick": an event that
\* was claimed before lastSeq_ would then have been returned or counted.
\* FinishDrain moves lastSeq_ past it, so this does not hold.
UncommittedIsRetried ==
    pc = "idle" /\ primed => got + dropped >= lastSeq - start
=============================================================================
