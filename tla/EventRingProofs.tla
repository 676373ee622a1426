-------------------------- MODULE EventRingProofs --------------------------
(***************************************************************************)
(* Theorems about EventRing, for every number of producers, slots and      *)
(* events.  The inductive invariant IInv is TypeOK plus four parts: who    *)
(* may write which slot (ProducerInv), what a committed slot holds         *)
(* (SlotInv), what the drain knows at each place (DrainInv) and where the  *)
(* returned numbers and the counters stand (FeedInv, AccountInv).          *)
(***************************************************************************)
EXTENDS EventRing, TLAPS

Busy(w) == wr[w].pc # "idle"

\* Producers at work hold different numbers of the last lap, and what they
\* have already stored is still in their slot.
ProducerInv ==
    /\ \A w \in Writers : Busy(w) => wr[w].seq < head /\ head <= wr[w].seq + Slots
    /\ \A v, w \in Writers : v # w /\ Busy(v) /\ Busy(w) => wr[v].seq # wr[w].seq
    /\ \A w \in Writers : wr[w].pc \in {"body", "commit"} => SlotOf(wr[w].seq).type = wr[w].seq
    /\ \A w \in Writers : wr[w].pc = "commit" => SlotOf(wr[w].seq).body = wr[w].seq

\* A committed number is in its own slot, nobody is writing it any more, and
\* its payload is intact until a later number of that slot is claimed.
SlotInv ==
    \A i \in 0..(Slots - 1) : slots[i].seq # 0 =>
        /\ IndexOf(slots[i].seq) = i
        /\ slots[i].seq < head
        /\ \A w \in Writers : Busy(w) => wr[w].seq # slots[i].seq
        /\ head <= slots[i].seq + Slots =>
               slots[i].type = slots[i].seq /\ slots[i].body = slots[i].seq

\* What the drain has established at each place, unless it has been lapped.
DrainInv ==
    /\ pc # "idle" => hd <= head /\ primed
    /\ pc \in {"copyType", "copyBody", "push"} => cur < hd
    /\ cur # 0 /\ head <= cur + Slots =>
           /\ pc \in {"copyType", "copyBody"} => SlotOf(cur).seq = cur
           /\ pc \in {"copyBody", "push"} => rec.type = cur
           /\ pc = "push" => rec.body = cur

\* Returned numbers are increasing, claimed, and behind the reader.
FeedInv ==
    /\ lastSeq <= head
    /\ \A i, j \in 1..Len(feed) : i < j => feed[i] < feed[j]
    /\ \A i \in 1..Len(feed) : feed[i] < head
    /\ primed /\ pc = "idle" => \A i \in 1..Len(feed) : feed[i] < lastSeq
    /\ pc # "idle" => \A i \in 1..Len(feed) : feed[i] < cur /\ feed[i] < hd

\* A loop that has passed its head was overtaken by the producers.
PassedByOvertaking == cur <= hd \/ (head > hd /\ head > lastSeq + Slots)

\* Everything passed by was returned or counted, unless a drain stopped early, and only once,
\* unless a drain was overtaken.
AccountInv ==
    /\ pc = "finish" => broke
    /\ ~broke /\ primed /\ pc = "idle" => got + dropped >= lastSeq - start
    /\ ~broke /\ pc # "idle" => got + dropped >= cur - start
    /\ ~overtaken /\ primed /\ pc = "idle" => got + dropped <= lastSeq - start
    /\ ~overtaken /\ pc # "idle" => got + dropped <= cur - start
    /\ pc # "idle" => lastSeq <= cur /\ PassedByOvertaking
    /\ ~primed => dropped = 0

IInv == TypeOK /\ ProducerInv /\ SlotInv /\ DrainInv /\ FeedInv /\ AccountInv

-----------------------------------------------------------------------------
(* Slot arithmetic *)

\* A sequence number falls into some slot of the ring.
LEMMA IndexInRange ==
    ASSUME NEW seq \in Nat
    PROVE  IndexOf(seq) \in 0..(Slots - 1)
BY SlotsAssumption DEF IndexOf

\* Two different numbers that share a slot are at least one lap apart.
LEMMA LapApart ==
    ASSUME NEW a \in Nat, NEW b \in Nat, IndexOf(a) = IndexOf(b), a < b
    PROVE  a + Slots <= b
<1>1. /\ a = (Slots * (a \div Slots)) + (a % Slots)
      /\ b = (Slots * (b \div Slots)) + (b % Slots)
      /\ a % Slots = b % Slots
    BY SlotsAssumption DEF IndexOf
<1> DEFINE x == a \div Slots
           y == b \div Slots
<1>2. x \in Int /\ y \in Int /\ Slots \in Int /\ Slots >= 1
    BY SlotsAssumption
<1>3. (Slots * y) - (Slots * x) = b - a
    BY <1>1, SlotsAssumption
<1> HIDE DEF x, y
<1>4. Slots * (y - x) = b - a
    BY <1>2, <1>3
<1>5. y - x >= 1
    <2>1. CASE y - x <= 0
        <3>1. Slots * (y - x) <= 0
            BY <1>2, <2>1
        <3> QED BY <1>4, <3>1
    <2> QED BY <1>2, <2>1
<1>6. Slots * (y - x) >= Slots
    BY <1>2, <1>5
<1> QED BY <1>2, <1>4, <1>6

\* Two different numbers of the last lap are in different slots.
LEMMA LastLapDistinct ==
    ASSUME NEW h \in Nat, NEW a \in Nat, NEW b \in Nat, a # b,
           a < h, b < h, h <= a + Slots, h <= b + Slots
    PROVE  IndexOf(a) # IndexOf(b)
<1>1. CASE a < b
    BY <1>1, LapApart, SlotsAssumption
<1>2. CASE b < a
    BY <1>2, LapApart, SlotsAssumption
<1> QED BY <1>1, <1>2

-----------------------------------------------------------------------------
(* Type correctness *)

\* A producer's store keeps the types.
LEMMA StoreTypes ==
    ASSUME TypeOK, NEW w \in Writers, NEW from, NEW field \in {"seq", "type", "body"},
           NEW to \in {"idle", "body", "commit"}, Store(w, from, field, to)
    PROVE  TypeOK'
<1> DEFINE c == wr[w].seq
           i == IndexOf(c)
<1>1. c \in Nat /\ i \in 0..(Slots - 1)
    BY IndexInRange DEF TypeOK, WriterState
<1>2. slots' = [slots EXCEPT ![i][field] = c] /\ wr' = [wr EXCEPT ![w].pc = to]
    BY DEF Store
<1> HIDE DEF c, i
<1>3. slots' \in [0..(Slots - 1) -> [seq : Nat, type : Word, body : Word]]
    <2>1. \/ slots' = [slots EXCEPT ![i].seq = c]
          \/ slots' = [slots EXCEPT ![i].type = c]
          \/ slots' = [slots EXCEPT ![i].body = c]
        BY <1>2
    <2> DEFINE Slot == [seq : Nat, type : Word, body : Word]
    <2>2. slots \in [0..(Slots - 1) -> Slot] /\ c \in Nat /\ c \in Word
        BY <1>1 DEF TypeOK, Word
    <2>3. /\ [slots[i] EXCEPT !.seq = c] \in Slot
          /\ [slots[i] EXCEPT !.type = c] \in Slot
          /\ [slots[i] EXCEPT !.body = c] \in Slot
        BY <1>1, <2>2
    <2>4. \E v \in Slot : slots' = [slots EXCEPT ![i] = v]
        BY <2>1, <2>3
    <2> HIDE DEF Slot
    <2>5. slots' \in [0..(Slots - 1) -> Slot]
        BY <1>1, <2>2, <2>4
    <2> QED BY <2>5 DEF Slot
<1>4. wr' \in [Writers -> WriterState]
    BY <1>2 DEF TypeOK, WriterState
<1>5. UNCHANGED <<head, readerVars, drainVars, appVars, historyVars>>
    BY DEF Store
<1> QED
    BY <1>3, <1>4, <1>5 DEF TypeOK, readerVars, drainVars, appVars, historyVars

\* Each action keeps the types; SlotOverrun does because it adds s2 - seq only
\* when s2 > seq, so the unsigned counter never sees a negative step.
LEMMA TypeStep == TypeOK /\ [Next]_vars => TypeOK'
<1> SUFFICES ASSUME TypeOK, [Next]_vars PROVE TypeOK'
    OBVIOUS
<1> USE SlotsAssumption DEF TypeOK, WriterState, Record, Word
<1>1. ASSUME NEW w \in Writers, Claim(w) PROVE TypeOK'
    BY <1>1 DEF Claim, readerVars, drainVars, appVars, historyVars
<1>2. ASSUME NEW w \in Writers, FillType(w) PROVE TypeOK'
    BY <1>2, StoreTypes DEF FillType
<1>3. ASSUME NEW w \in Writers, FillBody(w) PROVE TypeOK'
    BY <1>3, StoreTypes DEF FillBody
<1>4. ASSUME NEW w \in Writers, Commit(w) PROVE TypeOK'
    BY <1>4, StoreTypes DEF Commit
<1>5. CASE PrimeDrain
    BY <1>5 DEF PrimeDrain, agentVars, drainVars, appVars
<1>6. CASE BeginDrain
    BY <1>6 DEF BeginDrain, agentVars, readerVars, appVars, historyVars
<1>7. CASE SlotReady
    BY <1>7 DEF SlotReady, agentVars, readerVars, appVars, historyVars
<1>8. CASE SlotOverrun
    <2>1. SlotOf(cur).seq \in Nat
        BY IndexInRange DEF SlotOf
    <2> QED BY <1>8, <2>1 DEF SlotOverrun, agentVars, appVars, historyVars
<1>9. CASE SlotUncommitted
    BY <1>9 DEF SlotUncommitted, agentVars, readerVars, appVars
<1>10. CASE CopyType
    BY <1>10, IndexInRange DEF CopyType, SlotOf, agentVars, readerVars, appVars, historyVars
<1>11. CASE CopyBody
    BY <1>11, IndexInRange DEF CopyBody, SlotOf, agentVars, readerVars, appVars, historyVars
<1>12. CASE PushRecord
    BY <1>12 DEF PushRecord, agentVars, readerVars, appVars
<1>13. CASE FinishDrain
    BY <1>13 DEF FinishDrain, NoteOvertaking, agentVars, appVars
<1>14. CASE Attach
    BY <1>14 DEF Attach, ResetReader, agentVars, drainVars
<1>15. CASE Detach
    BY <1>15 DEF Detach, ResetReader, agentVars, drainVars
<1>16. CASE TogglePause
    BY <1>16 DEF TogglePause, agentVars, readerVars, drainVars, historyVars
<1>17. CASE UNCHANGED vars
    BY <1>17 DEF vars, agentVars, readerVars, drainVars, appVars, historyVars
<1> QED
    BY <1>1, <1>2, <1>3, <1>4, <1>5, <1>6, <1>7, <1>8, <1>9, <1>10, <1>11,
       <1>12, <1>13, <1>14, <1>15, <1>16, <1>17
    DEF Next, Producer, Drain, User

\* The initial state is well typed.
LEMMA TypeInit == Init => TypeOK
<1> SUFFICES ASSUME Init PROVE TypeOK
    OBVIOUS
<1>1. /\ slots \in [0..(Slots - 1) -> [seq : Nat, type : Word, body : Word]]
      /\ wr \in [Writers -> WriterState]
    BY DEF Init, WriterState, Word
<1>2. rec \in Record
    BY DEF Init, Record, Word
<1>3. feed \in Seq(Nat)
    BY DEF Init
<1> QED BY <1>1, <1>2, <1>3 DEF Init, TypeOK

\* The type invariant, for every instance.
THEOREM TypeCorrect == Spec => []TypeOK
BY TypeInit, TypeStep, PTL DEF Spec

-----------------------------------------------------------------------------
(* The ring: producers and slots *)

\* Only producers write the ring, so the reader and the user disturb neither
\* part; a producer can disturb another's slot only by being a lap away.
LEMMA RingStep ==
    TypeOK /\ ProducerInv /\ SlotInv /\ [Next]_vars => ProducerInv' /\ SlotInv'
<1> SUFFICES ASSUME TypeOK, ProducerInv, SlotInv, [Next]_vars
             PROVE  ProducerInv' /\ SlotInv'
    OBVIOUS
<1>1. ASSUME NEW w \in Writers, Claim(w) PROVE ProducerInv' /\ SlotInv'
    <2>1. /\ wr' = [wr EXCEPT ![w] = [pc |-> "type", seq |-> head]]
          /\ head' = head + 1 /\ slots' = slots /\ wr[w].pc = "idle"
        BY <1>1 DEF Claim
    <2>2. \A v \in Writers : Busy(v) => head' <= wr[v].seq + Slots
        BY <1>1, SlotsAssumption DEF Claim, NobodyLapped, Busy, TypeOK, WriterState
    <2>3. ProducerInv'
        <3>1. \A v \in Writers : v # w => wr'[v] = wr[v]
            BY <2>1 DEF TypeOK
        <3>2. wr'[w] = [pc |-> "type", seq |-> head]
            BY <2>1 DEF TypeOK
        <3>3. \A v \in Writers : Busy(v)' => wr'[v].seq < head' /\ head' <= wr'[v].seq + Slots
            BY <2>1, <2>2, <3>1, <3>2, SlotsAssumption DEF ProducerInv, Busy, TypeOK, WriterState
        <3>4. \A u, v \in Writers : u # v /\ Busy(u)' /\ Busy(v)' => wr'[u].seq # wr'[v].seq
            BY <2>1, <3>1, <3>2 DEF ProducerInv, Busy, TypeOK, WriterState
        <3>5. \A v \in Writers :
                 /\ wr'[v].pc \in {"body", "commit"} => SlotOf(wr[v].seq)'.type = wr'[v].seq
                 /\ wr'[v].pc = "commit" => SlotOf(wr[v].seq)'.body = wr'[v].seq
            BY <2>1, <3>1, <3>2 DEF ProducerInv, SlotOf
        <3> QED BY <3>3, <3>4, <3>5 DEF ProducerInv
    <2>4. SlotInv'
        <3>1. \A v \in Writers : Busy(v)' => wr'[v].seq = head \/ (Busy(v) /\ wr'[v].seq = wr[v].seq)
            BY <2>1 DEF Busy, TypeOK, WriterState
        <3>2. \A i \in 0..(Slots - 1) : slots[i].seq \in Nat /\ head \in Nat
            BY DEF TypeOK
        <3> QED BY <2>1, <3>1, <3>2, SlotsAssumption DEF SlotInv
    <2> QED BY <2>3, <2>4
<1>2. ASSUME NEW w \in Writers, FillType(w) \/ FillBody(w) \/ Commit(w)
      PROVE  ProducerInv' /\ SlotInv'
    <2> DEFINE c == wr[w].seq
               i == IndexOf(c)
    <2>1. c \in Nat /\ i \in 0..(Slots - 1) /\ c < head /\ head <= c + Slots /\ Busy(w)
        BY <1>2, IndexInRange DEF ProducerInv, Busy, FillType, FillBody, Commit, Store, TypeOK, WriterState
    <2>2. ASSUME NEW v \in Writers, v # w, Busy(v) PROVE IndexOf(wr[v].seq) # i
        <3>1. wr[v].seq \in Nat /\ wr[v].seq < head /\ head <= wr[v].seq + Slots /\ wr[v].seq # c
            BY <2>1, <2>2 DEF ProducerInv, TypeOK, WriterState
        <3>2. head \in Nat
            BY DEF TypeOK
        <3> HIDE DEF c
        <3> QED BY <2>1, <3>1, <3>2, LastLapDistinct
    <2>3. slots[i].seq # 0 => slots[i].seq # c /\ head > slots[i].seq + Slots
        <3>1. CASE slots[i].seq # 0
            <4>1. slots[i].seq \in Nat /\ IndexOf(slots[i].seq) = i /\ slots[i].seq < head /\ slots[i].seq # c
                BY <2>1, <3>1 DEF SlotInv, TypeOK
            <4>2. head \in Nat /\ IndexOf(c) = i
                BY DEF TypeOK
            <4> DEFINE s == slots[i].seq
            <4>3. s \in Nat /\ IndexOf(s) = IndexOf(c) /\ s < head /\ s # c
                BY <4>1, <4>2
            <4> HIDE DEF s, c, i
            <4>4. ~(c < s)
                BY <2>1, <4>2, <4>3, LapApart, SlotsAssumption
            <4>5. s + Slots <= c
                BY <2>1, <4>3, <4>4, LapApart
            <4>6. s # c /\ head > s + Slots
                BY <2>1, <4>2, <4>3, <4>5, SlotsAssumption
            <4> QED BY <4>6 DEF s
        <3> QED BY <3>1
    <2>4. head' = head
        BY <1>2 DEF FillType, FillBody, Commit, Store
    <2> HIDE DEF c, i
    <2>5. CASE FillType(w)
        <3>1. /\ slots' = [slots EXCEPT ![i].type = c]
              /\ wr' = [wr EXCEPT ![w].pc = "body"] /\ wr[w].pc = "type"
            BY <2>5 DEF FillType, Store, c, i
        <3>2. ProducerInv'
            BY <2>1, <2>2, <2>4, <3>1 DEF ProducerInv, SlotOf, Busy, TypeOK, WriterState, c, i
        <3>3. \A v \in Writers : Busy(v)' => Busy(v) /\ wr'[v].seq = wr[v].seq
            BY <2>1, <3>1 DEF Busy, TypeOK, WriterState
        <3>4. /\ \A j \in 0..(Slots - 1) : j # i => slots'[j] = slots[j]
              /\ slots'[i].seq = slots[i].seq
              /\ slots[i].seq \in Nat /\ head \in Nat
            BY <2>1, <3>1 DEF TypeOK
        <3>5. SlotInv'
            BY <2>1, <2>3, <2>4, <3>3, <3>4, SlotsAssumption DEF SlotInv
        <3> QED BY <3>2, <3>5
    <2>6. CASE FillBody(w)
        <3>1. /\ slots' = [slots EXCEPT ![i].body = c]
              /\ wr' = [wr EXCEPT ![w].pc = "commit"] /\ wr[w].pc = "body"
            BY <2>6 DEF FillBody, Store, c, i
        <3> QED BY <2>1, <2>2, <2>3, <2>4, <3>1
            DEF ProducerInv, SlotInv, SlotOf, Busy, TypeOK, WriterState, c, i
    <2>7. CASE Commit(w)
        <3>1. /\ slots' = [slots EXCEPT ![i].seq = c]
              /\ wr' = [wr EXCEPT ![w].pc = "idle"] /\ wr[w].pc = "commit"
            BY <2>7 DEF Commit, Store, c, i
        <3> QED BY <2>1, <2>2, <2>3, <2>4, <3>1
            DEF ProducerInv, SlotInv, SlotOf, Busy, TypeOK, WriterState, c, i
    <2> QED BY <1>2, <2>5, <2>6, <2>7
<1>3. CASE UNCHANGED agentVars
    BY <1>3 DEF agentVars, ProducerInv, SlotInv, Busy, SlotOf
<1>4. Drain \/ User \/ UNCHANGED vars => UNCHANGED agentVars
    BY DEF Drain, User, vars, PrimeDrain, BeginDrain, SlotReady, SlotOverrun, SlotUncommitted,
           CopyType, CopyBody, PushRecord, FinishDrain, Attach, Detach, TogglePause
<1> QED BY <1>1, <1>2, <1>3, <1>4 DEF Next, Producer

-----------------------------------------------------------------------------
(* The reader *)

\* While the reader copies, a producer that writes into the same slot either
\* is a lap ahead (the premise of DrainInv is gone) or cannot exist.
LEMMA DrainStep ==
    TypeOK /\ ProducerInv /\ SlotInv /\ DrainInv /\ [Next]_vars => DrainInv'
<1> SUFFICES ASSUME TypeOK, ProducerInv, SlotInv, DrainInv, [Next]_vars
             PROVE  DrainInv'
    OBVIOUS
<1> USE DEF DrainInv, AtSlot
<1>1. ASSUME NEW w \in Writers, Claim(w) PROVE DrainInv'
    <2>1. /\ SlotOf(cur)' = SlotOf(cur)
          /\ head' = head + 1 /\ UNCHANGED <<pc, hd, cur, rec, primed>>
        BY <1>1 DEF Claim, SlotOf, drainVars, readerVars
    <2> QED BY <2>1, SlotsAssumption DEF TypeOK
<1>2. ASSUME NEW w \in Writers, FillType(w) \/ FillBody(w) PROVE DrainInv'
    <2>1. \A i \in 0..(Slots - 1) : slots'[i].seq = slots[i].seq
        <3>1. wr[w].seq \in Nat
            BY DEF TypeOK, WriterState
        <3>2. CASE FillType(w)
            BY <3>1, <3>2, IndexInRange DEF FillType, Store, TypeOK
        <3>3. CASE FillBody(w)
            BY <3>1, <3>3, IndexInRange DEF FillBody, Store, TypeOK
        <3> QED BY <1>2, <3>2, <3>3
    <2>2. SlotOf(cur)'.seq = SlotOf(cur).seq
        BY <1>2, <2>1, IndexInRange DEF SlotOf, FillType, FillBody, Store, drainVars, TypeOK
    <2> QED BY <1>2, <2>2 DEF FillType, FillBody, Store, drainVars, readerVars
<1>3. ASSUME NEW w \in Writers, Commit(w) PROVE DrainInv'
    <2> DEFINE c == wr[w].seq
    <2>1. /\ c \in Nat /\ c < head /\ head <= c + Slots /\ Busy(w)
          /\ UNCHANGED <<head, pc, hd, cur, rec, primed>>
        BY <1>3 DEF Commit, Store, ProducerInv, Busy, TypeOK, WriterState, drainVars, readerVars
    <2>2. ASSUME pc \in {"copyType", "copyBody"}, cur # 0, head <= cur + Slots
          PROVE  SlotOf(cur)'.seq = cur
        <3>1. cur \in Nat /\ cur < head /\ head \in Nat /\ SlotOf(cur).seq = cur
            BY <2>2 DEF TypeOK
        <3>2. c # cur
            BY <2>1, <3>1, <2>2, IndexInRange DEF SlotInv, SlotOf
        <3> HIDE DEF c
        <3>3. IndexOf(c) # IndexOf(cur)
            BY <2>1, <2>2, <3>1, <3>2, LastLapDistinct
        <3>4. slots'[IndexOf(cur)] = slots[IndexOf(cur)]
            BY <1>3, <3>1, <3>3, IndexInRange DEF Commit, Store, TypeOK, c
        <3> QED BY <2>1, <3>1, <3>4 DEF SlotOf
    <2> QED BY <2>1, <2>2
<1>4. CASE SlotReady
    BY <1>4 DEF SlotReady, SlotOf, agentVars, readerVars, TypeOK
<1>5. CASE CopyType
    <2>1. cur # 0 /\ head <= cur + Slots => SlotOf(cur).type = cur
        BY <1>5, IndexInRange DEF CopyType, SlotInv, SlotOf, TypeOK
    <2> QED BY <1>5, <2>1 DEF CopyType, SlotOf, agentVars, readerVars, TypeOK, Record
<1>6. CASE CopyBody
    <2>1. cur # 0 /\ head <= cur + Slots => SlotOf(cur).body = cur
        BY <1>6, IndexInRange DEF CopyBody, SlotInv, SlotOf, TypeOK
    <2> QED BY <1>6, <2>1 DEF CopyBody, SlotOf, agentVars, readerVars, TypeOK, Record
<1>7. CASE PrimeDrain \/ BeginDrain \/ SlotOverrun \/ SlotUncommitted \/ PushRecord \/ FinishDrain
    BY <1>7 DEF PrimeDrain, BeginDrain, SlotOverrun, SlotUncommitted, PushRecord, FinishDrain,
                MayDrain, agentVars, readerVars, drainVars, TypeOK
<1>8. CASE User
    BY <1>8 DEF User, Attach, Detach, TogglePause, ResetReader, agentVars, readerVars, drainVars
<1>9. CASE UNCHANGED vars
    BY <1>9 DEF vars, SlotOf, agentVars, readerVars, drainVars
<1> QED
    BY <1>1, <1>2, <1>3, <1>4, <1>5, <1>6, <1>7, <1>8, <1>9 DEF Next, Producer, Drain

\* Only PushRecord grows the feed, with a number beyond everything in it.
LEMMA FeedStep ==
    TypeOK /\ DrainInv /\ FeedInv /\ [Next]_vars => FeedInv'
<1> SUFFICES ASSUME TypeOK, DrainInv, FeedInv, [Next]_vars
             PROVE  FeedInv'
    OBVIOUS
<1> USE DEF FeedInv, AtSlot
<1>1. CASE Producer
    <2>1. head' >= head /\ UNCHANGED <<lastSeq, primed, pc, hd, cur, feed>>
        BY <1>1 DEF Producer, Claim, FillType, FillBody, Commit, Store, TypeOK,
                    readerVars, drainVars, historyVars
    <2>2. head \in Nat /\ head' \in Int /\ lastSeq \in Nat /\ feed \in Seq(Nat)
        BY <1>1 DEF Producer, Claim, FillType, FillBody, Commit, Store, TypeOK
    <2> QED BY <2>1, <2>2
<1>2. CASE PushRecord
    <2>1. /\ feed \in Seq(Nat) /\ cur \in Nat /\ hd \in Nat /\ head \in Nat
          /\ cur < hd /\ hd <= head
          /\ feed' = Append(feed, cur) /\ cur' = cur + 1 /\ pc' = "check"
          /\ UNCHANGED <<head, hd, lastSeq>>
        BY <1>2 DEF PushRecord, DrainInv, TypeOK, agentVars, readerVars
    <2>2. /\ Len(feed') = Len(feed) + 1 /\ Len(feed) \in Nat
          /\ \A i \in 1..Len(feed) : feed'[i] = feed[i]
          /\ feed'[Len(feed) + 1] = cur
        BY <2>1
    <2>3. \A i \in 1..Len(feed) : feed[i] < cur /\ feed[i] \in Nat
        BY <1>2, <2>1 DEF PushRecord
    <2> QED BY <2>1, <2>2, <2>3
<1>3. CASE BeginDrain
    BY <1>3 DEF BeginDrain, MayDrain, agentVars, readerVars, historyVars, TypeOK
<1>4. CASE SlotOverrun
    <2>1. cur' > cur /\ cur \in Nat /\ cur' \in Nat
        BY <1>4, IndexInRange DEF SlotOverrun, SlotOf, TypeOK
    <2> QED BY <1>4, <2>1 DEF SlotOverrun, agentVars, historyVars, TypeOK
<1>5. CASE PrimeDrain \/ FinishDrain
    BY <1>5 DEF PrimeDrain, FinishDrain, NoteOvertaking, MayDrain, DrainInv, agentVars, drainVars,
                TypeOK
<1>6. CASE SlotReady \/ SlotUncommitted \/ CopyType \/ CopyBody
    BY <1>6 DEF SlotReady, SlotUncommitted, CopyType, CopyBody, agentVars, readerVars, historyVars
<1>7. CASE User
    BY <1>7 DEF User, Attach, Detach, TogglePause, ResetReader, agentVars, readerVars,
                drainVars, historyVars, TypeOK
<1>8. CASE UNCHANGED vars
    BY <1>8 DEF vars, agentVars, readerVars, drainVars, historyVars
<1> QED BY <1>1, <1>2, <1>3, <1>4, <1>5, <1>6, <1>7, <1>8 DEF Next, Drain

\* Where the loop overruns, it lands a lap or more ahead, on a number that was claimed.
LEMMA OverrunLands ==
    ASSUME TypeOK, SlotInv, SlotOverrun
    PROVE  cur' \in Nat /\ cur + Slots <= cur' /\ cur' < head
<1> DEFINE s == SlotOf(cur).seq
<1>1. cur \in Nat /\ head \in Nat /\ s \in Nat /\ s > cur /\ cur' = s
  BY IndexInRange DEF SlotOverrun, SlotOf, TypeOK
<1>2. IndexOf(s) = IndexOf(cur) /\ s < head
  BY <1>1, IndexInRange DEF SlotOf, SlotInv
<1> HIDE DEF s
<1> QED
  BY <1>1, <1>2, LapApart, SlotsAssumption

\* Each pass through the loop adds to got + dropped what it adds to cur, and only an overrun
\* while the producers overtake the drain takes cur past the head that becomes lastSeq.
LEMMA AccountStep ==
    TypeOK /\ SlotInv /\ DrainInv /\ FeedInv /\ AccountInv /\ [Next]_vars => AccountInv'
<1> SUFFICES ASSUME TypeOK, SlotInv, DrainInv, FeedInv, AccountInv, [Next]_vars PROVE AccountInv'
    OBVIOUS
<1> USE DEF AccountInv, AtSlot, PassedByOvertaking
<1>1. CASE Producer
    <2>1. head \in Nat /\ head' \in Nat /\ head' >= head
        BY <1>1 DEF Producer, Claim, FillType, FillBody, Commit, Store, TypeOK
    <2>2. UNCHANGED <<lastSeq, dropped, primed, pc, hd, cur, start, got, broke, overtaken>>
        BY <1>1 DEF Producer, Claim, FillType, FillBody, Commit, Store,
                    readerVars, drainVars, historyVars
    <2> QED BY <2>1, <2>2, SlotsAssumption DEF TypeOK
<1>2. CASE SlotOverrun
    <2>1. cur' \in Nat /\ cur + Slots <= cur' /\ cur' < head
        BY <1>2, OverrunLands
    <2>2. /\ pc = "check" /\ pc' = pc /\ dropped' = dropped + (cur' - cur)
          /\ UNCHANGED <<head, lastSeq, primed, hd, start, got, broke, overtaken>>
        BY <1>2 DEF SlotOverrun, agentVars, historyVars
    <2>3. primed
        BY <2>2 DEF DrainInv
    <2>4. /\ lastSeq \in Nat /\ dropped \in Nat /\ hd \in Nat /\ cur \in Nat /\ head \in Nat
          /\ start \in Nat /\ got \in Nat
        BY DEF TypeOK
    <2>5. lastSeq' <= cur' /\ PassedByOvertaking'
        <3>1. lastSeq <= cur
            BY <2>2
        <3> QED BY <2>1, <2>2, <2>4, <3>1, SlotsAssumption
    <2>6. /\ ~broke => got + dropped' >= cur' - start
          /\ ~overtaken => got + dropped' <= cur' - start
        <3>1. dropped' = dropped + (cur' - cur) /\ dropped' \in Int
            BY <2>1, <2>2, <2>4
        <3> DEFINE d2 == dropped'
                   c2 == cur'
        <3>4. d2 = dropped + (c2 - cur) /\ d2 \in Int /\ c2 \in Nat
            BY <2>1, <3>1
        <3> HIDE DEF d2, c2
        <3>2. ASSUME ~broke PROVE got + d2 >= c2 - start
            <4>1. got + dropped >= cur - start
                BY <2>2, <3>2
            <4> QED BY <2>4, <3>4, <4>1
        <3>3. ASSUME ~overtaken PROVE got + d2 <= c2 - start
            <4>1. got + dropped <= cur - start
                BY <2>2, <3>3
            <4> QED BY <2>4, <3>4, <4>1
        <3> QED BY <3>2, <3>3 DEF d2, c2
    <2>7. got' = got
        BY <1>2 DEF SlotOverrun, historyVars
    <2> QED BY <2>2, <2>3, <2>5, <2>6, <2>7
<1>3. CASE PushRecord
    BY <1>3 DEF PushRecord, agentVars, readerVars, DrainInv, TypeOK
<1>4. CASE PrimeDrain \/ BeginDrain \/ SlotReady \/ SlotUncommitted \/ CopyType \/ CopyBody
    BY <1>4 DEF PrimeDrain, BeginDrain, SlotReady, SlotUncommitted, CopyType, CopyBody,
                MayDrain, FeedInv, agentVars, readerVars, drainVars, historyVars, TypeOK
<1>5. CASE FinishDrain
    <2>1. /\ pc' = "idle" /\ lastSeq' = hd /\ (pc = "finish" \/ (pc = "check" /\ cur >= hd))
          /\ UNCHANGED <<head, dropped, primed, start, got, broke>>
          /\ overtaken' = (overtaken \/ (head > hd /\ head > lastSeq + Slots))
        BY <1>5 DEF FinishDrain, NoteOvertaking, agentVars
    <2>2. ~overtaken' => ~overtaken /\ cur <= hd
        BY <2>1
    <2>3. primed
        BY <2>1 DEF DrainInv
    <2> QED BY <2>1, <2>2, <2>3, SlotsAssumption DEF TypeOK
<1>6. CASE User
    BY <1>6 DEF User, Attach, Detach, TogglePause, ResetReader, agentVars, readerVars,
                drainVars, historyVars
<1>7. CASE UNCHANGED vars
    BY <1>7 DEF vars, agentVars, readerVars, drainVars, historyVars
<1> QED BY <1>1, <1>2, <1>3, <1>4, <1>5, <1>6, <1>7 DEF Next, Drain

-----------------------------------------------------------------------------
(* The theorems *)

\* IInv is inductive.
THEOREM Inductive == Spec => []IInv
<1>1. Init => IInv
    <2>1. Init => TypeOK
        BY TypeInit
    <2>2. Init => ProducerInv /\ SlotInv
        BY DEF Init, ProducerInv, SlotInv, Busy
    <2>3. Init => DrainInv /\ FeedInv /\ AccountInv
        BY DEF Init, DrainInv, FeedInv, AccountInv, PassedByOvertaking
    <2> QED BY <2>1, <2>2, <2>3 DEF IInv
<1>2. IInv /\ [Next]_vars => IInv'
    BY TypeStep, RingStep, DrainStep, FeedStep, AccountStep DEF IInv
<1> QED BY <1>1, <1>2, PTL DEF Spec

\* A returned record is its own event's, unless the reader has been lapped.
THEOREM RecordsAreIntact == Spec => []IntactUnlessLapped
<1>1. IInv => IntactUnlessLapped
    <2> SUFFICES ASSUME IInv, pc = "push", cur # 0, head <= cur + Slots
                 PROVE  rec = [type |-> cur, body |-> cur]
        BY DEF IntactUnlessLapped
    <2>1. rec.type = cur /\ rec.body = cur
        BY DEF IInv, DrainInv
    <2>2. rec \in [type : Word, body : Word]
        BY DEF IInv, TypeOK, Record
    <2> QED BY <2>1, <2>2
<1> QED BY <1>1, Inductive, PTL

\* Without an early stop, at least what was not returned was counted as dropped.
THEOREM LossesAreCounted == Spec => []LossIsCounted
<1>1. IInv => LossIsCounted
    BY DEF IInv, AccountInv, LossIsCounted
<1> QED BY <1>1, Inductive, PTL

\* Unless a drain was overtaken, nothing was counted as dropped that was returned or
\* counted before.
THEOREM DropsAreCountedOnce == Spec => []CountedOnce
<1>1. IInv => CountedOnce
    BY DEF IInv, AccountInv, CountedOnce
<1> QED BY <1>1, Inductive, PTL

\* The two together: in a session where no drain stopped early and none was overtaken,
\* what was returned and what was counted add up to exactly what the session has seen.
AccountIsExact ==
    pc = "idle" /\ primed /\ ~broke /\ ~overtaken => got + dropped = lastSeq - start

THEOREM AccountsAreExact == Spec => []AccountIsExact
<1>1. IInv => AccountIsExact
    <2> SUFFICES ASSUME IInv, pc = "idle", primed, ~broke, ~overtaken
                 PROVE  got + dropped = lastSeq - start
        BY DEF AccountIsExact
    <2>1. got + dropped >= lastSeq - start /\ got + dropped <= lastSeq - start
        BY DEF IInv, AccountInv
    <2>2. got \in Nat /\ dropped \in Nat /\ lastSeq \in Nat /\ start \in Nat
        BY DEF IInv, TypeOK
    <2> QED BY <2>1, <2>2
<1> QED BY <1>1, Inductive, PTL

\* The ring with its reader implements the abstract feed.
THEOREM ImplementsFeed == Spec => FeedIsOrdered
<1>1. Init => Feed!Init
    BY DEF Init, Feed!Init
<1>2. IInv /\ [Next]_vars => [Feed!Next]_<<head, feed>>
    <2> SUFFICES ASSUME IInv, [Next]_vars PROVE Feed!Next \/ UNCHANGED <<head, feed>>
        OBVIOUS
    <2>1. ASSUME NEW w \in Writers, Claim(w) PROVE Feed!Next
        BY <2>1 DEF Claim, historyVars, Feed!Next, Feed!Publish
    <2>2. CASE PushRecord
        <3>1. cur \in 0..(head - 1) /\ \A i \in 1..Len(feed) : feed[i] < cur
            BY <2>2 DEF PushRecord, IInv, TypeOK, DrainInv, FeedInv
        <3>2. feed' = Append(feed, cur) /\ head' = head
            BY <2>2 DEF PushRecord, agentVars
        <3>3. Feed!Deliver(cur)
            BY <3>1, <3>2 DEF Feed!Deliver
        <3> QED BY <3>1, <3>3 DEF Feed!Next
    <2>3. CASE User \/ UNCHANGED vars
        BY <2>3 DEF User, Attach, Detach, TogglePause, vars, agentVars, historyVars
    <2>4. ASSUME NEW w \in Writers, FillType(w) \/ FillBody(w) \/ Commit(w)
          PROVE  UNCHANGED <<head, feed>>
        BY <2>4 DEF FillType, FillBody, Commit, Store, historyVars
    <2>5. CASE Drain /\ ~PushRecord
        BY <2>5 DEF Drain, PrimeDrain, BeginDrain, SlotReady, SlotOverrun, SlotUncommitted,
                    CopyType, CopyBody, FinishDrain, NoteOvertaking, agentVars, historyVars
    <2> QED BY <2>1, <2>2, <2>3, <2>4, <2>5 DEF Next, Producer
<1> QED BY <1>1, <1>2, Inductive, PTL DEF Spec, FeedIsOrdered, Feed!Spec, Feed!vars
=============================================================================
