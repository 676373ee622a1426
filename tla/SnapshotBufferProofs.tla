------------------------ MODULE SnapshotBufferProofs ------------------------
(***************************************************************************)
(* Theorems about SnapshotBuffer for every snapshot size and any number of *)
(* publishes.                                                              *)
(***************************************************************************)
EXTENDS SnapshotBuffer, TLAPS

(***************************************************************************)
(* The strengthening.  The front buffer is all of publish `gen`; the back  *)
(* buffer is the next publish up to word wpos and the one before after it; *)
(* a panel whose pointer was taken with no publish since is in the front.  *)
(***************************************************************************)
FrontIsWhole == \A w \in 1..Words : buf[front][w] = gen

BackIsOldOrNext ==
    \A w \in 1..Words :
        IF w <= wpos THEN buf[1 - front][w] = gen + 1
                     ELSE gen - 1 <= buf[1 - front][w] /\ buf[1 - front][w] <= gen

ViewIsOfLoaded ==
    ui = "view" =>
        /\ loaded <= gen
        /\ gen = loaded => base = front

IInv ==
    /\ TypeOK
    /\ FrontIsWhole /\ BackIsOldOrNext /\ ViewIsOfLoaded
    /\ ViewIntactUntilPublish /\ ViewIsNeverStale

\* Every variable keeps its type.
LEMMA TypeStep == TypeOK /\ [Next]_vars => TypeOK'
<1> SUFFICES ASSUME TypeOK, [Next]_vars PROVE TypeOK'
  OBVIOUS
<1> USE WordsAssumption, MaxGenAssumption
<1>1. CASE WriteWord
  BY <1>1 DEF TypeOK, WriteWord, Snapshot, viewVars, pulseVars
<1>2. CASE Publish
  BY <1>2 DEF TypeOK, Publish, Snapshot, viewVars, pulseVars
<1>3. CASE SkipPulse
  BY <1>3 DEF TypeOK, SkipPulse, producerVars, viewVars
<1>4. CASE LoadPulse
  BY <1>4 DEF TypeOK, LoadPulse, CurrentSnapshot, producerVars, viewVars, pulseVars
<1>5. CASE ReadPulse
  <2>1. buf[base][1] \in Nat
    BY DEF TypeOK, Snapshot
  <2> QED
    BY <1>5, <2>1 DEF TypeOK, ReadPulse, producerVars, viewVars
<1>6. CASE LoadView
  BY <1>6 DEF TypeOK, LoadView, CurrentSnapshot, producerVars, pulseVars
<1>7. CASE ReadWord
  <2>1. buf[base][Len(view) + 1] \in Nat
    BY <1>7 DEF TypeOK, ReadWord, Snapshot
  <2> QED
    BY <1>7, <2>1 DEF TypeOK, ReadWord, producerVars, pulseVars
<1>8. CASE EndFrame
  BY <1>8 DEF TypeOK, EndFrame, producerVars, pulseVars
<1>9. CASE ToggleOpen
  BY <1>9 DEF TypeOK, ToggleOpen, producerVars, viewVars, pulseVars
<1>10. CASE UNCHANGED vars
  BY <1>10 DEF TypeOK, vars, producerVars, viewVars, pulseVars
<1> QED
  BY <1>1, <1>2, <1>3, <1>4, <1>5, <1>6, <1>7, <1>8, <1>9, <1>10 DEF Next, Ui

\* The producer's half: each step of Next keeps both buffers as described.
LEMMA BufferStep ==
    ASSUME TypeOK, FrontIsWhole, BackIsOldOrNext, [Next]_vars
    PROVE  FrontIsWhole' /\ BackIsOldOrNext'
<1> USE WordsAssumption DEF TypeOK, Snapshot, FrontIsWhole, BackIsOldOrNext
<1>1. CASE WriteWord
  <2>1. /\ front' = front /\ gen' = gen /\ wpos' = wpos + 1
        /\ 1 - front \in 0..1 /\ 1 - front # front
        /\ buf'[front] = buf[front]
        /\ \A w \in 1..Words : buf'[1 - front][w] =
               IF w = wpos + 1 THEN gen + 1 ELSE buf[1 - front][w]
    BY <1>1 DEF WriteWord
  <2>2. FrontIsWhole'
    BY <2>1
  <2>3. BackIsOldOrNext'
    <3> SUFFICES ASSUME NEW w \in 1..Words
                 PROVE  IF w <= wpos' THEN buf'[1 - front][w] = gen + 1
                        ELSE gen - 1 <= buf'[1 - front][w] /\ buf'[1 - front][w] <= gen
      BY <2>1
    <3>1. CASE w = wpos + 1
      BY <2>1, <3>1
    <3>2. CASE w # wpos + 1
      BY <2>1, <3>2
    <3> QED
      BY <3>1, <3>2
  <2> QED
    BY <2>2, <2>3
<1>2. CASE Publish
  <2>1. /\ front' = 1 - front /\ gen' = gen + 1 /\ wpos' = 0 /\ wpos = Words
        /\ buf' = buf /\ 1 - front' = front
    BY <1>2 DEF Publish
  <2> QED
    BY <2>1
<1>3. CASE UNCHANGED producerVars
  BY <1>3 DEF producerVars
<1>4. Ui \/ ToggleOpen \/ UNCHANGED vars => UNCHANGED producerVars
  BY DEF Ui, ToggleOpen, SkipPulse, LoadPulse, ReadPulse, LoadView, ReadWord, EndFrame, vars
<1> QED
  BY <1>1, <1>2, <1>3, <1>4 DEF Next

\* The panel's half: what is read is of the buffers as they are described.
LEMMA ViewStep ==
    ASSUME IInv, [Next]_vars
    PROVE  ViewIsOfLoaded' /\ ViewIntactUntilPublish' /\ ViewIsNeverStale'
<1> USE WordsAssumption DEF IInv, TypeOK, ViewIsOfLoaded, ViewIntactUntilPublish, ViewIsNeverStale
<1>1. CASE WriteWord
  BY <1>1 DEF WriteWord, viewVars
<1>2. CASE Publish
  BY <1>2 DEF Publish, viewVars
<1>3. CASE LoadView
  BY <1>3 DEF LoadView, CurrentSnapshot, producerVars
<1>4. CASE ReadWord
  <2> DEFINE w == Len(view) + 1
             x == buf[base][w]
  <2>1. /\ UNCHANGED <<gen, front, base, loaded, ui>> /\ ui = "view"
        /\ w \in 1..Words /\ view' = Append(view, x)
    BY <1>4 DEF ReadWord, producerVars
  <2>2. x \in Nat
    BY <2>1 DEF Snapshot
  <2>3. gen = loaded => x = loaded
    BY <2>1 DEF FrontIsWhole
  <2>4. x >= loaded
    <3>1. base \in {front, 1 - front}
      OBVIOUS
    <3>2. CASE base = front
      BY <2>1, <3>2 DEF FrontIsWhole
    <3>3. CASE base = 1 - front /\ base # front
      <4>1. gen > loaded
        BY <2>1, <3>3
      <4>2. x >= gen - 1
        BY <2>1, <3>3 DEF BackIsOldOrNext
      <4> QED
        BY <2>2, <4>1, <4>2
    <3> QED
      BY <3>1, <3>2, <3>3
  <2>5. \A i \in 1..Len(view') : view'[i] = IF i = w THEN x ELSE view[i]
    BY <2>1, <2>2
  <2>6. Len(view') = w
    BY <2>1, <2>2
  <2> QED
    BY <2>1, <2>3, <2>4, <2>5, <2>6
<1>5. CASE SkipPulse \/ LoadPulse \/ ReadPulse \/ EndFrame
  <2>1. ui' # "view"
    BY <1>5 DEF SkipPulse, LoadPulse, ReadPulse, EndFrame
  <2> QED
    BY <2>1
<1>6. CASE ToggleOpen
  BY <1>6 DEF ToggleOpen, producerVars, viewVars
<1>7. CASE UNCHANGED vars
  BY <1>7 DEF vars, producerVars, viewVars
<1> QED
  BY <1>1, <1>2, <1>3, <1>4, <1>5, <1>6, <1>7 DEF Next, Ui

\* The strengthening is inductive.
THEOREM Inductive == Spec => []IInv
<1>1. Init => IInv
  BY WordsAssumption DEF Init, IInv, TypeOK, Snapshot, FrontIsWhole, BackIsOldOrNext,
     ViewIsOfLoaded, ViewIntactUntilPublish, ViewIsNeverStale
<1>2. IInv /\ [Next]_vars => IInv'
  BY TypeStep, BufferStep, ViewStep DEF IInv
<1> QED
  BY <1>1, <1>2, PTL DEF Spec

\* Type correctness of the snapshot model.
THEOREM TypeCorrect == Spec => []TypeOK
<1>1. IInv => TypeOK
  BY DEF IInv
<1> QED
  BY <1>1, Inductive, PTL

\* A panel's in-place read is whole until the next publish, however long it
\* takes (SnapshotReader.cpp:28 hands out a pointer into the mapping).
THEOREM ViewsAreIntact == Spec => []ViewIntactUntilPublish
<1>1. IInv => ViewIntactUntilPublish
  BY DEF IInv
<1> QED
  BY <1>1, Inductive, PTL

\* A panel never sees a word older than the snapshot in front when it began.
THEOREM ViewsAreNeverStale == Spec => []ViewIsNeverStale
<1>1. IInv => ViewIsNeverStale
  BY DEF IInv
<1> QED
  BY <1>1, Inductive, PTL
=============================================================================
