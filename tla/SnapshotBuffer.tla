--------------------------- MODULE SnapshotBuffer ---------------------------
(***************************************************************************)
(* The double-buffered snapshot in shared memory (wire/ipc/SharedLayout.h) *)
(* and its readers in the debugger: CurrentSnapshot, App::UpdateTickPulse  *)
(* and a panel that works on the mapping in place for the rest of its      *)
(* frame, a blocking RPC between two fields included (InventoryPanel's     *)
(* FetchObjVars).                                                          *)
(*                                                                         *)
(* The producer is the agent, external to this repository: it fills the    *)
(* back buffer, then flips frontIdx.  A snapshot is abstracted to Words    *)
(* words, each holding the number of the publish it was written for; word  *)
(* 1 is publishSeq, which in the code is that number.                      *)
(***************************************************************************)
EXTENDS Integers, Sequences

CONSTANTS
    Words,      \* words of a snapshot
    MaxGen      \* bound: publishes in a behaviour

ASSUME WordsAssumption == Words \in Nat \ {0}
ASSUME MaxGenAssumption == MaxGen \in Nat

VARIABLES
    front, buf,     \* the mapping: frontIdx and the two buffers
    gen, wpos,      \* the producer: publishes so far, words of the next one written
    open,           \* a session is attached
    ui, base, view, \* the UI thread: place in the frame, buffer its pointer is
                    \* into, words the panel has read through it
    seen, pulse,    \* App::lastPublishSeqSeen; is the pulse lit this frame
    loaded          \* history: gen when the panel called CurrentSnapshot

producerVars == <<front, buf, gen, wpos>>
pulseVars    == <<seen, pulse>>
viewVars     == <<view, loaded>>
vars == <<producerVars, open, ui, base, viewVars, pulseVars>>

Init ==     \* a freshly created (zero-filled) mapping, not attached
    /\ front = 0 /\ buf = [b \in 0..1 |-> [w \in 1..Words |-> 0]]
    /\ gen = 0 /\ wpos = 0
    /\ open = FALSE
    /\ ui = "pulse" /\ base = 0 /\ view = << >> /\ loaded = 0
    /\ seen = 0 /\ pulse = FALSE

(***************************************************************************)
(* The producer (external): never touches the buffer frontIdx points at.   *)
(***************************************************************************)
WriteWord ==
    /\ wpos < Words /\ gen < MaxGen
    /\ buf' = [buf EXCEPT ![1 - front][wpos + 1] = gen + 1]
    /\ wpos' = wpos + 1
    /\ UNCHANGED <<front, gen, open, ui, base, viewVars, pulseVars>>

Publish ==
    /\ wpos = Words
    /\ front' = 1 - front /\ gen' = gen + 1 /\ wpos' = 0
    /\ UNCHANGED <<buf, open, ui, base, viewVars, pulseVars>>

(***************************************************************************)
(* CurrentSnapshot: a pointer to the buffer frontIdx names just now.       *)
(***************************************************************************)
CurrentSnapshotSwapped == base' = 1 - front     \* fault: the two offsets swapped
CurrentSnapshotHeld    == UNCHANGED base        \* fault: the last pointer is kept

CurrentSnapshot == base' = front

(***************************************************************************)
(* App::UpdateTickPulse.                                                   *)
(***************************************************************************)
SkipPulse ==
    /\ ui = "pulse" /\ ~open
    /\ ui' = "panels" /\ pulse' = FALSE
    /\ UNCHANGED <<producerVars, open, base, viewVars, seen>>

LoadPulse ==
    /\ ui = "pulse" /\ open
    /\ CurrentSnapshot /\ ui' = "publishSeq"
    /\ UNCHANGED <<producerVars, open, viewVars, pulseVars>>

\* Fault: the number is compared and not remembered.
ReadPulseForgetting ==
    /\ ui = "publishSeq" /\ ui' = "panels"
    /\ pulse' = (buf[base][1] # seen) /\ UNCHANGED seen
    /\ UNCHANGED <<producerVars, open, base, viewVars>>

\* Fault: the flash is never let go once it was lit.
ReadPulseLatched ==
    /\ ui = "publishSeq" /\ ui' = "panels"
    /\ pulse' = (pulse \/ buf[base][1] # seen) /\ seen' = buf[base][1]
    /\ UNCHANGED <<producerVars, open, base, viewVars>>

ReadPulse ==
    /\ ui = "publishSeq" /\ ui' = "panels"
    /\ pulse' = (buf[base][1] # seen) /\ seen' = buf[base][1]
    /\ UNCHANGED <<producerVars, open, base, viewVars>>

(***************************************************************************)
(* A panel: take the pointer once, then read through it word by word.      *)
(***************************************************************************)
LoadView ==
    /\ ui = "panels" /\ open
    /\ CurrentSnapshot /\ ui' = "view"
    /\ view' = << >> /\ loaded' = gen
    /\ UNCHANGED <<producerVars, open, pulseVars>>

ReadWord ==
    /\ ui = "view" /\ Len(view) < Words
    /\ view' = Append(view, buf[base][Len(view) + 1])
    /\ UNCHANGED <<producerVars, open, ui, base, loaded, pulseVars>>

EndFrame ==
    /\ ui = "panels" \/ (ui = "view" /\ Len(view) = Words)
    /\ ui' = "pulse" /\ view' = << >>
    /\ UNCHANGED <<producerVars, open, base, loaded, pulseVars>>

\* The Attach panel is drawn before the panels that read the snapshot.
ToggleOpen ==
    /\ ui = "panels" /\ open' = ~open
    /\ UNCHANGED <<producerVars, ui, base, viewVars, pulseVars>>

-----------------------------------------------------------------------------
Ui == SkipPulse \/ LoadPulse \/ ReadPulse \/ LoadView \/ ReadWord \/ EndFrame

Next == WriteWord \/ Publish \/ Ui \/ ToggleOpen

Spec == Init /\ [][Next]_vars

\* The frame loop never stops; the agent may.
FairSpec == Spec /\ WF_vars(Ui)

-----------------------------------------------------------------------------
(* Properties *)

Snapshot == [1..Words -> Nat]

TypeOK ==
    /\ front \in 0..1 /\ buf \in [0..1 -> Snapshot]
    /\ gen \in Nat /\ wpos \in 0..Words
    /\ open \in BOOLEAN
    /\ ui \in {"pulse", "publishSeq", "panels", "view"}
    /\ base \in 0..1 /\ view \in Seq(Nat) /\ Len(view) <= Words
    /\ seen \in Nat /\ pulse \in BOOLEAN
    /\ loaded \in Nat

\* What a panel has read through its pointer is one snapshot, the one that was
\* in front when it called CurrentSnapshot, as long as the agent has not
\* published since: SharedLayout.h, "the read is race-free as long as the
\* reader completes before the next publish".
ViewIntactUntilPublish ==
    ui = "view" /\ gen = loaded => \A i \in 1..Len(view) : view[i] = loaded

\* Even a torn view has no word older than the snapshot that was in front when
\* the pointer was taken, however often the agent publishes meanwhile.
ViewIsNeverStale ==
    ui = "view" => \A i \in 1..Len(view) : view[i] >= loaded

\* An agent that publishes while a session is attached is noticed: the header's
\* pulse reaches every publish or a later one, although the number is read in
\* place and may be of a snapshot still being written.
LiveAgentPulses ==
    \A g \in 0..MaxGen : (open /\ gen >= g) ~> (seen >= g \/ ~open)

\* An agent that stops publishing goes dark, whatever was read of a half
\* written snapshot before.
DeadAgentGoesDark ==
    \A g \in 0..MaxGen : <>[](open /\ gen = g) => <>[]~pulse
=============================================================================
