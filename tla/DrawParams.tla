----------------------------- MODULE DrawParams -----------------------------
(***************************************************************************)
(* The parameters the Debug Draw panel builds from its forms, and what the *)
(* agent takes.  The agent refuses a command for one parameter too many,   *)
(* so which names a form sends decides whether a command is drawn at all.  *)
(*                                                                         *)
(* Parameters are the set of their names; an edited number stands for      *)
(* itself only where a bound of the wire is about it.                      *)
(***************************************************************************)
EXTENDS Integers, Sequences

(***************************************************************************)
(* The limits of the wire.                                                 *)
(***************************************************************************)
kMaxBatchItems == 256
kMaxKeyBytes   == 47
kMaxPolyPairs  == 32
kPolySendInts  == kMaxPolyPairs * 2 * 2       \* room to send an over-long one as it is
MaxItemsShown  == 300                         \* what the batch slider goes to

Kinds == {"line", "rect", "ellipse", "poly", "text", "component"}
Captioned == {"text", "component"}

(***************************************************************************)
(* The Compose tab.                                                        *)
(***************************************************************************)
ComposeForm == [kind : Kinds, isWorld : BOOLEAN, useValue : BOOLEAN,
                plane : 0..3, decimals : 0..9, thickness : 1..64]

Styling == {"color", "thickness", "z", "ttl_ms", "filled"}

\* text, label and value are three spellings of one payload.
Caption(f) ==
    {"font"} \cup (IF f.useValue THEN {"value", "decimals"}
                   ELSE IF f.kind = "component" THEN {"label"} ELSE {"text"})

Geometry(f) ==
    IF f.kind = "line" THEN {"x1", "y1", "x2", "y2"}
    ELSE IF f.kind \in {"rect", "ellipse"} THEN {"x", "y", "w", "h"}
    ELSE IF f.kind = "poly" THEN {"points", "closed"}
    ELSE IF f.kind = "text" THEN {"x", "y"} \cup Caption(f)
    ELSE {"iface", "comp"} \cup Caption(f)

ComposeParams(f) ==
    {"key", "kind"} \cup (IF f.isWorld THEN {"space", "plane"} ELSE {})
                    \cup Styling \cup Geometry(f)

(***************************************************************************)
(* What debug_draw_set refuses by name (external).                         *)
(***************************************************************************)
Payloads(names) == names \cap {"text", "label", "value"}

TakesCaption(kind, names) ==
    IF kind \in Captioned
    THEN /\ \A p, q \in Payloads(names) : p = q
         /\ "decimals" \in names => "value" \in names
         /\ kind = "component" => "text" \notin names
    ELSE Payloads(names) = {} /\ names \cap {"font", "decimals"} = {}

TakesPlace(kind, names) ==
    /\ "plane" \in names => "space" \in names
    /\ kind \in {"poly", "component"} => "space" \notin names

Needs(kind) ==
    IF kind = "line" THEN {"x1", "y1", "x2", "y2"}
    ELSE IF kind \in {"rect", "ellipse"} THEN {"x", "y", "w", "h"}
    ELSE IF kind = "poly" THEN {"points"}
    ELSE IF kind = "text" THEN {"x", "y"}
    ELSE {"iface", "comp"}

AgentTakes(kind, names) ==
    TakesCaption(kind, names) /\ TakesPlace(kind, names) /\ Needs(kind) \subseteq names

(***************************************************************************)
(* A batch repeats the composed command under keys with a suffix -<index>. *)
(***************************************************************************)
Digits(n) == IF n < 10 THEN 1 ELSE IF n < 100 THEN 2 ELSE 3       \* n < 1000

BatchSuffixBytes(count) == Digits(count - 1) + 1

BatchKeyBudget(count) ==
    IF BatchSuffixBytes(count) >= kMaxKeyBytes THEN 1 ELSE kMaxKeyBytes - BatchSuffixBytes(count)

\* The length of item i's key from a base of so many bytes, which is cut to the budget.
BatchKeyBytes(base, count, i) ==
    (IF base < BatchKeyBudget(count) THEN base ELSE BatchKeyBudget(count)) + 1 + Digits(i)

\* The items sent: the one at corruptIndex is an integer, not a command.
Items(count) == 0..(count - 1)
BatchItem(i, isCorrupting, corruptIndex) ==
    IF isCorrupting /\ i = corruptIndex THEN "integer" ELSE "command"

\* Whether the agent gets as far as item i (external): not in a batch that is too
\* long, and not behind an item that is no command.
BatchApplies(i, count, isCorrupting, corruptIndex) ==
    /\ count <= kMaxBatchItems
    /\ \A j \in 0..i : BatchItem(j, isCorrupting, corruptIndex) = "command"

(***************************************************************************)
(* The points of a poly are typed as text: numbers between separators, up  *)
(* to what is no number.  Only kPolySendInts of them are kept.             *)
(***************************************************************************)
NumbersIn(tokens) ==
    LET Numbers == {n \in 0..Len(tokens) : \A i \in 1..n : tokens[i] = "number"}
    IN  CHOOSE n \in Numbers : \A m \in Numbers : m <= n

PointsWritten(total) == IF total < kPolySendInts THEN total ELSE kPolySendInts

PolyPointCount(tokens) == NumbersIn(tokens) \div 2

\* A flat list of 2 to 32 pairs (external).
AgentTakesPoints(ints) == ints % 2 = 0 /\ 2 <= ints \div 2 /\ ints \div 2 <= kMaxPolyPairs

(***************************************************************************)
(* The Highlights tab.  A blank key has the agent make one from what is    *)
(* highlighted; the panel shows the same key.                              *)
(***************************************************************************)
Entities == {"npc", "player", "self"}

HighlightForm(Coord) ==
         [tab : {"component"}, iface : Coord, comp : Coord]
    \cup [tab : {"entity"}, mode : Entities, index : Coord, w : Coord, h : Coord]
    \cup [tab : {"tile"}, x : Coord, y : Coord, plane : 0..3]
    \cup [tab : {"area"}, x : Coord, y : Coord, w : Coord, h : Coord, plane : 0..3]

AutoKey(f) ==
    CASE f.tab = "component" -> <<"comp", f.iface, f.comp>>
      [] f.tab = "entity" -> IF f.mode = "self" THEN <<"self">> ELSE <<f.mode, f.index>>
      [] f.tab = "tile" -> <<"tile", f.x, f.y, f.plane>>
      [] f.tab = "area" -> <<"area", f.x, f.y, f.w, f.h, f.plane>>

HighlightParams(f, isNamed, isLabelled) ==
    (IF isNamed THEN {"key"} ELSE {}) \cup (IF isLabelled THEN {"label", "font"} ELSE {})
    \cup Styling \cup
    CASE f.tab = "component" -> {"iface", "comp"}
      [] f.tab = "entity" -> {f.mode, "w", "h", "plane"}
      [] f.tab = "tile" -> {"x", "y", "plane"}
      [] f.tab = "area" -> {"x", "y", "w", "h", "plane"}

\* One of npc, player and self; no extent on a tile, both on an area (external).
AgentHighlights(tab, names) ==
    /\ tab = "entity" => \A p, q \in names \cap Entities : p = q
    /\ tab = "entity" => names \cap Entities # {}
    /\ tab = "tile" => names \cap {"w", "h"} = {}
    /\ tab = "area" => {"w", "h"} \subseteq names

\* What a highlight is of: an entity restyled is the same highlight.
Target(f) ==
    IF f.tab = "entity" THEN IF f.mode = "self" THEN <<"self">> ELSE <<f.mode, f.index>>
    ELSE f

(***************************************************************************)
(* The Probe tab: a region by key or by coordinates, never both.           *)
(***************************************************************************)
ProbeParams(isByKey) ==
    {"color", "source"} \cup (IF isByKey THEN {"key", "inset"} ELSE {"x", "y", "w", "h"})

AgentProbes(names) == ("key" \in names) # (names \cap {"x", "y", "w", "h"} # {})

(***************************************************************************)
(* Properties of the forms, for every form.                                *)
(***************************************************************************)
\* Every composed command is one the agent takes, in world space as well unless the
\* kind has no world position, whatever combination the tab is left in (AddCaption).
ComposeIsTaken ==
    \A f \in ComposeForm :
        ~(f.isWorld /\ f.kind \in {"poly", "component"}) => AgentTakes(f.kind, ComposeParams(f))

\* No item of a batch is refused for the length of its key, whatever the base: the
\* budget is of the longest suffix and an item's own may be shorter (BatchKeyBudget).
BatchKeysFit(MaxCount) ==
    \A count \in 1..MaxCount : \A base \in 1..63 : \A i \in Items(count) :
        BatchKeyBytes(base, count, i) <= kMaxKeyBytes

\* A batch with a bad item draws what is before it and nothing else (DrawBatchTab,
\* whose slider may leave corruptIndex behind the end of a batch made shorter).
BatchStopsAtFault(MaxCount) ==
    \A count \in 1..MaxCount : \A corruptIndex \in 0..(MaxItemsShown - 1) : \A i \in Items(count) :
        count <= kMaxBatchItems => (BatchApplies(i, count, TRUE, corruptIndex) <=> i < corruptIndex)

\* A poly with too many points is never sent as a shorter one that is drawn: of the
\* numbers typed, all are sent or more than the agent takes (ParsePoints).
OverlongIsRefused(MaxTotal) ==
    \A total \in 0..MaxTotal : AgentTakesPoints(PointsWritten(total)) => PointsWritten(total) = total

\* Two highlights that share a key are of the same thing (FormatAutoKey).
KeysTellApart(Coord) ==
    \A f, g \in HighlightForm(Coord) : AutoKey(f) = AutoKey(g) => Target(f) = Target(g)

\* Every highlight is one the agent takes, named or not, labelled or not
\* (BuildHighlightParams).
HighlightIsTaken(Coord) ==
    \A f \in HighlightForm(Coord) : \A isNamed, isLabelled \in BOOLEAN :
        AgentHighlights(f.tab, HighlightParams(f, isNamed, isLabelled))

\* The region of a probe is named once: by a key or by coordinates (SendProbe).
ProbeIsTaken == \A isByKey \in BOOLEAN : AgentProbes(ProbeParams(isByKey))
=============================================================================
