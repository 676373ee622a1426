------------------------------ MODULE MsgPack ------------------------------
(***************************************************************************)
(* The MessagePack codec every reply is read and every request is written  *)
(* with.  A decoder steps over what it does not know with SkipValue, which *)
(* is a loop over a bounded stack; it must end where the value ends, or    *)
(* everything behind it is read out of step.                               *)
(*                                                                         *)
(* The pure part is the formats: Reader's and Writer's functions over a    *)
(* sequence of bytes.  The machine reads a buffer with SkipValue.          *)
(***************************************************************************)
EXTENDS Integers, Sequences

CONSTANTS
    Bytes,         \* the bytes buffers are made of
    MaxLen,        \* the longest buffer
    MaxNesting     \* kMaxNesting (64)

(***************************************************************************)
(* The formats.                                                            *)
(***************************************************************************)
Type(b) ==
    CASE b <= 127 \/ b >= 224 \/ b \in 204..211 -> "Int"
      [] b \in 128..143 \/ b \in {222, 223} -> "Map"
      [] b \in 144..159 \/ b \in {220, 221} -> "Array"
      [] b \in 160..191 \/ b \in 217..219 -> "Str"
      [] b = 192 -> "Nil"
      [] b \in {194, 195} -> "Bool"
      [] b \in 196..198 -> "Bin"
      [] b \in {202, 203} -> "Float"
      [] OTHER -> "Invalid"

\* Bytes of the count or of the number that follows a prefix.
Width(b) ==
    CASE b \in {196, 204, 208, 217} -> 1
      [] b \in {197, 205, 209, 218, 220, 222} -> 2
      [] b \in {198, 202, 206, 210, 219, 221, 223} -> 4
      [] b \in {203, 207, 211} -> 8
      [] OTHER -> 0

\* The number whose bytes these are, the highest first, behind a sign of 0 or -1.
SignedBy(sign, bytes) ==
    LET Sum[i \in 0..Len(bytes)] == IF i = 0 THEN sign ELSE 256 * Sum[i - 1] + bytes[i]
    IN  Sum[Len(bytes)]

BigEndian(bytes) == SignedBy(0, bytes)
TwosComplement(bytes) == SignedBy(IF bytes[1] >= 128 THEN -1 ELSE 0, bytes)

\* How many bytes of a string, or items of a container, a prefix at p announces.
Count(buf, p) ==
    LET b == buf[p]
    IN  IF Width(b) > 0 THEN BigEndian(SubSeq(buf, p + 1, p + Width(b)))
        ELSE IF Type(b) = "Str" THEN b - 160
        ELSE IF Type(b) = "Array" THEN b - 144
        ELSE IF Type(b) = "Map" THEN b - 128 ELSE 0

(***************************************************************************)
(* Reader.  A position is the index of the next byte; a failed read is 0.  *)
(* Read* and SkipScalar: the position after the scalar.                    *)
(***************************************************************************)
Need(buf, p, n) == n <= Len(buf) + 1 - p

ReadScalar(buf, p) ==
    LET body == p + 1 + Width(buf[p])
        size == IF Type(buf[p]) \in {"Str", "Bin"} THEN Count(buf, p) ELSE 0
    IN  IF Type(buf[p]) = "Invalid" \/ ~Need(buf, p, 1 + Width(buf[p])) THEN 0
        ELSE IF Need(buf, body, size) THEN body + size ELSE 0

\* Fault: a map owes as many values as it has entries.
ContainerItemsHalved(buf, p) == Count(buf, p)

\* What a container still owes: n values, or n keys and n values.
ContainerItems(buf, p) == (IF Type(buf[p]) = "Map" THEN 2 ELSE 1) * Count(buf, p)

\* A count that cannot fit in what remains is refused.
ReadContainerHeader(buf, p) ==
    LET body == p + 1 + Width(buf[p])
    IN  IF Need(buf, p, 1 + Width(buf[p])) /\ Need(buf, body, ContainerItems(buf, p))
        THEN body ELSE 0

(***************************************************************************)
(* Reference: where n values from p on end, 0 when they do not or when     *)
(* more than MaxNesting containers are open at once.  A spot: a position,   *)
(* values to pass, and how many containers are open there.                 *)
(***************************************************************************)
Spots(buf) == (0..(Len(buf) + 1)) \X (0..(Len(buf) + 1)) \X (0..MaxNesting)

EndOf(buf, from) ==
    LET After[spot \in Spots(buf)] ==
            LET p == spot[1]
                n == spot[2]
                depth == spot[3]
                body == p + 1 + Width(buf[p])
                inner == (IF Type(buf[p]) = "Map" THEN 2 ELSE 1) * Count(buf, p)
            IN  IF n = 0 \/ p = 0 THEN p
                ELSE IF p > Len(buf) THEN 0
                ELSE IF Type(buf[p]) \notin {"Array", "Map"} THEN After[<<ReadScalar(buf, p), n - 1, depth>>]
                ELSE IF depth = MaxNesting \/ ~Need(buf, p, 1 + Width(buf[p])) \/ inner > Len(buf) THEN 0
                ELSE After[<<After[<<body, inner, depth + 1>>], n - 1, depth>>]
    IN  After[<<from, 1, 0>>]

(***************************************************************************)
(* Writer.  A number is compared with a bound of four bytes without the    *)
(* lower two of them, which a model checker has numbers for.               *)
(***************************************************************************)
\* v without its lowest k bytes.
Shifted(v, k) ==
    LET Rest[i \in 0..k] == IF i = 0 THEN v ELSE Rest[i - 1] \div 256
    IN  Rest[k]

ToBytes(v, width) == [i \in 1..width |-> Shifted(v, width - i) % 256]

WriteUInt(v) ==
    IF v <= 127 THEN <<v>>
    ELSE IF v <= 255 THEN <<204>> \o ToBytes(v, 1)
    ELSE IF v <= 65535 THEN <<205>> \o ToBytes(v, 2)
    ELSE IF Shifted(v, 2) <= 65535 THEN <<206>> \o ToBytes(v, 4)
    ELSE <<207>> \o ToBytes(v, 8)

\* Two's complement in the narrowest width that holds v.
WriteInt(v) ==
    IF v >= 0 THEN WriteUInt(v)
    ELSE IF v >= -32 THEN <<256 + v>>
    ELSE IF v >= -128 THEN <<208>> \o ToBytes(v, 1)
    ELSE IF v >= -32768 THEN <<209>> \o ToBytes(v, 2)
    ELSE IF Shifted(v, 2) >= -32768 THEN <<210>> \o ToBytes(v, 4)
    ELSE <<211>> \o ToBytes(v, 8)

\* A 64-bit number without a sign is taken as one with a sign.
ReadInt(buf) ==
    CASE buf[1] <= 127 -> buf[1]
      [] buf[1] >= 224 -> buf[1] - 256
      [] buf[1] \in 204..206 -> BigEndian(Tail(buf))
      [] buf[1] \in 207..211 -> TwosComplement(Tail(buf))

WriteStringHeader(n) ==
    IF n <= 31 THEN <<160 + n>>
    ELSE IF n <= 255 THEN <<217>> \o ToBytes(n, 1)
    ELSE IF n <= 65535 THEN <<218>> \o ToBytes(n, 2) ELSE <<219>> \o ToBytes(n, 4)

WriteContainerHeader(base, tag16, n) ==
    IF n <= 15 THEN <<base + n>>
    ELSE IF n <= 65535 THEN <<tag16>> \o ToBytes(n, 2) ELSE <<tag16 + 1>> \o ToBytes(n, 4)

WriteArrayHeader(n) == WriteContainerHeader(144, 220, n)
WriteMapHeader(n)   == WriteContainerHeader(128, 222, n)

\* What is written is read back as the same number, and ends where it was written to
\* (WriteInt, ReadInt).
IntsReadBack(Ints) ==
    \A v \in Ints : ReadInt(WriteInt(v)) = v /\ ReadScalar(WriteInt(v), 1) = Len(WriteInt(v)) + 1

\* A header announces what it was written for, in the type it was written for
\* (WriteString, WriteArrayHeader, WriteMapHeader).
HeadersReadBack(Counts) ==
    \A n \in Counts :
        /\ Type(WriteStringHeader(n)[1]) = "Str" /\ Count(WriteStringHeader(n), 1) = n
        /\ Type(WriteArrayHeader(n)[1]) = "Array" /\ Count(WriteArrayHeader(n), 1) = n
        /\ Type(WriteMapHeader(n)[1]) = "Map" /\ Count(WriteMapHeader(n), 1) = n

(***************************************************************************)
(* SkipValue.                                                              *)
(***************************************************************************)
VARIABLES
    buf, pos,
    pending,     \* values still owed by each open container, outermost first
    skipped      \* "no" while it runs, then what it returned

ownVars == <<buf, pos, pending, skipped>>

CodecTypeOK ==
    /\ Len(buf) <= MaxLen /\ \A i \in DOMAIN buf : buf[i] \in Bytes
    /\ pos \in 1..(Len(buf) + 1)
    /\ Len(pending) <= MaxNesting /\ \A i \in DOMAIN pending : pending[i] \in 1..(2 * MaxLen)
    /\ skipped \in {"no", "true", "false"}

Init == buf = << >> /\ pos = 1 /\ pending = << >> /\ skipped = "no"

\* Another byte of the reply, before it is read.
Receive ==
    /\ pos = 1 /\ skipped = "no" /\ Len(buf) < MaxLen /\ pending = << >>
    /\ \E b \in Bytes : buf' = Append(buf, b)
    /\ UNCHANGED <<pos, pending, skipped>>

\* Fault: only the innermost container is closed.
FinishOne(open) ==
    IF open = << >> THEN << >>
    ELSE IF open[Len(open)] = 1 THEN SubSeq(open, 1, Len(open) - 1)
    ELSE [open EXCEPT ![Len(open)] = @ - 1]

\* One value is finished: close every container it completes.
FinishValue(open) ==
    LET Owing == {i \in DOMAIN open : open[i] > 1}
        last == IF Owing = {} THEN 0 ELSE CHOOSE i \in Owing : \A j \in Owing : j <= i
    IN  [i \in 1..last |-> IF i = last THEN open[i] - 1 ELSE open[i]]

Step(p, open) ==
    /\ pos' = p /\ pending' = open
    /\ skipped' = IF open = << >> THEN "true" ELSE "no"

Refuse == skipped' = "false" /\ UNCHANGED <<pos, pending>>

SkipOne ==
    LET p == pos
        isContainer == p <= Len(buf) /\ Type(buf[p]) \in {"Array", "Map"}
        body == IF p > Len(buf) THEN 0
                ELSE IF isContainer THEN ReadContainerHeader(buf, p) ELSE ReadScalar(buf, p)
    IN  IF body = 0 \/ (isContainer /\ Len(pending) = MaxNesting) THEN Refuse
        ELSE IF isContainer /\ ContainerItems(buf, p) > 0
        THEN pos' = body /\ pending' = Append(pending, ContainerItems(buf, p)) /\ skipped' = "no"
        ELSE Step(body, FinishValue(pending))

SkipValue == skipped = "no" /\ SkipOne /\ UNCHANGED buf

Next == Receive \/ SkipValue

Spec == Init /\ [][Next]_ownVars

\* SkipValue succeeds exactly on a value that is complete, supported and not nested too
\* deep, and then stands behind its last byte (Reader::SkipValue, the check of a
\* container's count included).
SkipIsExact ==
    /\ skipped = "true" => pos = EndOf(buf, 1)
    /\ skipped = "false" => EndOf(buf, 1) = 0
=============================================================================
