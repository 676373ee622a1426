------------------------------ MODULE JsonText ------------------------------
(***************************************************************************)
(* ParseJson, the reader of what NXTCache answers: which texts it takes,   *)
(* and which characters an escape stands for.                              *)
(*                                                                         *)
(* A text is a sequence of tokens: the punctuation, white space, "str" for *)
(* a quoted string, "lit" for a number or a word, "bad" for anything else. *)
(* Each parser gives the position behind what it read, or 0.               *)
(***************************************************************************)
EXTENDS Integers, Sequences

Tokens == {"[", "]", "{", "}", ",", ":", " ", "str", "lit", "bad"}
Closing == [t \in {"[", "{"} |-> IF t = "[" THEN "]" ELSE "}"]

At(s, p, t) == p \in DOMAIN s /\ s[p] = t

RECURSIVE SkipWs(_, _), ParseValue(_, _), ParseMembers(_, _, _)

SkipWs(s, p) == IF At(s, p, " ") THEN SkipWs(s, p + 1) ELSE p

\* What an object has before each value: a quoted key and a colon.
ParseKey(s, p) ==
    LET key == SkipWs(s, p) colon == SkipWs(s, key + 1)
    IN  IF At(s, key, "str") /\ At(s, colon, ":") THEN colon + 1 ELSE 0

\* At least one member, then the bracket that closes; a comma asks for one more.
ParseMembers(s, p, opening) ==
    LET value == IF opening = "{" THEN ParseKey(s, p) ELSE p
        after == IF value = 0 THEN 0 ELSE ParseValue(s, value)
        q     == SkipWs(s, after)
    IN  CASE after = 0                    -> 0
          [] after # 0 /\ At(s, q, ",")   -> ParseMembers(s, q + 1, opening)
          [] after # 0 /\ At(s, q, Closing[opening]) -> q + 1
          [] OTHER                        -> 0

\* ParseArray and ParseObject, from the bracket on.
ParseBracketed(s, p) ==
    LET q == SkipWs(s, p + 1)
    IN  IF At(s, q, Closing[s[p]]) THEN q + 1 ELSE ParseMembers(s, p + 1, s[p])

ParseValue(s, p) ==
    LET q == SkipWs(s, p)
    IN  IF At(s, q, "[") \/ At(s, q, "{") THEN ParseBracketed(s, q)
        ELSE IF At(s, q, "str") \/ At(s, q, "lit") THEN q + 1 ELSE 0

\* The whole text is one value.
ParseJson(s) == LET p == ParseValue(s, 1) IN p # 0 /\ SkipWs(s, p) = Len(s) + 1

(***************************************************************************)
(* Escapes.                                                                *)
(***************************************************************************)
Tail6(cp, unit) == 128 + ((cp \div unit) % 64)

AppendUtf8(cp) ==
    CASE cp <= 127               -> <<cp>>
      [] cp \in 128..2047        -> <<192 + cp \div 64, Tail6(cp, 1)>>
      [] cp \in 2048..65535      -> <<224 + cp \div 4096, Tail6(cp, 64), Tail6(cp, 1)>>
      [] cp > 65535              -> <<240 + cp \div 262144, Tail6(cp, 4096), Tail6(cp, 64), Tail6(cp, 1)>>

\* ParseEscape: the \u escapes cp and then next.  A high surrogate takes the one behind it.
ParseEscape(cp, next) ==
    IF cp \in 55296..56319 THEN AppendUtf8(65536 + (cp - 55296) * 1024 + next - 56320)
    ELSE AppendUtf8(cp) \o AppendUtf8(next)

(***************************************************************************)
(* What they are measured by: JSON's grammar, and the decoding of UTF-8.   *)
(***************************************************************************)
RECURSIVE Documents(_), Members(_, _)

\* The values with exactly n tokens, none of them white space, and the lists of members.
Member(n, opening) ==
    IF opening = "[" THEN Documents(n) ELSE {<<"str", ":">> \o d : d \in Documents(n - 2)}

Members(n, opening) ==
    Member(n, opening) \cup
    UNION {{a \o <<",">> \o b : a \in Member(k, opening), b \in Members(n - 1 - k, opening)}
           : k \in 1..n - 2}

Documents(n) ==
    IF n <= 1 THEN IF n = 1 THEN {<<"str">>, <<"lit">>} ELSE {}
    ELSE UNION {{<<o>> \o l \o <<Closing[o]>> : l \in IF n = 2 THEN {<< >>} ELSE Members(n - 2, o)}
                : o \in DOMAIN Closing}

Lead(b) == CASE b < 128 -> b [] b \in 192..223 -> b - 192 [] b \in 224..239 -> b - 224 [] b >= 240 -> b - 240

Decoded[u \in Seq(0..255)] ==
    IF Len(u) = 1 THEN Lead(u[1]) ELSE Decoded[SubSeq(u, 1, Len(u) - 1)] * 64 + u[Len(u)] - 128

\* ParseJson takes the texts of up to n tokens that are a document with white space in between.
TakesDocuments(n) ==
    \A len \in 0..n : \A s \in [1..len -> Tokens] :
        LET dense == SelectSeq(s, LAMBDA t : t # " ")
        IN  ParseJson(s) <=> dense \in Documents(Len(dense))

\* A character below the surrogates reads back from one escape, one above 16 bits from two.
EscapesReadBack(characters) ==
    \A cp \in characters :
        Decoded[IF cp <= 65535 THEN AppendUtf8(cp)
                ELSE ParseEscape(55296 + (cp - 65536) \div 1024, 56320 + ((cp - 65536) % 1024))] = cp
=============================================================================
