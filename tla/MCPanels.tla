------------------------------ MODULE MCPanels ------------------------------
(* Two processes with methods in different orders; two caches that list one  *)
(* type differently and leave the other to the bundled ids, with names that  *)
(* match in one of them only; the seven bytes are an integer, a map and two  *)
(* arrays of small counts, a string, an invalid prefix and a 16-bit array;   *)
(* one process has two windows and one ring holds two of three payloads.     *)
EXTENDS Panels

CONSTANTS p1, p2, w1, w2, w3

OwnerOf == [w \in {w1, w2, w3} |-> IF w = w3 THEN p2 ELSE p1]

Text == INSTANCE JsonText

MethodsOf == [p \in {p1, p2} |-> IF p = p1 THEN <<"a", "b">> ELSE <<"b", "a">>]

ListedIn == [p \in Caches \X Types |->
                IF p[2] # "item" THEN << >> ELSE IF p[1] = "c1" THEN <<1, 2>> ELSE <<2>>]
GamevalOf == [t \in Types |-> IF t = "varp" THEN << >> ELSE <<1>>]
IdHitsOf == {}
NameHitsOf == {<<"f", "c1", "item", 1>>, <<"f", "c2", "item", 2>>}

\* Numbers on both sides of every width, and counts of every form of header.
Edges == {0, 1, 127, 128, 255, 256, 32767, 32768, 65535, 65536, 2147483647,
          -1, -32, -33, -128, -129, -32768, -32769, -2147483647 - 1}
ASSUME WrittenNumbersReadBack == Codec!IntsReadBack(Edges)
ASSUME WrittenHeadersReadBack ==
    Codec!HeadersReadBack({0, 15, 16, 31, 32, 255, 256, 65535, 65536, 2147483647})

\* Every form of the Debug Draw tabs makes a call the agent takes.
ASSUME FormsAreTaken ==
    Forms!ComposeIsTaken /\ Forms!HighlightIsTaken({0, 1}) /\ Forms!ProbeIsTaken

\* The bounds a batch and a poly meet, and the keys of highlights.
ASSUME FormsAreBounded ==
    Forms!BatchKeysFit(101) /\ Forms!BatchStopsAtFault(3) /\ Forms!OverlongIsRefused(300)
ASSUME HighlightKeys == Forms!KeysTellApart({0, 1})

\* The texts of up to five tokens that ParseJson takes are JSON's documents, and characters
\* on both sides of every length of UTF-8 come out of their escapes.
ASSUME DocumentsAreTaken == Text!TakesDocuments(5)
ASSUME EscapesReadBack ==
    Text!EscapesReadBack({0, 127, 128, 2047, 2048, 55295, 65535, 65536, 66559, 66560, 1114111})
=============================================================================
