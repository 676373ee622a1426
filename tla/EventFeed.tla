----------------------------- MODULE EventFeed -----------------------------
(***************************************************************************)
(* What the event ring promises its consumers, with no ring in sight:      *)
(* producers number events 0, 1, 2, ... and the debugger is handed some of *)
(* the numbers that exist, each at most once and in increasing order.      *)
(* Losing events is allowed (a slow reader is overrun by design); making   *)
(* one up, repeating one or swapping two is not.                           *)
(***************************************************************************)
EXTENDS Naturals, Sequences

VARIABLES
    next,   \* number of events the producers have claimed so far
    feed    \* sequence numbers handed to the debugger, oldest first

vars == <<next, feed>>

Init == next = 0 /\ feed = << >>

Publish == next' = next + 1 /\ UNCHANGED feed

Deliver(e) ==
    /\ \A i \in 1..Len(feed) : feed[i] < e
    /\ feed' = Append(feed, e)
    /\ UNCHANGED next

Next == Publish \/ \E e \in 0..(next - 1) : Deliver(e)

Spec == Init /\ [][Next]_vars
=============================================================================
