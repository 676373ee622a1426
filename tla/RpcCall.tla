------------------------------ MODULE RpcCall ------------------------------
(***************************************************************************)
(* What RpcClient::Call promises a panel, with no pipe in sight: calls     *)
(* have rising numbers and run one at a time; a call that asked is         *)
(* answered at most once, may lose its answer with the agent, and reports  *)
(* either that it got none in time or what the answer to this very call    *)
(* said.  The verdict of a call that never asked is a failure.             *)
(***************************************************************************)
EXTENDS Naturals

VARIABLES
    number,  \* the call that runs, or ran last
    stage,   \* "over", "begun" or "asked"
    reply,   \* the answer to the call that runs: "none", "lost" or what it says
    verdict  \* what the client reports

vars == <<number, stage, reply, verdict>>

Replies == {"result", "error", "noId", "garbled"}

Init == number = 0 /\ stage = "over" /\ reply = "none" /\ verdict = "Disconnected"

Begin ==
    /\ stage = "over" /\ stage' = "begun"
    /\ number' \in Nat /\ number' > number
    /\ UNCHANGED <<reply, verdict>>

Ask == stage = "begun" /\ stage' = "asked" /\ UNCHANGED <<number, reply, verdict>>

Answer ==
    /\ stage = "asked" /\ reply = "none" /\ reply' \in Replies
    /\ UNCHANGED <<number, stage, verdict>>

Lose == stage = "asked" /\ reply' = "lost" /\ UNCHANGED <<number, stage, verdict>>

End(v) == stage' = "over" /\ reply' = "none" /\ verdict' = v /\ UNCHANGED number

Unasked == stage = "begun" /\ End("Disconnected")

GiveUp == stage = "asked" /\ End("Timeout")

Taken ==
    /\ stage = "asked" /\ reply \in Replies
    /\ End(CASE reply = "result" -> "Ok"
             [] reply = "error"  -> "HandlerError"
             [] OTHER            -> "ProtocolError")

\* Between calls the connection itself reports, or a call that cannot be made:
\* no timeout and no handler's error without a call that asked.
Elsewhere ==
    /\ stage = "over" /\ UNCHANGED <<number, stage, reply>>
    /\ verdict' \in {verdict, "Ok", "Busy", "Disconnected", "ProtocolError"}

Next ==
    \/ Begin \/ Ask \/ Answer \/ Lose
    \/ Unasked \/ GiveUp \/ Taken \/ Elsewhere

Spec == Init /\ [][Next]_vars
=============================================================================
