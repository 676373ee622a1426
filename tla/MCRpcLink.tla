----------------------------- MODULE MCRpcLink -----------------------------
(***************************************************************************)
(* RpcLink for TLC: two processes, so a call can be left behind on one and *)
(* the next made on the other, and two pipe instances, so a closed one     *)
(* that is not recycled yet and one other client refuse a connect.         *)
(***************************************************************************)
EXTENDS RpcLink
=============================================================================
