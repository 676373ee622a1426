----------------------------- MODULE MCTapLink -----------------------------
(***************************************************************************)
(* TapLink for TLC: two processes, so that rows of one could reach a panel *)
(* that has moved on to the other.                                         *)
(***************************************************************************)
EXTENDS TapLink
=============================================================================
