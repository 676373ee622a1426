----------------------------- MODULE MCCs2Index -----------------------------
(***************************************************************************)
(* Cs2Index for TLC: two files in two versions each, of different sizes,   *)
(* so that the cache key tells some corpora apart and others not.          *)
(***************************************************************************)
EXTENDS Cs2Index, TLC

CONSTANTS v1, v2

Sizes == (v1 :> 1) @@ (v2 :> 2)
=============================================================================
