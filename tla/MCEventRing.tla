---------------------------- MODULE MCEventRing ----------------------------
(***************************************************************************)
(* EventRing for TLC: two producers and a ring of two slots, so that four  *)
(* or five events already lap the reader twice and a stalled producer can  *)
(* sit in a slot while the other one wraps past it.                        *)
(***************************************************************************)
EXTENDS EventRing
=============================================================================
