---------------------------- MODULE MCEventPanels ----------------------------
(***************************************************************************)
(* EventPanels for TLC: two agents, three or four events between them, and *)
(* a backlog of two, so that events are cut off it before a hidden panel   *)
(* has seen them and those of one agent lie behind those of the other.     *)
(* The two panels share nothing but the backlog and the client, so each    *)
(* behaviour has one of them in use.                                       *)
(***************************************************************************)
EXTENDS EventPanels
=============================================================================
