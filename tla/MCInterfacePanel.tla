-------------------------- MODULE MCInterfacePanel --------------------------
(***************************************************************************)
(* InterfacePanel for TLC: two processes, so that one's components could   *)
(* be shown for the other, and two interfaces, so that a tree can be of an *)
(* interface other than the selected one.                                  *)
(***************************************************************************)
EXTENDS InterfacePanel
=============================================================================
