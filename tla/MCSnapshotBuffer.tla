-------------------------- MODULE MCSnapshotBuffer --------------------------
(***************************************************************************)
(* SnapshotBuffer for TLC: three words, so that a write and a read can     *)
(* cross in the middle, and enough publishes to come back to the buffer a  *)
(* reader is in twice.                                                     *)
(***************************************************************************)
EXTENDS SnapshotBuffer
=============================================================================
