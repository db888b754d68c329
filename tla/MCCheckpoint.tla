---------------------------- MODULE MCCheckpoint ----------------------------
(* Model-checking instances of Checkpoint; the bounds are in the cfg files. *)
EXTENDS Checkpoint
=============================================================================
