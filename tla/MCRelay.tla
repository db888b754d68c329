------------------------------ MODULE MCRelay ------------------------------
(***************************************************************************)
(* Instances of Relay for TLC.  Requests are interchangeable.              *)
(***************************************************************************)
EXTENDS Relay, TLC

Symmetry == Permutations(Turns)
=============================================================================
