------------------------------ MODULE MCSandbox ------------------------------
(***************************************************************************)
(* Instances of Sandbox for TLC.  Workers are interchangeable.             *)
(***************************************************************************)
EXTENDS Sandbox, TLC

Symmetry == Permutations(Workers)
=============================================================================
