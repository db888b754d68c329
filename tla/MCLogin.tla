------------------------------ MODULE MCLogin ------------------------------
(***************************************************************************)
(* Instances of Login for TLC.  Handlers are interchangeable.              *)
(***************************************************************************)
EXTENDS Login, TLC

Symmetry == Permutations(Workers)
=============================================================================
