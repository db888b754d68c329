------------------------------- MODULE MCFeed -------------------------------
(***************************************************************************)
(* Instances of Feed for TLC.  Publish handlers are interchangeable.       *)
(***************************************************************************)
EXTENDS Feed, TLC

Symmetry == Permutations(Publishers)
=============================================================================
