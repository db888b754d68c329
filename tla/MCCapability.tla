---------------------------- MODULE MCCapability ----------------------------
(***************************************************************************)
(* Instances of Capability for TLC.                                        *)
(***************************************************************************)
EXTENDS Capability, TLC

Symmetry == Permutations(Services) \cup Permutations(Minters) \cup Permutations(Users)
=============================================================================
