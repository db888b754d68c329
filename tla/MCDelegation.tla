---------------------------- MODULE MCDelegation ----------------------------
(***************************************************************************)
(* Instances of Delegation for TLC.                                        *)
(***************************************************************************)
EXTENDS Delegation, TLC

Symmetry ==
  Permutations(Devices) \cup Permutations(Sandboxes) \cup
  Permutations(Requests) \cup Permutations(Signers)
=============================================================================
