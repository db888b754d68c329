-------------------------- MODULE MCSidecarRegistry --------------------------
(***************************************************************************)
(* Instances of SidecarRegistry for TLC.  Operators and devices are model  *)
(* values and interchangeable, so both may be symmetry sets.               *)
(***************************************************************************)
EXTENDS SidecarRegistry, TLC

Symmetry == Permutations(Operators) \cup Permutations(Devices)
RecoveryOnly == {{"RECOVERY"}}
=============================================================================
