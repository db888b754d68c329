------------------------------ MODULE MCPairing ------------------------------
(***************************************************************************)
(* Instances of Pairing for TLC.  Request ids, operators and devices are   *)
(* interchangeable model values.                                           *)
(***************************************************************************)
EXTENDS Pairing, TLC

Symmetry == Permutations(Requests) \cup Permutations(Operators) \cup Permutations(Devices)
=============================================================================
