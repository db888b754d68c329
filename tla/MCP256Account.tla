---------------------------- MODULE MCP256Account ----------------------------
(***************************************************************************)
(* Instances of P256Account for TLC.  Credential ids, guardian ids and     *)
(* passkeys are interchangeable model values.                              *)
(***************************************************************************)
EXTENDS P256Account, TLC

Symmetry == Permutations(CredIds) \cup Permutations(GuardianIds) \cup Permutations(Keys)
=============================================================================
