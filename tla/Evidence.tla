------------------------------ MODULE Evidence ------------------------------
(***************************************************************************)
(* The evidence of a bundle that is read or computed from what others wrote:  *)
(* documents as bytes, and inclusion proofs as hashes.                     *)
(***************************************************************************)
EXTENDS Documents, MerkleInclusion

vars == <<documentVars, inclusionVars>>

NoDocument == doc = [as |-> "none"] /\ stage = "none" /\ object = Thrown /\ made = <<>>
NoProof    == proof = <<>> /\ walk = "none" /\ level = 0 /\ hash = <<>>

Init ==
  \/ DocumentInit /\ NoProof
  \/ InclusionInit /\ NoDocument

Next ==
  \/ DocumentNext /\ UNCHANGED inclusionVars
  \/ InclusionNext /\ UNCHANGED documentVars

Spec == Init /\ [][Next]_vars
=============================================================================
