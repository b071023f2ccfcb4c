--------------------------- MODULE MCProvisioning ---------------------------
(* Provisioning for TLC: the symmetry of the model values. *)
EXTENDS Provisioning, TLC

Interchangeable == Permutations(Workers) \cup Permutations(Nodes) \cup Permutations(Tenants)
=============================================================================
