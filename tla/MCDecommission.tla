--------------------------- MODULE MCDecommission ---------------------------
(* Decommission for TLC: the symmetry of the model values. *)
EXTENDS Decommission, TLC

Interchangeable == Permutations(Workers) \cup Permutations(Nodes) \cup Permutations(Tenants)
=============================================================================
