------------------------------ MODULE MCFleet -------------------------------
(* Fleet on small sets that TLC may permute. *)
EXTENDS Fleet, TLC

Symmetry ==
  Permutations(Hosts) \cup Permutations(Tokens) \cup Permutations(Ids)
    \cup Permutations(Tenants) \cup Permutations(Jobs) \cup Permutations(Workers)
=============================================================================
