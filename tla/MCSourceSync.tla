------------------------------ MODULE MCSourceSync ------------------------------
(* Three syncs: two that overlap in one source, and one of another source. *)
EXTENDS ProviderHealth, TLC

CONSTANTS s1, s2, k1, k2, k3

\* k1 and k2 compete for the row of s1, and k3 for the status of the provider.
TwoSources == [y \in Syncs |-> IF y = k3 THEN s2 ELSE s1]

Interchangeable ==
  {p @@ q : p \in Permutations({k1, k2}), q \in Permutations(Operations)}

================================================================================
