---------------------------- MODULE MCPolicyCache ----------------------------
(* Three lookups of the policies, so that one may straddle another and a     *)
(* third find what the slower one left, and one of the base currency.        *)
EXTENDS PolicyCache, TLC

CONSTANTS b1, v1, v2, v3

MCClient == [l \in Lookups |-> IF l = b1 THEN "currency" ELSE "validation"]

Symmetry == Permutations(Lookups \ {b1})
=============================================================================
