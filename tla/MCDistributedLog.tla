-------------------------- MODULE MCDistributedLog --------------------------
(* DistributedLog for TLC: three nodes, one of which may stop. *)
EXTENDS DistributedLog

CONSTANTS n1, n2, n3, a, b

\* No action tells one node from another.
NodeSymmetry == Permutations(Node) \union Permutations(Value)
=============================================================================
