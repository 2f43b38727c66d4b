---------------------------- MODULE MCPeerings -----------------------------
(* Two nodes that may peer with each other, two overlapping transactions.  *)
EXTENDS Peerings, TLC

Symmetry == Permutations(Requests)
=============================================================================
