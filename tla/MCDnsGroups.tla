---------------------------- MODULE MCDnsGroups ----------------------------
(* Two members, two groups, two overlapping requests of three in all: the  *)
(* smallest instance with a write skew, a stale group row and a deadlock   *)
(* between two re-materializations.  The names are interchangeable.        *)
EXTENDS DnsGroups, TLC

Symmetry ==
    Permutations(Nodes) \cup Permutations(Groups) \cup Permutations(Requests)
=============================================================================
