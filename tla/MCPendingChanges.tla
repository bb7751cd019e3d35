-------------------------- MODULE MCPendingChanges --------------------------
(* TLC instances of PendingChanges.                                        *)
EXTENDS PendingChanges, TLC

CONSTANTS i1, i2, n1, n2, t1, w1, w2

Symmetry == Permutations(Items) \cup Permutations(Notes) \cup Permutations(Appliers)
=============================================================================
