---------------------------- MODULE MCTriageJobs ----------------------------
(* TLC instances of TriageJobs.                                            *)
EXTENDS TriageJobs, TLC

CONSTANTS i1, i2, i3

Symmetry == Permutations(Items)
=============================================================================
