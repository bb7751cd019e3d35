---------------------------- MODULE MCLabelMirror ----------------------------
(* TLC instances of LabelMirror.                                           *)
EXTENDS LabelMirror, TLC

CONSTANTS v1, v2, r1, r2, p1

Symmetry == Permutations(Requests) \cup Permutations(Priorities)
=============================================================================
