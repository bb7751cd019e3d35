---------------------------- MODULE MCReviewFleet ----------------------------
(* TLC instances of ReviewFleet.                                           *)
EXTENDS ReviewFleet

CONSTANTS k1, k2
=============================================================================
