----------------------- MODULE MCFeedMaterialization -----------------------
(* TLC instances of FeedMaterialization.                                   *)
EXTENDS FeedMaterialization, TLC

Symmetry == Permutations(Rows) \cup Permutations(Keys) \cup Permutations(Requests)
=============================================================================
