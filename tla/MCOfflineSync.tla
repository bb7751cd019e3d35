--------------------------- MODULE MCOfflineSync ---------------------------
(* TLC instances of OfflineSync.                                           *)
EXTENDS OfflineSync, TLC

CONSTANTS d1, d2, t1, t2, t3, m1, m2, m3, m4, k1, k2, a, b

\* Two tabs sharing the IndexedDB of one device, and a second device.
TwoTabsAndOne == t1 :> d1 @@ t2 :> d1 @@ t3 :> d2

\* One device, one tab.
OneTab == t1 :> d1

Symmetry == Permutations(Mutations) \cup Permutations({t1, t2})
=============================================================================
