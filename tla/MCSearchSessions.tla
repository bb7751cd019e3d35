-------------------------- MODULE MCSearchSessions --------------------------
(* TLC instances of SearchSessions.                                        *)
EXTENDS SearchSessions

CONSTANTS c1, c2, c3, w1, w2, a1, a2

\* A later find may show that c1 and c2 are one work; c3 comes with it.
OneWork == {<<c1, c2>>}
=============================================================================
