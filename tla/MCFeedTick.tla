----------------------------- MODULE MCFeedTick -----------------------------
(* TLC instances of FeedTick.                                              *)
EXTENDS FeedTick, TLC

CONSTANTS i1, i2, i3, f1, f2, p1, daemon, drain

\* i1 and i2 are copies of one paper from two feeds; i3 is newer than i1 in
\* the same feed and has no DOI.
TwoFeeds == i1 :> f1 @@ i2 :> f2 @@ i3 :> f1
Ages     == i1 :> 0 @@ i2 :> 1 @@ i3 :> 2
Copies   == i1 :> p1 @@ i2 :> p1 @@ i3 :> NoPaper
=============================================================================
