------------------------------ MODULE MCFeed ------------------------------
(* FeedCache for TLC: feed requests are interchangeable.                   *)
EXTENDS FeedCache, TLC

Symmetry == Permutations(Readers)
=============================================================================
