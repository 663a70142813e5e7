---------------------------- MODULE KeywordLists ----------------------------
(***************************************************************************)
(* What the keyword list of a user is made of; for CommentFilters and the  *)
(* modules that compose with it.                                           *)
(***************************************************************************)
EXTENDS Integers, FiniteSets

CONSTANTS
    Keywords,     \* keywords as a client spells them
    Lower,        \* LOWER: the spelling a keyword is stored in
    Cap,          \* 50
    Adders,       \* concurrent POST /api/me/comment-filters of the user
    NoKeyword     \* what a request that is not between its statements holds

ASSUME FiltersAssumption ==
    /\ Lower \in [Keywords -> Keywords]
    /\ \A k \in Keywords : Lower[Lower[k]] = Lower[k]
    /\ Cap \in Nat \ {0}
    /\ IsFiniteSet(Adders)
    /\ NoKeyword \notin Keywords
=============================================================================
