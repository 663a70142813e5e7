------------------------------ MODULE MCFilters ------------------------------
(* CommentFilters for TLC: four words, each in a lower-case and another    *)
(* spelling.                                                               *)
EXTENDS CommentFilters, TLC

CONSTANTS a, b, c, d, A, B, C, D

MCKeywords == {a, b, c, d, A, B, C, D}
MCLower == (a :> a) @@ (b :> b) @@ (c :> c) @@ (d :> d) @@
           (A :> a) @@ (B :> b) @@ (C :> c) @@ (D :> d)

Symmetry == Permutations(Adders)
=============================================================================
