----------------------------- MODULE MCComments -----------------------------
(* Comments for TLC: two texts, one of which holds the keyword in the     *)
(* other case and not at its start, and a keyword that is a wildcard.      *)
EXTENDS Comments, TLC

MCLowerCase == "B" :> "b"
MCTexts == {<<"a">>, <<"a", "B">>}
MCKeywords == {<<"b">>, <<"_">>}
MCLower == [k \in MCKeywords |-> Fold(k)]

Symmetry == Permutations(Togglers) \cup Permutations(Authors)
=============================================================================
