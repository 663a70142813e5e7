----------------------------- MODULE MCAccounts -----------------------------
(* Accounts for TLC: two words, one of them in two spellings.              *)
EXTENDS Accounts, TLC

CONSTANTS a, b, A

MCKeywords == {a, b, A}
MCLower == (a :> a) @@ (b :> b) @@ (A :> a)

Symmetry == Permutations(Adders) \cup Permutations(Calls)
=============================================================================
