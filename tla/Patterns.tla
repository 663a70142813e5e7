------------------------------ MODULE Patterns ------------------------------
(***************************************************************************)
(* LIKE and ILIKE as PostgreSQL evaluates them, and the patterns the       *)
(* queries build: '%' || word || '%', in which nothing is escaped.  A word *)
(* is a sequence of letters.                                               *)
(***************************************************************************)
EXTENDS Integers, Sequences

CONSTANT LowerCase      \* LOWER of a letter that has another case

\* One letter, any letters, and the next letter as it is.
Special == {"_", "%", "\\"}

ASSUME PatternsAssumption ==
    /\ DOMAIN LowerCase \cap Special = {}
    /\ \A x \in DOMAIN LowerCase : LowerCase[x] \in STRING /\ LowerCase[x] \notin Special

Fold(word) == [i \in DOMAIN word |->
                 IF word[i] \in DOMAIN LowerCase THEN LowerCase[word[i]] ELSE word[i]]

-----------------------------------------------------------------------------
(* Mutated forms of the definitions below.                                 *)

\* word || '%'
AnchoredPattern(word) == word \o <<"%">>

-----------------------------------------------------------------------------
\* The positions of text from which on it matches pattern from j on; rest holds
\* those for the letters of pattern after j.
Starts(text, pattern, j, rest) ==
    IF j > Len(pattern) THEN {Len(text) + 1}
    ELSE IF pattern[j] = "%"
    THEN {i \in 1 .. Len(text) + 1 : \E k \in rest[j + 1] : i <= k}
    ELSE {i \in 1 .. Len(text) :
            \/ pattern[j] = "_" /\ i + 1 \in rest[j + 1]
            \/ /\ pattern[j] = "\\" /\ j < Len(pattern)
               /\ text[i] = pattern[j + 1]
               /\ i + 1 \in rest[j + 2]
            \/ pattern[j] \notin Special /\ text[i] = pattern[j] /\ i + 1 \in rest[j + 1]}

\* text matches pattern from its first letter on.
Like(text, pattern) ==
    LET Rest[j \in 1 .. Len(pattern) + 1] == Starts(text, pattern, j, Rest)
    IN 1 \in Rest[1]

Pattern(word) == <<"%">> \o word \o <<"%">>

\* text ILIKE '%word%', and LOWER(text) LIKE '%' || LOWER(word) || '%'.
Hits(text, word) == Like(Fold(text), Pattern(Fold(word)))

-----------------------------------------------------------------------------
(* What the documents call a partial, case-insensitive match.              *)

Plain(word) == \A i \in DOMAIN word : word[i] \notin Special

Within(word, text) ==
    \E i \in 0 .. Len(text) - Len(word) :
        Fold(SubSeq(text, i + 1, i + Len(word))) = Fold(word)
=============================================================================
