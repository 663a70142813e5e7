--------------------------- MODULE PatternsProofs ---------------------------
(***************************************************************************)
(* LIKE '%word%' for texts and words of any length: it finds the word      *)
(* wherever it is, unless the word holds a letter that LIKE gives a        *)
(* meaning.  Like is a recursive function over the pattern; what it is for *)
(* such a pattern is written down in closed form (Matched), shown to solve *)
(* the recursion, and to be its only solution.                             *)
(***************************************************************************)
EXTENDS Patterns, WellFoundedInduction, TLAPS

\* The induction that the proofs below need.
LEMMA SmallestOf ==
    ASSUME NEW T \in SUBSET Nat, T # {}
    PROVE  \E n \in T : \A m \in T : n <= m
<1> DEFINE R == {p \in Nat \X Nat : p[1] < p[2]}
<1>1. IsWellFoundedOn(R, Nat)
  BY NatLessThanWellFounded DEF OpToRel
<1>2. \A m, n \in Nat : m < n => <<m, n>> \in R
  OBVIOUS
<1> HIDE DEF R
<1>3. PICK n \in T : \A m \in T : ~ (<<m, n>> \in R)
  BY <1>1, WFMin
<1>4. \A m \in T : ~ (m < n)
  BY <1>2, <1>3
<1> QED
  BY <1>3, <1>4

\* What Like recurs over: a function that is at each letter of the pattern
\* what Starts makes of the letters after it.
Solves(g, text, pattern) ==
    g = [j \in 1 .. Len(pattern) + 1 |-> Starts(text, pattern, j, g)]

\* What Starts makes of a letter depends on the letters after it.
LEMMA StartsLocal ==
    ASSUME NEW text, NEW pattern, NEW j, NEW g, NEW h, Len(pattern) \in Nat,
           j \in 1 .. Len(pattern) + 1,
           \A k \in 1 .. Len(pattern) + 1 : k > j => g[k] = h[k]
    PROVE  Starts(text, pattern, j, g) = Starts(text, pattern, j, h)
<1>1. CASE j > Len(pattern)
  BY <1>1 DEF Starts
<1>2. CASE j <= Len(pattern)
  <2>1. g[j + 1] = h[j + 1]
    BY <1>2
  <2>2. j < Len(pattern) => g[j + 2] = h[j + 2]
    OBVIOUS
  <2> QED
    BY <1>2, <2>1, <2>2 DEF Starts
<1> QED
  BY <1>1, <1>2

\* Of two solutions, take the last letter at which they differ.
LEMMA SolutionUnique ==
    ASSUME NEW text, NEW pattern, Len(pattern) \in Nat, NEW g, NEW h,
           Solves(g, text, pattern), Solves(h, text, pattern)
    PROVE  g = h
<1> DEFINE L == Len(pattern) + 1
           Differ == {n \in Nat : n < L /\ g[L - n] # h[L - n]}
<1>1. /\ DOMAIN g = 1 .. L /\ g = [j \in 1 .. L |-> g[j]]
      /\ DOMAIN h = 1 .. L /\ h = [j \in 1 .. L |-> h[j]]
      /\ \A j \in 1 .. L : g[j] = Starts(text, pattern, j, g)
      /\ \A j \in 1 .. L : h[j] = Starts(text, pattern, j, h)
  BY DEF Solves
<1>2. CASE Differ = {}
  <2>1. ASSUME NEW j \in 1 .. L
        PROVE  g[j] = h[j]
    <3>1. L - j \in Nat /\ L - j < L /\ L - (L - j) = j
      OBVIOUS
    <3> QED
      BY <1>2, <3>1
  <2> HIDE DEF L
  <2> QED
    BY <1>1, <2>1
<1>3. CASE Differ # {}
  <2>1. PICK n \in Differ : \A m \in Differ : n <= m
    BY <1>3, SmallestOf
  <2>2. L - n \in 1 .. L
    OBVIOUS
  <2>3. ASSUME NEW k \in 1 .. L, k > L - n
        PROVE  g[k] = h[k]
    <3>1. L - k \in Nat /\ L - k < n /\ L - k < L /\ L - (L - k) = k
      BY <2>3
    <3>2. L - k \notin Differ
      BY <2>1, <3>1
    <3> QED
      BY <3>1, <3>2
  <2>4. g[L - n] = h[L - n]
    <3>1. Starts(text, pattern, L - n, g) = Starts(text, pattern, L - n, h)
      BY <2>2, <2>3, StartsLocal
    <3> QED
      BY <1>1, <2>2, <3>1
  <2> QED
    BY <2>1, <2>4
<1> QED
  BY <1>2, <1>3

\* Whatever solves the recursion is what Like computes.
LEMMA LikeOf ==
    ASSUME NEW text, NEW pattern, Len(pattern) \in Nat, NEW g,
           Solves(g, text, pattern)
    PROVE  Like(text, pattern) <=> 1 \in g[1]
<1> DEFINE Rest == CHOOSE f : Solves(f, text, pattern)
<1>1. Rest = g
  <2>1. Solves(Rest, text, pattern)
    OBVIOUS
  <2> QED
    BY <2>1, SolutionUnique
<1>2. Like(text, pattern) <=> 1 \in Rest[1]
  BY DEF Like, Solves
<1> QED
  BY <1>1, <1>2
-----------------------------------------------------------------------------
(* The pattern '%word%' of a word without % and \.                         *)

Simple(word) == \A i \in DOMAIN word : word[i] \notin {"%", "\\"}

LEMMA FoldWord ==
    ASSUME NEW word \in Seq(STRING)
    PROVE  /\ Fold(word) \in Seq(STRING) /\ Len(Fold(word)) = Len(word)
           /\ \A i \in 1 .. Len(word) :
                 /\ word[i] \in Special <=> Fold(word)[i] \in Special
                 /\ word[i] \in Special => Fold(word)[i] = word[i]
           /\ Simple(word) => Simple(Fold(word))
<1>1. /\ DOMAIN word = 1 .. Len(word) /\ Len(word) \in Nat
      /\ \A i \in 1 .. Len(word) : word[i] \in STRING
  OBVIOUS
<1>2. /\ DOMAIN Fold(word) = 1 .. Len(word)
      /\ \A i \in 1 .. Len(word) : Fold(word)[i] \in STRING
  BY <1>1, PatternsAssumption DEF Fold
<1>3. Fold(word) \in Seq(STRING) /\ Len(Fold(word)) = Len(word)
  BY <1>1, <1>2 DEF Fold
<1>4. \A i \in 1 .. Len(word) :
         /\ word[i] \in Special <=> Fold(word)[i] \in Special
         /\ word[i] \in Special => Fold(word)[i] = word[i]
  BY <1>1, PatternsAssumption DEF Fold
<1>5. Simple(word) => Simple(Fold(word))
  BY <1>1, <1>2, <1>4 DEF Simple, Special
<1> QED
  BY <1>3, <1>4, <1>5

LEMMA PatternOf ==
    ASSUME NEW word \in Seq(STRING)
    PROVE  /\ Len(Pattern(word)) = Len(word) + 2
           /\ Pattern(word)[1] = "%" /\ Pattern(word)[Len(word) + 2] = "%"
           /\ \A j \in 2 .. Len(word) + 1 : Pattern(word)[j] = word[j - 1]
BY DEF Pattern

\* A letter of a pattern takes a letter of the text.
Takes(letter, other) == letter = "_" \/ other = letter

\* From which positions of text the letters of word from l on occur.
Occurs(text, word, l) ==
    {i \in 1 .. Len(text) + 1 :
        /\ i + (Len(word) + 1 - l) <= Len(text) + 1
        /\ \A k \in l .. Len(word) : Takes(word[k], text[i + (k - l)])}

\* What Like recurs over, in closed form.
Matched(text, word) ==
    [j \in 1 .. Len(word) + 3 |->
        IF j = 1 THEN {i \in 1 .. Len(text) + 1 : \E k \in Occurs(text, word, 1) : i <= k}
        ELSE IF j = Len(word) + 3 THEN {Len(text) + 1}
        ELSE Occurs(text, word, j - 1)]

\* A word occurs where its first letter is, followed by the others.
LEMMA OccursNext ==
    ASSUME NEW text \in Seq(STRING), NEW word \in Seq(STRING), NEW l \in 1 .. Len(word)
    PROVE  Occurs(text, word, l) =
              {i \in 1 .. Len(text) :
                  Takes(word[l], text[i]) /\ i + 1 \in Occurs(text, word, l + 1)}
<1> DEFINE n == Len(text)
           m == Len(word)
<1>0. n \in Nat /\ m \in Nat
  OBVIOUS
<1> HIDE DEF n, m
<1>1. ASSUME NEW i \in Occurs(text, word, l)
      PROVE  /\ i \in 1 .. n /\ Takes(word[l], text[i])
             /\ i + 1 \in Occurs(text, word, l + 1)
  <2>1. /\ i \in 1 .. n + 1 /\ i + (m + 1 - l) <= n + 1
        /\ \A k \in l .. m : Takes(word[k], text[i + (k - l)])
    BY DEF Occurs, n, m
  <2>2. i \in 1 .. n /\ l \in 1 .. m
    BY <1>0, <2>1 DEF m
  <2>3. Takes(word[l], text[i])
    <3>1. l \in l .. m /\ i + (l - l) = i
      BY <1>0, <2>2
    <3> QED
      BY <2>1, <3>1
  <2>4. (i + 1) + (m + 1 - (l + 1)) <= n + 1
    BY <1>0, <2>1, <2>2
  <2>5. ASSUME NEW k \in l + 1 .. m
        PROVE  Takes(word[k], text[(i + 1) + (k - (l + 1))])
    <3>1. k \in l .. m /\ (i + 1) + (k - (l + 1)) = i + (k - l)
      BY <1>0, <2>2
    <3> QED
      BY <2>1, <3>1
  <2> QED
    BY <1>0, <2>2, <2>3, <2>4, <2>5 DEF Occurs, n, m
<1>2. ASSUME NEW i \in 1 .. n, Takes(word[l], text[i]), i + 1 \in Occurs(text, word, l + 1)
      PROVE  i \in Occurs(text, word, l)
  <2>1. /\ (i + 1) + (m + 1 - (l + 1)) <= n + 1
        /\ \A k \in l + 1 .. m : Takes(word[k], text[(i + 1) + (k - (l + 1))])
    BY <1>2 DEF Occurs, n, m
  <2>2. l \in 1 .. m /\ i + (m + 1 - l) <= n + 1
    BY <1>0, <2>1 DEF m
  <2>3. ASSUME NEW k \in l .. m
        PROVE  Takes(word[k], text[i + (k - l)])
    <3>1. CASE k = l
      <4>1. i + (k - l) = i
        BY <1>0, <2>2, <3>1
      <4> QED
        BY <1>2, <3>1, <4>1
    <3>2. CASE k \in l + 1 .. m
      <4>1. (i + 1) + (k - (l + 1)) = i + (k - l)
        BY <1>0, <2>2
      <4> QED
        BY <2>1, <3>2, <4>1
    <3> QED
      BY <1>0, <2>2, <3>1, <3>2
  <2> QED
    BY <1>0, <2>2, <2>3 DEF Occurs, n, m
<1> QED
  BY <1>1, <1>2 DEF n

LEMMA MatchedSolves ==
    ASSUME NEW text \in Seq(STRING), NEW word \in Seq(STRING), Simple(word)
    PROVE  Solves(Matched(text, word), text, Pattern(word))
<1> DEFINE p == Pattern(word)
           n == Len(text)
           m == Len(word)
           g == Matched(text, word)
<1>1. /\ n \in Nat /\ m \in Nat /\ Len(p) = m + 2 /\ p[1] = "%" /\ p[m + 2] = "%"
      /\ \A j \in 2 .. m + 1 : p[j] = word[j - 1] /\ p[j] \notin {"%", "\\"}
  BY PatternOf DEF Simple
<1>2. DOMAIN g = 1 .. m + 3 /\ g = [j \in 1 .. m + 3 |-> g[j]]
  BY DEF Matched
<1>3. g[1] = {i \in 1 .. n + 1 : \E k \in Occurs(text, word, 1) : i <= k}
  BY DEF Matched
<1>4. g[m + 3] = {n + 1}
  BY DEF Matched
<1>5. \A j \in 2 .. m + 2 : g[j] = Occurs(text, word, j - 1)
  BY DEF Matched
<1>6. Occurs(text, word, m + 1) = 1 .. n + 1
  BY DEF Occurs
<1>7. \A l \in 1 .. m :
         Occurs(text, word, l) =
            {i \in 1 .. n : Takes(word[l], text[i]) /\ i + 1 \in Occurs(text, word, l + 1)}
  BY OccursNext
<1> HIDE DEF p, n, m, g
<1>8. ASSUME NEW j \in 1 .. m + 3
      PROVE  g[j] = Starts(text, p, j, g)
  <2>1. CASE j = 1
    <3>1. g[2] = Occurs(text, word, 1)
      BY <1>1, <1>5
    <3>2. Starts(text, p, 1, g) = {i \in 1 .. n + 1 : \E k \in g[2] : i <= k}
      BY <1>1 DEF Starts, n
    <3> QED
      BY <1>3, <2>1, <3>1, <3>2
  <2>2. CASE j = m + 3
    <3>1. m + 3 > Len(p)
      BY <1>1
    <3>2. Starts(text, p, m + 3, g) = {n + 1}
      BY <3>1 DEF Starts, n
    <3> QED
      BY <1>4, <2>2, <3>2
  <2>3. CASE j = m + 2
    <3>1. g[j] = 1 .. n + 1
      BY <1>1, <1>5, <1>6, <2>3
    <3>2. Starts(text, p, j, g) = {i \in 1 .. n + 1 : \E k \in g[j + 1] : i <= k}
      BY <1>1, <2>3 DEF Starts, n
    <3>3. g[j + 1] = {n + 1}
      BY <1>1, <1>4, <2>3
    <3> QED
      BY <1>1, <3>1, <3>2, <3>3
  <2>4. CASE j \in 2 .. m + 1
    <3>1. p[j] = word[j - 1] /\ p[j] \notin {"%", "\\"} /\ ~ (j > Len(p))
      BY <1>1, <2>4
    <3>2. Starts(text, p, j, g) =
             {i \in 1 .. n : Takes(word[j - 1], text[i]) /\ i + 1 \in g[j + 1]}
      BY <3>1 DEF Starts, Special, Takes, n
    <3>3. j - 1 \in 1 .. m /\ g[j] = Occurs(text, word, j - 1)
                           /\ g[j + 1] = Occurs(text, word, (j - 1) + 1)
      BY <1>1, <1>5, <2>4
    <3> QED
      BY <1>7, <3>2, <3>3
  <2> QED
    BY <1>1, <2>1, <2>2, <2>3, <2>4
<1> QED
  BY <1>1, <1>2, <1>8 DEF Solves, p, g

\* A word without % and \ matches where its letters are, one by one, in either
\* case, each _ standing for any letter: what GetVideoComments and Search do
\* with the words that users give them.
THEOREM SimpleHits ==
    ASSUME NEW text \in Seq(STRING), NEW word \in Seq(STRING), Simple(word)
    PROVE  Hits(text, word) <=>
              \E i \in 0 .. Len(text) - Len(word) :
                 \A k \in 1 .. Len(word) : Takes(Fold(word)[k], Fold(text)[i + k])
<1> DEFINE t == Fold(text)
           w == Fold(word)
           n == Len(text)
           m == Len(word)
<1>1. /\ t \in Seq(STRING) /\ w \in Seq(STRING) /\ Simple(w)
      /\ Len(t) = n /\ Len(w) = m /\ n \in Nat /\ m \in Nat
  BY FoldWord
<1>2. Hits(text, word) <=> 1 \in Matched(t, w)[1]
  <2>1. Solves(Matched(t, w), t, Pattern(w)) /\ Len(Pattern(w)) \in Nat
    BY <1>1, MatchedSolves, PatternOf
  <2> QED
    BY <2>1, LikeOf DEF Hits
<1> HIDE DEF t, w, n, m
<1>3. 1 \in Matched(t, w)[1] <=> Occurs(t, w, 1) # {}
  <2>1. \A k \in Occurs(t, w, 1) : k \in Nat /\ 1 <= k
    BY <1>1 DEF Occurs
  <2>2. Matched(t, w)[1] = {i \in 1 .. Len(t) + 1 : \E k \in Occurs(t, w, 1) : i <= k}
    BY <1>1 DEF Matched
  <2> QED
    BY <1>1, <2>1, <2>2
<1>4. ASSUME NEW i \in 0 .. n - m
      PROVE  i + 1 \in Occurs(t, w, 1) <=> \A k \in 1 .. m : Takes(w[k], t[i + k])
  <2>1. i + 1 \in Occurs(t, w, 1) <=> \A k \in 1 .. m : Takes(w[k], t[(i + 1) + (k - 1)])
    BY <1>1 DEF Occurs
  <2>2. \A k \in 1 .. m : (i + 1) + (k - 1) = i + k
    BY <1>1
  <2> QED
    BY <2>1, <2>2
<1>5. \A k \in Occurs(t, w, 1) : k - 1 \in 0 .. n - m /\ (k - 1) + 1 = k
  BY <1>1 DEF Occurs
<1>6. Hits(text, word) <=> \E i \in 0 .. n - m : \A k \in 1 .. m : Takes(w[k], t[i + k])
  BY <1>2, <1>3, <1>4, <1>5
<1> QED
  BY <1>6 DEF t, w, n, m

\* Without _ that is the partial, case-insensitive match of the documents.
THEOREM PlainHits ==
    ASSUME NEW text \in Seq(STRING), NEW word \in Seq(STRING), Plain(word)
    PROVE  Hits(text, word) <=> Within(word, text)
<1> DEFINE t == Fold(text)
           w == Fold(word)
           n == Len(text)
           m == Len(word)
<1>1. /\ t \in Seq(STRING) /\ w \in Seq(STRING)
      /\ Len(t) = n /\ Len(w) = m /\ n \in Nat /\ m \in Nat
      /\ \A k \in 1 .. m : w[k] \notin Special
  BY FoldWord DEF Plain
<1>2. Simple(word)
  BY DEF Plain, Simple, Special
<1>3. ASSUME NEW i \in 0 .. n - m
      PROVE  Fold(SubSeq(text, i + 1, i + m)) = w <=> \A k \in 1 .. m : Takes(w[k], t[i + k])
  <2> DEFINE s == SubSeq(text, i + 1, i + m)
  <2>1. /\ s \in Seq(STRING) /\ Len(s) = m
        /\ \A k \in 1 .. m : s[k] = text[i + k] /\ i + k \in 1 .. n
    BY <1>1
  <2>2. Fold(s) \in Seq(STRING) /\ Len(Fold(s)) = m
    BY <2>1, FoldWord
  <2>3. \A k \in 1 .. m : Fold(s)[k] = t[i + k]
    <3>1. DOMAIN s = 1 .. m /\ DOMAIN text = 1 .. n
      BY <1>1, <2>1
    <3> HIDE DEF s, n, m
    <3> QED
      BY <2>1, <3>1 DEF Fold
  <2>4. Fold(s) = w <=> \A k \in 1 .. m : t[i + k] = w[k]
    BY <1>1, <2>2, <2>3
  <2>5. \A k \in 1 .. m : Takes(w[k], t[i + k]) <=> t[i + k] = w[k]
    BY <1>1 DEF Takes, Special
  <2> QED
    BY <2>4, <2>5
<1> QED
  BY <1>2, <1>3, SimpleHits DEF Within

LEMMA PercentLike ==
    ASSUME NEW text \in Seq(STRING), NEW p, Len(p) = 3, p[1] = "%", p[2] = "%", p[3] = "%"
    PROVE  Like(text, p)
<1> DEFINE n == Len(text)
           g == [j \in 1 .. 4 |-> IF j = 4 THEN {n + 1} ELSE 1 .. n + 1]
<1>1. n \in Nat
  OBVIOUS
<1>2. /\ g = [j \in 1 .. 4 |-> g[j]] /\ g[4] = {n + 1}
      /\ \A j \in 1 .. 3 : g[j] = 1 .. n + 1
  OBVIOUS
<1> HIDE DEF g, n
<1>3. ASSUME NEW j \in 1 .. 4
      PROVE  g[j] = Starts(text, p, j, g)
  <2>1. CASE j = 4
    BY <1>2, <2>1 DEF Starts, n
  <2>2. CASE j \in 1 .. 3
    <3>1. ~ (j > Len(p)) /\ p[j] = "%"
      <4>1. j = 1 \/ j = 2 \/ j = 3
        BY <2>2
      <4> QED
        BY <4>1
    <3>2. Starts(text, p, j, g) = {i \in 1 .. n + 1 : \E k \in g[j + 1] : i <= k}
      BY <3>1 DEF Starts, n
    <3>3. n + 1 \in g[j + 1]
      <4>1. j + 1 = 4 \/ j + 1 \in 1 .. 3
        BY <2>2
      <4>2. n + 1 \in 1 .. n + 1
        BY <1>1
      <4> QED
        BY <1>2, <4>1, <4>2
    <3>4. g[j] = 1 .. n + 1
      BY <1>2, <2>2
    <3>5. \A i \in 1 .. n + 1 : i <= n + 1
      BY <1>1
    <3> QED
      BY <3>2, <3>3, <3>4, <3>5
  <2> QED
    BY <2>1, <2>2
<1>4. Solves(g, text, p)
  BY <1>2, <1>3 DEF Solves
<1>5. 1 \in g[1]
  BY <1>1, <1>2
<1> QED
  BY <1>4, <1>5, LikeOf

\* A keyword, tag or search word % matches every text: the one filter hides the
\* whole section, as the search for it lists every name.
THEOREM PercentHits ==
    ASSUME NEW text \in Seq(STRING), NEW word \in Seq(STRING),
           Len(word) = 1, word[1] = "%"
    PROVE  Hits(text, word)
<1>1. /\ Fold(text) \in Seq(STRING) /\ Fold(word) \in Seq(STRING)
      /\ Len(Fold(word)) = 1
  BY FoldWord
<1>2. Fold(word)[1] = "%"
  <2>1. 1 \in 1 .. Len(word) /\ word[1] \in Special
    BY DEF Special
  <2> QED
    BY <2>1, FoldWord
<1>3. /\ Len(Pattern(Fold(word))) = 3 /\ Pattern(Fold(word))[1] = "%"
      /\ Pattern(Fold(word))[2] = "%" /\ Pattern(Fold(word))[3] = "%"
  <2>1. ASSUME NEW w \in Seq(STRING), Len(w) = 1, w[1] = "%"
        PROVE  /\ Len(Pattern(w)) = 3 /\ Pattern(w)[1] = "%"
               /\ Pattern(w)[2] = "%" /\ Pattern(w)[3] = "%"
    <3>1. Len(Pattern(w)) = 3 /\ Pattern(w)[1] = "%" /\ Pattern(w)[3] = "%"
      <4>1. Len(w) + 2 = 3
        BY <2>1
      <4>2. /\ Len(Pattern(w)) = Len(w) + 2
            /\ Pattern(w)[1] = "%" /\ Pattern(w)[Len(w) + 2] = "%"
        BY PatternOf
      <4> QED
        BY <4>1, <4>2
    <3>2. 2 \in 2 .. Len(w) + 1 /\ w[2 - 1] = "%"
      BY <2>1
    <3>3. Pattern(w)[2] = w[2 - 1]
      BY <3>2, PatternOf
    <3> QED
      BY <3>1, <3>2, <3>3
  <2> QED
    BY <1>1, <1>2, <2>1
<1> QED
  BY <1>1, <1>3, PercentLike DEF Hits
=============================================================================
