------------------------ MODULE CommentFiltersProofs ------------------------
(***************************************************************************)
(* CommentFilters for any keywords, cap and number of requests.            *)
(***************************************************************************)
EXTENDS CommentFilters, FiniteSetTheorems, TLAPS

IInv == TypeOK /\ OvershootBounded

\* The requests between their statements are finitely many.
LEMMA CountedFinite ==
    /\ IsFiniteSet(Counted)
    /\ Cardinality(Counted) \in Nat
    /\ Cardinality(Adders) \in Nat
    /\ Cardinality(Counted) <= Cardinality(Adders)
<1>1. Counted \subseteq Adders
  BY DEF Counted
<1>2. IsFiniteSet(Adders)
  BY FiltersAssumption
<1> QED
  BY <1>1, <1>2, FS_Subset, FS_CardinalityType

\* A request that has inserted or given up is not counted any more.
LEMMA Uncounted ==
    ASSUME TypeOK, NEW a \in Counted,
           adding' = [adding EXCEPT ![a] = NoKeyword]
    PROVE  /\ Counted' = Counted \ {a}
           /\ Cardinality(Counted') = Cardinality(Counted) - 1
<1>1. Counted' = Counted \ {a}
  BY DEF Counted, TypeOK
<1> QED
  BY <1>1, CountedFinite, FS_RemoveElement

\* Removing or adding a keyword keeps the list finite and changes its length
\* by at most one.
LEMMA FiltersStep ==
    ASSUME TypeOK, NEW k \in Keywords
    PROVE  /\ IsFiniteSet(filters \cup {k})
           /\ IsFiniteSet(filters \ {k})
           /\ Cardinality(filters) \in Nat
           /\ Cardinality(filters \cup {k}) \in Nat
           /\ Cardinality(filters \ {k}) \in Nat
           /\ Cardinality(filters \cup {k}) <= Cardinality(filters) + 1
           /\ Cardinality(filters \ {k}) <= Cardinality(filters)
<1>1. IsFiniteSet(filters)
  BY DEF TypeOK
<1>2. /\ IsFiniteSet(filters \cup {k})
      /\ Cardinality(filters \cup {k}) =
            IF k \in filters THEN Cardinality(filters) ELSE Cardinality(filters) + 1
  BY <1>1, FS_AddElement
<1>3. /\ IsFiniteSet(filters \ {k})
      /\ Cardinality(filters \ {k}) =
            IF k \in filters THEN Cardinality(filters) - 1 ELSE Cardinality(filters)
  BY <1>1, FS_RemoveElement
<1>4. /\ Cardinality(filters) \in Nat
      /\ Cardinality(filters \cup {k}) \in Nat
      /\ Cardinality(filters \ {k}) \in Nat
  BY <1>1, <1>2, <1>3, FS_CardinalityType
<1> QED
  BY <1>2, <1>3, <1>4

LEMMA InitIInv ==
    Init => IInv
<1> SUFFICES ASSUME Init PROVE IInv
  OBVIOUS
<1>1. filters = {} /\ Counted = {}
  BY DEF Init, Counted
<1>2. IsFiniteSet({}) /\ Cardinality({}) = 0
  BY FS_EmptySet
<1>3. TypeOK
  BY <1>1, <1>2 DEF Init, TypeOK
<1>4. OvershootBounded
  BY <1>1, <1>2, CountedFinite, FiltersAssumption DEF OvershootBounded
<1> QED
  BY <1>3, <1>4 DEF IInv

LEMMA NextIInv ==
    IInv /\ [Next]_vars => IInv'
<1> SUFFICES ASSUME IInv, [Next]_vars PROVE IInv'
  OBVIOUS
<1> USE FiltersAssumption
<1>0. TypeOK /\ OvershootBounded
  BY DEF IInv
<1>1. ASSUME NEW a \in Adders, NEW k \in Keywords, CountFilters(a, k)
      PROVE  IInv'
  <2>1. filters' = filters /\ TypeOK'
    BY <1>0, <1>1 DEF CountFilters, TypeOK
  <2>2. Counted' \subseteq Adders /\ IsFiniteSet(Adders)
    BY DEF Counted
  <2>3. /\ Cardinality(Counted') \in Nat
        /\ Cardinality(Adders) \in Nat
        /\ Cardinality(Counted') <= Cardinality(Adders)
    BY <2>2, FS_Subset, FS_CardinalityType
  <2>4. Cardinality(filters) \in Nat
    BY <1>0, FS_CardinalityType DEF TypeOK
  <2>5. Cardinality(filters) < Cap
    BY <1>1 DEF CountFilters
  <2>6. OvershootBounded'
    BY <2>1, <2>3, <2>4, <2>5 DEF OvershootBounded
  <2> QED
    BY <2>1, <2>6 DEF IInv
<1>2. ASSUME NEW a \in Adders, InsertFilter(a)
      PROVE  IInv'
  <2>1. a \in Counted /\ adding[a] \in Keywords
    BY <1>0, <1>2 DEF InsertFilter, Counted, TypeOK
  <2>2. Lower[adding[a]] \in Keywords
    BY <2>1
  <2>3. /\ IsFiniteSet(filters')
        /\ Cardinality(filters') \in Nat
        /\ Cardinality(filters) \in Nat
        /\ Cardinality(filters') <= Cardinality(filters) + 1
    BY <1>0, <1>2, <2>2, FiltersStep DEF InsertFilter
  <2>4. Cardinality(Counted') = Cardinality(Counted) - 1
    BY <1>0, <1>2, <2>1, Uncounted DEF InsertFilter
  <2>5. TypeOK'
    BY <1>0, <1>2, <2>2, <2>3 DEF InsertFilter, TypeOK
  <2>6. OvershootBounded'
    BY <1>0, <2>3, <2>4, CountedFinite DEF OvershootBounded
  <2> QED
    BY <2>5, <2>6 DEF IInv
<1>3. ASSUME NEW a \in Adders, AbandonFilter(a)
      PROVE  IInv'
  <2>1. a \in Counted
    BY <1>3 DEF AbandonFilter, Counted
  <2>2. Cardinality(Counted') = Cardinality(Counted) - 1 /\ filters' = filters
    BY <1>0, <1>3, <2>1, Uncounted DEF AbandonFilter
  <2>3. Cardinality(filters) \in Nat
    BY <1>0, FS_CardinalityType DEF TypeOK
  <2>4. TypeOK'
    BY <1>0, <1>3 DEF AbandonFilter, TypeOK
  <2>5. OvershootBounded'
    BY <1>0, <2>2, <2>3, CountedFinite DEF OvershootBounded
  <2> QED
    BY <2>4, <2>5 DEF IInv
<1>4. ASSUME NEW k \in Keywords, DeleteCommentFilter(k)
      PROVE  IInv'
  <2>1. filters' = filters \ {k} /\ adding' = adding
    BY <1>4 DEF DeleteCommentFilter
  <2>2. Counted' = Counted
    BY <2>1 DEF Counted
  <2>3. TypeOK'
    BY <1>0, <2>1, FiltersStep DEF TypeOK
  <2>4. OvershootBounded'
    BY <1>0, <2>1, <2>2, FiltersStep, CountedFinite DEF OvershootBounded
  <2> QED
    BY <2>3, <2>4 DEF IInv
<1>5. CASE UNCHANGED vars
  BY <1>0, <1>5 DEF vars, IInv, TypeOK, OvershootBounded, Counted
<1> QED
  BY <1>1, <1>2, <1>3, <1>4, <1>5 DEF Next

\* The rows are finitely many keywords, and a request holds one only between
\* its statements.
THEOREM ListTypeCorrect == Spec => []TypeOK
<1>1. IInv => TypeOK
  BY DEF IInv
<1> QED
  BY InitIInv, NextIInv, <1>1, PTL DEF Spec

\* The list of a user never exceeds the cap by as many keywords as requests
\* of that user run at a time, whatever is deleted and added again: with one
\* request at a time AddCommentFilter keeps the cap.
THEOREM OvershootCorrect == Spec => []OvershootBounded
<1>1. IInv => OvershootBounded
  BY DEF IInv
<1> QED
  BY InitIInv, NextIInv, <1>1, PTL DEF Spec

\* Stored keywords are in lower case.
Folded == \A k \in filters : Lower[k] = k

\* A keyword is listed once however it is spelled: what InsertFilter stores
\* is folded, and the rows of one spelling are one.
THEOREM ListedOnceCorrect == Spec => []ListedOnce
<1> USE FiltersAssumption
<1>1. Init => TypeOK /\ Folded
  BY InitIInv DEF IInv, Init, Folded
<1>2. IInv /\ Folded /\ [Next]_vars => Folded'
  <2> SUFFICES ASSUME IInv, Folded, [Next]_vars PROVE Folded'
    OBVIOUS
  <2>1. ASSUME NEW a \in Adders, InsertFilter(a)
        PROVE  Folded'
    <3>1. adding[a] \in Keywords
      BY <2>1 DEF InsertFilter, IInv, TypeOK
    <3>2. Lower[Lower[adding[a]]] = Lower[adding[a]]
      BY <3>1
    <3> QED
      BY <2>1, <3>2 DEF InsertFilter, Folded
  <2>2. ASSUME filters' \subseteq filters
        PROVE  Folded'
    BY <2>2 DEF Folded
  <2>3. ASSUME NEW a \in Adders, NEW k \in Keywords, CountFilters(a, k)
        PROVE  filters' \subseteq filters
    BY <2>3 DEF CountFilters
  <2>4. ASSUME NEW a \in Adders, AbandonFilter(a)
        PROVE  filters' \subseteq filters
    BY <2>4 DEF AbandonFilter
  <2>5. ASSUME NEW k \in Keywords, DeleteCommentFilter(k)
        PROVE  filters' \subseteq filters
    BY <2>5 DEF DeleteCommentFilter
  <2>6. CASE UNCHANGED vars
    BY <2>2, <2>6 DEF vars
  <2> QED
    BY <2>1, <2>2, <2>3, <2>4, <2>5, <2>6 DEF Next
<1>3. Folded => ListedOnce
  BY DEF Folded, ListedOnce
<1> QED
  BY InitIInv, NextIInv, <1>1, <1>2, <1>3, PTL DEF Spec
=============================================================================
