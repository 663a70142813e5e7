--------------------------- MODULE CommentFilters ---------------------------
(***************************************************************************)
(* The keyword list of one user (internal/handlers/user_handler.go, table  *)
(* user_comment_filters).  Every statement names the user, so the lists of *)
(* two users do not interact.  Adding a keyword counts the rows and then   *)
(* inserts one, in two statements: several requests of the user interleave.*)
(***************************************************************************)
EXTENDS KeywordLists

VARIABLES
    filters,      \* the keywords of the user's rows; an id names its keyword
    adding        \* the keyword of a request that passed the count, or NoKeyword

vars == <<filters, adding>>

\* The requests between their two statements.
Counted == {a \in Adders : adding[a] # NoKeyword}

TypeOK ==
    /\ filters \in SUBSET Keywords
    /\ IsFiniteSet(filters)
    /\ adding \in [Adders -> Keywords \cup {NoKeyword}]

Init ==
    /\ filters = {}
    /\ adding = [a \in Adders |-> NoKeyword]

-----------------------------------------------------------------------------
(* Mutated forms of the definitions below.                                 *)

\* count > 50 instead of count >= 50.
CountOneTooMany(a, k) ==
    /\ adding[a] = NoKeyword
    /\ Cardinality(filters) <= Cap
    /\ adding' = [adding EXCEPT ![a] = k]
    /\ UNCHANGED filters

\* The INSERT stores what the client sent.
InsertAsSpelled(a) ==
    /\ adding[a] # NoKeyword
    /\ filters' = filters \cup {adding[a]}
    /\ adding' = [adding EXCEPT ![a] = NoKeyword]

\* The handler goes on after a 400.
InsertRegardless(a) ==
    /\ filters' = filters \cup {adding[a]}
    /\ adding' = [adding EXCEPT ![a] = NoKeyword]

-----------------------------------------------------------------------------
\* SELECT COUNT(*): with Cap rows the answer is 400.
CountFilters(a, k) ==
    /\ adding[a] = NoKeyword
    /\ Cardinality(filters) < Cap
    /\ adding' = [adding EXCEPT ![a] = k]
    /\ UNCHANGED filters

\* INSERT ... LOWER(keyword) ... ON CONFLICT DO NOTHING: 201, or 409 for a
\* keyword that is there already.
InsertFilter(a) ==
    /\ adding[a] # NoKeyword
    /\ filters' = filters \cup {Lower[adding[a]]}
    /\ adding' = [adding EXCEPT ![a] = NoKeyword]

\* The INSERT fails, or the request dies before it: nothing is stored.
AbandonFilter(a) ==
    /\ adding[a] # NoKeyword
    /\ adding' = [adding EXCEPT ![a] = NoKeyword]
    /\ UNCHANGED filters

\* DELETE /api/me/comment-filters/:filter_id; without a row it is 404.
DeleteCommentFilter(k) ==
    /\ k \in filters
    /\ filters' = filters \ {k}
    /\ UNCHANGED adding

Next ==
    \/ \E a \in Adders :
          \/ \E k \in Keywords : CountFilters(a, k)
          \/ InsertFilter(a) \/ AbandonFilter(a)
    \/ \E k \in Keywords : DeleteCommentFilter(k)

Spec == Init /\ [][Next]_vars

-----------------------------------------------------------------------------
(* Properties.                                                             *)

\* The list outgrows the cap only by requests that counted before the others
\* inserted: by one less than the requests that run at the same time.
OvershootBounded ==
    Cardinality(filters) + Cardinality(Counted) <= Cap - 1 + Cardinality(Adders)

\* A keyword is listed once, however the client spells it ("Keywords are
\* stored case-insensitively", docs/comments.md).
ListedOnce ==
    \A k, l \in filters : Lower[k] = Lower[l] => k = l

\* docs/comments.md "Max 50 filters per user"; user_handler.go "Enforce the
\* 50-keyword cap".
CapHeld ==
    Cardinality(filters) <= Cap
=============================================================================
