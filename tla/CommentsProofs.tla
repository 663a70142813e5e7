--------------------------- MODULE CommentsProofs ---------------------------
(***************************************************************************)
(* The switch of a comment section, for any numbers of requests, users and *)
(* texts: which toggles flip it, which comments it lets through, and what  *)
(* its readers are answered.                                               *)
(***************************************************************************)
EXTENDS Comments, PatternsProofs, FiniteSetTheorems, TLAPS

Row == [author: Authors, text: Texts, gone: BOOLEAN]

TypeInv ==
    /\ closed \in BOOLEAN
    /\ comments \in Seq(Row)
    /\ toggle \in [Togglers -> {"idle", "done"} \cup Switch]
    /\ creating \in [Authors -> Texts \cup {NoText}]
    /\ stale \subseteq Togglers
    /\ slipping \subseteq Authors

\* What a toggle read is still true unless another one wrote since.
ReadIsCurrent ==
    \A t \in Togglers : toggle[t] \in Switch /\ t \notin stale
        => closed = (toggle[t] = "closed")

\* Whoever may still insert into a closed section had checked by the closing.
CheckedBefore ==
    closed => Checked \subseteq slipping

IInv == TypeInv /\ ReadIsCurrent /\ CheckedBefore

LEMMA InitIInv ==
    Init => IInv
<1> SUFFICES ASSUME Init PROVE IInv
  OBVIOUS
<1>1. TypeInv
  <2>1. comments \in Seq(Row)
    BY DEF Init
  <2>2. toggle \in [Togglers -> {"idle", "done"} \cup Switch]
    BY DEF Init
  <2>3. creating \in [Authors -> Texts \cup {NoText}]
    BY DEF Init
  <2> QED
    BY <2>1, <2>2, <2>3 DEF Init, TypeInv
<1>2. ReadIsCurrent
  BY DEF Init, ReadIsCurrent, Switch
<1>3. CheckedBefore
  BY DEF Init, CheckedBefore
<1> QED
  BY <1>1, <1>2, <1>3 DEF IInv

\* Actions that touch neither switch, nor rows, nor requests on them.
LEMMA ElsewhereIInv ==
    ASSUME IInv, UNCHANGED <<closed, comments, toggle, creating, stale, slipping>>
    PROVE  IInv'
BY DEF IInv, TypeInv, ReadIsCurrent, CheckedBefore, Checked

LEMMA ToggleIInv ==
    ASSUME IInv, NEW t \in Togglers, ReadToggle(t) \/ WriteToggle(t) \/ FailToggle(t)
    PROVE  IInv'
<1>1. CASE ReadToggle(t)
  <2>1. TypeInv'
    BY <1>1 DEF ReadToggle, IInv, TypeInv, Switch
  <2>2. ReadIsCurrent'
    BY <1>1 DEF ReadToggle, IInv, TypeInv, ReadIsCurrent, Switch
  <2>3. CheckedBefore'
    BY <1>1 DEF ReadToggle, IInv, CheckedBefore, Checked
  <2> QED
    BY <2>1, <2>2, <2>3 DEF IInv
<1>2. CASE WriteToggle(t)
  <2>1. slipping' \subseteq Authors
    BY <1>2 DEF WriteToggle, IInv, TypeInv, Checked
  <2>2. stale' \subseteq Togglers
    BY <1>2 DEF WriteToggle, IInv, TypeInv, InFlight
  <2>3. TypeInv'
    BY <1>2, <2>1, <2>2 DEF WriteToggle, IInv, TypeInv
  <2>4. \A s \in Togglers : toggle'[s] \in Switch => s \in stale'
    BY <1>2 DEF WriteToggle, IInv, TypeInv, InFlight, Switch
  <2>5. Checked' = Checked
    BY <1>2 DEF WriteToggle, Checked
  <2>6. CheckedBefore'
    BY <1>2, <2>5 DEF WriteToggle, IInv, CheckedBefore
  <2> QED
    BY <2>3, <2>4, <2>6 DEF IInv, ReadIsCurrent
<1>3. CASE FailToggle(t)
  <2>1. TypeInv'
    BY <1>3 DEF FailToggle, IInv, TypeInv
  <2>2. ReadIsCurrent'
    BY <1>3 DEF FailToggle, IInv, TypeInv, ReadIsCurrent, Switch
  <2>3. CheckedBefore'
    BY <1>3 DEF FailToggle, IInv, CheckedBefore, Checked
  <2> QED
    BY <2>1, <2>2, <2>3 DEF IInv
<1> QED
  BY <1>1, <1>2, <1>3

LEMMA AuthorIInv ==
    ASSUME IInv, NEW u \in Authors,
           \/ \E text \in Texts : CheckSection(u, text)
           \/ InsertComment(u)
           \/ FailComment(u)
    PROVE  IInv'
<1> USE CommentsAssumption
<1>1. ASSUME NEW text \in Texts, CheckSection(u, text)
      PROVE  IInv'
  <2>1. TypeInv' /\ ~closed'
    BY <1>1 DEF CheckSection, IInv, TypeInv
  <2>2. ReadIsCurrent'
    BY <1>1 DEF CheckSection, IInv, ReadIsCurrent
  <2> QED
    BY <2>1, <2>2 DEF IInv, CheckedBefore
<1>2. CASE InsertComment(u)
  <2>1. creating[u] \in Texts
    BY <1>2 DEF InsertComment, IInv, TypeInv
  <2>2. comments' \in Seq(Row)
    BY <1>2, <2>1 DEF InsertComment, IInv, TypeInv, Row
  <2>3. TypeInv'
    BY <1>2, <2>2 DEF InsertComment, IInv, TypeInv
  <2>4. ReadIsCurrent'
    BY <1>2 DEF InsertComment, IInv, ReadIsCurrent
  <2>5. Checked' \subseteq Checked \ {u}
    BY <1>2 DEF InsertComment, IInv, TypeInv, Checked
  <2>6. CheckedBefore'
    BY <1>2, <2>5 DEF InsertComment, IInv, CheckedBefore
  <2> QED
    BY <2>3, <2>4, <2>6 DEF IInv
<1>3. CASE FailComment(u)
  <2>1. TypeInv'
    BY <1>3 DEF FailComment, IInv, TypeInv
  <2>2. ReadIsCurrent'
    BY <1>3 DEF FailComment, IInv, ReadIsCurrent
  <2>3. Checked' \subseteq Checked \ {u}
    BY <1>3 DEF FailComment, IInv, TypeInv, Checked
  <2>4. CheckedBefore'
    BY <1>3, <2>3 DEF FailComment, IInv, CheckedBefore
  <2> QED
    BY <2>1, <2>2, <2>4 DEF IInv
<1> QED
  BY <1>1, <1>2, <1>3

\* An edit or a deletion keeps the rows and their number.
LEMMA EditKeepsRows ==
    ASSUME TypeInv, NEW u \in Authors, NEW c \in DOMAIN comments,
           (\E text \in Texts : UpdateComment(u, c, text)) \/ DeleteComment(u, c)
    PROVE  comments' \in Seq(Row) /\ Len(comments') = Len(comments)
<1>1. comments \in Seq(Row) /\ comments[c] \in Row
  BY DEF TypeInv
<1>2. ASSUME NEW row \in Row
      PROVE  /\ [comments EXCEPT ![c] = row] \in Seq(Row)
             /\ Len([comments EXCEPT ![c] = row]) = Len(comments)
  BY <1>1
<1>3. PICK row \in Row : comments' = [comments EXCEPT ![c] = row]
  <2>1. ASSUME NEW text \in Texts, UpdateComment(u, c, text)
        PROVE  /\ [comments[c] EXCEPT !.text = text] \in Row
               /\ comments' = [comments EXCEPT ![c] = [comments[c] EXCEPT !.text = text]]
    BY <1>1, <2>1 DEF Row, UpdateComment
  <2>2. ASSUME DeleteComment(u, c)
        PROVE  /\ [comments[c] EXCEPT !.gone = TRUE] \in Row
               /\ comments' = [comments EXCEPT ![c] = [comments[c] EXCEPT !.gone = TRUE]]
    BY <1>1, <2>2 DEF Row, DeleteComment
  <2> QED
    BY <2>1, <2>2
<1> QED
  BY <1>2, <1>3

LEMMA EditIInv ==
    ASSUME IInv, NEW u \in Authors, NEW c \in DOMAIN comments,
           (\E text \in Texts : UpdateComment(u, c, text)) \/ DeleteComment(u, c)
    PROVE  IInv'
<1>1. comments' \in Seq(Row)
  BY EditKeepsRows DEF IInv
<1>2. UNCHANGED <<closed, toggle, creating, stale, slipping>>
  BY DEF UpdateComment, DeleteComment
<1> QED
  BY <1>1, <1>2 DEF IInv, TypeInv, ReadIsCurrent, CheckedBefore, Checked

\* Every step is one of the three kinds above, or happens elsewhere.
LEMMA StepKinds ==
    ASSUME [Next]_vars
    PROVE  \/ \E t \in Togglers : ReadToggle(t) \/ WriteToggle(t) \/ FailToggle(t)
           \/ \E u \in Authors :
                 \/ \E text \in Texts : CheckSection(u, text)
                 \/ InsertComment(u)
                 \/ FailComment(u)
           \/ \E u \in Authors : \E c \in DOMAIN comments :
                 (\E text \in Texts : UpdateComment(u, c, text)) \/ DeleteComment(u, c)
           \/ UNCHANGED <<closed, comments, toggle, creating, stale, slipping>>
<1>1. ASSUME NEW v \in Viewers, CheckView(v) \/ ListComments(v)
      PROVE  UNCHANGED <<closed, comments, toggle, creating, stale, slipping>>
  BY <1>1 DEF CheckView, ListComments
<1>2. ASSUME ChangeFilters \/ AdminDeleteVideo \/ UNCHANGED vars
      PROVE  UNCHANGED <<closed, comments, toggle, creating, stale, slipping>>
  BY <1>2 DEF ChangeFilters, AdminDeleteVideo, vars
<1> QED
  BY <1>1, <1>2 DEF Next

LEMMA NextIInv ==
    IInv /\ [Next]_vars => IInv'
BY StepKinds, ToggleIInv, AuthorIInv, EditIInv, ElsewhereIInv

\* A toggle flips the switch unless another one's UPDATE came between its
\* two statements: only overlapping toggles of one video can be lost.
THEOREM UndisturbedToggleCorrect == Spec => UndisturbedToggleFlips
<1> DEFINE Flips == \A t \in Togglers : Answered(t) /\ t \notin stale => closed' # closed
<1>1. IInv /\ [Next]_vars => [Flips]_vars
  <2> SUFFICES ASSUME IInv, [Next]_vars, NEW t \in Togglers, Answered(t), t \notin stale
               PROVE  closed' # closed
    BY DEF Flips
  <2>1. closed = (toggle[t] = "closed") /\ closed \in BOOLEAN
    BY DEF IInv, ReadIsCurrent, TypeInv, Answered
  <2>2. toggle' # toggle
    BY DEF Answered, Switch
  <2>3. PICK s \in Togglers : ReadToggle(s) \/ WriteToggle(s) \/ FailToggle(s)
    <3>1. ASSUME NEW u \in Authors,
                 (\E text \in Texts : CheckSection(u, text)) \/ InsertComment(u) \/ FailComment(u)
          PROVE  toggle' = toggle
      BY <3>1 DEF CheckSection, InsertComment, FailComment
    <3>2. ASSUME NEW u \in Authors, NEW c \in DOMAIN comments,
                 (\E text \in Texts : UpdateComment(u, c, text)) \/ DeleteComment(u, c)
          PROVE  toggle' = toggle
      BY <3>2 DEF UpdateComment, DeleteComment
    <3> QED
      BY <2>2, <3>1, <3>2, StepKinds
  <2>4. WriteToggle(s) /\ s = t
    BY <2>3 DEF ReadToggle, WriteToggle, FailToggle, IInv, TypeInv, Answered, Switch
  <2>5. closed' = (toggle[t] = "open") /\ toggle[t] \in Switch
    BY <2>4 DEF WriteToggle
  <2> QED
    BY <2>1, <2>5 DEF Switch
<1> QED
  BY InitIInv, NextIInv, <1>1, PTL DEF Spec, UndisturbedToggleFlips, Flips

\* A closed section takes comments only from requests that had passed their
\* check when the owner closed it, one from each.
THEOREM ClosedSectionCorrect == Spec => ClosedSectionDrains
<1> DEFINE Drains ==
       closed /\ closed' /\ Len(comments') > Len(comments)
          => comments'[Len(comments')].author \in slipping /\ slipping' # slipping
<1>1. IInv /\ [Next]_vars => [Drains]_vars
  <2> SUFFICES ASSUME IInv, [Next]_vars, closed, Len(comments') > Len(comments)
               PROVE  comments'[Len(comments')].author \in slipping /\ slipping' # slipping
    BY DEF Drains
  <2>1. comments \in Seq(Row) /\ Len(comments) \in Nat
    BY DEF IInv, TypeInv
  <2>2. PICK u \in Authors : InsertComment(u)
    <3>1. ASSUME NEW t \in Togglers, ReadToggle(t) \/ WriteToggle(t) \/ FailToggle(t)
          PROVE  comments' = comments
      BY <3>1 DEF ReadToggle, WriteToggle, FailToggle
    <3>2. ASSUME NEW u \in Authors, (\E text \in Texts : CheckSection(u, text)) \/ FailComment(u)
          PROVE  comments' = comments
      BY <3>2 DEF CheckSection, FailComment
    <3>3. ASSUME NEW u \in Authors, NEW c \in DOMAIN comments,
                 (\E text \in Texts : UpdateComment(u, c, text)) \/ DeleteComment(u, c)
          PROVE  Len(comments') = Len(comments)
      BY <3>3, EditKeepsRows DEF IInv
    <3>4. Len(comments') # Len(comments) /\ comments' # comments
      BY <2>1
    <3> QED
      BY <3>1, <3>2, <3>3, <3>4, StepKinds
  <2>3. u \in slipping
    BY <2>2 DEF InsertComment, IInv, CheckedBefore, Checked
  <2>4. slipping' # slipping
    BY <2>2, <2>3 DEF InsertComment
  <2>5. comments'[Len(comments')].author = u
    BY <2>1, <2>2 DEF InsertComment
  <2> QED
    BY <2>3, <2>4, <2>5
<1> QED
  BY InitIInv, NextIInv, <1>1, PTL DEF Spec, ClosedSectionDrains, Drains

-----------------------------------------------------------------------------
(* Reads.                                                                  *)

ReadsTyped ==
    /\ view \in [Viewers -> {"idle", "reading", "done"}]
    /\ served \in [Viewers -> SUBSET Ids]
    /\ steady \in [Viewers -> SUBSET Ids]
    /\ glimpsed \in [Viewers -> SUBSET Ids]

\* The histories of a read in flight enclose the page as it is now.
Enclosed ==
    \A v \in Viewers : view[v] = "reading" => steady[v] \subseteq Page /\ Page \subseteq glimpsed[v]

ReadInv ==
    /\ IInv
    /\ Len(comments) <= MaxComments
    /\ removed \in BOOLEAN
    /\ Filters!TypeOK
    /\ ReadsTyped
    /\ Enclosed
    /\ AnswerIsTimely

LEMMA PageTyped ==
    ASSUME comments \in Seq(Row), Len(comments) <= MaxComments
    PROVE  Page \subseteq Ids
<1>1. DOMAIN comments \subseteq Ids
  BY CommentsAssumption DEF Ids
<1> QED
  BY <1>1 DEF Page, Newest, Visible

LEMMA SamePage ==
    ASSUME UNCHANGED <<comments, filters>>
    PROVE  Page' = Page
BY DEF Page, Newest, Visible

\* A step that follows the page with the histories.
LEMMA PageMovesReads ==
    ASSUME ReadInv, PageMoves, IInv', Len(comments') <= MaxComments
    PROVE  ReadsTyped' /\ Enclosed' /\ AnswerIsTimely'
<1>0. Page' \subseteq Ids
  <2>1. DOMAIN comments' \subseteq Ids
    BY CommentsAssumption DEF IInv, TypeInv, Ids
  <2> QED
    BY <2>1 DEF Page, Newest, Visible
<1>1. ReadsTyped'
  BY <1>0 DEF PageMoves, ReadInv, ReadsTyped
<1>2. Enclosed'
  BY DEF PageMoves, ReadInv, ReadsTyped, Enclosed
<1>3. AnswerIsTimely'
  BY DEF PageMoves, ReadInv, ReadsTyped, AnswerIsTimely
<1> QED
  BY <1>1, <1>2, <1>3

\* A step that leaves page and reads alone.
LEMMA QuietReads ==
    ASSUME ReadInv, UNCHANGED <<comments, filters, adding, view, served, steady, glimpsed>>,
           removed' \in BOOLEAN, IInv'
    PROVE  ReadInv'
<1>1. Filters!TypeOK'
  BY DEF ReadInv, Filters!TypeOK
<1> QED
  BY <1>1, SamePage DEF ReadInv, ReadsTyped, Enclosed, AnswerIsTimely

LEMMA ViewReads ==
    ASSUME ReadInv, IInv', NEW v \in Viewers, CheckView(v) \/ ListComments(v)
    PROVE  ReadInv'
<1>1. /\ UNCHANGED <<comments, filters, adding, removed>> /\ Page' = Page
      /\ Page \subseteq Ids
      /\ \A w \in Viewers \ {v} : /\ view'[w] = view[w] /\ served'[w] = served[w]
                                  /\ steady'[w] = steady[w] /\ glimpsed'[w] = glimpsed[w]
  BY SamePage, PageTyped DEF CheckView, ListComments, filterVars, ReadInv, ReadsTyped,
                             IInv, TypeInv
<1>2. ReadsTyped'
  BY <1>1 DEF CheckView, ListComments, ReadInv, ReadsTyped
<1>3. CASE CheckView(v)
  <2>1. view'[v] = "reading" /\ steady'[v] = Page /\ glimpsed'[v] = Page
    BY <1>3 DEF CheckView, ReadInv, ReadsTyped
  <2>2. Enclosed' /\ AnswerIsTimely'
    BY <1>1, <2>1 DEF ReadInv, Enclosed, AnswerIsTimely
  <2> QED
    BY <1>1, <1>2, <2>2 DEF ReadInv, Filters!TypeOK
<1>4. CASE ListComments(v)
  <2>1. /\ view[v] = "reading" /\ view'[v] = "done" /\ served'[v] = Page
        /\ steady'[v] = steady[v] /\ glimpsed'[v] = glimpsed[v]
    BY <1>4 DEF ListComments, ReadInv, ReadsTyped
  <2>2. Enclosed' /\ AnswerIsTimely'
    BY <1>1, <2>1 DEF ReadInv, Enclosed, AnswerIsTimely
  <2> QED
    BY <1>1, <1>2, <2>2 DEF ReadInv, Filters!TypeOK
<1> QED
  BY <1>3, <1>4

LEMMA SameFinite == \A S : Filters!IsFiniteSet(S) <=> IsFiniteSet(S)
BY DEF Filters!IsFiniteSet, IsFiniteSet

LEMMA FiltersTyped ==
    ASSUME Filters!TypeOK, Filters!Next
    PROVE  Filters!TypeOK'
<1> USE FiltersAssumption DEF Filters!TypeOK
<1>1. ASSUME NEW a \in Adders, NEW k \in Keywords, Filters!CountFilters(a, k)
      PROVE  Filters!TypeOK'
  BY <1>1 DEF Filters!CountFilters
<1>2. ASSUME NEW a \in Adders, Filters!InsertFilter(a)
      PROVE  Filters!TypeOK'
  <2>1. adding[a] \in Keywords /\ Lower[adding[a]] \in Keywords
    BY <1>2 DEF Filters!InsertFilter
  <2>2. IsFiniteSet(filters \cup {Lower[adding[a]]})
    BY FS_AddElement, SameFinite
  <2> QED
    BY <1>2, <2>1, <2>2, SameFinite DEF Filters!InsertFilter
<1>3. ASSUME NEW a \in Adders, Filters!AbandonFilter(a)
      PROVE  Filters!TypeOK'
  BY <1>3 DEF Filters!AbandonFilter
<1>4. ASSUME NEW k \in Keywords, Filters!DeleteCommentFilter(k)
      PROVE  Filters!TypeOK'
  <2>1. IsFiniteSet(filters \ {k})
    BY FS_RemoveElement, SameFinite
  <2> QED
    BY <1>4, <2>1, SameFinite DEF Filters!DeleteCommentFilter
<1> QED
  BY <1>1, <1>2, <1>3, <1>4 DEF Filters!Next

LEMMA NextReadInv ==
    ASSUME ReadInv, [Next]_vars
    PROVE  ReadInv'
<1>0. IInv'
  BY NextIInv DEF ReadInv
<1>1. ASSUME NEW t \in Togglers, ReadToggle(t) \/ WriteToggle(t) \/ FailToggle(t)
      PROVE  ReadInv'
  <2>1. UNCHANGED <<comments, filters, adding, view, served, steady, glimpsed, removed>>
    BY <1>1 DEF ReadToggle, WriteToggle, FailToggle, reads, filterVars
  <2> QED
    BY <1>0, <2>1, QuietReads DEF ReadInv
<1>2. ASSUME NEW u \in Authors, (\E text \in Texts : CheckSection(u, text)) \/ FailComment(u)
      PROVE  ReadInv'
  <2>1. UNCHANGED <<comments, filters, adding, view, served, steady, glimpsed, removed>>
    BY <1>2 DEF CheckSection, FailComment, reads, filterVars
  <2> QED
    BY <1>0, <2>1, QuietReads DEF ReadInv
<1>3. CASE AdminDeleteVideo \/ UNCHANGED vars
  <2>1. /\ UNCHANGED <<comments, filters, adding, view, served, steady, glimpsed>>
        /\ removed' \in BOOLEAN
    BY <1>3 DEF AdminDeleteVideo, vars, reads, filterVars, ReadInv
  <2> QED
    BY <1>0, <2>1, QuietReads
<1>4. ASSUME NEW u \in Authors, InsertComment(u)
      PROVE  ReadInv'
  <2>1. Len(comments') <= MaxComments
    BY <1>4, CommentsAssumption DEF InsertComment, ReadInv, IInv, TypeInv
  <2>2. ReadsTyped' /\ Enclosed' /\ AnswerIsTimely'
    BY <1>0, <1>4, <2>1, PageMovesReads DEF InsertComment
  <2> QED
    BY <1>0, <1>4, <2>1, <2>2 DEF InsertComment, ReadInv, Filters!TypeOK, filterVars
<1>5. ASSUME NEW u \in Authors, NEW c \in DOMAIN comments,
             (\E text \in Texts : UpdateComment(u, c, text)) \/ DeleteComment(u, c)
      PROVE  ReadInv'
  <2>1. Len(comments') <= MaxComments
    BY <1>5, EditKeepsRows DEF ReadInv, IInv
  <2>2. PageMoves /\ UNCHANGED <<removed, filters, adding>>
    BY <1>5 DEF UpdateComment, DeleteComment, filterVars
  <2>3. ReadsTyped' /\ Enclosed' /\ AnswerIsTimely'
    BY <1>0, <2>1, <2>2, PageMovesReads
  <2> QED
    BY <1>0, <2>1, <2>2, <2>3 DEF ReadInv, Filters!TypeOK
<1>6. CASE ChangeFilters
  <2>1. PageMoves /\ UNCHANGED <<removed, comments>> /\ Filters!TypeOK'
    BY <1>6, FiltersTyped DEF ChangeFilters, ReadInv
  <2>2. ReadsTyped' /\ Enclosed' /\ AnswerIsTimely'
    BY <1>0, <2>1, PageMovesReads DEF ReadInv
  <2> QED
    BY <1>0, <2>1, <2>2 DEF ReadInv
<1> QED
  BY <1>0, <1>1, <1>2, <1>3, <1>4, <1>5, <1>6, ViewReads DEF Next

LEMMA InitReadInv == Init => ReadInv
<1> SUFFICES ASSUME Init PROVE ReadInv
  OBVIOUS
<1>1. Filters!TypeOK
  BY FS_EmptySet, SameFinite DEF Init, Filters!Init, Filters!TypeOK
<1>2. ReadsTyped
  BY DEF Init, ReadsTyped
<1>3. Len(comments) <= MaxComments
  BY CommentsAssumption DEF Init
<1> QED
  BY <1>1, <1>2, <1>3, InitIInv DEF Init, ReadInv, Enclosed, AnswerIsTimely

LEMMA ReadInvariant == Spec => []ReadInv
BY InitReadInv, NextReadInv, PTL DEF Spec

\* Type correctness of the comment section.
THEOREM CommentsTypeCorrect == Spec => []TypeOK
<1>1. ReadInv => TypeOK
  BY DEF ReadInv, IInv, TypeInv, ReadsTyped, TypeOK, Row
<1> QED
  BY <1>1, ReadInvariant, PTL

\* GetVideoComments answers every comment that stayed on the page throughout
\* the read and none that was on it at no moment, whatever the owner
\* and the authors do in between.
THEOREM AnswerCorrect == Spec => []AnswerIsTimely
<1>1. ReadInv => AnswerIsTimely
  BY DEF ReadInv
<1> QED
  BY <1>1, ReadInvariant, PTL

-----------------------------------------------------------------------------
(* Keywords.                                                               *)

\* The page hides the comments that a keyword without special letters is part
\* of, and no other, for any texts and keywords: GetVideoComments keeps what
\* docs/comments.md promises as long as no keyword holds a special letter.
THEOREM PlainKeywordsCorrect == Spec => []PlainKeywordsHide
<1>1. ASSUME NEW text \in Texts, NEW k \in Keywords, Plain(k)
      PROVE  k \in Matches[text] <=> k \in Containing[text]
  <2>1. text \in Seq(STRING) /\ k \in Seq(STRING)
    BY CommentsAssumption
  <2> QED
    BY <1>1, <2>1, PlainHits DEF Matches, Containing
<1>2. ASSUME ReadInv, \A k \in filters : Plain(k)
      PROVE  Page = Newest({c \in DOMAIN comments :
                ~comments[c].gone /\ Containing[comments[c].text] \cap filters = {}})
  <2>1. filters \subseteq Keywords
    BY <1>2 DEF ReadInv, Filters!TypeOK
  <2>2. ASSUME NEW c \in DOMAIN comments
        PROVE  comments[c].text \in Texts
    <3>1. comments \in Seq(Row)
      BY <1>2 DEF ReadInv, IInv, TypeInv
    <3>2. comments[c] \in Row
      BY <3>1
    <3> QED
      BY <3>2 DEF Row
  <2>3. ASSUME NEW c \in DOMAIN comments
        PROVE  Matches[comments[c].text] \cap filters
                  = Containing[comments[c].text] \cap filters
    BY <1>1, <1>2, <2>1, <2>2
  <2>4. Visible = {c \in DOMAIN comments :
            ~comments[c].gone /\ Containing[comments[c].text] \cap filters = {}}
    BY <2>3 DEF Visible
  <2> QED
    BY <2>4 DEF Page
<1>3. ReadInv => PlainKeywordsHide
  BY <1>2 DEF PlainKeywordsHide
<1> QED
  BY <1>3, ReadInvariant, PTL

\* One keyword % empties the page: nothing is escaped on the way from
\* AddCommentFilter into the LIKE of GetVideoComments.
THEOREM PercentEmptiesPage ==
    Spec => [](\A k \in filters : Len(k) = 1 /\ k[1] = "%" => Page = {})
<1>1. ASSUME ReadInv, NEW k \in filters, Len(k) = 1, k[1] = "%"
      PROVE  Page = {}
  <2>1. k \in Keywords /\ k \in Seq(STRING)
    BY <1>1, CommentsAssumption DEF ReadInv, Filters!TypeOK
  <2>2. ASSUME NEW c \in DOMAIN comments
        PROVE  k \in Matches[comments[c].text]
    <3>1. comments \in Seq(Row)
      BY <1>1 DEF ReadInv, IInv, TypeInv
    <3>2. comments[c] \in Row
      BY <3>1
    <3>3. comments[c].text \in Texts
      BY <3>2 DEF Row
    <3>4. comments[c].text \in Seq(STRING)
      BY <3>3, CommentsAssumption
    <3> QED
      BY <1>1, <2>1, <3>3, <3>4, PercentHits DEF Matches
  <2>3. Visible = {}
    BY <1>1, <2>2 DEF Visible
  <2> QED
    BY <2>3 DEF Page, Newest
<1>2. ReadInv => \A k \in filters : Len(k) = 1 /\ k[1] = "%" => Page = {}
  BY <1>1
<1> QED
  BY <1>2, ReadInvariant, PTL

-----------------------------------------------------------------------------
(* LIMIT.                                                                  *)

LEMMA LargestOf ==
    ASSUME NEW n \in Nat, NEW T \in SUBSET (1 .. n), T # {}
    PROVE  \E c \in T : \A d \in T : d <= c
<1> DEFINE Mirror == {m \in Nat : n - m \in T}
<1>1. \A c \in T : n - c \in Mirror
  <2> SUFFICES ASSUME NEW c \in T PROVE n - c \in Mirror
    OBVIOUS
  <2>1. n - c \in Nat /\ n - (n - c) = c
    OBVIOUS
  <2> QED
    BY <2>1
<1>2. PICK m \in Mirror : \A k \in Mirror : m <= k
  BY <1>1, SmallestOf
<1>3. \A d \in T : m <= n - d
  BY <1>1, <1>2
<1>4. n - m \in T
  BY <1>2
<1> QED
  BY <1>3, <1>4

\* The newest of a set: at most Limit of them, newer than all that are left
\* out, and Limit of them when something is.
LEMMA NewestOf ==
    ASSUME NEW n \in Nat, NEW S \in SUBSET (1 .. n)
    PROVE  /\ Cardinality(Newest(S)) <= Limit
           /\ \A c \in S \ Newest(S) :
                 /\ Cardinality(Newest(S)) = Limit
                 /\ \A d \in Newest(S) : d > c
<1> DEFINE P == Newest(S)
           Newer(c) == {d \in S : d > c}
<1>1. /\ IsFiniteSet(S) /\ IsFiniteSet(P) /\ P \subseteq S
      /\ \A c : IsFiniteSet(Newer(c)) /\ Cardinality(Newer(c)) \in Nat
      /\ Cardinality(P) \in Nat /\ Limit \in Nat
  <2>1. IsFiniteSet(1 .. n)
    BY FS_Interval
  <2>2. IsFiniteSet(S)
    BY <2>1, FS_Subset
  <2>3. P \subseteq S /\ \A c : Newer(c) \subseteq S
    BY DEF Newest
  <2>4. IsFiniteSet(P) /\ \A c : IsFiniteSet(Newer(c))
    <3> HIDE DEF P, Newer
    <3> QED
      BY <2>2, <2>3, FS_Subset
  <2> QED
    BY <2>2, <2>3, <2>4, FS_CardinalityType, CommentsAssumption
<1>2. \A c \in S : c \in P <=> Cardinality(Newer(c)) < Limit
  BY DEF Newest
<1>3. S \subseteq Nat /\ P \subseteq Nat /\ P \subseteq S
  <2>1. S \subseteq Nat
    OBVIOUS
  <2> HIDE DEF P
  <2> QED
    BY <1>1, <2>1
<1>4. \A c, d \in S : c \in P /\ d > c => d \in P
  <2> SUFFICES ASSUME NEW c \in S, NEW d \in S, c \in P, d > c PROVE d \in P
    OBVIOUS
  <2>1. Newer(d) \subseteq Newer(c)
    <3>1. \A e \in S : e > d => e > c
      <4>1. c \in Int /\ d \in Int /\ \A e \in S : e \in Int
        OBVIOUS
      <4>2. d > c
        OBVIOUS
      <4> HIDE DEF P, Newer
      <4> QED
        BY <4>1, <4>2
    <3> QED
      BY <3>1
  <2> HIDE DEF P, Newer
  <2>2. Cardinality(Newer(d)) <= Cardinality(Newer(c))
    BY <1>1, <2>1, FS_Subset
  <2> QED
    BY <1>1, <1>2, <2>2
<1>5. Cardinality(P) <= Limit
  <2>1. CASE P = {}
    BY <1>1, <2>1, FS_EmptySet
  <2>2. CASE P # {}
    <3>1. PICK c \in P : \A d \in P : c <= d
      <4> HIDE DEF P
      <4> QED
        BY <1>3, <2>2, SmallestOf
    <3>2. P \ {c} \subseteq Newer(c)
      <4> SUFFICES ASSUME NEW d \in P \ {c} PROVE d \in S /\ d > c
        OBVIOUS
      <4> HIDE DEF P, Newer
      <4> QED
        BY <1>3, <3>1
    <3> HIDE DEF P, Newer
    <3>3. Cardinality(P \ {c}) = Cardinality(P) - 1 /\ IsFiniteSet(P \ {c})
      BY <1>1, <3>1, FS_RemoveElement
    <3>4. Cardinality(P \ {c}) <= Cardinality(Newer(c))
      BY <1>1, <3>2, FS_Subset
    <3> QED
      BY <1>1, <1>2, <3>1, <3>3, <3>4
  <2> QED
    BY <2>1, <2>2
<1>6. ASSUME NEW c \in S \ P
      PROVE  \A d \in P : d > c
  <2>1. \A d \in P : d # c /\ ~ (c > d)
    BY <1>1, <1>4
  <2> HIDE DEF P
  <2> QED
    BY <1>1, <2>1
<1>7. ASSUME S \ P # {}
      PROVE  Cardinality(P) >= Limit
  <2>1. PICK c \in S \ P : \A d \in S \ P : d <= c
    <3> HIDE DEF P
    <3> QED
      BY <1>7, LargestOf
  <2>2. Newer(c) \subseteq P
    <3> SUFFICES ASSUME NEW d \in S, d > c, d \notin P PROVE FALSE
      OBVIOUS
    <3> HIDE DEF P
    <3> QED
      BY <1>3, <2>1
  <2> HIDE DEF P, Newer
  <2>3. Cardinality(Newer(c)) <= Cardinality(P)
    BY <1>1, <2>2, FS_Subset
  <2> QED
    BY <1>1, <1>2, <2>1, <2>3
<1> HIDE DEF P
<1>8. \A c \in S \ P : Cardinality(P) = Limit
  BY <1>1, <1>5, <1>7
<1> QED
  BY <1>5, <1>6, <1>8 DEF P

\* GetVideoComments answers Limit comments whenever that many are visible: the
\* keywords are applied before the LIMIT, whatever owner and authors change.
THEOREM PageCorrect == Spec => []PageIsFull
<1>1. ReadInv => PageIsFull
  <2> SUFFICES ASSUME ReadInv PROVE PageIsFull
    OBVIOUS
  <2>1. Visible \in SUBSET (1 .. Len(comments)) /\ Len(comments) \in Nat
    BY DEF ReadInv, IInv, TypeInv, Visible
  <2> QED
    BY <2>1, NewestOf DEF PageIsFull, Page
<1> QED
  BY <1>1, ReadInvariant, PTL

-----------------------------------------------------------------------------
(* The keyword list.                                                       *)

\* Comments uses the keyword list as CommentFilters describes it: what the
\* section does besides leaves the list alone.
THEOREM FiltersImplemented == Spec => Filters!Spec
<1>1. Init => Filters!Init
  BY DEF Init
<1>2. [Next]_vars => [Filters!Next]_(Filters!vars)
  <2> SUFFICES ASSUME [Next]_vars, ~ChangeFilters
               PROVE  UNCHANGED <<filters, adding>>
    BY DEF ChangeFilters, Filters!vars
  <2> QED
    BY DEF Next, vars, filterVars, ReadToggle, WriteToggle, FailToggle, CheckSection,
           InsertComment, FailComment, UpdateComment, DeleteComment, CheckView,
           ListComments, AdminDeleteVideo
<1> QED
  BY <1>1, <1>2, PTL DEF Spec, Filters!Spec
=============================================================================
