------------------------------ MODULE Comments ------------------------------
(***************************************************************************)
(* The comment section of one video (internal/handlers/comment_handler.go),*)
(* with the owner's keyword list of CommentFilters.  Every handler is a    *)
(* sequence of statements without a transaction: ToggleComments reads the  *)
(* switch and writes its negation, CreateComment reads the switch and      *)
(* inserts, GetVideoComments reads the switch and then the comments.       *)
(***************************************************************************)
EXTENDS KeywordLists, Patterns

CONSTANTS
    Togglers,     \* concurrent toggle requests of the owner; others get 403
    Authors,      \* users, with one comment in flight each
    Viewers,      \* concurrent GET /api/videos/:id/comments
    Texts,        \* contents of comments, words like the keywords
    Limit,        \* LIMIT 20
    MaxComments,  \* bound: rows of the video in `comments`
    NoText        \* what an author without a comment in flight holds

VARIABLES
    closed,       \* videos.comments_disabled
    removed,      \* videos.deleted_at is set
    comments,     \* the video's rows in created_at order
    toggle,       \* where a toggle request stands, with the switch it read
    creating,     \* the text of a request that passed the check, or NoText
    view,         \* where a read stands
    served,       \* the comments its answer holds
    stale,        \* history: toggles in flight while another one wrote
    slipping,     \* history: authors between check and INSERT at the closing
    steady,       \* history: comments on the page during all of the read
    glimpsed,     \* history: comments on the page at some moment of the read
    filters, adding    \* of CommentFilters

filterVars == <<filters, adding>>
reads == <<view, served, steady, glimpsed>>
vars == <<closed, removed, comments, toggle, creating, reads, stale, slipping, filterVars>>

Filters == INSTANCE CommentFilters

ASSUME CommentsAssumption ==
    /\ Limit \in Nat \ {0}
    /\ MaxComments \in Nat
    /\ NoText \notin Texts
    /\ Texts \cup Keywords \subseteq Seq(STRING)

Ids == 1..MaxComments
Switch == {"open", "closed"}

\* LOWER(c.content) LIKE '%' || LOWER(ucf.keyword) || '%'
Matches == [text \in Texts |-> {k \in Keywords : Hits(text, k)}]

\* deleted_at IS NULL AND NOT EXISTS (... ucf.keyword ...)
Visible == {c \in DOMAIN comments :
              ~comments[c].gone /\ Matches[comments[c].text] \cap filters = {}}

\* ORDER BY created_at DESC LIMIT 20
Newest(S) == {c \in S : Cardinality({d \in S : d > c}) < Limit}

\* Mutated form of Page: LIMIT 20 first, the keywords on what is left.
PageThenFilter == Visible \cap Newest({c \in DOMAIN comments : ~comments[c].gone})

Page == Newest(Visible)

TypeOK ==
    /\ closed \in BOOLEAN
    /\ removed \in BOOLEAN
    /\ comments \in Seq([author: Authors, text: Texts, gone: BOOLEAN])
    /\ Len(comments) <= MaxComments
    /\ toggle \in [Togglers -> {"idle", "done"} \cup Switch]
    /\ creating \in [Authors -> Texts \cup {NoText}]
    /\ view \in [Viewers -> {"idle", "reading", "done"}]
    /\ served \in [Viewers -> SUBSET Ids]
    /\ stale \subseteq Togglers
    /\ slipping \subseteq Authors
    /\ steady \in [Viewers -> SUBSET Ids]
    /\ glimpsed \in [Viewers -> SUBSET Ids]
    /\ Filters!TypeOK

Init ==
    /\ closed = FALSE
    /\ removed = FALSE
    /\ comments = <<>>
    /\ toggle = [t \in Togglers |-> "idle"]
    /\ creating = [u \in Authors |-> NoText]
    /\ view = [v \in Viewers |-> "idle"]
    /\ served = [v \in Viewers |-> {}]
    /\ stale = {}
    /\ slipping = {}
    /\ steady = [v \in Viewers |-> {}]
    /\ glimpsed = [v \in Viewers |-> {}]
    /\ Filters!Init

\* The reads in flight follow what the page becomes.
PageMoves ==
    /\ steady' = [v \in Viewers |->
                     IF view[v] = "reading" THEN steady[v] \cap Page' ELSE steady[v]]
    /\ glimpsed' = [v \in Viewers |->
                     IF view[v] = "reading" THEN glimpsed[v] \cup Page' ELSE glimpsed[v]]
    /\ UNCHANGED <<view, served>>

InFlight == {t \in Togglers : toggle[t] \in Switch}
Checked == {u \in Authors : creating[u] # NoText}

-----------------------------------------------------------------------------
(* Mutated forms of the definitions below.                                 *)

\* The UPDATE writes back what was read.
WriteSameToggle(t) ==
    /\ toggle[t] \in Switch
    /\ closed' = (toggle[t] = "closed")
    /\ toggle' = [toggle EXCEPT ![t] = "done"]
    /\ stale' = (stale \cup InFlight) \ {t}
    /\ slipping' = IF ~closed' THEN {} ELSE IF closed THEN slipping ELSE Checked
    /\ UNCHANGED <<removed, comments, creating, reads, filterVars>>

\* The check forgets the switch.
CheckExistsOnly(u, text) ==
    /\ creating[u] = NoText
    /\ ~removed
    /\ creating' = [creating EXCEPT ![u] = text]
    /\ UNCHANGED <<closed, removed, comments, toggle, reads, stale, slipping, filterVars>>

\* The keyword list is applied to the twenty newest comments.
ListThenFilter(v) ==
    /\ view[v] = "reading"
    /\ served' = [served EXCEPT ![v] =
          Visible \cap Newest({c \in DOMAIN comments : ~comments[c].gone})]
    /\ view' = [view EXCEPT ![v] = "done"]
    /\ UNCHANGED <<closed, removed, comments, toggle, creating, steady, glimpsed, stale, slipping, filterVars>>

\* The edit is stored as a new row.
UpdateAsInsert(u, c, text) ==
    /\ comments[c].author = u
    /\ ~comments[c].gone
    /\ comments' = Append(comments, [author |-> u, text |-> text, gone |-> FALSE])
    /\ UNCHANGED <<closed, removed, toggle, creating, stale, slipping, filterVars>>
    /\ PageMoves

-----------------------------------------------------------------------------
(* ToggleComments.                                                         *)

\* SELECT user_id, comments_disabled ... AND deleted_at IS NULL.
ReadToggle(t) ==
    /\ toggle[t] \in {"idle", "done"}
    /\ ~removed
    /\ toggle' = [toggle EXCEPT ![t] = IF closed THEN "closed" ELSE "open"]
    /\ UNCHANGED <<closed, removed, comments, creating, reads, stale, slipping, filterVars>>

\* UPDATE ... SET comments_disabled = newState WHERE id, and the answer.
WriteToggle(t) ==
    /\ toggle[t] \in Switch
    /\ closed' = (toggle[t] = "open")
    /\ toggle' = [toggle EXCEPT ![t] = "done"]
    /\ stale' = (stale \cup InFlight) \ {t}
    /\ slipping' = IF ~closed' THEN {} ELSE IF closed THEN slipping ELSE Checked
    /\ UNCHANGED <<removed, comments, creating, reads, filterVars>>

\* The UPDATE fails: 500.
FailToggle(t) ==
    /\ toggle[t] \in Switch
    /\ toggle' = [toggle EXCEPT ![t] = "idle"]
    /\ stale' = stale \ {t}
    /\ UNCHANGED <<closed, removed, comments, creating, reads, slipping, filterVars>>

-----------------------------------------------------------------------------
(* CreateComment, UpdateComment, DeleteComment.                            *)

\* SELECT comments_disabled: 404 for a removed video, 403 for a closed one.
CheckSection(u, text) ==
    /\ creating[u] = NoText
    /\ ~removed
    /\ ~closed
    /\ creating' = [creating EXCEPT ![u] = text]
    /\ UNCHANGED <<closed, removed, comments, toggle, reads, stale, slipping, filterVars>>

\* INSERT INTO comments, which looks at the switch no more.
InsertComment(u) ==
    /\ creating[u] # NoText
    /\ Len(comments) < MaxComments
    /\ comments' = Append(comments, [author |-> u, text |-> creating[u], gone |-> FALSE])
    /\ creating' = [creating EXCEPT ![u] = NoText]
    /\ slipping' = slipping \ {u}
    /\ UNCHANGED <<closed, removed, toggle, stale, filterVars>>
    /\ PageMoves

\* The INSERT fails: 500.
FailComment(u) ==
    /\ creating[u] # NoText
    /\ creating' = [creating EXCEPT ![u] = NoText]
    /\ slipping' = slipping \ {u}
    /\ UNCHANGED <<closed, removed, comments, toggle, reads, stale, filterVars>>

\* UPDATE comments ... WHERE id AND user_id AND deleted_at IS NULL: neither
\* the switch nor the video is looked at.
UpdateComment(u, c, text) ==
    /\ comments[c].author = u
    /\ ~comments[c].gone
    /\ comments' = [comments EXCEPT ![c].text = text]
    /\ UNCHANGED <<closed, removed, toggle, creating, stale, slipping, filterVars>>
    /\ PageMoves

DeleteComment(u, c) ==
    /\ comments[c].author = u
    /\ ~comments[c].gone
    /\ comments' = [comments EXCEPT ![c].gone = TRUE]
    /\ UNCHANGED <<closed, removed, toggle, creating, stale, slipping, filterVars>>
    /\ PageMoves

-----------------------------------------------------------------------------
(* GetVideoComments.                                                       *)

\* SELECT comments_disabled: 404, or the empty answer of a closed section.
CheckView(v) ==
    /\ view[v] \in {"idle", "done"}
    /\ ~removed
    /\ ~closed
    /\ view' = [view EXCEPT ![v] = "reading"]
    /\ served' = [served EXCEPT ![v] = {}]
    /\ steady' = [steady EXCEPT ![v] = Page]
    /\ glimpsed' = [glimpsed EXCEPT ![v] = Page]
    /\ UNCHANGED <<closed, removed, comments, toggle, creating, stale, slipping, filterVars>>

\* The SELECT of the comments, one snapshot, and the answer.
ListComments(v) ==
    /\ view[v] = "reading"
    /\ served' = [served EXCEPT ![v] = Page]
    /\ view' = [view EXCEPT ![v] = "done"]
    /\ UNCHANGED <<closed, removed, comments, toggle, creating, steady, glimpsed, stale, slipping, filterVars>>

-----------------------------------------------------------------------------
\* The owner edits the keyword list.
ChangeFilters ==
    /\ Filters!Next
    /\ UNCHANGED <<closed, removed, comments, toggle, creating, stale, slipping>>
    /\ PageMoves

\* DELETE /admin/videos/:id.
AdminDeleteVideo ==
    /\ removed' = TRUE
    /\ UNCHANGED <<closed, comments, toggle, creating, reads, stale, slipping, filterVars>>

Next ==
    \/ \E t \in Togglers : ReadToggle(t) \/ WriteToggle(t) \/ FailToggle(t)
    \/ \E u \in Authors :
          \/ \E text \in Texts : CheckSection(u, text)
          \/ InsertComment(u) \/ FailComment(u)
          \/ \E c \in DOMAIN comments :
                \/ \E text \in Texts : UpdateComment(u, c, text)
                \/ DeleteComment(u, c)
    \/ \E v \in Viewers : CheckView(v) \/ ListComments(v)
    \/ ChangeFilters
    \/ AdminDeleteVideo

Spec == Init /\ [][Next]_vars

-----------------------------------------------------------------------------
(* Properties.                                                             *)

Answered(t) == toggle[t] \in Switch /\ toggle'[t] = "done"

\* A toggle that no other toggle's UPDATE overtook flips the switch.
UndisturbedToggleFlips ==
    [][\A t \in Togglers : Answered(t) /\ t \notin stale => closed' # closed]_vars

\* Once the owner has closed the section, a comment is added only by a
\* request that had passed its check by then, one each.
ClosedSectionDrains ==
    [][closed /\ closed' /\ Len(comments') > Len(comments)
          => comments'[Len(comments')].author \in slipping /\ slipping' # slipping]_vars

\* An answer holds every comment that stayed on the page throughout the read,
\* and none that was not on it at any moment of the read: hidden by the
\* owner's keywords, deleted, or older than the newest ones.
AnswerIsTimely ==
    \A v \in Viewers : view[v] = "done" =>
        steady[v] \subseteq served[v] /\ served[v] \subseteq glimpsed[v]

\* While no keyword of the owner's list holds a character that is special to
\* LIKE, the page is what docs/comments.md promises: the newest comments that
\* contain none of the keywords, in whatever case and wherever.  Special
\* characters are not escaped, and for them nothing is promised here.
Containing == [text \in Texts |-> {k \in Keywords : Within(k, text)}]

PlainKeywordsHide ==
    (\A k \in filters : Plain(k)) =>
        Page = Newest({c \in DOMAIN comments :
                   ~comments[c].gone /\ Containing[comments[c].text] \cap filters = {}})

\* A page leaves a visible comment out only for Limit newer visible ones: the
\* comments that the keywords hide take no places of it.
PageIsFull ==
    /\ Cardinality(Page) <= Limit
    /\ \A c \in Visible \ Page :
          Cardinality(Page) = Limit /\ \A d \in Page : d > c

\* docs/comments.md "Each call flips the current state."
EachToggleFlips ==
    [][\A t \in Togglers : Answered(t) => closed' # closed]_vars
=============================================================================
