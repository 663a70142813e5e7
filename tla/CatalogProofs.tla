---------------------------- MODULE CatalogProofs ---------------------------
(***************************************************************************)
(* Catalog for any videos, users, tags, names and queries: what the upload *)
(* loops leave of a request's tags, and what the joins over them answer.   *)
(***************************************************************************)
EXTENDS Catalog, PatternsProofs

\* Without a repeat, the first tag of a list is not among the rest.
LEMMA Without1st ==
    ASSUME NEW S, NEW s \in Seq(S), s # <<>>
    PROVE  /\ Head(s) \in ToSet(s) /\ Tail(s) \in Seq(S)
           /\ IsInjective(s) => IsInjective(Tail(s)) /\ ToSet(Tail(s)) = ToSet(s) \ {Head(s)}
<1>1. /\ Len(s) \in Nat /\ Len(s) > 0 /\ Head(s) = s[1]
      /\ Tail(s) \in Seq(S) /\ Len(Tail(s)) = Len(s) - 1
      /\ \A i \in 1 .. Len(s) - 1 : Tail(s)[i] = s[i + 1]
      /\ DOMAIN s = 1 .. Len(s) /\ DOMAIN Tail(s) = 1 .. Len(s) - 1
  OBVIOUS
<1>2. Head(s) \in ToSet(s)
  BY <1>1 DEF ToSet
<1>3. IsInjective(s) => IsInjective(Tail(s))
  BY <1>1 DEF IsInjective
<1>4. IsInjective(s) => Head(s) \notin ToSet(Tail(s))
  BY <1>1 DEF IsInjective, ToSet
<1>5. ToSet(s) = ToSet(Tail(s)) \cup {Head(s)}
  <2>1. ASSUME NEW i \in 1 .. Len(s)
        PROVE  s[i] = Head(s) \/ s[i] \in ToSet(Tail(s))
    <3>1. i = 1 \/ (i - 1 \in 1 .. Len(s) - 1 /\ s[i] = Tail(s)[i - 1])
      BY <1>1
    <3> QED
      BY <1>1, <3>1 DEF ToSet
  <2>2. \A i \in 1 .. Len(s) - 1 : Tail(s)[i] \in ToSet(s)
    BY <1>1 DEF ToSet
  <2> QED
    BY <1>1, <1>2, <2>1, <2>2 DEF ToSet
<1> QED
  BY <1>1, <1>2, <1>3, <1>4, <1>5

-----------------------------------------------------------------------------
(* The upload loops.                                                       *)

\* How far the tags of v have come: linked is what was requested and is
\* neither still to do nor missed, and nothing is done twice.
Progress(v) ==
    /\ IsInjective(todo[v])
    /\ upload[v] = "none" => todo[v] = <<>> /\ requested[v] = {}
    /\ upload[v] = "link" => todo[v] # <<>> /\ Head(todo[v]) \in hashtags
    /\ upload[v] = "answered" => todo[v] = <<>>
    /\ ToSet(todo[v]) \subseteq requested[v]
    /\ \A t \in Tags :
          /\ <<v, t>> \in links <=>
                t \in requested[v] /\ <<v, t>> \notin missed /\ t \notin ToSet(todo[v])
          /\ <<v, t>> \in missed => t \in requested[v] /\ t \notin ToSet(todo[v])

IInv == TypeOK /\ \A v \in Videos : Progress(v)

LEMMA InitIInv == Init => IInv
<1> SUFFICES ASSUME Init PROVE IInv
  OBVIOUS
<1>1. TypeOK
  BY CatalogAssumption DEF Init, TypeOK, Stored
<1>2. ASSUME NEW v \in Videos
      PROVE  Progress(v)
  BY DEF Init, Progress, IsInjective, ToSet
<1> QED
  BY <1>1, <1>2 DEF IInv

\* The steps of one upload leave the tags of the others where they are.
LEMMA OthersProgress ==
    ASSUME NEW w \in Videos, Progress(w),
           UNCHANGED <<upload[w], todo[w], requested[w]>>, hashtags \subseteq hashtags',
           \A t \in Tags : /\ <<w, t>> \in links' <=> <<w, t>> \in links
                           /\ <<w, t>> \in missed' <=> <<w, t>> \in missed
    PROVE  Progress(w)'
BY DEF Progress

LEMMA ListTyped ==
    ASSUME NEW tags \in TagLists
    PROVE  tags \in Seq(Tags) /\ ToSet(tags) \subseteq Tags /\ IsInjective(tags)
<1>1. tags \in Seq(Seq(STRING)) /\ IsInjective(tags) /\ ToSet(tags) \subseteq Tags
  BY CatalogAssumption DEF Tags
<1>2. DOMAIN tags = 1 .. Len(tags) /\ \A i \in 1 .. Len(tags) : tags[i] \in Tags
  BY <1>1 DEF ToSet
<1>3. tags \in Seq(Tags)
  BY <1>1, <1>2
<1> QED
  BY <1>1, <1>3

\* What stays typed as long as uploads only move forward.
LEMMA StoredGrows ==
    ASSUME TypeOK, upload' \in [Videos -> {"none", "upsert", "link", "answered", "dead"}],
           \A w \in Videos : upload[w] # "none" => upload'[w] # "none"
    PROVE  Stored \subseteq Stored'
BY DEF Stored

LEMMA InsertIInv ==
    ASSUME IInv, NEW v \in Videos, NEW tags \in TagLists, InsertVideo(v, tags)
    PROVE  IInv'
<1>1. upload' = [upload EXCEPT ![v] = "upsert"] /\ todo' = [todo EXCEPT ![v] = tags]
      /\ requested' = [requested EXCEPT ![v] = ToSet(tags)] /\ upload[v] = "none"
      /\ UNCHANGED <<hashtags, links, missed, processed, removed, votes, username>>
  BY DEF InsertVideo
<1>2. TypeOK'
  BY <1>1, ListTyped, StoredGrows DEF IInv, TypeOK
<1>3. Progress(v)'
  <2>1. todo'[v] = tags /\ requested'[v] = ToSet(tags) /\ upload'[v] = "upsert"
    BY <1>1 DEF IInv, TypeOK
  <2>2. \A t \in Tags : <<v, t>> \notin links /\ <<v, t>> \notin missed
    BY <1>1 DEF IInv, Progress
  <2> QED
    BY <1>1, <2>1, <2>2, ListTyped DEF Progress
<1>4. ASSUME NEW w \in Videos \ {v}
      PROVE  Progress(w)'
  BY <1>1, OthersProgress DEF IInv, TypeOK
<1> QED
  BY <1>2, <1>3, <1>4 DEF IInv

LEMMA UpsertIInv ==
    ASSUME IInv, NEW v \in Videos, UpsertHashtag(v)
    PROVE  IInv'
<1>1. /\ upload[v] = "upsert" /\ todo[v] # <<>> /\ todo[v] \in Seq(Tags)
      /\ hashtags' = hashtags \cup {Head(todo[v])}
      /\ upload' = [upload EXCEPT ![v] = "link"]
      /\ UNCHANGED <<todo, links, requested, missed, processed, removed, votes, username>>
  BY DEF UpsertHashtag, IInv, TypeOK
<1>2. Head(todo[v]) \in Tags
  BY <1>1
<1>3. TypeOK'
  BY <1>1, <1>2, StoredGrows DEF IInv, TypeOK
<1>4. Progress(v)'
  BY <1>1 DEF IInv, TypeOK, Progress
<1>5. ASSUME NEW w \in Videos \ {v}
      PROVE  Progress(w)'
  BY <1>1, OthersProgress DEF IInv, TypeOK
<1> QED
  BY <1>3, <1>4, <1>5 DEF IInv

LEMMA LinkIInv ==
    ASSUME IInv, NEW v \in Videos, LinkHashtag(v)
    PROVE  IInv'
<1>1. /\ upload[v] = "link" /\ todo[v] # <<>> /\ todo[v] \in Seq(Tags)
      /\ Head(todo[v]) \in hashtags
      /\ links' = links \cup {<<v, Head(todo[v])>>}
      /\ upload' = [upload EXCEPT ![v] = "upsert"]
      /\ todo' = [todo EXCEPT ![v] = Tail(@)]
      /\ UNCHANGED <<hashtags, requested, missed, processed, removed, votes, username>>
  BY DEF LinkHashtag, IInv, TypeOK, Progress
<1>2. /\ Head(todo[v]) \in ToSet(todo[v]) /\ Tail(todo[v]) \in Seq(Tags)
      /\ IsInjective(Tail(todo[v]))
      /\ ToSet(Tail(todo[v])) = ToSet(todo[v]) \ {Head(todo[v])}
  BY <1>1, Without1st DEF IInv, Progress
<1>3. TypeOK'
  BY <1>1, <1>2, StoredGrows DEF IInv, TypeOK
<1>4. Progress(v)'
  <2>1. upload'[v] = "upsert" /\ todo'[v] = Tail(todo[v]) /\ requested'[v] = requested[v]
    BY <1>1 DEF IInv, TypeOK
  <2> QED
    BY <1>1, <1>2, <2>1 DEF IInv, Progress
<1>5. ASSUME NEW w \in Videos \ {v}
      PROVE  Progress(w)'
  BY <1>1, OthersProgress DEF IInv, TypeOK
<1> QED
  BY <1>3, <1>4, <1>5 DEF IInv

LEMMA SkipIInv ==
    ASSUME IInv, NEW v \in Videos, SkipHashtag(v)
    PROVE  IInv'
<1>1. /\ upload[v] \in {"upsert", "link"} /\ todo[v] # <<>> /\ todo[v] \in Seq(Tags)
      /\ missed' = missed \cup {<<v, Head(todo[v])>>}
      /\ upload' = [upload EXCEPT ![v] = "upsert"]
      /\ todo' = [todo EXCEPT ![v] = Tail(@)]
      /\ UNCHANGED <<hashtags, links, requested, processed, removed, votes, username>>
  BY DEF SkipHashtag, IInv, TypeOK
<1>2. /\ Head(todo[v]) \in ToSet(todo[v]) /\ Tail(todo[v]) \in Seq(Tags)
      /\ IsInjective(Tail(todo[v])) /\ Head(todo[v]) \in Tags
      /\ ToSet(Tail(todo[v])) = ToSet(todo[v]) \ {Head(todo[v])}
  BY <1>1, Without1st DEF IInv, Progress
<1>3. TypeOK'
  BY <1>1, <1>2, StoredGrows DEF IInv, TypeOK
<1>4. Progress(v)'
  <2>1. upload'[v] = "upsert" /\ todo'[v] = Tail(todo[v]) /\ requested'[v] = requested[v]
    BY <1>1 DEF IInv, TypeOK
  <2> QED
    BY <1>1, <1>2, <2>1 DEF IInv, Progress
<1>5. ASSUME NEW w \in Videos \ {v}
      PROVE  Progress(w)'
  BY <1>1, OthersProgress DEF IInv, TypeOK
<1> QED
  BY <1>3, <1>4, <1>5 DEF IInv

\* The loop is left, at its end or by a crash.
LEMMA LeaveIInv ==
    ASSUME IInv, NEW v \in Videos, FinishUpload(v) \/ ServerCrash(v)
    PROVE  IInv'
<1>1. /\ upload[v] # "none" /\ upload' \in {[upload EXCEPT ![v] = "answered"],
                                           [upload EXCEPT ![v] = "dead"]}
      /\ upload'[v] = "answered" => todo[v] = <<>>
      /\ processed' \in {processed, processed \cup {v}}
      /\ UNCHANGED <<todo, hashtags, links, requested, missed, removed, votes, username>>
  BY DEF FinishUpload, ServerCrash, IInv, TypeOK
<1>2. TypeOK'
  <2>1. upload' \in [Videos -> {"none", "upsert", "link", "answered", "dead"}]
    BY <1>1 DEF IInv, TypeOK
  <2>2. Stored \subseteq Stored' /\ v \in Stored'
    BY <1>1 DEF IInv, TypeOK, Stored
  <2> QED
    BY <1>1, <2>1, <2>2 DEF IInv, TypeOK
<1>3. Progress(v)'
  BY <1>1 DEF IInv, TypeOK, Progress
<1>4. ASSUME NEW w \in Videos \ {v}
      PROVE  Progress(w)'
  BY <1>1, OthersProgress DEF IInv, TypeOK
<1> QED
  BY <1>2, <1>3, <1>4 DEF IInv

\* What is not part of the loop does not touch tags.
LEMMA ElsewhereIInv ==
    ASSUME IInv, UNCHANGED tagging, TypeOK'
    PROVE  IInv'
BY DEF IInv, tagging, Progress

LEMMA RenameKeepsNames ==
    ASSUME TypeOK, NEW u \in Users, NEW name \in Names, UpdateMe(u, name)
    PROVE  username' \in [Users -> Names] /\ IsInjective(username')
BY DEF TypeOK, UpdateMe, IsInjective

LEMMA NextIInv ==
    ASSUME IInv, [Next]_vars
    PROVE  IInv'
<1>1. ASSUME NEW v \in Videos, UpdateProcessed(v) \/ AdminDeleteVideo(v)
      PROVE  IInv'
  <2>1. TypeOK' /\ UNCHANGED tagging
    BY <1>1 DEF UpdateProcessed, AdminDeleteVideo, tagging, IInv, TypeOK, Stored
  <2> QED
    BY <2>1, ElsewhereIInv
<1>2. ASSUME NEW v \in Videos, NEW u \in Voters, NEW vote \in {-1, 0, 1}, VoteVideo(u, v, vote)
      PROVE  IInv'
  <2>1. TypeOK' /\ UNCHANGED tagging
    BY <1>2 DEF VoteVideo, tagging, IInv, TypeOK, Stored
  <2> QED
    BY <2>1, ElsewhereIInv
<1>3. ASSUME NEW u \in Users, NEW name \in Names, UpdateMe(u, name)
      PROVE  IInv'
  <2>1. TypeOK' /\ UNCHANGED tagging
    BY <1>3, RenameKeepsNames DEF UpdateMe, tagging, IInv, TypeOK, Stored
  <2> QED
    BY <2>1, ElsewhereIInv
<1>4. CASE UNCHANGED vars
  <2>1. TypeOK' /\ UNCHANGED tagging
    BY <1>4 DEF vars, tagging, IInv, TypeOK, Stored
  <2> QED
    BY <2>1, ElsewhereIInv
<1> QED
  BY <1>1, <1>2, <1>3, <1>4, InsertIInv, UpsertIInv, LinkIInv, SkipIInv, LeaveIInv DEF Next

LEMMA Invariant == Spec => []IInv
BY InitIInv, NextIInv, PTL DEF Spec

\* Type correctness of the catalog: links lead to rows, usernames are unique.
THEOREM CatalogTypeCorrect == Spec => []TypeOK
<1>1. IInv => TypeOK
  BY DEF IInv
<1> QED
  BY <1>1, Invariant, PTL

\* An answered upload has the tags of its request except those it missed, for
\* any number of uploads that write the same hashtags at the same time.
THEOREM TagsCorrect == Spec => []TagsExplained
<1>1. IInv => TagsExplained
  BY DEF IInv, TypeOK, Progress, TagsExplained, TagsOf, ToSet
<1> QED
  BY <1>1, Invariant, PTL

-----------------------------------------------------------------------------
(* The queries.                                                            *)

\* A video of the join shows each of its tags, or that it has none.
LEMMA Joined ==
    ASSUME TypeOK
    PROVE  /\ \A row \in JoinRows :
                 /\ row[1] \in Stored
                 /\ IF TagsOf(row[1]) = {} THEN row[2] = NoTag ELSE row[2] \in TagsOf(row[1])
           /\ \A v \in Stored : \A t \in TagsOf(v) : <<v, t>> \in JoinRows
           /\ \A v \in Stored : TagsOf(v) = {} => <<v, NoTag>> \in JoinRows
           /\ \A v \in Stored : TagsOf(v) \subseteq Tags /\ NoTag \notin TagsOf(v)
<1>1. \A v \in Stored : TagsOf(v) \subseteq Tags /\ NoTag \notin TagsOf(v)
  BY CatalogAssumption DEF TypeOK, TagsOf
<1>2. ASSUME NEW v \in Stored, NEW t \in Tags \cup {NoTag},
             IF TagsOf(v) = {} THEN t = NoTag ELSE t \in TagsOf(v)
      PROVE  <<v, t>> \in JoinRows
  BY <1>2 DEF JoinRows
<1>3. \A row \in JoinRows :
         /\ row[1] \in Stored
         /\ IF TagsOf(row[1]) = {} THEN row[2] = NoTag ELSE row[2] \in TagsOf(row[1])
  BY DEF JoinRows
<1> QED
  BY <1>1, <1>2, <1>3

\* Whichever rows a query keeps, it shows the same of a video as its tags are.
LEMMA ShownTags ==
    ASSUME TypeOK, NEW v \in Stored
    PROVE  /\ \E row \in JoinRows : row[1] = v
           /\ {row[2] : row \in {x \in JoinRows : x[1] = v}} \ {NoTag} = TagsOf(v)
<1>1. \A row \in JoinRows : row[1] = v /\ row[2] # NoTag => row[2] \in TagsOf(v)
  BY Joined
<1>2. \A t \in TagsOf(v) : <<v, t>> \in JoinRows /\ t # NoTag
  BY Joined
<1>3. \E row \in JoinRows : row[1] = v
  <2>1. CASE TagsOf(v) = {}
    BY <2>1, Joined
  <2>2. CASE TagsOf(v) # {}
    BY <1>2, <2>2
  <2> QED
    BY <2>1, <2>2
<1>4. ASSUME NEW t \in TagsOf(v)
      PROVE  t \in {row[2] : row \in {x \in JoinRows : x[1] = v}} \ {NoTag}
  <2>1. <<v, t>> \in {x \in JoinRows : x[1] = v} /\ <<v, t>>[2] = t /\ t # NoTag
    BY <1>2
  <2> QED
    BY <2>1
<1> QED
  BY <1>1, <1>3, <1>4

\* LIKE finds a query's word where it is, unless it holds a special letter.
LEMMA MatchingIsContaining ==
    ASSUME NEW text \in Tags \cup Names, NEW word \in Words, Plain(word)
    PROVE  word \in Matching[text] <=> word \in Containing[text]
<1>1. text \in Seq(STRING)
  <2>1. ASSUME NEW tags \in TagLists
        PROVE  ToSet(tags) \subseteq Seq(STRING)
    BY CatalogAssumption DEF ToSet
  <2> QED
    BY <2>1, CatalogAssumption DEF Tags
<1>2. word \in Seq(STRING)
  BY CatalogAssumption DEF Words
<1> QED
  BY <1>1, <1>2, PlainHits DEF Matching, Containing

\* The rows that a query keeps are of the videos that fit it.
LEMMA FoundFit ==
    ASSUME TypeOK, NEW q \in Queries, Plain(q.tag), Plain(q.name)
    PROVE  {row[1] : row \in SearchRows(q)} = {v \in processed \ removed : Fits(v, q)}
<1>1. q.tag \in Words /\ q.name \in Words
  BY DEF Words
<1>2. ASSUME NEW v \in processed \ removed
      PROVE  /\ v \in Stored /\ TagsOf(v) \subseteq Tags /\ NoTag \notin TagsOf(v)
             /\ username[Uploader[v]] \in Names
  BY CatalogAssumption, Joined DEF TypeOK, Stored
<1>3. ASSUME NEW row \in SearchRows(q)
      PROVE  row[1] \in processed \ removed /\ Fits(row[1], q)
  <2>1. /\ row \in JoinRows /\ row[1] \in processed \ removed
        /\ q.tag # <<>> => row[2] # NoTag /\ q.tag \in Matching[row[2]]
        /\ q.name # <<>> => q.name \in Matching[username[Uploader[row[1]]]]
    BY DEF SearchRows
  <2>2. row[2] # NoTag => row[2] \in TagsOf(row[1]) /\ row[2] \in Tags
    BY <1>2, <2>1, Joined
  <2>3. q.tag # <<>> => \E t \in TagsOf(row[1]) : q.tag \in Containing[t]
    BY <1>1, <2>1, <2>2, MatchingIsContaining
  <2>4. q.name # <<>> => q.name \in Containing[username[Uploader[row[1]]]]
    BY <1>1, <1>2, <2>1, MatchingIsContaining
  <2> QED
    BY <2>1, <2>3, <2>4 DEF Fits
<1>4. ASSUME NEW v \in processed \ removed, Fits(v, q)
      PROVE  \E row \in SearchRows(q) : row[1] = v
  <2>1. q.name # <<>> => q.name \in Matching[username[Uploader[v]]]
    BY <1>1, <1>2, <1>4, MatchingIsContaining DEF Fits
  <2>2. CASE q.tag = <<>>
    <3>1. PICK row \in JoinRows : row[1] = v
      BY <1>2, ShownTags
    <3> QED
      BY <2>1, <2>2, <3>1 DEF SearchRows
  <2>3. CASE q.tag # <<>>
    <3>1. PICK t \in TagsOf(v) : q.tag \in Containing[t]
      BY <1>4, <2>3 DEF Fits
    <3>2. /\ <<v, t>> \in JoinRows /\ t # NoTag /\ q.tag \in Matching[t]
          /\ <<v, t>>[1] = v /\ <<v, t>>[2] = t
      BY <1>1, <1>2, <3>1, Joined, MatchingIsContaining
    <3> QED
      BY <2>1, <3>2 DEF SearchRows
  <2> QED
    BY <2>2, <2>3
<1> QED
  BY <1>3, <1>4

\* A search without special letters answers the newest processed videos that
\* have a tag and an uploader with its words in them, however many tags the
\* joins put beside them and whatever tags, users and queries there are.
THEOREM SearchCorrect == Spec => []SearchIsExact
<1>1. ASSUME TypeOK, NEW q \in Queries, Plain(q.tag), Plain(q.name)
      PROVE  {hit.video : hit \in Search(q)}
                = Newest({v \in processed \ removed : Fits(v, q)}, Limit)
  <2>1. Found(q) = Newest({v \in processed \ removed : Fits(v, q)}, Limit)
    BY <1>1, FoundFit DEF Found
  <2>2. {hit.video : hit \in Search(q)} = Found(q)
    <3>1. ASSUME NEW hit \in Search(q)
          PROVE  hit.video \in Found(q)
      BY DEF Search
    <3>2. ASSUME NEW v \in Found(q)
          PROVE  \E hit \in Search(q) : hit.video = v
      <4> DEFINE tags == {row[2] : row \in {x \in SearchRows(q) : x[1] = v}} \ {NoTag}
      <4>1. [video |-> v, tags |-> tags] \in Search(q)
        BY DEF Search
      <4> HIDE DEF tags
      <4>2. [video |-> v, tags |-> tags].video = v
        OBVIOUS
      <4> QED
        BY <4>1, <4>2
    <3> QED
      BY <3>1, <3>2
  <2> QED
    BY <2>1, <2>2
<1>2. TypeOK => SearchIsExact
  BY <1>1 DEF SearchIsExact
<1> QED
  BY <1>2, CatalogTypeCorrect, PTL

\* A user's own list shows every video of theirs once, with its tags and with
\* the counts of the votes endpoint, for any videos, tags and voters.
THEOREM MyVideosCorrect == Spec => []MyVideosAgree
<1>1. ASSUME TypeOK, NEW u \in Users
      PROVE  GetMyVideos(u) =
                {[video |-> v, tags |-> TagsOf(v), upvotes |-> GetVideoVotes(v).upvotes,
                  downvotes |-> GetVideoVotes(v).downvotes] :
                    v \in {w \in Stored \ removed : Uploader[w] = u}}
  <2> DEFINE rows == {row \in JoinRows : Uploader[row[1]] = u /\ row[1] \notin removed}
             mine == {w \in Stored \ removed : Uploader[w] = u}
             shown(v) == {row[2] : row \in {x \in rows : x[1] = v}} \ {NoTag}
  <2>1. {row[1] : row \in rows} = mine
    BY <1>1, Joined, ShownTags
  <2>2. ASSUME NEW v \in mine
        PROVE  shown(v) = TagsOf(v)
    <3>1. {x \in rows : x[1] = v} = {x \in JoinRows : x[1] = v}
      OBVIOUS
    <3> QED
      BY <1>1, <3>1, ShownTags
  <2>3. ASSUME NEW v, NEW vote \in {-1, 1}
        PROVE  CountVotes(v, vote) =
                  Cardinality({w \in {x \in Voters : votes[<<x, v>>] # 0} :
                                  votes[<<w, v>>] = vote})
    <3>1. {w \in {x \in Voters : votes[<<x, v>>] # 0} : votes[<<w, v>>] = vote}
             = {w \in Voters : votes[<<w, v>>] = vote}
      OBVIOUS
    <3> QED
      BY <3>1 DEF CountVotes
  <2>4. \A v \in mine : /\ CountVotes(v, 1) = GetVideoVotes(v).upvotes
                        /\ CountVotes(v, -1) = GetVideoVotes(v).downvotes
    BY <2>3 DEF GetVideoVotes
  <2>5. GetMyVideos(u) =
           {[video |-> v, tags |-> shown(v), upvotes |-> CountVotes(v, 1),
             downvotes |-> CountVotes(v, -1)] : v \in {row[1] : row \in rows}}
    BY DEF GetMyVideos
  <2> HIDE DEF rows, mine, shown
  <2> QED
    BY <2>1, <2>2, <2>4, <2>5 DEF mine
<1>2. TypeOK => MyVideosAgree
  BY <1>1 DEF MyVideosAgree
<1> QED
  BY <1>2, CatalogTypeCorrect, PTL
=============================================================================
