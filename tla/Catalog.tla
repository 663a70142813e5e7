------------------------------- MODULE Catalog ------------------------------
(***************************************************************************)
(* What is attached to videos and how it is read: the hashtags an upload   *)
(* stores in a loop of two statements per tag, the votes, the names of the *)
(* uploaders (video_handler.go, vote_handler.go, user_handler.go), and the *)
(* queries over their joins (search_handler.go, GetMyVideos).              *)
(***************************************************************************)
EXTENDS FiniteSets, SequencesExt, Patterns

CONSTANTS
    MaxVideos,    \* bound: rows of videos, numbered in created_at order
    Users,
    Uploader,     \* videos.user_id
    Voters,       \* bound: the users who vote
    TagLists,     \* the tags of a request, in lower case and without repeats
    Names,        \* usernames
    FirstName,    \* those the users registered with
    Queries,      \* [tag, name]; an empty word is a parameter left out
    Limit,        \* LIMIT 50; LIMIT 100 of GetMyVideos is out of reach
    NoTag         \* what a LEFT JOIN finds for a video without tags

Videos == 1 .. MaxVideos
Tags == UNION {ToSet(tags) : tags \in TagLists}
Words == {q.tag : q \in Queries} \cup {q.name : q \in Queries}

\* text ILIKE '%word%'
Matching == [text \in Tags \cup Names |-> {word \in Words : Hits(text, word)}]

ASSUME CatalogAssumption ==
    /\ MaxVideos \in Nat
    /\ Uploader \in [Videos -> Users]
    /\ Voters \subseteq Users
    /\ TagLists \subseteq Seq(Seq(STRING))
    /\ \A tags \in TagLists : IsInjective(tags)
    /\ Names \subseteq Seq(STRING)
    /\ FirstName \in [Users -> Names] /\ IsInjective(FirstName)
    /\ Limit \in Nat \ {0}
    /\ NoTag \notin Tags
    /\ Queries \subseteq [tag : Seq(STRING), name : Seq(STRING)]
    /\ \A q \in Queries : q.tag # <<>> \/ q.name # <<>>

VARIABLES
    upload,       \* where the handler of a video's upload stands
    todo,         \* the tags its loop has not finished
    hashtags,     \* rows of hashtags, named by their UNIQUE tag
    links,        \* rows of video_hashtags
    processed,    \* videos with status 'processed'
    removed,      \* videos with deleted_at
    votes,        \* votes.vote_type of a user's row for a video, 0 without one
    username,
    requested,    \* history: the tags of the request
    missed        \* history: video and tag of which a statement failed

tagging == <<upload, todo, hashtags, links, requested, missed>>
vars == <<tagging, processed, removed, votes, username>>

Stored == {v \in Videos : upload[v] # "none"}

TypeOK ==
    /\ upload \in [Videos -> {"none", "upsert", "link", "answered", "dead"}]
    /\ todo \in [Videos -> Seq(Tags)]
    /\ hashtags \subseteq Tags
    /\ links \subseteq Videos \X hashtags
    /\ processed \subseteq Stored
    /\ removed \subseteq Stored
    /\ votes \in [Voters \X Videos -> {-1, 0, 1}]
    /\ username \in [Users -> Names] /\ IsInjective(username)
    /\ requested \in [Videos -> SUBSET Tags]
    /\ missed \subseteq Videos \X Tags

Init ==
    /\ upload = [v \in Videos |-> "none"]
    /\ todo = [v \in Videos |-> <<>>]
    /\ hashtags = {}
    /\ links = {}
    /\ processed = {}
    /\ removed = {}
    /\ votes = [x \in Voters \X Videos |-> 0]
    /\ username = FirstName
    /\ requested = [v \in Videos |-> {}]
    /\ missed = {}

TagsOf(v) == {t \in hashtags : <<v, t>> \in links}

\* videos LEFT JOIN video_hashtags LEFT JOIN hashtags.
JoinRows == {row \in Stored \X (Tags \cup {NoTag}) :
               IF TagsOf(row[1]) = {} THEN row[2] = NoTag ELSE row[2] \in TagsOf(row[1])}

\* ORDER BY created_at DESC LIMIT n
Newest(S, n) == {v \in S : Cardinality({w \in S : w > v}) < n}

-----------------------------------------------------------------------------
(* Mutated forms of the definitions below.                                 *)

\* ON CONFLICT DO NOTHING RETURNING id: no row comes back for a known tag.
UpsertOrSkip(v) ==
    LET tag == Head(todo[v]) IN
    /\ upload[v] = "upsert"
    /\ todo[v] # <<>>
    /\ hashtags' = hashtags \cup {tag}
    /\ upload' = [upload EXCEPT ![v] = IF tag \in hashtags THEN "upsert" ELSE "link"]
    /\ todo' = [todo EXCEPT ![v] = IF tag \in hashtags THEN Tail(@) ELSE @]
    /\ UNCHANGED <<links, requested, missed, processed, removed, votes, username>>

\* LEFT JOIN votes and COUNT(*) FILTER, instead of a subselect.
CountJoined(v, vote) ==
    Cardinality({p \in JoinRows \X Voters : p[1][1] = v /\ votes[<<p[2], v>>] = vote})

\* The UNIQUE username is not there.
RenameFreely(u, name) ==
    /\ username' = [username EXCEPT ![u] = name]
    /\ UNCHANGED <<tagging, processed, removed, votes>>

-----------------------------------------------------------------------------
(* UploadVideo: the loop over the tags.                                    *)

InsertVideo(v, tags) ==
    /\ upload[v] = "none"
    /\ \A w \in Videos : w < v => upload[w] # "none"
    /\ upload' = [upload EXCEPT ![v] = "upsert"]
    /\ todo' = [todo EXCEPT ![v] = tags]
    /\ requested' = [requested EXCEPT ![v] = ToSet(tags)]
    /\ UNCHANGED <<hashtags, links, missed, processed, removed, votes, username>>

\* INSERT INTO hashtags ... ON CONFLICT DO UPDATE ... RETURNING id.
UpsertHashtag(v) ==
    /\ upload[v] = "upsert"
    /\ todo[v] # <<>>
    /\ hashtags' = hashtags \cup {Head(todo[v])}
    /\ upload' = [upload EXCEPT ![v] = "link"]
    /\ UNCHANGED <<todo, links, requested, missed, processed, removed, votes, username>>

\* INSERT INTO video_hashtags ... ON CONFLICT DO NOTHING.
LinkHashtag(v) ==
    /\ upload[v] = "link"
    /\ links' = links \cup {<<v, Head(todo[v])>>}
    /\ upload' = [upload EXCEPT ![v] = "upsert"]
    /\ todo' = [todo EXCEPT ![v] = Tail(@)]
    /\ UNCHANGED <<hashtags, requested, missed, processed, removed, votes, username>>

\* Either statement fails: the loop goes on with the next tag.
SkipHashtag(v) ==
    /\ upload[v] \in {"upsert", "link"}
    /\ todo[v] # <<>>
    /\ missed' = missed \cup {<<v, Head(todo[v])>>}
    /\ upload' = [upload EXCEPT ![v] = "upsert"]
    /\ todo' = [todo EXCEPT ![v] = Tail(@)]
    /\ UNCHANGED <<hashtags, links, requested, processed, removed, votes, username>>

\* After the loop: the row of a hosted video is processed at once, another
\* waits for the worker.
FinishUpload(v) ==
    /\ upload[v] = "upsert"
    /\ todo[v] = <<>>
    /\ upload' = [upload EXCEPT ![v] = "answered"]
    /\ processed' \in {processed, processed \cup {v}}
    /\ UNCHANGED <<todo, hashtags, links, requested, missed, removed, votes, username>>

ServerCrash(v) ==
    /\ upload[v] \in {"upsert", "link"}
    /\ upload' = [upload EXCEPT ![v] = "dead"]
    /\ UNCHANGED <<todo, hashtags, links, requested, missed, processed, removed, votes, username>>

UpdateProcessed(v) ==
    /\ upload[v] = "answered"
    /\ processed' = processed \cup {v}
    /\ UNCHANGED <<tagging, removed, votes, username>>

AdminDeleteVideo(v) ==
    /\ v \in Stored
    /\ removed' = removed \cup {v}
    /\ UNCHANGED <<tagging, processed, votes, username>>

-----------------------------------------------------------------------------
\* One upsert on UNIQUE (user_id, video_id), or for 0 one DELETE.  Only a
\* missing row of videos stops it, not a removed one.
VoteVideo(u, v, vote) ==
    /\ v \in Stored
    /\ votes' = [votes EXCEPT ![<<u, v>>] = vote]
    /\ UNCHANGED <<tagging, processed, removed, username>>

\* PATCH /api/me; users.username is UNIQUE.
UpdateMe(u, name) ==
    /\ \A other \in Users \ {u} : username[other] # name
    /\ username' = [username EXCEPT ![u] = name]
    /\ UNCHANGED <<tagging, processed, removed, votes>>

Next ==
    \/ \E v \in Videos :
          \/ \E tags \in TagLists : InsertVideo(v, tags)
          \/ UpsertHashtag(v) \/ LinkHashtag(v) \/ SkipHashtag(v)
          \/ FinishUpload(v) \/ ServerCrash(v)
          \/ UpdateProcessed(v) \/ AdminDeleteVideo(v)
          \/ \E u \in Voters, vote \in {-1, 0, 1} : VoteVideo(u, v, vote)
    \/ \E u \in Users, name \in Names : UpdateMe(u, name)

Spec == Init /\ [][Next]_vars

-----------------------------------------------------------------------------
(* The queries, each one statement and so one snapshot.                    *)

\* The WHERE clause picks rows of the join; a tag of the query must be that
\* of the row.
SearchRows(q) ==
    {row \in JoinRows :
        /\ row[1] \in processed \ removed
        /\ q.tag # <<>> => row[2] # NoTag /\ q.tag \in Matching[row[2]]
        /\ q.name # <<>> => q.name \in Matching[username[Uploader[row[1]]]]}

\* GROUP BY v.id.
Found(q) == Newest({row[1] : row \in SearchRows(q)}, Limit)

\* GET /api/search: array_agg collects the tags of the rows that are left.
Search(q) ==
    {[video |-> v, tags |-> {row[2] : row \in {x \in SearchRows(q) : x[1] = v}} \ {NoTag}] :
        v \in Found(q)}

\* (SELECT COUNT(*) FROM votes WHERE video_id = v.id AND vote_type = vote)
CountVotes(v, vote) == Cardinality({u \in Voters : votes[<<u, v>>] = vote})

\* GET /api/me/videos.
GetMyVideos(u) ==
    LET rows == {row \in JoinRows : Uploader[row[1]] = u /\ row[1] \notin removed}
    IN {[video |-> v, tags |-> {row[2] : row \in {x \in rows : x[1] = v}} \ {NoTag},
         upvotes |-> CountVotes(v, 1), downvotes |-> CountVotes(v, -1)] :
           v \in {row[1] : row \in rows}}

\* GET /api/videos/:id/votes.
GetVideoVotes(v) ==
    LET rows == {u \in Voters : votes[<<u, v>>] # 0} IN
    [upvotes |-> Cardinality({u \in rows : votes[<<u, v>>] = 1}),
     downvotes |-> Cardinality({u \in rows : votes[<<u, v>>] = -1})]

-----------------------------------------------------------------------------
(* Properties.                                                             *)

\* Once an upload is answered, its video has the tags of its request except
\* those of which a statement failed, whatever other uploads did to the rows
\* of the same hashtags in between.
TagsExplained ==
    \A v \in Videos : upload[v] = "answered" =>
        TagsOf(v) = {t \in requested[v] : <<v, t>> \notin missed}

\* Which words are part of which tags and names.
Containing == [text \in Tags \cup Names |-> {word \in Words : Within(word, text)}]

Fits(v, q) ==
    /\ q.tag # <<>> => \E t \in TagsOf(v) : q.tag \in Containing[t]
    /\ q.name # <<>> => q.name \in Containing[username[Uploader[v]]]

\* A query without LIKE's special characters gets what the documents promise:
\* the newest processed videos with a tag and an uploader that contain its
\* words, whatever else is joined to them.
SearchIsExact ==
    \A q \in Queries : Plain(q.tag) /\ Plain(q.name) =>
        {hit.video : hit \in Search(q)}
            = Newest({v \in processed \ removed : Fits(v, q)}, Limit)

\* A user's own list holds each of the user's videos once, tagged or not,
\* settled or not, with the counts the votes endpoint gives and all its tags:
\* the joins of the tags multiply no votes.
MyVideosAgree ==
    \A u \in Users :
        GetMyVideos(u) =
            {[video |-> v, tags |-> TagsOf(v), upvotes |-> GetVideoVotes(v).upvotes,
              downvotes |-> GetVideoVotes(v).downvotes] :
                v \in {w \in Stored \ removed : Uploader[w] = u}}
=============================================================================
