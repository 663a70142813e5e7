------------------------------ MODULE FeedCache ------------------------------
(***************************************************************************)
(* GET /api/feed (internal/handlers/video_handler.go): the newest processed*)
(* videos, kept in Redis under one key with a time to live.  A request     *)
(* that misses reads the database and then sets the key, in two steps that *)
(* interleave with the writers of `videos`; of those only the upload of a  *)
(* Cloudinary URL deletes the key.                                         *)
(*                                                                         *)
(* The rows follow VideoLifecycle, which VideoPipeline implements; a row   *)
(* is named by its rank in created_at, so a feed is a set of numbers.      *)
(* Time advances in ticks.                                                 *)
(***************************************************************************)
EXTENDS Integers, FiniteSets

CONSTANTS
    MaxVideo,     \* bound: rows are 1..MaxVideo
    Readers,      \* concurrent feed requests
    Limit,        \* LIMIT 20
    TTL,          \* 30 seconds, in ticks
    MaxFill,      \* bound: ticks between a request's query and its SET
    MaxFaults     \* bound: Redis errors and database reads cut short

ASSUME FeedAssumption ==
    /\ MaxVideo \in Nat
    /\ Limit \in Nat \ {0}
    /\ TTL \in Nat \ {0}
    /\ MaxFill \in Nat
    /\ MaxFaults \in Nat

Videos == 1..MaxVideo

VARIABLES
    status,       \* videos.status
    redelivered,  \* of VideoLifecycle
    deleted,      \* videos with deleted_at set
    handler,      \* upload of a Cloudinary URL: "none", "updated", "answered"
    cache,        \* feed:v2:latest: the set of videos and its remaining ttl
    reader,       \* where a feed request stands
    page,         \* the rows it read
    age,          \* ticks since it read them
    since,        \* history: ticks since a video entered or left the feed
    sinceCut,     \* history: ticks since a database read was cut short
    exposed,      \* history: busts that no request in flight could undo
    faults        \* history: faults so far

rows == <<status, redelivered, deleted>>
requests == <<reader, page, age>>
clocks == <<since, sinceCut>>
vars == <<rows, handler, cache, requests, clocks, exposed, faults>>

Rows == INSTANCE VideoLifecycle

\* How old what a client is served can be.
Horizon == TTL + MaxFill

NoFeed == [page |-> {}, ttl |-> 0]
Cached == cache.ttl > 0

\* WHERE deleted_at IS NULL AND status = 'processed'
Eligible == {v \in Videos : status[v] = "processed" /\ v \notin deleted}

\* ORDER BY created_at DESC LIMIT 20
Newest(S) == {v \in S : Cardinality({u \in S : u > v}) < Limit}
Feed == Newest(Eligible)

TypeOK ==
    /\ Rows!TypeOK
    /\ deleted \subseteq Videos
    /\ handler \in [Videos -> {"none", "updated", "answered"}]
    /\ cache \in [page: SUBSET Videos, ttl: 0..TTL]
    /\ reader \in [Readers -> {"idle", "missed", "read"}]
    /\ page \in [Readers -> SUBSET Videos]
    /\ age \in [Readers -> 0..MaxFill]
    /\ since \in [Videos -> 0..Horizon]
    /\ sinceCut \in 0..Horizon
    /\ exposed \subseteq Videos
    /\ faults \in 0..MaxFaults

Init ==
    /\ Rows!Init
    /\ deleted = {}
    /\ handler = [v \in Videos |-> "none"]
    /\ cache = NoFeed
    /\ reader = [r \in Readers |-> "idle"]
    /\ page = [r \in Readers |-> {}]
    /\ age = [r \in Readers |-> 0]
    /\ since = [v \in Videos |-> Horizon]
    /\ sinceCut = Horizon
    /\ exposed = {}
    /\ faults = 0

Fault == faults < MaxFaults /\ faults' = faults + 1

\* The histories follow the feed: which videos moved, and which busted ones
\* are still in it.
FeedMoves ==
    /\ since' = [v \in Videos |->
                    IF (v \in Eligible) = (v \in Eligible') THEN since[v] ELSE 0]
    /\ exposed' = exposed \cap Feed'

-----------------------------------------------------------------------------
(* Mutated forms of the definitions below.                                 *)

\* The query forgets deleted_at.
QueryFeedWithDeleted(r) ==
    /\ reader[r] = "missed"
    /\ reader' = [reader EXCEPT ![r] = "read"]
    /\ page' = [page EXCEPT ![r] = Newest({v \in Videos : status[v] = "processed"})]
    /\ UNCHANGED <<rows, handler, cache, age, clocks, exposed, faults>>

\* The expiry is given in the wrong unit.
SetFeedForTooLong(r) ==
    /\ reader[r] = "read"
    /\ cache' = [page |-> page[r], ttl |-> TTL + Horizon]
    /\ reader' = [reader EXCEPT ![r] = "idle"]
    /\ page' = [page EXCEPT ![r] = {}]
    /\ age' = [age EXCEPT ![r] = 0]
    /\ UNCHANGED <<rows, handler, clocks, exposed, faults>>

\* DEL of a key that is no longer the one the feed is kept under.
BustOldKey(v) ==
    /\ handler[v] = "updated"
    /\ handler' = [handler EXCEPT ![v] = "answered"]
    /\ exposed' = exposed \cup
          {u \in {v} \cap Feed : \A r \in Readers : reader[r] = "read" => u \in page[r]}
    /\ UNCHANGED <<rows, cache, requests, clocks, faults>>

-----------------------------------------------------------------------------
(* The writers of `videos`.                                                *)

CreateRow(v) ==
    /\ Rows!Create(v)
    /\ \A u \in 1..(v - 1) : status[u] # "absent"
    /\ UNCHANGED <<deleted, handler, cache, requests, clocks, exposed, faults>>

\* The upload handler's UPDATE for a Cloudinary URL.
PublishHosted(v) ==
    /\ v \notin redelivered
    /\ Rows!Settle(v, "processed")
    /\ UNCHANGED redelivered
    /\ handler' = [handler EXCEPT ![v] = "updated"]
    /\ UNCHANGED <<deleted, cache, requests, sinceCut, faults>>
    /\ FeedMoves

\* Its DEL feed:v2:latest, whose error is ignored, and the 202.
BustFeedCache(v) ==
    /\ handler[v] = "updated"
    /\ handler' = [handler EXCEPT ![v] = "answered"]
    /\ \/ /\ cache' = NoFeed
          /\ exposed' = exposed \cup
                {u \in {v} \cap Feed : \A r \in Readers : reader[r] = "read" => u \in page[r]}
          /\ UNCHANGED faults
       \/ /\ Fault
          /\ UNCHANGED <<cache, exposed>>
    /\ UNCHANGED <<rows, requests, clocks>>

\* The worker's UPDATEs, which leave the cache alone.
WorkerSettles(v, outcome) ==
    /\ handler[v] = "none"
    /\ Rows!Settle(v, outcome) \/ Rows!Resettle(v, outcome)
    /\ UNCHANGED <<deleted, handler, cache, requests, sinceCut, faults>>
    /\ FeedMoves

RedeliverWork(v) ==
    /\ handler[v] = "none"
    /\ Rows!Redeliver(v)
    /\ UNCHANGED <<deleted, handler, cache, requests, clocks, exposed, faults>>

\* DELETE /admin/videos/:id leaves the cache alone too.
AdminDeleteVideo(v) ==
    /\ status[v] # "absent"
    /\ deleted' = deleted \cup {v}
    /\ UNCHANGED <<status, redelivered, handler, cache, requests, sinceCut, faults>>
    /\ FeedMoves

-----------------------------------------------------------------------------
(* A feed request.  A hit answers cache.page and changes nothing.          *)

\* GET fails, or finds nothing: the request goes to the database.
MissFeed(r) ==
    /\ reader[r] = "idle"
    /\ \/ ~Cached /\ UNCHANGED faults
       \/ Cached /\ Fault
    /\ reader' = [reader EXCEPT ![r] = "missed"]
    /\ UNCHANGED <<rows, handler, cache, page, age, clocks, exposed>>

\* One SELECT, one snapshot.  rows.Err() is never looked at: a connection
\* that breaks while the rows arrive leaves the newest of them.
QueryFeed(r) ==
    /\ reader[r] = "missed"
    /\ reader' = [reader EXCEPT ![r] = "read"]
    /\ \/ /\ page' = [page EXCEPT ![r] = Feed]
          /\ UNCHANGED <<sinceCut, exposed, faults>>
       \/ \E oldest \in Videos :
             /\ Fault
             /\ page' = [page EXCEPT ![r] = {v \in Feed : v > oldest}]
             /\ sinceCut' = 0
             /\ exposed' = exposed \cap page'[r]
    /\ UNCHANGED <<rows, handler, cache, age, since>>

\* SELECT fails: 500, and nothing is cached.
FeedError(r) ==
    /\ reader[r] = "missed"
    /\ reader' = [reader EXCEPT ![r] = "idle"]
    /\ UNCHANGED <<rows, handler, cache, page, age, clocks, exposed, faults>>

\* SET with the expiry (its error is ignored), and the 200 with the page.
SetFeed(r) ==
    /\ reader[r] = "read"
    /\ \/ /\ cache' = [page |-> page[r], ttl |-> TTL]
          /\ UNCHANGED faults
       \/ /\ Fault
          /\ UNCHANGED cache
    /\ reader' = [reader EXCEPT ![r] = "idle"]
    /\ page' = [page EXCEPT ![r] = {}]
    /\ age' = [age EXCEPT ![r] = 0]
    /\ UNCHANGED <<rows, handler, clocks, exposed>>

-----------------------------------------------------------------------------
\* Time passes: Redis expires the key, requests in flight grow older.
Tick ==
    /\ \A r \in Readers : reader[r] = "read" => age[r] < MaxFill
    /\ age' = [r \in Readers |-> IF reader[r] = "read" THEN age[r] + 1 ELSE 0]
    /\ cache' = IF cache.ttl > 1 THEN [cache EXCEPT !.ttl = @ - 1] ELSE NoFeed
    /\ since' = [v \in Videos |-> IF since[v] < Horizon THEN since[v] + 1 ELSE Horizon]
    /\ sinceCut' = IF sinceCut < Horizon THEN sinceCut + 1 ELSE Horizon
    /\ UNCHANGED <<rows, handler, reader, page, exposed, faults>>

Next ==
    \/ \E v \in Videos :
          \/ CreateRow(v) \/ PublishHosted(v) \/ BustFeedCache(v)
          \/ \E outcome \in Rows!Terminal : WorkerSettles(v, outcome)
          \/ RedeliverWork(v) \/ AdminDeleteVideo(v)
    \/ \E r \in Readers :
          MissFeed(r) \/ QueryFeed(r) \/ FeedError(r) \/ SetFeed(r)
    \/ Tick

Spec == Init /\ [][Next]_vars

-----------------------------------------------------------------------------
(* Properties.  What a client is served is the cached page or the page of  *)
(* a request that missed.                                                  *)

Served(p) ==
    \/ Cached /\ p = cache.page
    \/ \E r \in Readers : reader[r] = "read" /\ p = page[r]

\* A video that was deleted, or lost its status, is served no longer than
\* the time to live and one fill after that, whatever else changes.
DeletedVideoLeaves ==
    \A p \in SUBSET Videos : Served(p) =>
        \A v \in p : v \in Eligible \/ since[v] < Horizon

\* When no video moved and no read was cut short for that long, everybody is
\* served the newest processed videos: late SETs of old pages, lost DELs and
\* Redis errors do no lasting harm.
QuietFeedIsExact ==
    sinceCut = Horizon /\ (\A v \in Videos : since[v] = Horizon)
        => \A p \in SUBSET Videos : Served(p) => p = Feed

\* A video whose DEL no request in flight could undo stays visible while it
\* is among the newest.
BustedFeedShowsVideo ==
    \A p \in SUBSET Videos : Served(p) => exposed \subseteq p

\* video_handler.go:232 "Bust the 30-second feed cache so the new video is
\* visible immediately": once the upload was answered, a hit shows it.
NewVideoVisible ==
    \A v \in Feed : handler[v] = "answered" /\ Cached => v \in cache.page
=============================================================================
