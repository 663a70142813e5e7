# A TLA+ model of the Unibuzz API

Unibuzz is a Go service (gin, PostgreSQL, Redis, Cloudinary) for short videos of
a university community: an API server (`cmd/server`), worker processes
(`cmd/worker`) and their shared stores. This directory holds TLA+ modules of its
protocols, TLC configurations that check them on small instances, and theorems
about them with proofs for TLAPS. Paths below are relative to the repository.

No handler uses a database transaction. Every statement, Redis command and
Cloudinary call is therefore a step of its own, and most of what can go wrong
goes wrong between two such steps.

## 1. Inventory

| component | state | operations | hard behaviours | what makes it correct |
|---|---|---|---|---|
| Upload handler (`internal/handlers/video_handler.go`) | a `videos` row, an element of the Redis list `video_jobs` | `UploadVideo`: checks, INSERT, hashtags, then UPDATE + DEL of the feed (a Cloudinary URL) or RPUSH; `GetVideoStatus` | the server dies between INSERT and RPUSH; RPUSH fails or is repeated by the client | an accepted video is never silently stranded; a status goes pending → processed or failed, once; the URLs agree with the status |
| Worker (`internal/worker/ffmpeg_worker.go`, `internal/services/cloudinary_service.go`) | the job it holds, `./tmp/<id>`, Cloudinary assets, the row | `Start` (BRPOP loop), `processWithRetry` (3 attempts), `processVideo` (mkdir, ffmpeg, two uploads, UPDATE) | crash with a popped job; lost reply of BRPOP or of the UPDATE; partial attempts; several workers; calls without a deadline | one worker per job; a row points only to assets that exist; a directory stays only after a crash or a failed removal, whose error is dropped; every job settles its row |
| Feed (`GetFeed`) | Redis key `feed:v2:latest`, 30 s | miss, SELECT, SET; the upload's DEL | a request in flight across a DEL; writers that delete no key; errors that are ignored | staleness is bounded; a quiet feed is exact |
| Comments (`comment_handler.go`) | `videos.comments_disabled`, `comments` | create, list, toggle, edit, delete | check and act in two statements: lost toggles, comments into a closed section, a list and a flag of two moments; keywords are unescaped patterns | each toggle flips; a closed section drains; an answer is a page of its time; keywords hide what contains them |
| Comment filters and profile (`user_handler.go`) | `user_comment_filters`, `users.username` | add, list, delete a keyword; profile | COUNT then INSERT; two spellings of a keyword | the cap, up to the requests that overlap; one spelling each |
| Sessions (`internal/auth`, `internal/db/sqlc`) | `users`, `sessions`, JWTs | register, login; refresh and logout are methods of the service that no route calls (`main.go:62-66`) | a deletion and any time between the lookup of an account and the signing of its token (a bcrypt comparison lies between) | access ends after a deletion; for the unrouted methods: a refresh token has one successor for each call that read it open, a login ends or forks only through a failure, a logout or an overlap |
| Access control and moderation (`internal/middleware`, `admin_handler.go`) | `is_suspended`, `banned`, `deleted_at`, `admin_actions` | suspend, unsuspend, ban, delete user or video | role and identity come from a 15 minute JWT, looked at once: a request that was let in runs its statements later; the audit INSERT is a second statement whose error is ignored | when a deleted account's token ends nobody is let in for it any more, and the requests let in before act at most once each; a suspension is recorded or its record was lost |
| Hashtags and search (`video_handler.go`, `search_handler.go`) | `hashtags`, `video_hashtags` | upsert and link in a loop while uploading; ILIKE search; a user's own list | failures of the loop are ignored; two uploads share a tag; LIMIT and counts over joins; unescaped patterns | a video has the tags of its request unless a statement failed; search finds exactly what the documents say |
| Votes (`vote_handler.go`) | `votes` | one upsert or one delete; counts | counts in a query that joins a row per tag | the counts shown agree |
| Reports (`report_handler.go`) | `reports` | validation, one INSERT | none | – |
| Wiring (`cmd`, `internal/config`, `internal/db/postgres.go`, `internal/redis`, metrics) | – | start-up, route groups | – | who is let in to which routes |
| Dead code (`config/queue.go`, `auth/middleware.go`, `handlers/auth_handler.go`) | – | referenced by nothing | – | – |

They interact through the stores only: the handler and the workers through
`video_jobs` and the row; uploads, workers, the admin and the feed through the
rows and the cached key; the owner, authors and readers of comments through
`comments_disabled`, `comments` and the keyword list; the service, moderation and
every protected route through `users` and the access token alone: no middleware
reads a row.

## 2. Modules

| module | models | state ↔ code |
|---|---|---|
| `VideoLifecycle` | abstract: a row is created pending, settles once, may settle again only after a redelivery | `status` = `videos.status`; `redelivered` is a history |
| `VideoPipeline` | upload handler, `video_jobs`, workers, Cloudinary, `./tmp`; implements `VideoLifecycle` | one action per statement, command or call; `upload[v]` and `wpc[w]` are program counters, `queue` the list with its tail last, `job` and `attempt` the locals of `processWithRetry`, `tmp[w]` the directories on a worker's disk, `leftover` a history of removals that failed |
| `FeedCache` | `GetFeed` against all writers of the rows; the rows are an INSTANCE of `VideoLifecycle` | `cache` = the key with its remaining time to live, `reader`, `page` = the request's progress and what it read; `Tick` is time |
| `TokenChain` | abstract: a refresh token is opened once, closed once, and worth one successor for each claim made while it was open | `state` = what the `sessions` row says, `claims` = who read it as open |
| `AccessLease` | abstract: access is granted for at most the token's life; a deleted account is closed when no request is left that looked it up before and has still to sign, and then access is granted for no more than what is left of a token's life since | `account` = the row of `users` and who still signs for it, `access` = what is left of the token a user holds |
| `Sessions` | register, login, refresh, logout of `auth.Service`, the admin's deletion, time; implements `TokenChain` and `AccessLease` (through `Standing`) | `session`, `owner` = the rows of `sessions`; `req[r]` = between which two statements a request is, with what it read and what is left of the token it signed: the lookup (`Login`, `LoadUser`) and the signing (`SignToken`) are steps of their own; `held` = tokens that reached their client |
| `KeywordLists` | what a keyword list is made of: the constants of the next two | |
| `CommentFilters` | one user's keyword list | `filters` = the rows, `adding` = requests between COUNT and INSERT |
| `Accounts` | moderation behind the two middlewares, and the keyword list behind the first: composes `AccessLease` and `CommentFilters` | `caller[q]` = the admin whose call was let in, `entered` = the owner's requests let in and before their first statement, `auditing[q]` = the record a call is about to write; `suspended`, `banned` = the flags, `trail` = `admin_actions` |
| `Patterns` | `LIKE`, `ILIKE` and the patterns the queries build | `Like` is a recursive function over the letters of the pattern, `Starts` its step; a word is a sequence of one-letter strings |
| `Comments` | one video's comment section, over an INSTANCE of `CommentFilters` and `Patterns` | `closed` = `comments_disabled`, `comments` = the rows in `created_at` order, `toggle`, `creating`, `view` = requests between their statements |
| `Catalog` | the upload's tag loop, votes, usernames, and the queries of `Search`, `GetMyVideos`, `GetVideoVotes` as functions of the rows, over `Patterns` | `hashtags`, `links`, `votes`, `username` = rows; `todo[v]` = what the loop has left; `JoinRows` = the LEFT JOIN |
| `MC*` | instances for TLC | constants and symmetry |
| `*Proofs` | theorems | see section 4 |

Each module that models code begins with a section of mutated definitions: bugs
this code could plausibly have, used to show that every property is sensitive
to the code (`mutants` in `PROJECT.json`).

What the models leave out of the data: a row is its id, a feed a set of ids
ordered by creation, an input URL one of six kinds. In `VideoPipeline` a request
is named by the row it creates. A refresh token is named by the session row that
stores its hash; of a user's access tokens only the longest-lived one matters.
Keywords are model values where only their spelling counts (`CommentFilters`,
`Accounts`), and short words of one-letter strings where a query matches them
(`Comments`, `Catalog`): there `LOWER(content) LIKE '%' || LOWER(keyword) || '%'` is
evaluated, wildcards included. Passwords are right or the request is not made.

The two abstract modules of sessions are what other parts use instead of it:
`Sessions` implements `AccessLease`, and `Accounts` is composed from
`AccessLease`, so a protected route is modelled against every way tokens are
issued without modelling the service again. `VideoLifecycle` plays the same part
between `VideoPipeline` and `FeedCache`.

### Failures

A call may fail before or after it took effect. Free of charge (at any time, any
number of them): an error answer of any call, failing attempts, hanging calls
(ffmpeg and Cloudinary run under `context.Background()`,
`ffmpeg_worker.go:82,94`); in `Sessions`, a request that stops between any two
statements and an answer that is lost after the INSERT; in `Accounts`, any
statement that fails and any wait between the middleware and a statement; in `Catalog`, any statement of the tag loop. Counted against
`MaxFaults`: a worker or server that dies (also between the UPDATE and the
deferred `RemoveAll`), a reply of BRPOP that is lost, an UPDATE whose
acknowledgement is lost, an RPUSH that the Redis client repeats after a lost
reply, a Redis error or a truncated read in `FeedCache`. A working directory that
`os.RemoveAll` does not remove (`ffmpeg_worker.go:91` drops the error) is bounded by
`MaxLeftover`, see below. The histories `lost`, `leftover`, `redelivered`, `disturbed`, `untraced`, `missed` name what these hit; the
properties then say exactly what they cost.

## 3. Runs

| run | instance | shows |
|---|---|---|
| `pipeline` | 2 videos, 2 workers, 2 attempts, 2 faults, removals that fail for 1 video | `TypeOK`, `PollMatchesUrls`, `HostedUrlsExist`, `NoStrandedVideo`, `OneJobPerVideo`, `TmpDirsAccounted`, and that the pipeline implements `VideoLifecycle` (3.2 million states) |
| `pipeline_live` | 2 videos, 2 workers, 2 attempts, 1 fault, fair | `QueuedVideoSettles`: an accepted video settles, or its job was lost, or its worker or every worker hangs |
| `pipeline_order` | 2 videos, 1 worker | **violated**: oldest job first |
| `pipeline_pending` | fair | **violated**: the polling of a client whose upload was queued ends, by a status or by a 404; the trace loses the reply of BRPOP |
| `feed` | 2 rows, page of 1, 2 requests, TTL 2, 1 fault | `DeletedVideoLeaves`, `QuietFeedIsExact`, `BustedFeedShowsVideo` |
| `feed_bust` | 2 rows, 1 request, no fault | **violated**: the new video is visible immediately |
| `comments` | 2 toggles, 2 authors, 1 reader, 2 texts, 2 keywords (a letter and a wildcard), 2 comments, page of 1 | `UndisturbedToggleFlips`, `ClosedSectionDrains`, `AnswerIsTimely`, `PlainKeywordsHide`, `PageIsFull` (1.1 million states) |
| `comments_toggle` | same | **violated**: each call flips the state |
| `accounts` | 1 admin with 2 calls at a time, 1 student with a list, 3 requests at a time, cap 1, 2 words of which one in 2 spellings, tokens of 2 ticks | `SuspensionTraceable`, `DeletedOwnerDrains`, `ModerationDrains`, and `OvershootBounded`, `ListedOnce` of the list behind the middleware (1.2 million states) |
| `sessions` | 2 users, 3 refresh tokens, 2 overlapping calls, access tokens of 2 ticks | `DeletedUserLosesAccess`, `OneCarrierPerLogin`, and that the service implements `TokenChain` and `AccessLease` (774 thousand states) |
| `catalog` | 2 videos of 2 users, 3 tag lists, 1 voter, 3 names, 7 queries, limit 1 | `TagsExplained`, `SearchIsExact`, `MyVideosAgree` (613 thousand states) |
| `filters_cap` | 3 additions, cap 2 | **violated**: the cap |

### Bounds, and why they are enough

- `MaxRetries` stands for 3. With 2 the loop still has a first attempt, a repeated
  one and a last one after which the row is marked; the theorems about the
  pipeline hold for every number.
- Two workers and two videos give every pairwise order: two workers on one video
  (after a redelivery), two workers on two, a video overtaken by another. With
  two faults a redelivery can meet a crash or a lost acknowledgement.
- A repeated RPUSH leaves one extra copy per fault. Two suffice for two workers
  to hold the same job; further copies repeat that.
- `Limit` stands for 20 (comments, feed) and 50 (search), `TTL` for 30 seconds.
  A page of one row of two has rows that are pushed off it, which is what the
  limit does.
- `MaxFill` assumes a bound on the time between a feed request's SELECT and its
  SET; the code has none. `DeletedVideoLeaves` and `QuietFeedIsExact` are stated
  relative to it (`Horizon` = `TTL` + `MaxFill`): staleness exceeds the 30
  seconds by exactly that time.
- `Cap` stands for 50. Three requests against a cap of two (`filters_cap`) or one
  (`accounts`) exceed it by two; the theorems prove the bound for every cap.
- `MaxLeftover` bounds the videos of which a directory was not removed. No step
  reads `tmp` or `leftover`, so only `TmpDirsAccounted` depends on it. With 1 a
  removal may fail in any attempt, by any worker and repeatedly, while for the
  other video everything must be accounted for; it is 0 in the other runs of the
  pipeline, which do not speak of directories. `TmpCorrect` holds for every value.
- `Calls`: two calls of the admin routes at a time give a suspension whose record
  is due while another call suspends, unsuspends or deletes.
- `MaxComments`: two comments give an edited, a deleted, a displaced and a new
  one on a page of one.
- `AccessTTL` = 2 ticks stands for 15 minutes: a token can be young, half spent
  and gone, and a request can carry one across a tick. Three refresh tokens give
  a login and two refreshes of it, or two logins of which one is refreshed; two
  requests are what it takes to overlap, and between them any number of ticks may
  lie between a lookup and its signing. A second admin adds only a second name
  to `trail`, and the theorems hold for any number.
- `Voters` and `MaxVideos`: one voter and two videos with up to two tags each
  have every shape of the join: no tag, one, several, one shared.
- Deadlock checking is off where the system really stops: all requests of the
  instance are served and the workers wait in BRPOP for ever. It is on in
  `accounts`, `sessions`, `catalog` and `filters_cap`, where a step (a tick, a
  rename, another request) is always possible.
- Symmetry (videos and workers, users, tokens, requests and authors) only in
  safety runs; the refinements checked under it are safety properties too.

### Fairness

Weak fairness for the steps of each handler and of each worker: a goroutine that
can go on does, and `restart: unless-stopped` in `docker-compose` brings a dead
worker back. Crashes, lost replies, hangs, new requests and the branch a call
takes are never owed. A worker whose call hangs is not helped by fairness: that
is the code. The list is served newest first, so an old job waits as long as
newer ones arrive; in the instance uploads end. The other modules state no
fairness: their handlers are loops over no work that must be done.

## 4. Theorems

All are proved for every value of the constants, from the `ASSUME`s of the
modules: numbers are numbers, `MaxRetries`, `TTL`, `Limit`, `Cap` and `AccessTTL`
positive, null values outside the sets they stand beside, tokens and requests
apart, `LOWER` idempotent, concurrent additions finitely many; texts, tags, names,
keywords and search words are words over any letters, and `LOWER` neither takes
nor gives one of LIKE's special letters.

| theorem | statement | argument |
|---|---|---|
| `TypeCorrect` | `TypeOK` of the pipeline, and a worker holds a job exactly while it works on one (`HoldsJob`) | inductive together: the worker's actions index rows by `job[w]` |
| `OneJobCorrect` | without a redelivery there is one copy of a job, none once the row settled | `OneJobPerVideo` alone is not inductive: a handler could push a second copy. `Ownership` adds that a job exists only for an upload whose handler pushed it and that a row in the handler's hands is pending. `JobInv` = types + `Ownership` + `OneJobPerVideo` |
| `NoStrandedCorrect` | an accepted pending video has a job in the list or with a worker unless a fault took it | `JobsAccountedFor`: a job goes only when its row settles or it is recorded as lost; `NewlyQueued`: acceptance pushes the job |
| `LifecycleImplemented` | `Spec => LifecycleSpec` | initial states map, `RefinesStep`: every step is a step of the row's lifecycle or a stutter; by `HeldIsPending` a worker settles a pending or a redelivered row |
| `PolledOutcomeIsFinal` | a `processed` or `failed` answer is final unless the work was redelivered | from the refinement |
| `PollCorrect` | a poll reports `processed` exactly when it carries URLs | `SettledUrls`: the same of every row |
| `HostedCorrect` | a row with hosted URLs has both assets on Cloudinary | `AssetsBeforeUpdate`: a worker reaches the UPDATE with both uploads done |
| `TmpCorrect` | a worker's disk holds the directory of its job, those that deaths left and those whose removal failed | `TmpInv`: between attempts the directory is gone or its removal failed |
| `FeedTypeCorrect`, `DeletedVideoLeavesCorrect`, `QuietFeedCorrect`, `BustedFeedCorrect` | the four invariants of `FeedCache` | `Fresh(p, a)` says what holds of a page read at most `a` ticks ago: whoever left the feed did so no longer ago, if nothing moved for longer it is the feed, and it shows every exposed video. A request's page has its `age`; the key's page has the age `Horizon - ttl`, because a SET comes at most `MaxFill` ticks after its SELECT and the key expires before that age reaches `Horizon` |
| `UndisturbedToggleCorrect` | a toggle no other UPDATE overtook flips the switch | `ReadIsCurrent`: what an undisturbed toggle read is still true |
| `ClosedSectionCorrect` | a closed section takes comments only from requests checked before the closing, one each | `CheckedBefore` |
| `SimpleHits`, `PlainHits`, `PercentHits` (in `PatternsProofs`) | of `LIKE '%word%'`: without `%` and `\` it matches where the letters occur one after the other, `_` standing for any; without `_` too that is the partial, case-insensitive match of the documents; the word `%` matches everything | `Like` recurs over the pattern, and no induction over data is at hand. `Matched` writes down in closed form what the recursion yields for such a pattern; `MatchedSolves`: it solves the recursion; `SolutionUnique`: nothing else does, as of two solutions one takes the last letter at which they differ (`SmallestOf`, from the well-foundedness of the naturals) and finds that `Starts` depends on the letters after it only |
| `PlainKeywordsCorrect`, `PercentEmptiesPage` | while no keyword holds a special letter the page hides exactly the comments that contain one; one keyword `%` hides all of them | `PlainHits` and `PercentHits` for the rows and keywords of every reachable state |
| `PageCorrect` | a page holds at most `Limit` comments and leaves a visible one out only for `Limit` newer ones (`PageIsFull`) | `NewestOf`, a lemma about `ORDER BY .. LIMIT` on any finite set of rows: the oldest row on the page has fewer than `Limit` newer ones, the newest row left out has at least `Limit`, and those are all on the page |
| `FiltersImplemented` | the comment section implements `CommentFilters` | every step but `ChangeFilters` leaves the list alone |
| `CommentsTypeCorrect`, `AnswerCorrect` | types; an answer lies between what stayed on the page and what was ever on it | `Enclosed`: the histories of a read in flight enclose the page as it is now |
| `ListTypeCorrect`, `OvershootCorrect`, `ListedOnceCorrect` | of `CommentFilters`: types; the list exceeds the cap by less than the number of concurrent additions; no two rows are spellings of one keyword | the list and the requests that have counted are bounded together; `Folded`: stored keywords are in lower case |
| `SessionsTypeCorrect` | `TypeOK` of the service | with `RequestFits` and `RowsFit`: a request's token is one it read, of a user who has a row; a token in a row stems from a login |
| `ChainImplemented` | `Spec => ChainSpec`: for any number of overlapping refreshes and logouts a token has at most one successor for each request that read it open, and none before it is revoked | the claims on a token are the requests that hold it (`Holding`); each action is one of `TokenChain` or a stutter |
| `OneCarrierCorrect` | an undisturbed login is carried on by exactly one open token or one refresh under way | `OneCarrierPerLogin` is not inductive: `Alone` adds that in such a login nobody shares a request's token or has revoked it. The second request for a token is noticed when it reads the row, before it can store a second successor |
| `LeaseImplemented` (in `SessionsProofs`) | `Spec => LeaseSpec`, with `Standing` for `account` | a signing is no step of the lease: a token is granted when it reaches its client. Once nobody is left between lookup and signing, the life of every token under way and the time since add up to at most `AccessTTL` |
| `DeletedUserCorrect` | access has ended `AccessTTL` after the account was deleted and the last request that looked it up before has signed | from `LeaseImplemented` and `WithinLease`, `access + since <= AccessTTL`, which every behaviour of `AccessLease` keeps |
| `ListImplemented` | `Accounts` implements `CommentFilters` | every step is one of the list's or leaves it alone |
| `AccountsTypeCorrect`, `OvershootInAccounts`, `ListedOnceInAccounts` | the properties of the parts hold in the composition | the theorems of `CommentFiltersProofs`, instantiated and carried over by the refinement, not proved again |
| `SuspensionTraceableCorrect` | a suspended user is named by a record, or the record is due or was lost | inductive with `ModerationInv`; records are never removed |
| `DeletedOwnerDrainsCorrect`, `ModerationDrainsCorrect` | one token life after the account was closed nobody is let in for an owner's list, or (all admins closed) for moderation; every change uses up one of the requests let in before | `access + since <= AccessTTL` (the lemma `LeaseKept`, carried over by `LeaseImplemented`) closes the middleware. `Apart`: a request let in is not one that has counted, so each step of a change takes one away |
| `CatalogTypeCorrect`, `TagsCorrect` | types; a stored video has the tags of its upload but those whose statements failed | `TagsExplained` speaks of finished loops only. `Progress` says how far each has come: linked is what was requested and is neither still to do nor missed, the list has no tag twice, and between the two statements the tag's row exists |
| `SearchCorrect` | without special letters in the query, Search answers the newest processed videos whose uploader and tags contain the words | `Joined`: the LEFT JOIN has a row for every tag of a video, or one without; `FoundFit`: some row of a video satisfies the WHERE exactly if the video fits, by `PlainHits`. The LIMIT is then taken of the same set of videos |
| `MyVideosCorrect` | a user's list shows each video once, with the votes that the votes endpoint counts and all its tags | `ShownTags`: grouping gives the tags back; the votes of a group do not depend on the joined rows |

Only model-checked: `QueuedVideoSettles` (liveness under fairness is out of the
prover's reach), and the violations of section 5, which are counterexamples.
What `Like` computes for a word with `\`, or with `%` inside it, is proved nowhere:
no property speaks of it.

## 5. Findings

1. The worker takes the newest job: RPUSH and BRPop work on the same end
   (`video_handler.go:250`, `ffmpeg_worker.go:40`). The README and
   `docs/video-upload.md` say BLPOP.
2. Polling "until `status` is no longer `pending`" (`docs/unibuzz-api.md:320`)
   need not end: BRPop removes the job before it is done and nothing puts it
   back, and external calls have no deadline. The property counts a 404 as an end;
   in the trace the job is lost and every later poll finds the row pending.
3. The DEL after an upload does not make the video visible immediately
   (`video_handler.go:232`): a feed request in flight puts the old page back.
4. Two overlapping toggles flip once (`docs/comments.md:59`).
5. The cap of 50 filters is a COUNT followed by an INSERT (`docs/comments.md:143`).

Other differences between documents and code met on the way, without a run
(each can be read off one place of the code):

- uploads: the status is `processed`, not `complete` (`docs/unibuzz-api.md:351`),
  and may be `failed` (`docs/video.md:401` lists two values); after the last
  attempt the row is marked failed, not "dropped" (`docs/video-upload.md:60`),
  and the worker's UPDATE sets the status (`:110`); the endpoint `/enqueue`
  (`:24`) does not exist;
- comments are deleted by their author only, not "or an admin"
  (`docs/unibuzz-api.md:499`);
- a suspended or banned user logs in and refreshes like any other: `Login` and
  `Refresh` never look at the flags (`docs/unibuzz-api.md:674`), and elsewhere
  they are only displayed;
- of the administrative actions only a suspension is recorded (`README.md:333`
  says all): the INSERT of a video's deletion names a column that references
  `users` and fails its foreign key, and the other handlers have none;
- the middleware checks the role in the JWT, not `is_admin` of the row as the
  README's admin section says;
- a refresh token's expiry (7 days; `README.md:321` says 30) is stored and read
  by no query that runs; no route leads to `Refresh` or `Logout`
  (`docs/unibuzz-api.md:723` describes one);
- the `hashtags` of a search hit are those that matched, not all
  (`docs/unibuzz-api.md:386`); `GET /videos/:id/votes` needs a token (`:539` says
  none); keywords and search words are used as LIKE patterns, so `%` and `_` in
  them match more than a substring would.

## 6. Not modelled

- Reports: one validated INSERT into a table that only a list endpoint reads.
- Read-only endpoints of one statement whose answer nothing depends on: `GetMe`,
  `GetCommentFilters`, the admin's lists of users and reports.
- What the Cloudinary SDK returns for a refused upload: the code looks at the
  error only and never at `resp.Error`; the model takes every refusal as an
  error. Were it otherwise, a row could be processed with empty URLs.
- Generated queries that nothing calls; the Redis key `session:<id>` and the
  column `sessions.expires_at`, which nothing reads.
- Start-up, metrics, logging, dead code, formats and texts.

## 7. Plan

Written so far, in this order: `VideoLifecycle` and `VideoPipeline`, `FeedCache`,
`CommentFilters`, `Comments`, `TokenChain`, `AccessLease` and `Sessions`,
`Accounts`, `Patterns` and `Catalog`, with the proofs of section 4. Left:

1. A run that composes `Sessions` with `Comments`, should the code come to check
   `is_suspended` on its routes: at present no handler would behave differently.
2. `OvershootBounded` and `ListedOnce` inside `Comments`, from `FiltersImplemented`
   as in `Accounts`.
