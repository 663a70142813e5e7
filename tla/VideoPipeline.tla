---------------------------- MODULE VideoPipeline ----------------------------
(***************************************************************************)
(* The asynchronous upload pipeline: the upload handler of the API server  *)
(* (internal/handlers/video_handler.go), the Redis list "video_jobs" and   *)
(* the worker processes (internal/worker/ffmpeg_worker.go), over the       *)
(* `videos` rows and the Cloudinary assets they all write.                 *)
(*                                                                         *)
(* One upload request creates one row, so a request is named by its video. *)
(* Every database statement, Redis command and Cloudinary call is a step   *)
(* of its own: any process may be interleaved, or stop, between two of     *)
(* them.  A failing call may fail before or after it took effect.  The     *)
(* hashtag loop of the handler writes none of these variables.             *)
(***************************************************************************)
EXTENDS Naturals, Sequences, FiniteSets

CONSTANTS
    Videos,       \* row ids (also name the requests that create them)
    Workers,      \* worker processes
    MaxRetries,   \* maxRetries of the worker
    MaxFaults,    \* bound: crashes, lost replies and repeated commands
    MaxLeftover,  \* bound: videos with a directory that cannot be removed
    NoJob         \* a worker holds no job

ASSUME PipelineAssumption ==
    /\ MaxRetries \in Nat \ {0}
    /\ MaxFaults \in Nat
    /\ MaxLeftover \in Nat
    /\ NoJob \notin Videos

VARIABLES
    status,       \* videos.status, "absent" before the INSERT
    urls,         \* video_url and thumbnail_url: both null, or who wrote them
    deleted,      \* videos with deleted_at set
    upload,       \* where the upload handler of the video stands
    origin,       \* what the resolved input_url is
    queue,        \* Redis list "video_jobs", the tail is the last element
    wpc,          \* where a worker stands
    job,          \* the job a worker holds
    attempt,      \* loop variable of processWithRetry
    tmp,          \* directories ./tmp/<video_id> on a worker's disk
    assets,       \* Cloudinary: <<video, kind>> uploaded under unibuzz/
    leftover,     \* history: videos a directory of which was not removed
    lost,         \* history: videos a job of which a fault took
    redelivered,  \* history: videos whose work was delivered twice
    faults        \* history: faults so far

rowVars == <<status, urls, deleted>>
handlerVars == <<upload, origin>>
disk == <<tmp, leftover>>
workerVars == <<wpc, job, attempt, disk>>
history == <<lost, redelivered, faults>>
vars == <<rowVars, handlerVars, queue, workerVars, assets, history>>

Terminal == {"processed", "failed"}
Statuses == {"absent", "pending"} \cup Terminal
UrlStates == {"null", "direct", "hosted"}
HandlerPhases == {"idle", "inserted", "updated", "processed", "queued",
                  "error", "aborted"}
InFlight == {"inserted", "updated"}
Pipeline == {"mkdir", "thumbnail", "uploadVideo", "uploadThumb", "dbUpdate"}
WorkerPhases == {"listening", "backoff", "hung", "down"} \cup Pipeline
Assets == Videos \X {"video", "thumbnail"}

TypeOK ==
    /\ status \in [Videos -> Statuses]
    /\ urls \in [Videos -> UrlStates]
    /\ deleted \subseteq Videos
    /\ upload \in [Videos -> HandlerPhases]
    /\ origin \in [Videos -> {"none", "cloudinary", "external"}]
    /\ queue \in Seq(Videos)
    /\ wpc \in [Workers -> WorkerPhases]
    /\ job \in [Workers -> Videos \cup {NoJob}]
    /\ attempt \in [Workers -> 0..MaxRetries]
    /\ tmp \in [Workers -> SUBSET Videos]
    /\ assets \subseteq Assets
    /\ leftover \subseteq Videos
    /\ lost \subseteq Videos
    /\ redelivered \subseteq Videos
    /\ faults \in 0..MaxFaults

Init ==
    /\ status = [v \in Videos |-> "absent"]
    /\ urls = [v \in Videos |-> "null"]
    /\ deleted = {}
    /\ upload = [v \in Videos |-> "idle"]
    /\ origin = [v \in Videos |-> "none"]
    /\ queue = <<>>
    /\ wpc = [w \in Workers |-> "listening"]
    /\ job = [w \in Workers |-> NoJob]
    /\ attempt = [w \in Workers |-> 0]
    /\ tmp = [w \in Workers |-> {}]
    /\ assets = {}
    /\ leftover = {}
    /\ lost = {}
    /\ redelivered = {}
    /\ faults = 0

\* A fault happens in this step.
Fault == faults < MaxFaults /\ faults' = faults + 1

\* A video has a job in the list, or a worker holds one.
InQueue(v) == \E i \in DOMAIN queue : queue[i] = v
Held(v) == \E w \in Workers : job[w] = v

-----------------------------------------------------------------------------
(* Mutated forms of the definitions below, each a bug this code could have: *)
(* the runs must tell them from the real ones.                              *)

\* The handler answers 202 without looking at RPUSH's error.
PushJobIgnoringError(v) ==
    /\ upload[v] = "inserted"
    /\ origin[v] = "external"
    /\ queue' \in {queue, Append(queue, v)}
    /\ upload' = [upload EXCEPT ![v] = "queued"]
    /\ UNCHANGED <<rowVars, origin, workerVars, assets, history>>

\* The job is read from the list and stays in it (LINDEX for BRPOP).
PeekJob(w) ==
    /\ wpc[w] = "listening"
    /\ queue # <<>>
    /\ job' = [job EXCEPT ![w] = queue[Len(queue)]]
    /\ attempt' = [attempt EXCEPT ![w] = 1]
    /\ wpc' = [wpc EXCEPT ![w] = "mkdir"]
    /\ UNCHANGED <<rowVars, handlerVars, queue, disk, assets, history>>

\* The working directory is not removed when an attempt fails.
FailAttemptKeepingTmp(w) ==
    /\ wpc' = [wpc EXCEPT ![w] = "backoff"]
    /\ UNCHANGED <<job, attempt, disk>>

\* The error of the thumbnail upload is dropped.
UploadThumbnailIgnoringError(w) ==
    /\ wpc[w] = "uploadThumb"
    /\ assets' \in {assets, assets \cup {<<job[w], "thumbnail">>}}
    /\ wpc' = [wpc EXCEPT ![w] = "dbUpdate"]
    /\ UNCHANGED <<rowVars, handlerVars, queue, job, attempt, disk, history>>

\* processWithRetry does not return on success.
UpdateProcessedAndRetry(w) ==
    /\ wpc[w] = "dbUpdate"
    /\ status' = [status EXCEPT ![job[w]] = "processed"]
    /\ urls' = [urls EXCEPT ![job[w]] = "hosted"]
    /\ wpc' = [wpc EXCEPT ![w] = "backoff"]
    /\ UNCHANGED <<deleted, handlerVars, queue, job, attempt, disk, assets, history>>

\* The UPDATE of docs/video-upload.md, which leaves the status alone.
UpdateUrlsOnly(w) ==
    /\ wpc[w] = "dbUpdate"
    /\ urls' = [urls EXCEPT ![job[w]] = "hosted"]
    /\ wpc' = [wpc EXCEPT ![w] = "listening"]
    /\ job' = [job EXCEPT ![w] = NoJob]
    /\ attempt' = [attempt EXCEPT ![w] = 0]
    /\ tmp' = [tmp EXCEPT ![w] = @ \ {job[w]}]
    /\ UNCHANGED <<leftover, status, deleted, handlerVars, queue, assets, history>>

\* One attempt too many.
RetryOnceMore(w) ==
    /\ wpc[w] = "backoff"
    /\ attempt[w] <= MaxRetries
    /\ attempt' = [attempt EXCEPT ![w] = @ + 1]
    /\ wpc' = [wpc EXCEPT ![w] = "mkdir"]
    /\ UNCHANGED <<rowVars, handlerVars, queue, job, disk, assets, history>>

\* The job is dropped after the last attempt and the row is left alone.
DropJob(w) ==
    /\ wpc[w] = "backoff"
    /\ attempt[w] = MaxRetries
    /\ wpc' = [wpc EXCEPT ![w] = "listening"]
    /\ job' = [job EXCEPT ![w] = NoJob]
    /\ attempt' = [attempt EXCEPT ![w] = 0]
    /\ UNCHANGED <<rowVars, handlerVars, queue, disk, assets, history>>

-----------------------------------------------------------------------------
(* The upload handler.                                                     *)

\* The kinds of input_url the handler tells apart: "cloudinary" contains
\* cloudinary.com, "embed" is a player.cloudinary.com/embed/ page.
URLKinds == {"missing", "malformed", "embedIncomplete", "embed",
             "cloudinary", "external"}

ResolveVideoURL(url) ==
    CASE url = "embed" -> "cloudinary"
      [] url \in {"malformed", "embedIncomplete"} -> "error"
      [] OTHER -> url

\* Every check before the INSERT; a request that fails one leaves no trace.
Admissible(request) ==
    /\ request.url # "missing"
    /\ ResolveVideoURL(request.url) # "error"
    /\ request.email = "std.must.ac.ug"
    /\ ~request.tooManyTags

Requests == [url: URLKinds, email: {"std.must.ac.ug", "other", "noAccount"},
             tooManyTags: BOOLEAN]

\* INSERT INTO videos ... 'pending' RETURNING id.
InsertVideo(v, request) ==
    /\ upload[v] = "idle"
    /\ Admissible(request)
    /\ origin' = [origin EXCEPT ![v] = ResolveVideoURL(request.url)]
    /\ \/ /\ status' = [status EXCEPT ![v] = "pending"]
          /\ upload' = [upload EXCEPT ![v] = "inserted"]
       \/ /\ status' \in {status, [status EXCEPT ![v] = "pending"]}
          /\ upload' = [upload EXCEPT ![v] = "error"]
    /\ UNCHANGED <<urls, deleted, queue, workerVars, assets, history>>

\* A Cloudinary URL skips the queue: UPDATE ... status = 'processed'.
UpdateHostedRow(v) ==
    /\ upload[v] = "inserted"
    /\ origin[v] = "cloudinary"
    /\ \/ /\ status' = [status EXCEPT ![v] = "processed"]
          /\ urls' = [urls EXCEPT ![v] = "direct"]
          /\ upload' \in {[upload EXCEPT ![v] = "updated"],
                          [upload EXCEPT ![v] = "error"]}
       \/ /\ upload' = [upload EXCEPT ![v] = "error"]
          /\ UNCHANGED <<status, urls>>
    /\ UNCHANGED <<deleted, origin, queue, workerVars, assets, history>>

\* DEL feed:v2:latest (its error is ignored), then 202 "processed".
BustFeedCache(v) ==
    /\ upload[v] = "updated"
    /\ upload' = [upload EXCEPT ![v] = "processed"]
    /\ UNCHANGED <<rowVars, origin, queue, workerVars, assets, history>>

\* RPUSH video_jobs.  An error answers 500 whether or not Redis executed the
\* command; the Redis client repeats a command whose reply it lost (once is
\* enough to have two copies, a bound).
PushJob(v) ==
    /\ upload[v] = "inserted"
    /\ origin[v] = "external"
    /\ \/ /\ queue' = Append(queue, v)
          /\ upload' = [upload EXCEPT ![v] = "queued"]
          /\ UNCHANGED history
       \/ /\ queue' \in {queue, Append(queue, v)}
          /\ upload' = [upload EXCEPT ![v] = "error"]
          /\ UNCHANGED history
       \/ /\ Fault
          /\ queue' = Append(Append(queue, v), v)
          /\ upload' \in {[upload EXCEPT ![v] = "queued"],
                          [upload EXCEPT ![v] = "error"]}
          /\ redelivered' = redelivered \cup {v}
          /\ UNCHANGED lost
    /\ UNCHANGED <<rowVars, origin, workerVars, assets>>

\* The API process dies and restarts: every request in flight is gone.
ServerCrash ==
    /\ \E v \in Videos : upload[v] \in InFlight
    /\ Fault
    /\ upload' = [v \in Videos |->
                     IF upload[v] \in InFlight THEN "aborted" ELSE upload[v]]
    /\ UNCHANGED <<rowVars, origin, queue, workerVars, assets, lost, redelivered>>

\* DELETE /admin/videos/:id sets deleted_at whatever the row's status.
AdminDeleteVideo(v) ==
    /\ status[v] # "absent"
    /\ deleted' = deleted \cup {v}
    /\ UNCHANGED <<status, urls, handlerVars, queue, workerVars, assets, history>>

-----------------------------------------------------------------------------
(* The worker.                                                             *)

\* A worker that waits in BRPOP holds nothing.
Listen(w) ==
    /\ wpc' = [wpc EXCEPT ![w] = "listening"]
    /\ job' = [job EXCEPT ![w] = NoJob]
    /\ attempt' = [attempt EXCEPT ![w] = 0]

\* The deferred os.RemoveAll, whose error is dropped.
RemoveTmpDir(w) ==
    \/ /\ tmp' = [tmp EXCEPT ![w] = @ \ {job[w]}]
       /\ UNCHANGED leftover
    \/ /\ Cardinality(leftover \cup {job[w]}) <= MaxLeftover
       /\ leftover' = leftover \cup {job[w]}
       /\ UNCHANGED tmp

\* processVideo returns an error after the directory was made; the retry loop
\* sleeps.
FailAttempt(w) ==
    /\ wpc' = [wpc EXCEPT ![w] = "backoff"]
    /\ RemoveTmpDir(w)
    /\ UNCHANGED <<job, attempt>>

\* BRPOP video_jobs removes the tail, the end RPUSH appends to.
PopJob(w) ==
    /\ wpc[w] = "listening"
    /\ queue # <<>>
    /\ job' = [job EXCEPT ![w] = queue[Len(queue)]]
    /\ queue' = SubSeq(queue, 1, Len(queue) - 1)
    /\ attempt' = [attempt EXCEPT ![w] = 1]
    /\ wpc' = [wpc EXCEPT ![w] = "mkdir"]
    /\ UNCHANGED <<rowVars, handlerVars, disk, assets, history>>

\* Redis removes the element and the reply is lost: BRPOP returns an error,
\* the worker logs it and listens again.
LoseReply(w) ==
    /\ wpc[w] = "listening"
    /\ queue # <<>>
    /\ Fault
    /\ lost' = lost \cup {queue[Len(queue)]}
    /\ queue' = SubSeq(queue, 1, Len(queue) - 1)
    /\ UNCHANGED <<rowVars, handlerVars, workerVars, assets, redelivered>>

\* os.MkdirAll; its error returns before the RemoveAll is deferred.
MakeTmpDir(w) ==
    /\ wpc[w] = "mkdir"
    /\ \/ /\ tmp' = [tmp EXCEPT ![w] = @ \cup {job[w]}]
          /\ wpc' = [wpc EXCEPT ![w] = "thumbnail"]
       \/ /\ wpc' = [wpc EXCEPT ![w] = "backoff"]
          /\ UNCHANGED tmp
    /\ UNCHANGED <<rowVars, handlerVars, queue, job, attempt, leftover, assets, history>>

\* ffmpeg grabs the frame at one second.
GenerateThumbnail(w) ==
    /\ wpc[w] = "thumbnail"
    /\ \/ /\ wpc' = [wpc EXCEPT ![w] = "uploadVideo"]
          /\ UNCHANGED <<job, attempt, disk>>
       \/ FailAttempt(w)
    /\ UNCHANGED <<rowVars, handlerVars, queue, assets, history>>

\* Cloudinary fetches the input URL; an error may follow a done upload.
UploadVideoAsset(w) ==
    /\ wpc[w] = "uploadVideo"
    /\ \/ /\ assets' = assets \cup {<<job[w], "video">>}
          /\ wpc' = [wpc EXCEPT ![w] = "uploadThumb"]
          /\ UNCHANGED <<job, attempt, disk>>
       \/ /\ assets' \in {assets, assets \cup {<<job[w], "video">>}}
          /\ FailAttempt(w)
    /\ UNCHANGED <<rowVars, handlerVars, queue, history>>

UploadThumbnail(w) ==
    /\ wpc[w] = "uploadThumb"
    /\ \/ /\ assets' = assets \cup {<<job[w], "thumbnail">>}
          /\ wpc' = [wpc EXCEPT ![w] = "dbUpdate"]
          /\ UNCHANGED <<job, attempt, disk>>
       \/ /\ assets' \in {assets, assets \cup {<<job[w], "thumbnail">>}}
          /\ FailAttempt(w)
    /\ UNCHANGED <<rowVars, handlerVars, queue, history>>

\* UPDATE videos SET video_url, thumbnail_url, status = 'processed'.  When
\* the acknowledgement is lost the attempt counts as failed.
UpdateProcessed(w) ==
    /\ wpc[w] = "dbUpdate"
    /\ \/ /\ status' = [status EXCEPT ![job[w]] = "processed"]
          /\ urls' = [urls EXCEPT ![job[w]] = "hosted"]
          /\ Listen(w)
          /\ RemoveTmpDir(w)
          /\ UNCHANGED history
       \/ /\ FailAttempt(w)
          /\ UNCHANGED <<status, urls, history>>
       \/ /\ Fault
          /\ status' = [status EXCEPT ![job[w]] = "processed"]
          /\ urls' = [urls EXCEPT ![job[w]] = "hosted"]
          /\ redelivered' = redelivered \cup {job[w]}
          /\ FailAttempt(w)
          /\ UNCHANGED lost
    /\ UNCHANGED <<deleted, handlerVars, queue, assets>>

\* The sleep ends and the loop starts over.
Retry(w) ==
    /\ wpc[w] = "backoff"
    /\ attempt[w] < MaxRetries
    /\ attempt' = [attempt EXCEPT ![w] = @ + 1]
    /\ wpc' = [wpc EXCEPT ![w] = "mkdir"]
    /\ UNCHANGED <<rowVars, handlerVars, queue, job, disk, assets, history>>

\* After the last attempt: UPDATE videos SET status = 'failed'; an error of
\* this statement is only logged.
MarkFailed(w) ==
    /\ wpc[w] = "backoff"
    /\ attempt[w] = MaxRetries
    /\ \/ /\ status' = [status EXCEPT ![job[w]] = "failed"]
          /\ UNCHANGED lost
       \/ /\ lost' = lost \cup {job[w]}
          /\ UNCHANGED status
    /\ Listen(w)
    /\ UNCHANGED <<urls, deleted, handlerVars, queue, disk, assets,
                   redelivered, faults>>

\* ffmpeg and the uploads run under context.Background(): the worker gives
\* them no deadline.
Hang(w) ==
    /\ wpc[w] \in {"thumbnail", "uploadVideo", "uploadThumb"}
    /\ wpc' = [wpc EXCEPT ![w] = "hung"]
    /\ UNCHANGED <<rowVars, handlerVars, queue, job, attempt, disk, assets, history>>

\* The process dies and takes what it held with it.
Die(w) ==
    /\ Fault
    /\ wpc' = [wpc EXCEPT ![w] = "down"]
    /\ job' = [job EXCEPT ![w] = NoJob]
    /\ attempt' = [attempt EXCEPT ![w] = 0]
    /\ lost' = lost \cup ({job[w]} \ {NoJob})

\* The popped job is in no list, its directory stays.
WorkerCrash(w) ==
    /\ wpc[w] # "down"
    /\ Die(w)
    /\ UNCHANGED <<rowVars, handlerVars, queue, disk, assets, redelivered>>

\* The process dies between the UPDATE and the deferred RemoveAll.
CrashAfterUpdate(w) ==
    /\ wpc[w] = "dbUpdate"
    /\ status' = [status EXCEPT ![job[w]] = "processed"]
    /\ urls' = [urls EXCEPT ![job[w]] = "hosted"]
    /\ Die(w)
    /\ UNCHANGED <<deleted, handlerVars, queue, disk, assets, redelivered>>

\* restart: unless-stopped
WorkerRestart(w) ==
    /\ wpc[w] = "down"
    /\ Listen(w)
    /\ UNCHANGED <<rowVars, handlerVars, queue, disk, assets, history>>

-----------------------------------------------------------------------------
HandlerStep(v) == UpdateHostedRow(v) \/ BustFeedCache(v) \/ PushJob(v)

WorkerStep(w) ==
    \/ PopJob(w) \/ MakeTmpDir(w) \/ GenerateThumbnail(w)
    \/ UploadVideoAsset(w) \/ UploadThumbnail(w) \/ UpdateProcessed(w)
    \/ Retry(w) \/ MarkFailed(w) \/ WorkerRestart(w)

Next ==
    \/ \E v \in Videos :
          \/ \E request \in Requests : InsertVideo(v, request)
          \/ HandlerStep(v)
          \/ AdminDeleteVideo(v)
    \/ \E w \in Workers :
          \/ WorkerStep(w)
          \/ LoseReply(w) \/ Hang(w) \/ WorkerCrash(w) \/ CrashAfterUpdate(w)
    \/ ServerCrash

Spec == Init /\ [][Next]_vars

\* A handler and a worker that can go on do so; crashes, lost replies, hangs
\* and new requests are never owed.
FairSpec ==
    /\ Spec
    /\ \A v \in Videos : WF_vars(HandlerStep(v))
    /\ \A w \in Workers : WF_vars(WorkerStep(w))

-----------------------------------------------------------------------------
(* Properties.                                                             *)

\* GET /api/videos/:id/status
PollStatus(v) ==
    IF status[v] = "absent" \/ v \in deleted
    THEN [found |-> FALSE]
    ELSE [found |-> TRUE, status |-> status[v], urls |-> urls[v]]

\* A poll answers "processed" exactly when it carries the URLs, as the API
\* guide promises, unless the work was redelivered.
PollMatchesUrls ==
    \A v \in Videos : LET answer == PollStatus(v) IN
        answer.found /\ v \notin redelivered
            => (answer.status = "processed" <=> answer.urls # "null")

\* A row that points into unibuzz/ on Cloudinary has both assets there,
\* whatever attempts failed before and whoever else works on the video.
HostedUrlsExist ==
    \A v \in Videos :
        urls[v] = "hosted" => {<<v, "video">>, <<v, "thumbnail">>} \subseteq assets

\* A video accepted for processing is never silently stranded: while it is
\* pending a job for it waits or is worked on, unless a crash, a lost reply
\* or a failed last UPDATE took the job.
NoStrandedVideo ==
    \A v \in Videos :
        upload[v] = "queued" /\ status[v] = "pending"
            => InQueue(v) \/ Held(v) \/ v \in lost

\* Without a redelivery there is one copy of a job, in the list or with one
\* worker, none before the handler pushed it and none once the row settled.
OneJobPerVideo ==
    \A v \in Videos : v \notin redelivered =>
        /\ \A i, j \in DOMAIN queue : queue[i] = v /\ queue[j] = v => i = j
        /\ \A w, x \in Workers : job[w] = v /\ job[x] = v => w = x
        /\ ~(InQueue(v) /\ Held(v))
        /\ status[v] \in Terminal => ~InQueue(v) /\ ~Held(v)

\* A worker's disk keeps the directory of its current job only; others are
\* left by crashes and by removals that failed, of whatever attempt.
TmpDirsAccounted ==
    \A w \in Workers : tmp[w] \subseteq {job[w]} \cup lost \cup leftover

\* The rows behave as VideoLifecycle promises.
Lifecycle == INSTANCE VideoLifecycle
LifecycleSpec == Lifecycle!Spec

\* An accepted video settles once uploads stop, unless its job vanished, its
\* own worker hangs or every worker hangs: one hung worker delays no other.
QueuedVideoSettles ==
    \A v \in Videos :
        upload[v] = "queued"
            ~> \/ status[v] \in Terminal
               \/ v \in lost
               \/ \E w \in Workers : job[w] = v /\ wpc[w] = "hung"
               \/ \A w \in Workers : wpc[w] = "hung"

\* README.md:299 "Listens with BLPOP": with RPUSH, the oldest job goes first.
OldestJobFirst ==
    [][\A w \in Workers :
          wpc[w] = "listening" /\ wpc'[w] = "mkdir"
              => job'[w] = Head(queue)]_vars

\* What the client that was answered "queued" polls for.
Polled(v) == PollStatus(v).found /\ PollStatus(v).status = "pending"

\* docs/unibuzz-api.md:320: poll "until status is no longer pending".  The
\* poll also ends when the video is not found any more.
PendingEnds ==
    \A v \in Videos : upload[v] = "queued" ~> ~Polled(v)
=============================================================================
