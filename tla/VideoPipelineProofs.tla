------------------------ MODULE VideoPipelineProofs ------------------------
(***************************************************************************)
(* Theorems about VideoPipeline, for any set of videos and workers and any *)
(* number of retries and faults.                                           *)
(***************************************************************************)
EXTENDS VideoPipeline, SequenceTheorems, TLAPS

(* What RPUSH and BRPOP do to a list.                                      *)
LEMMA PushedTail ==
    ASSUME NEW S, NEW q \in Seq(S), NEW x \in S
    PROVE  /\ Append(q, x) \in Seq(S)
           /\ Len(Append(q, x)) = Len(q) + 1
           /\ Append(q, x)[Len(q) + 1] = x
           /\ \A i \in 1..Len(q) : Append(q, x)[i] = q[i]
OBVIOUS

LEMMA PoppedTail ==
    ASSUME NEW S, NEW q \in Seq(S), q # <<>>
    PROVE  /\ q[Len(q)] \in S
           /\ Len(q) \in Nat \ {0}
           /\ SubSeq(q, 1, Len(q) - 1) \in Seq(S)
           /\ Len(SubSeq(q, 1, Len(q) - 1)) = Len(q) - 1
           /\ \A i \in 1..(Len(q) - 1) : SubSeq(q, 1, Len(q) - 1)[i] = q[i]
<1> DEFINE n == Len(q) - 1
           T == SubSeq(q, 1, n)
<1>1. Len(q) \in Nat \ {0} /\ n \in Nat /\ \A i \in 1..Len(q) : q[i] \in S
  OBVIOUS
<1>2. \A i \in 1..n : q[i] \in S
  BY <1>1
<1>3. /\ T \in Seq(S)
      /\ Len(T) = IF 1 <= n THEN n - 1 + 1 ELSE 0
      /\ \A i \in 1..(n - 1 + 1) : T[i] = q[1 + i - 1]
  <2> HIDE DEF n
  <2> QED BY <1>1, <1>2, SubSeqProperties
<1>4. Len(T) = n /\ \A i \in 1..n : T[i] = q[i]
  <2> HIDE DEF n, T
  <2> QED BY <1>1, <1>3
<1> QED
  BY <1>1, <1>3, <1>4

-----------------------------------------------------------------------------
(* Type correctness.                                                       *)

\* A worker that is past BRPOP holds the job of a video.
HoldsJob == \A w \in Workers : job[w] = NoJob <=> wpc[w] \in {"listening", "down"}

TypeInv == TypeOK /\ HoldsJob

\* The part of TypeInv about the workers.
WorkerTypes ==
    /\ wpc \in [Workers -> WorkerPhases]
    /\ job \in [Workers -> Videos \cup {NoJob}]
    /\ attempt \in [Workers -> 0..MaxRetries]
    /\ tmp \in [Workers -> SUBSET Videos]
    /\ leftover \subseteq Videos
    /\ HoldsJob

LEMMA Working ==
    ASSUME TypeInv, NEW w \in Workers, wpc[w] \notin {"listening", "down"}
    PROVE  /\ job[w] \in Videos
           /\ tmp[w] \in SUBSET Videos
           /\ <<job[w], "video">> \in Assets /\ <<job[w], "thumbnail">> \in Assets
BY DEF TypeInv, TypeOK, HoldsJob, Assets

LEMMA RemoveTypes ==
    ASSUME TypeInv, NEW w \in Workers, job[w] \in Videos, RemoveTmpDir(w)
    PROVE  tmp' \in [Workers -> SUBSET Videos] /\ leftover' \subseteq Videos
BY DEF RemoveTmpDir, TypeInv, TypeOK

LEMMA FailAttemptTypes ==
    ASSUME TypeInv, NEW w \in Workers, wpc[w] \in Pipeline, FailAttempt(w)
    PROVE  WorkerTypes'
<1>1. tmp' \in [Workers -> SUBSET Videos] /\ leftover' \subseteq Videos
  <2>1. wpc[w] \notin {"listening", "down"}
    BY DEF Pipeline
  <2> QED
    BY <2>1, Working, RemoveTypes DEF FailAttempt
<1>2. wpc' \in [Workers -> WorkerPhases]
  BY DEF FailAttempt, TypeInv, TypeOK, WorkerPhases
<1>3. HoldsJob'
  BY DEF FailAttempt, TypeInv, TypeOK, HoldsJob, Pipeline
<1> QED
  BY <1>1, <1>2, <1>3 DEF FailAttempt, TypeInv, TypeOK, WorkerTypes

LEMMA ListenTypes ==
    ASSUME TypeInv, NEW w \in Workers, Listen(w),
           tmp' \in [Workers -> SUBSET Videos], leftover' \subseteq Videos
    PROVE  WorkerTypes'
<1>1. wpc' \in [Workers -> WorkerPhases] /\ job' \in [Workers -> Videos \cup {NoJob}]
  BY DEF Listen, TypeInv, TypeOK, WorkerPhases
<1>2. attempt' \in [Workers -> 0..MaxRetries]
  BY PipelineAssumption DEF Listen, TypeInv, TypeOK
<1>3. HoldsJob'
  BY DEF Listen, TypeInv, TypeOK, HoldsJob
<1> QED
  BY <1>1, <1>2, <1>3 DEF WorkerTypes

LEMMA TypeStep == TypeInv /\ [Next]_vars => TypeInv'
<1> SUFFICES ASSUME TypeInv, [Next]_vars PROVE TypeInv'
    OBVIOUS
<1> USE PipelineAssumption DEF TypeInv, HoldsJob, disk
<1>1. ASSUME NEW v \in Videos, NEW request \in Requests, InsertVideo(v, request)
      PROVE  TypeInv'
  <2>1. ResolveVideoURL(request.url) \in {"cloudinary", "external"}
    BY <1>1 DEF InsertVideo, Admissible, ResolveVideoURL, Requests, URLKinds
  <2>2. /\ status' \in [Videos -> Statuses] /\ upload' \in [Videos -> HandlerPhases]
        /\ origin' \in [Videos -> {"none", "cloudinary", "external"}]
    <3> HIDE DEF HoldsJob
    <3> QED
      BY <1>1, <2>1 DEF InsertVideo, TypeOK, Statuses, HandlerPhases
  <2> QED
    BY <1>1, <2>2 DEF InsertVideo, TypeOK, workerVars, history
<1>2. ASSUME NEW v \in Videos, UpdateHostedRow(v) PROVE TypeInv'
  <2>1. upload' \in [Videos -> HandlerPhases]
    <3> HIDE DEF HoldsJob
    <3> QED
      BY <1>2 DEF UpdateHostedRow, TypeOK, HandlerPhases
  <2>2. status' \in [Videos -> Statuses] /\ urls' \in [Videos -> UrlStates]
    <3> HIDE DEF HoldsJob, disk
    <3>1. status' \in [Videos -> Statuses]
      BY <1>2 DEF UpdateHostedRow, TypeOK, Statuses, Terminal
    <3>2. urls' \in [Videos -> UrlStates]
      BY <1>2 DEF UpdateHostedRow, TypeOK, UrlStates
    <3> QED
      BY <3>1, <3>2
  <2> QED
    BY <1>2, <2>1, <2>2 DEF UpdateHostedRow, TypeOK, workerVars, history
<1>3. ASSUME NEW v \in Videos, BustFeedCache(v) PROVE TypeInv'
  BY <1>3 DEF BustFeedCache, TypeOK, HandlerPhases, rowVars, workerVars, history
<1>4. ASSUME NEW v \in Videos, PushJob(v) PROVE TypeInv'
  <2>1. /\ Append(queue, v) \in Seq(Videos)
        /\ Append(Append(queue, v), v) \in Seq(Videos)
    BY PushedTail DEF TypeOK
  <2>2. upload' \in [Videos -> HandlerPhases]
    BY <1>4 DEF PushJob, TypeOK, HandlerPhases
  <2>3. lost' \subseteq Videos /\ redelivered' \subseteq Videos /\ faults' \in 0..MaxFaults
    BY <1>4 DEF PushJob, Fault, TypeOK, history
  <2> QED
    BY <1>4, <2>1, <2>2, <2>3 DEF PushJob, TypeOK, rowVars, workerVars
<1>5. ASSUME NEW v \in Videos, AdminDeleteVideo(v) PROVE TypeInv'
  BY <1>5 DEF AdminDeleteVideo, TypeOK, handlerVars, workerVars, history
<1>6. ASSUME NEW w \in Workers, PopJob(w) PROVE TypeInv'
  <2>1. /\ queue[Len(queue)] \in Videos
        /\ SubSeq(queue, 1, Len(queue) - 1) \in Seq(Videos)
    BY <1>6, PoppedTail DEF TypeOK, PopJob
  <2> QED
    BY <1>6, <2>1 DEF PopJob, TypeOK, WorkerPhases, Pipeline, rowVars, handlerVars, history
<1>7. ASSUME NEW w \in Workers, MakeTmpDir(w) PROVE TypeInv'
  <2>1. wpc' \in [Workers -> WorkerPhases] /\ job' = job /\ HoldsJob'
    BY <1>7 DEF MakeTmpDir, TypeOK, WorkerPhases, Pipeline
  <2>2. job[w] \in Videos
    BY <1>7, Working DEF MakeTmpDir
  <2>3. tmp' \in [Workers -> SUBSET Videos]
    <3> HIDE DEF HoldsJob
    <3> QED
      BY <1>7, <2>2 DEF MakeTmpDir, TypeOK
  <2> QED
    BY <1>7, <2>1, <2>3 DEF MakeTmpDir, TypeOK, rowVars, handlerVars, history
<1>8. ASSUME NEW w \in Workers, GenerateThumbnail(w) PROVE TypeInv'
  <2>1. CASE FailAttempt(w)
    BY <1>8, <2>1, FailAttemptTypes
       DEF GenerateThumbnail, Pipeline, WorkerTypes, TypeOK, rowVars, handlerVars, history
  <2>2. CASE UNCHANGED <<job, attempt, disk>>
    BY <1>8, <2>2
       DEF GenerateThumbnail, FailAttempt, TypeOK, WorkerPhases, Pipeline,
           rowVars, handlerVars, history
  <2> QED
    BY <1>8, <2>1, <2>2 DEF GenerateThumbnail
<1>9. ASSUME NEW w \in Workers, UploadVideoAsset(w) PROVE TypeInv'
  <2>1. assets' \subseteq Assets
    <3>1. <<job[w], "video">> \in Assets
      BY <1>9, Working DEF UploadVideoAsset
    <3> HIDE DEF HoldsJob
    <3> QED
      BY <1>9, <3>1 DEF UploadVideoAsset, TypeOK
  <2>2. CASE FailAttempt(w)
    BY <1>9, <2>1, <2>2, FailAttemptTypes
       DEF UploadVideoAsset, Pipeline, WorkerTypes, TypeOK, rowVars, handlerVars, history
  <2>3. CASE UNCHANGED <<job, attempt, disk>>
    BY <1>9, <2>1, <2>2, <2>3
       DEF UploadVideoAsset, FailAttempt, TypeOK, WorkerPhases, Pipeline, rowVars, handlerVars, history
  <2> QED
    BY <1>9, <2>2, <2>3 DEF UploadVideoAsset
<1>10. ASSUME NEW w \in Workers, UploadThumbnail(w) PROVE TypeInv'
  <2>1. assets' \subseteq Assets
    <3>1. <<job[w], "thumbnail">> \in Assets
      BY <1>10, Working DEF UploadThumbnail
    <3> HIDE DEF HoldsJob
    <3> QED
      BY <1>10, <3>1 DEF UploadThumbnail, TypeOK
  <2>2. CASE FailAttempt(w)
    BY <1>10, <2>1, <2>2, FailAttemptTypes
       DEF UploadThumbnail, Pipeline, WorkerTypes, TypeOK, rowVars, handlerVars, history
  <2>3. CASE UNCHANGED <<job, attempt, disk>>
    BY <1>10, <2>1, <2>2, <2>3
       DEF UploadThumbnail, FailAttempt, TypeOK, WorkerPhases, Pipeline, rowVars, handlerVars, history
  <2> QED
    BY <1>10, <2>2, <2>3 DEF UploadThumbnail
<1>11. ASSUME NEW w \in Workers, UpdateProcessed(w) PROVE TypeInv'
  <2>1. job[w] \in Videos
    BY <1>11, Working DEF UpdateProcessed
  <2>2. status' \in [Videos -> Statuses] /\ urls' \in [Videos -> UrlStates]
    BY <1>11 DEF UpdateProcessed, TypeOK, Statuses, Terminal, UrlStates
  <2>3. lost' \subseteq Videos /\ redelivered' \subseteq Videos /\ faults' \in 0..MaxFaults
    BY <1>11, <2>1 DEF UpdateProcessed, Fault, TypeOK, history
  <2>4. CASE FailAttempt(w)
    BY <1>11, <2>2, <2>3, <2>4, FailAttemptTypes
       DEF UpdateProcessed, Pipeline, WorkerTypes, TypeOK, handlerVars
  <2>5. CASE Listen(w) /\ RemoveTmpDir(w)
    <3>1. tmp' \in [Workers -> SUBSET Videos] /\ leftover' \subseteq Videos
      BY <2>1, <2>5, RemoveTypes
    <3> QED
      BY <1>11, <2>2, <2>3, <2>5, <3>1, ListenTypes
         DEF UpdateProcessed, WorkerTypes, TypeOK, handlerVars
  <2> QED
    BY <1>11, <2>4, <2>5 DEF UpdateProcessed
<1>12. ASSUME NEW w \in Workers, Retry(w) PROVE TypeInv'
  BY <1>12 DEF Retry, TypeOK, WorkerPhases, Pipeline, rowVars, handlerVars, history
<1>13. ASSUME NEW w \in Workers, MarkFailed(w) PROVE TypeInv'
  <2>1. lost' \subseteq Videos /\ status' \in [Videos -> Statuses]
    BY <1>13, Working DEF MarkFailed, TypeOK, Statuses, Terminal
  <2> QED
    BY <1>13, <2>1, ListenTypes DEF MarkFailed, WorkerTypes, TypeOK, handlerVars
<1>14. ASSUME NEW w \in Workers, WorkerRestart(w) PROVE TypeInv'
  BY <1>14 DEF WorkerRestart, Listen, TypeOK, WorkerPhases, rowVars, handlerVars, history
<1>15. ASSUME NEW w \in Workers, LoseReply(w) PROVE TypeInv'
  <2>1. /\ queue[Len(queue)] \in Videos
        /\ SubSeq(queue, 1, Len(queue) - 1) \in Seq(Videos)
    BY <1>15, PoppedTail DEF TypeOK, LoseReply
  <2> QED
    BY <1>15, <2>1 DEF LoseReply, Fault, TypeOK, rowVars, handlerVars, workerVars
<1>16. ASSUME NEW w \in Workers, Hang(w) PROVE TypeInv'
  BY <1>16 DEF Hang, TypeOK, WorkerPhases, rowVars, handlerVars, history
<1>17. ASSUME NEW w \in Workers, WorkerCrash(w) PROVE TypeInv'
  BY <1>17 DEF WorkerCrash, Die, Fault, TypeOK, WorkerPhases, rowVars, handlerVars
<1>18. CASE ServerCrash
  BY <1>18 DEF ServerCrash, Fault, TypeOK, HandlerPhases, rowVars, workerVars
<1>19. CASE UNCHANGED vars
  BY <1>19 DEF TypeOK, vars, rowVars, handlerVars, workerVars, history
<1>20. ASSUME NEW w \in Workers, CrashAfterUpdate(w) PROVE TypeInv'
  <2>1. job[w] \in Videos
    BY <1>20, Working DEF CrashAfterUpdate
  <2> QED
    BY <1>20, <2>1
       DEF CrashAfterUpdate, Die, Fault, TypeOK, WorkerPhases, Statuses, Terminal,
           UrlStates, handlerVars
<1> QED
  BY <1>1, <1>2, <1>3, <1>4, <1>5, <1>6, <1>7, <1>8, <1>9, <1>10, <1>11, <1>12,
     <1>13, <1>14, <1>15, <1>16, <1>17, <1>18, <1>19, <1>20
     DEF Next, HandlerStep, WorkerStep

LEMMA InitTypeInv == Init => TypeInv
BY PipelineAssumption DEF Init, TypeInv, TypeOK, HoldsJob, Statuses, UrlStates,
   HandlerPhases, WorkerPhases

\* Every reachable state has the types of TypeOK, and a worker holds a job
\* exactly while it works on one.
THEOREM TypeCorrect == Spec => [](TypeOK /\ HoldsJob)
BY InitTypeInv, TypeStep, PTL DEF Spec, TypeInv

-----------------------------------------------------------------------------
(* One job per video.                                                      *)

\* A job exists only once the handler pushed it, hence only for a row that
\* exists; until then the row is as the handler left it.
Ownership ==
    \A v \in Videos :
        /\ upload[v] = "idle" => status[v] = "absent"
        /\ upload[v] = "inserted" => status[v] = "pending"
        /\ InQueue(v) \/ Held(v) =>
              /\ upload[v] \in {"queued", "error"}
              /\ origin[v] = "external"
              /\ status[v] # "absent"

JobInv == TypeInv /\ Ownership /\ OneJobPerVideo

\* What the steps that neither move a job nor touch a row leave alone.
jobVars == <<status, upload, origin, queue, job, redelivered>>

QuietStep(w) ==
    \/ MakeTmpDir(w) \/ GenerateThumbnail(w) \/ UploadVideoAsset(w)
    \/ UploadThumbnail(w) \/ Retry(w) \/ WorkerRestart(w) \/ Hang(w)

LEMMA QuietSteps ==
    ASSUME TypeInv, NEW w \in Workers, QuietStep(w)
    PROVE  UNCHANGED jobVars
<1> USE DEF QuietStep, jobVars, rowVars, handlerVars, history
<1>1. CASE MakeTmpDir(w)         BY <1>1 DEF MakeTmpDir
<1>2. CASE GenerateThumbnail(w)  BY <1>2 DEF GenerateThumbnail, FailAttempt
<1>3. CASE UploadVideoAsset(w)   BY <1>3 DEF UploadVideoAsset, FailAttempt
<1>4. CASE UploadThumbnail(w)    BY <1>4 DEF UploadThumbnail, FailAttempt
<1>5. CASE Retry(w)              BY <1>5 DEF Retry
<1>6. CASE WorkerRestart(w)
  BY <1>6 DEF WorkerRestart, Listen, TypeInv, TypeOK, HoldsJob
<1>7. CASE Hang(w)               BY <1>7 DEF Hang
<1> QED
  BY <1>1, <1>2, <1>3, <1>4, <1>5, <1>6, <1>7

\* Worker w lets its job go, with or without writing an outcome first.
DropsJob(w) ==
    /\ job[w] \in Videos
    /\ job' = [job EXCEPT ![w] = NoJob]
    /\ \/ UNCHANGED status
       \/ \E outcome \in Terminal : status' = [status EXCEPT ![job[w]] = outcome]
    /\ UNCHANGED <<upload, origin, queue, redelivered>>

LEMMA DropPreservesJobInv ==
    ASSUME JobInv, TypeInv', NEW w \in Workers, DropsJob(w)
    PROVE  (Ownership /\ OneJobPerVideo)'
<1> USE PipelineAssumption DEF JobInv, TypeInv, TypeOK, DropsJob
<1>0. PICK u \in Videos : u = job[w]
  OBVIOUS
<1>1. /\ \A v \in Videos : InQueue(v)' <=> InQueue(v)
      /\ \A x \in Workers : job'[x] \in Videos => x # w /\ job'[x] = job[x]
  BY DEF InQueue
<1>2. \A v \in Videos : Held(v)' => Held(v)
  BY <1>1 DEF Held
<1>3. Held(u) /\ status[u] # "absent" /\ upload[u] \in {"queued", "error"}
  BY <1>0 DEF Held, Ownership
<1>4. \A v \in Videos : v # u => status'[v] = status[v]
  BY <1>0
<1>5. status'[u] # "absent"
  BY <1>0, <1>3 DEF Terminal
<1>6. Ownership'
  BY <1>1, <1>2, <1>3, <1>4, <1>5 DEF Ownership
<1>7. ASSUME u \notin redelivered
      PROVE  ~InQueue(u)' /\ ~Held(u)'
  <2>1. ~InQueue(u)
    BY <1>3, <1>7 DEF OneJobPerVideo
  <2>2. \A x \in Workers : job[x] = u => x = w
    BY <1>0, <1>7 DEF OneJobPerVideo
  <2> QED
    BY <1>0, <1>1, <2>1, <2>2 DEF Held
<1>8. UNCHANGED <<queue, redelivered>>
  OBVIOUS
<1>9. OneJobPerVideo'
  <2> HIDE DEF JobInv, TypeInv, TypeOK, DropsJob
  <2> SUFFICES ASSUME NEW v \in Videos, v \notin redelivered
               PROVE  /\ \A i, j \in DOMAIN queue : queue[i] = v /\ queue[j] = v => i = j
                      /\ \A x, y \in Workers : job'[x] = v /\ job'[y] = v => x = y
                      /\ ~(InQueue(v)' /\ Held(v)')
                      /\ status'[v] \in Terminal => ~InQueue(v)' /\ ~Held(v)'
    BY <1>8 DEF OneJobPerVideo
  <2>1. /\ \A i, j \in DOMAIN queue : queue[i] = v /\ queue[j] = v => i = j
        /\ \A x, y \in Workers : job[x] = v /\ job[y] = v => x = y
        /\ ~(InQueue(v) /\ Held(v))
        /\ status[v] \in Terminal => ~InQueue(v) /\ ~Held(v)
    BY DEF JobInv, OneJobPerVideo
  <2>2. CASE v = u
    BY <1>1, <1>7, <2>1, <2>2
  <2>3. CASE v # u
    BY <1>1, <1>2, <1>4, <2>1, <2>3
  <2> QED
    BY <2>2, <2>3
<1> QED
  BY <1>6, <1>9

\* A step of the handler moves no job, and writes the row of a video only
\* while none exists.
HandlerWrites(v) ==
    /\ upload[v] \in {"idle", "inserted", "updated"}
    /\ \/ upload'[v] \in {"updated", "processed", "error"}
       \/ upload'[v] = "inserted" /\ status'[v] = "pending"
    /\ \A u \in Videos \ {v} :
          upload'[u] = upload[u] /\ status'[u] = status[u] /\ origin'[u] = origin[u]
    /\ UNCHANGED <<queue, job, redelivered>>

LEMMA HandlerPreservesJobInv ==
    ASSUME JobInv, NEW v \in Videos, HandlerWrites(v)
    PROVE  (Ownership /\ OneJobPerVideo)'
<1>1. \A u \in Videos : (InQueue(u)' <=> InQueue(u)) /\ (Held(u)' <=> Held(u))
  BY DEF HandlerWrites, InQueue, Held
<1>2. ~InQueue(v) /\ ~Held(v)
  BY DEF JobInv, Ownership, HandlerWrites
<1>3. Ownership'
  BY <1>1, <1>2 DEF JobInv, Ownership, HandlerWrites
<1>4. OneJobPerVideo'
  BY <1>1, <1>2 DEF JobInv, OneJobPerVideo, HandlerWrites
<1> QED
  BY <1>3, <1>4

LEMMA PushPreservesJobInv ==
    ASSUME JobInv, NEW v \in Videos, PushJob(v)
    PROVE  (Ownership /\ OneJobPerVideo)'
<1> DEFINE one == Append(queue, v)
           two == Append(one, v)
<1>1. queue \in Seq(Videos) /\ one \in Seq(Videos)
  BY PushedTail DEF JobInv, TypeInv, TypeOK
<1>2. /\ Len(one) = Len(queue) + 1 /\ one[Len(queue) + 1] = v
      /\ \A i \in 1..Len(queue) : one[i] = queue[i]
  BY <1>1, PushedTail
<1>3. /\ two \in Seq(Videos)
      /\ Len(two) = Len(one) + 1 /\ two[Len(one) + 1] = v
      /\ \A i \in 1..Len(one) : two[i] = one[i]
  <2> HIDE DEF one
  <2> QED BY <1>1, PushedTail
<1> HIDE DEF one, two
<1>4. /\ upload[v] = "inserted" /\ origin[v] = "external" /\ status[v] = "pending"
      /\ ~InQueue(v) /\ ~Held(v)
  BY DEF PushJob, JobInv, Ownership
<1>5. /\ queue' \in {queue, one, two}
      /\ queue' = two => redelivered' = redelivered \cup {v}
      /\ redelivered' \in {redelivered, redelivered \cup {v}}
      /\ upload'[v] \in {"queued", "error"}
      /\ \A u \in Videos \ {v} : upload'[u] = upload[u]
      /\ UNCHANGED <<status, origin, job>>
  BY DEF PushJob, JobInv, TypeInv, TypeOK, rowVars, workerVars, history, one, two
<1>6. /\ \A u \in Videos \ {v} : InQueue(u)' <=> InQueue(u)
      /\ \A u \in Videos : Held(u)' <=> Held(u)
  <2>1. \A u \in Videos \ {v} : InQueue(u)' <=> InQueue(u)
    BY <1>1, <1>2, <1>3, <1>5 DEF InQueue
  <2> QED
    BY <2>1, <1>5 DEF Held
<1>7. Ownership'
  BY <1>4, <1>5, <1>6 DEF JobInv, Ownership
<1>8. ASSUME NEW u \in Videos, u \notin redelivered'
      PROVE  \A i, j \in DOMAIN queue' : queue'[i] = u /\ queue'[j] = u => i = j
  <2>1. u \notin redelivered /\ (u = v => queue' \in {queue, one})
    BY <1>5, <1>8
  <2>2. \A i, j \in 1..Len(queue) : queue[i] = u /\ queue[j] = u => i = j
    BY <1>1, <2>1 DEF JobInv, OneJobPerVideo
  <2>3. u = v => \A i \in 1..Len(queue) : queue[i] # u
    BY <1>1, <1>4 DEF InQueue
  <2> QED
    BY <1>1, <1>2, <1>3, <1>5, <2>1, <2>2, <2>3
<1>9. OneJobPerVideo'
  BY <1>4, <1>5, <1>6, <1>8 DEF JobInv, OneJobPerVideo, Terminal
<1> QED
  BY <1>7, <1>9

\* The tail leaves the list, into a worker's hands or into nowhere.
LEMMA PopPreservesJobInv ==
    ASSUME JobInv, NEW w \in Workers, PopJob(w) \/ LoseReply(w)
    PROVE  (Ownership /\ OneJobPerVideo)'
<1> DEFINE n == Len(queue)
           rest == SubSeq(queue, 1, n - 1)
<1>1. /\ queue \in Seq(Videos) /\ queue # <<>> /\ job[w] = NoJob
      /\ job \in [Workers -> Videos \cup {NoJob}]
  BY DEF JobInv, TypeInv, TypeOK, HoldsJob, PopJob, LoseReply
<1>2. /\ queue[n] \in Videos /\ n \in Nat \ {0} /\ rest \in Seq(Videos)
      /\ Len(rest) = n - 1 /\ \A i \in 1..(n - 1) : rest[i] = queue[i]
  BY <1>1, PoppedTail
<1>3. PICK t \in Videos : t = queue[n]
  BY <1>2
<1>4. /\ queue' = rest
      /\ \/ UNCHANGED job
         \/ job' = [job EXCEPT ![w] = t]
      /\ UNCHANGED <<status, upload, origin, redelivered>>
  BY <1>3 DEF PopJob, LoseReply, rowVars, handlerVars, workerVars, history
<1> HIDE DEF n, rest
<1>5. DOMAIN queue = 1..n /\ DOMAIN queue' = 1..(n - 1)
  BY <1>1, <1>2, <1>4 DEF n
<1>6. InQueue(t) /\ \A v \in Videos : InQueue(v)' => InQueue(v)
  BY <1>2, <1>3, <1>4, <1>5 DEF InQueue
<1>7. \A v \in Videos : Held(v)' => Held(v) \/ v = t
  BY <1>1, <1>4 DEF Held
<1>8. Ownership'
  BY <1>4, <1>6, <1>7 DEF JobInv, Ownership
<1>9. ASSUME NEW v \in Videos, v \notin redelivered
      PROVE  /\ \A i, j \in DOMAIN queue' : queue'[i] = v /\ queue'[j] = v => i = j
             /\ \A x, y \in Workers : job'[x] = v /\ job'[y] = v => x = y
             /\ ~(InQueue(v)' /\ Held(v)')
             /\ status'[v] \in Terminal => ~InQueue(v)' /\ ~Held(v)'
  <2>1. /\ \A i, j \in 1..n : queue[i] = v /\ queue[j] = v => i = j
        /\ \A x, y \in Workers : job[x] = v /\ job[y] = v => x = y
        /\ ~(InQueue(v) /\ Held(v))
        /\ status[v] \in Terminal => ~InQueue(v) /\ ~Held(v)
    BY <1>5, <1>9 DEF JobInv, OneJobPerVideo
  <2>2. \A i, j \in DOMAIN queue' : queue'[i] = v /\ queue'[j] = v => i = j
    BY <1>2, <1>4, <1>5, <2>1
  <2>3. v = t => ~InQueue(v)' /\ \A x \in Workers : job[x] # v
    BY <1>2, <1>3, <1>4, <1>5, <1>6, <2>1 DEF InQueue, Held
  <2>4. \A x, y \in Workers : job'[x] = v /\ job'[y] = v => x = y
    BY <1>1, <1>4, <2>1, <2>3
  <2> QED
    BY <1>4, <1>6, <1>7, <2>1, <2>2, <2>3, <2>4
<1>10. OneJobPerVideo'
  BY <1>4, <1>9 DEF OneJobPerVideo
<1> QED
  BY <1>8, <1>10

LEMMA JobStep == JobInv /\ [Next]_vars => JobInv'
<1> SUFFICES ASSUME JobInv, [Next]_vars PROVE (Ownership /\ OneJobPerVideo)'
    BY TypeStep DEF JobInv
<1>1. TypeInv /\ TypeInv'
  BY TypeStep DEF JobInv
<1>2. ASSUME UNCHANGED jobVars PROVE (Ownership /\ OneJobPerVideo)'
  BY <1>2 DEF JobInv, Ownership, OneJobPerVideo, InQueue, Held, jobVars
<1>3. ASSUME NEW v \in Videos, NEW request \in Requests, InsertVideo(v, request)
      PROVE  HandlerWrites(v)
  BY <1>1, <1>3 DEF InsertVideo, HandlerWrites, TypeInv, TypeOK, workerVars, history
<1>4. ASSUME NEW v \in Videos, UpdateHostedRow(v) PROVE HandlerWrites(v)
  BY <1>1, <1>4 DEF UpdateHostedRow, HandlerWrites, TypeInv, TypeOK, workerVars, history
<1>5. ASSUME NEW v \in Videos, BustFeedCache(v) PROVE HandlerWrites(v)
  BY <1>1, <1>5 DEF BustFeedCache, HandlerWrites, TypeInv, TypeOK, rowVars, workerVars, history
<1>6. ASSUME NEW v \in Videos, AdminDeleteVideo(v) PROVE UNCHANGED jobVars
  BY <1>6 DEF AdminDeleteVideo, jobVars, handlerVars, workerVars, history
<1>7. ASSUME NEW w \in Workers, UpdateProcessed(w) PROVE (Ownership /\ OneJobPerVideo)'
  <2>1. job[w] \in Videos
    BY <1>1, <1>7, Working DEF UpdateProcessed
  <2>0. wpc \in [Workers -> WorkerPhases]
    BY <1>1 DEF TypeInv, TypeOK
  <2>2. CASE Listen(w)
    <3>1. DropsJob(w) \/ UNCHANGED jobVars
      BY <1>7, <2>0, <2>1, <2>2
         DEF UpdateProcessed, Listen, FailAttempt, DropsJob, Terminal, jobVars,
             handlerVars, history
    <3> QED
      BY <1>1, <1>2, <3>1, DropPreservesJobInv
  <2>3. CASE FailAttempt(w)
    <3>1. PICK u \in Videos : u = job[w]
      BY <2>1
    <3>2. /\ \/ UNCHANGED <<status, redelivered>>
             \/ /\ status' = [status EXCEPT ![u] = "processed"]
                /\ redelivered' = redelivered \cup {u}
          /\ UNCHANGED <<upload, origin, queue, job>>
      BY <1>7, <2>0, <2>3, <3>1
         DEF UpdateProcessed, FailAttempt, Listen, handlerVars, history
    <3>3. CASE UNCHANGED <<status, redelivered>>
      BY <1>2, <3>2, <3>3 DEF jobVars
    <3>4. CASE status' = [status EXCEPT ![u] = "processed"] /\ redelivered' = redelivered \cup {u}
      <4>1. /\ \A v \in Videos : (InQueue(v)' <=> InQueue(v)) /\ (Held(v)' <=> Held(v))
            /\ \A v \in Videos : v # u => status'[v] = status[v]
            /\ status'[u] = "processed" /\ Held(u)
        BY <1>1, <3>1, <3>2, <3>4 DEF InQueue, Held, TypeInv, TypeOK
      <4>2. Ownership'
        BY <3>2, <4>1 DEF JobInv, Ownership
      <4>3. OneJobPerVideo'
        BY <3>2, <3>4, <4>1 DEF JobInv, OneJobPerVideo
      <4> QED
        BY <4>2, <4>3
    <3> QED
      BY <3>2, <3>3, <3>4
  <2> QED
    BY <1>7, <2>2, <2>3 DEF UpdateProcessed
<1>8. ASSUME NEW w \in Workers, MarkFailed(w) PROVE DropsJob(w)
  <2>1. job[w] \in Videos
    BY <1>1, <1>8, Working DEF MarkFailed
  <2> QED
    BY <1>8, <2>1 DEF MarkFailed, Listen, DropsJob, Terminal, handlerVars
<1>9. ASSUME NEW w \in Workers, WorkerCrash(w) PROVE DropsJob(w) \/ UNCHANGED jobVars
  <2>1. CASE job[w] \in Videos
    BY <1>9, <2>1 DEF WorkerCrash, Die, DropsJob, rowVars, handlerVars
  <2>2. CASE job[w] = NoJob
    BY <1>1, <1>9, <2>2 DEF WorkerCrash, Die, jobVars, TypeInv, TypeOK, rowVars, handlerVars
  <2> QED
    BY <1>1, <2>1, <2>2 DEF TypeInv, TypeOK
<1>10. ASSUME ServerCrash PROVE (Ownership /\ OneJobPerVideo)'
  <2>1. /\ \A v \in Videos : (InQueue(v)' <=> InQueue(v)) /\ (Held(v)' <=> Held(v))
        /\ UNCHANGED <<status, origin, queue, job, redelivered>>
    BY <1>10 DEF ServerCrash, InQueue, Held, rowVars, workerVars
  <2>2. \A v \in Videos : upload'[v] = IF upload[v] \in InFlight THEN "aborted" ELSE upload[v]
    BY <1>1, <1>10 DEF ServerCrash, TypeInv, TypeOK
  <2>3. Ownership'
    BY <2>1, <2>2 DEF JobInv, Ownership, InFlight
  <2>4. OneJobPerVideo'
    BY <2>1 DEF JobInv, OneJobPerVideo
  <2> QED
    BY <2>3, <2>4
<1>11. CASE UNCHANGED vars
  BY <1>2, <1>11 DEF vars, jobVars, rowVars, handlerVars, workerVars, history
<1>12. ASSUME NEW w \in Workers, CrashAfterUpdate(w) PROVE DropsJob(w)
  <2>1. job[w] \in Videos
    BY <1>1, <1>12, Working DEF CrashAfterUpdate
  <2> QED
    BY <1>12, <2>1 DEF CrashAfterUpdate, Die, DropsJob, Terminal, handlerVars
<1>13. CASE Next
  BY <1>1, <1>2, <1>3, <1>4, <1>5, <1>6, <1>7, <1>8, <1>9, <1>10, <1>13,
     <1>12, QuietSteps, HandlerPreservesJobInv, PushPreservesJobInv, PopPreservesJobInv,
     DropPreservesJobInv
     DEF Next, HandlerStep, WorkerStep, QuietStep
<1> QED
  BY <1>11, <1>13

LEMMA InitJobInv == Init => JobInv
<1>1. Init => Ownership /\ OneJobPerVideo
  BY PipelineAssumption DEF Init, Ownership, OneJobPerVideo, InQueue, Held
<1> QED
  BY <1>1, InitTypeInv DEF JobInv

\* Without a redelivery one copy of a job exists, and none once the row
\* settled: no worker ever processes a settled video.
THEOREM OneJobCorrect == Spec => []OneJobPerVideo
<1>1. JobInv => OneJobPerVideo
  BY DEF JobInv
<1> QED
  BY <1>1, InitJobInv, JobStep, PTL DEF Spec

-----------------------------------------------------------------------------
(* No accepted video is stranded.                                          *)

LEMMA LostGrows == JobInv /\ [Next]_vars => lost \subseteq lost'
<1> SUFFICES ASSUME JobInv, [Next]_vars PROVE lost \subseteq lost'
    OBVIOUS
<1> USE DEF history
<1>1. ASSUME NEW v \in Videos, NEW request \in Requests, InsertVideo(v, request)
      PROVE  lost \subseteq lost'
  BY <1>1 DEF InsertVideo
<1>2. ASSUME NEW v \in Videos, HandlerStep(v) \/ AdminDeleteVideo(v) PROVE lost \subseteq lost'
  BY <1>2 DEF HandlerStep, UpdateHostedRow, BustFeedCache, PushJob, AdminDeleteVideo
<1>3. ASSUME NEW w \in Workers, WorkerStep(w) PROVE lost \subseteq lost'
  BY <1>3 DEF WorkerStep, PopJob, MakeTmpDir, GenerateThumbnail, UploadVideoAsset,
              UploadThumbnail, UpdateProcessed, Retry, MarkFailed, WorkerRestart
<1>4. ASSUME NEW w \in Workers, LoseReply(w) \/ Hang(w) \/ WorkerCrash(w) \/ CrashAfterUpdate(w)
      PROVE  lost \subseteq lost'
  BY <1>4 DEF LoseReply, Hang, WorkerCrash, CrashAfterUpdate, Die
<1>5. CASE ServerCrash \/ UNCHANGED vars
  BY <1>5 DEF ServerCrash, vars
<1> QED
  BY <1>1, <1>2, <1>3, <1>4, <1>5 DEF Next

\* A job leaves the list and the workers only when its row settles or the
\* job is recorded as lost.
LEMMA JobsAccountedFor ==
    ASSUME JobInv, JobInv', [Next]_vars, NEW v \in Videos, InQueue(v) \/ Held(v)
    PROVE  InQueue(v)' \/ Held(v)' \/ v \in lost' \/ status'[v] \in Terminal
<1> DEFINE Kept == InQueue(v)' \/ Held(v)' \/ v \in lost' \/ status'[v] \in Terminal
<1>0. TypeInv /\ TypeInv'
  BY DEF JobInv
<1>1. ASSUME UNCHANGED <<queue, job>> PROVE Kept
  BY <1>1 DEF InQueue, Held
<1>2. ASSUME NEW u \in Videos, NEW request \in Requests, InsertVideo(u, request) PROVE Kept
  BY <1>1, <1>2 DEF InsertVideo, workerVars
<1>3. ASSUME NEW u \in Videos, UpdateHostedRow(u) \/ BustFeedCache(u) \/ AdminDeleteVideo(u)
      PROVE  Kept
  BY <1>1, <1>3 DEF UpdateHostedRow, BustFeedCache, AdminDeleteVideo, workerVars
<1>4. ASSUME NEW u \in Videos, PushJob(u) PROVE Kept
  <2> DEFINE one == Append(queue, u)
             two == Append(one, u)
  <2>1. /\ queue \in Seq(Videos) /\ one \in Seq(Videos) /\ Len(one) = Len(queue) + 1
        /\ \A i \in 1..Len(queue) : one[i] = queue[i]
    BY <1>0, PushedTail DEF TypeInv, TypeOK
  <2>2. /\ two \in Seq(Videos) /\ Len(two) = Len(one) + 1
        /\ \A i \in 1..Len(one) : two[i] = one[i]
    <3> HIDE DEF one
    <3> QED BY <2>1, PushedTail
  <2>3. queue' \in {queue, one, two} /\ UNCHANGED job
    BY <1>4 DEF PushJob, workerVars
  <2> HIDE DEF one, two
  <2> QED
    BY <2>1, <2>2, <2>3 DEF InQueue, Held
<1>5. ASSUME NEW w \in Workers, PopJob(w) \/ LoseReply(w) PROVE Kept
  <2> DEFINE n == Len(queue)
             rest == SubSeq(queue, 1, n - 1)
  <2>1. queue \in Seq(Videos) /\ queue # <<>> /\ job[w] = NoJob
        /\ job \in [Workers -> Videos \cup {NoJob}] /\ NoJob \notin Videos
    BY <1>0, <1>5, PipelineAssumption DEF TypeInv, TypeOK, HoldsJob, PopJob, LoseReply
  <2>2. /\ n \in Nat \ {0} /\ rest \in Seq(Videos)
        /\ Len(rest) = n - 1 /\ \A i \in 1..(n - 1) : rest[i] = queue[i]
    BY <2>1, PoppedTail
  <2>3. /\ queue' = rest
        /\ \/ job' = [job EXCEPT ![w] = queue[n]]
           \/ UNCHANGED job /\ queue[n] \in lost'
    BY <1>5 DEF PopJob, LoseReply, workerVars
  <2> HIDE DEF n, rest
  <2>4. DOMAIN queue = 1..n /\ DOMAIN queue' = 1..(n - 1)
    BY <2>1, <2>2, <2>3 DEF n
  <2>5. CASE Held(v)
    BY <2>1, <2>3, <2>5 DEF Held
  <2>6. CASE InQueue(v)
    BY <2>1, <2>2, <2>3, <2>4, <2>6 DEF InQueue, Held
  <2> QED
    BY <2>5, <2>6
<1>6. ASSUME NEW w \in Workers, QuietStep(w) PROVE Kept
  BY <1>0, <1>1, <1>6, QuietSteps DEF QuietStep, jobVars
<1>7. ASSUME NEW w \in Workers, UNCHANGED queue, job' = [job EXCEPT ![w] = NoJob],
             job[w] \in lost' \/ status'[job[w]] \in Terminal \/ job[w] = NoJob
      PROVE  Kept
  BY <1>0, <1>7, PipelineAssumption DEF InQueue, Held, TypeInv, TypeOK
<1>8. ASSUME NEW w \in Workers, UpdateProcessed(w) PROVE Kept
  <2>1. CASE UNCHANGED job
    BY <1>1, <1>8, <2>1 DEF UpdateProcessed
  <2>2. CASE Listen(w) /\ status' = [status EXCEPT ![job[w]] = "processed"]
    <3>1. status'[job[w]] \in Terminal
      BY <1>0, <1>8, <2>2, Working DEF UpdateProcessed, TypeInv, TypeOK, Terminal
    <3> QED
      BY <1>7, <1>8, <2>2, <3>1 DEF UpdateProcessed, Listen
  <2> QED
    BY <1>8, <2>1, <2>2 DEF UpdateProcessed, FailAttempt
<1>9. ASSUME NEW w \in Workers, MarkFailed(w) PROVE Kept
  <2>1. job[w] \in lost' \/ status'[job[w]] \in Terminal
    BY <1>0, <1>9, Working DEF MarkFailed, TypeInv, TypeOK, Terminal
  <2> QED
    BY <1>7, <1>9, <2>1 DEF MarkFailed, Listen
<1>10. ASSUME NEW w \in Workers, WorkerCrash(w) \/ CrashAfterUpdate(w) PROVE Kept
  BY <1>7, <1>10 DEF WorkerCrash, CrashAfterUpdate, Die
<1>11. CASE ServerCrash \/ UNCHANGED vars
  BY <1>1, <1>11 DEF ServerCrash, vars, workerVars
<1> QED
  BY <1>2, <1>3, <1>4, <1>5, <1>6, <1>8, <1>9, <1>10, <1>11
     DEF Next, HandlerStep, WorkerStep, QuietStep

\* A video is newly accepted and pending only by the RPUSH of its own job.
LEMMA NewlyQueued ==
    ASSUME JobInv, [Next]_vars, NEW v \in Videos,
           upload'[v] = "queued", status'[v] = "pending"
    PROVE  (upload[v] = "queued" /\ status[v] = "pending") \/ InQueue(v)'
<1> DEFINE Claim == (upload[v] = "queued" /\ status[v] = "pending") \/ InQueue(v)'
<1>0. TypeInv
  BY DEF JobInv
<1>1. ASSUME UNCHANGED <<upload, status>> PROVE Claim
  BY <1>1
<1>2. ASSUME NEW u \in Videos, HandlerWrites(u) PROVE Claim
  BY <1>2 DEF HandlerWrites
<1>3. ASSUME NEW u \in Videos, NEW request \in Requests, InsertVideo(u, request) PROVE Claim
  BY <1>0, <1>2, <1>3 DEF InsertVideo, HandlerWrites, TypeInv, TypeOK, workerVars, history
<1>4. ASSUME NEW u \in Videos, UpdateHostedRow(u) \/ BustFeedCache(u) PROVE Claim
  BY <1>0, <1>2, <1>4
     DEF UpdateHostedRow, BustFeedCache, HandlerWrites, TypeInv, TypeOK,
         rowVars, workerVars, history
<1>5. ASSUME NEW u \in Videos, PushJob(u) PROVE Claim
  <2> DEFINE one == Append(queue, u)
             two == Append(one, u)
  <2>1. /\ queue \in Seq(Videos) /\ one \in Seq(Videos)
        /\ Len(one) = Len(queue) + 1 /\ one[Len(one)] = u
    BY <1>0, PushedTail DEF TypeInv, TypeOK
  <2>2. two \in Seq(Videos) /\ Len(two) = Len(one) + 1 /\ two[Len(two)] = u
    <3> HIDE DEF one
    <3> QED BY <2>1, PushedTail
  <2>3. queue' \in {one, two} \/ upload'[u] # "queued"
    BY <1>0, <1>5 DEF PushJob, TypeInv, TypeOK
  <2>4. /\ \A x \in Videos \ {u} : upload'[x] = upload[x]
        /\ UNCHANGED status
    BY <1>0, <1>5 DEF PushJob, TypeInv, TypeOK, rowVars
  <2> HIDE DEF one, two
  <2> QED
    BY <2>1, <2>2, <2>3, <2>4 DEF InQueue
<1>6. ASSUME NEW w \in Workers, QuietStep(w) PROVE Claim
  BY <1>0, <1>1, <1>6, QuietSteps DEF jobVars
<1>7. ASSUME NEW w \in Workers, PopJob(w) \/ LoseReply(w) \/ WorkerCrash(w) PROVE Claim
  BY <1>1, <1>7 DEF PopJob, LoseReply, WorkerCrash, Die, rowVars, handlerVars
<1>8. ASSUME NEW w \in Workers, UpdateProcessed(w) \/ MarkFailed(w) \/ CrashAfterUpdate(w)
      PROVE  Claim
  BY <1>0, <1>8, Working
     DEF UpdateProcessed, MarkFailed, CrashAfterUpdate, TypeInv, TypeOK, handlerVars
<1>9. ASSUME NEW u \in Videos, AdminDeleteVideo(u) PROVE Claim
  BY <1>1, <1>9 DEF AdminDeleteVideo, handlerVars
<1>10. CASE ServerCrash
  BY <1>0, <1>10 DEF ServerCrash, TypeInv, TypeOK, rowVars
<1>11. CASE UNCHANGED vars
  BY <1>1, <1>11 DEF vars, rowVars, handlerVars
<1> QED
  BY <1>3, <1>4, <1>5, <1>6, <1>7, <1>8, <1>9, <1>10, <1>11
     DEF Next, HandlerStep, WorkerStep, QuietStep

\* An accepted video that is still pending has a job in the list or with a
\* worker, unless a crash, a lost reply or a failed last UPDATE took it.
THEOREM NoStrandedCorrect == Spec => []NoStrandedVideo
<1>1. JobInv /\ NoStrandedVideo /\ [Next]_vars => NoStrandedVideo'
  <2> SUFFICES ASSUME JobInv, NoStrandedVideo, [Next]_vars, NEW v \in Videos,
                      upload'[v] = "queued", status'[v] = "pending"
               PROVE  InQueue(v)' \/ Held(v)' \/ v \in lost'
    BY DEF NoStrandedVideo
  <2>1. JobInv'
    BY JobStep
  <2>2. CASE upload[v] = "queued" /\ status[v] = "pending"
    <3>1. InQueue(v) \/ Held(v) \/ v \in lost
      BY <2>2 DEF NoStrandedVideo
    <3> QED
      BY <2>1, <3>1, LostGrows, JobsAccountedFor DEF Terminal
  <2> QED
    BY <2>2, NewlyQueued
<1>2. Init => NoStrandedVideo
  BY DEF Init, NoStrandedVideo
<1> QED
  BY <1>1, <1>2, InitJobInv, JobStep, PTL DEF Spec

-----------------------------------------------------------------------------
(* What the pipeline leaves behind: the `videos` rows, which implement     *)
(* VideoLifecycle and whose URLs agree with their status, the Cloudinary   *)
(* assets and the working directories.                                     *)

\* A settled row has no job left, so a worker settles a pending row, or one
\* whose work was redelivered.
LEMMA HeldIsPending ==
    ASSUME JobInv, NEW w \in Workers, job[w] \in Videos
    PROVE  \/ status[job[w]] = "pending"
           \/ status[job[w]] \in Terminal /\ job[w] \in redelivered
BY DEF JobInv, TypeInv, TypeOK, Statuses, Ownership, OneJobPerVideo, Held

-----------------------------------------------------------------------------
(* Refinement.                                                             *)

LEMMA RefinesStep ==
    ASSUME JobInv, [Next]_vars
    PROVE  [Lifecycle!Next]_(Lifecycle!vars)
<1> DEFINE Simulated == [Lifecycle!Next]_(Lifecycle!vars)
<1>0. TypeInv /\ status \in [Videos -> Statuses]
  BY DEF JobInv, TypeInv, TypeOK
<1>1. ASSUME UNCHANGED <<status, redelivered>> PROVE Simulated
  BY <1>1 DEF Lifecycle!vars
<1>2. ASSUME NEW v \in Videos, NEW request \in Requests, InsertVideo(v, request)
      PROVE  Simulated
  <2>1. status[v] = "absent"
    BY <1>2 DEF InsertVideo, JobInv, Ownership
  <2> QED
    BY <1>1, <1>2, <2>1 DEF InsertVideo, history, Lifecycle!Next, Lifecycle!Create
<1>3. ASSUME NEW v \in Videos, UpdateHostedRow(v) PROVE Simulated
  <2>1. status[v] = "pending"
    BY <1>3 DEF UpdateHostedRow, JobInv, Ownership
  <2>2. CASE status' = [status EXCEPT ![v] = "processed"] /\ UNCHANGED redelivered
    BY <2>1, <2>2 DEF Lifecycle!Next, Lifecycle!Settle, Lifecycle!Terminal
  <2> QED
    BY <1>1, <1>3, <2>2 DEF UpdateHostedRow, history
<1>4. ASSUME NEW v \in Videos, PushJob(v) PROVE Simulated
  <2>1. status[v] = "pending" /\ UNCHANGED status
    BY <1>4 DEF PushJob, JobInv, Ownership, rowVars
  <2>2. CASE redelivered' = redelivered \cup {v}
    BY <2>1, <2>2 DEF Lifecycle!Next, Lifecycle!Redeliver
  <2> QED
    BY <1>1, <1>4, <2>1, <2>2 DEF PushJob, history
<1>5. ASSUME NEW v \in Videos, BustFeedCache(v) \/ AdminDeleteVideo(v) PROVE Simulated
  BY <1>1, <1>5 DEF BustFeedCache, AdminDeleteVideo, rowVars, history
<1>6. ASSUME NEW w \in Workers, QuietStep(w) PROVE Simulated
  BY <1>0, <1>1, <1>6, QuietSteps DEF jobVars
<1>7. ASSUME NEW w \in Workers, NEW outcome \in Terminal, job[w] \in Videos,
             status' = [status EXCEPT ![job[w]] = outcome],
             redelivered' \in {redelivered, redelivered \cup {job[w]}}
      PROVE  Simulated
  <2>1. CASE status[job[w]] = "pending"
    BY <1>7, <2>1 DEF Lifecycle!Next, Lifecycle!Settle, Lifecycle!Terminal, Terminal
  <2>2. CASE status[job[w]] \in Terminal /\ job[w] \in redelivered
    <3>1. UNCHANGED redelivered
      BY <1>7, <2>2
    <3> QED
      BY <1>7, <2>2, <3>1 DEF Lifecycle!Next, Lifecycle!Resettle, Lifecycle!Terminal, Terminal
  <2> QED
    BY <1>7, <2>1, <2>2, HeldIsPending
<1>8. ASSUME NEW w \in Workers, UpdateProcessed(w) PROVE Simulated
  <2>1. job[w] \in Videos
    BY <1>0, <1>8, Working DEF UpdateProcessed
  <2>2. \/ UNCHANGED <<status, redelivered>>
        \/ /\ status' = [status EXCEPT ![job[w]] = "processed"]
           /\ redelivered' \in {redelivered, redelivered \cup {job[w]}}
    BY <1>8 DEF UpdateProcessed, history
  <2> QED
    BY <1>1, <1>7, <2>1, <2>2 DEF Terminal
<1>9. ASSUME NEW w \in Workers, MarkFailed(w) PROVE Simulated
  <2>1. job[w] \in Videos
    BY <1>0, <1>9, Working DEF MarkFailed
  <2>2. /\ UNCHANGED status \/ status' = [status EXCEPT ![job[w]] = "failed"]
        /\ UNCHANGED redelivered
    BY <1>9 DEF MarkFailed
  <2> QED
    BY <1>1, <1>7, <2>1, <2>2 DEF Terminal
<1>10. ASSUME NEW w \in Workers, PopJob(w) \/ LoseReply(w) \/ WorkerCrash(w) PROVE Simulated
  BY <1>1, <1>10 DEF PopJob, LoseReply, WorkerCrash, Die, rowVars, history
<1>11. CASE ServerCrash \/ UNCHANGED vars
  BY <1>1, <1>11 DEF ServerCrash, vars, rowVars, history
<1>12. ASSUME NEW w \in Workers, CrashAfterUpdate(w) PROVE Simulated
  <2>1. job[w] \in Videos
    BY <1>0, <1>12, Working DEF CrashAfterUpdate
  <2>2. /\ status' = [status EXCEPT ![job[w]] = "processed"]
        /\ UNCHANGED redelivered
    BY <1>12 DEF CrashAfterUpdate
  <2> QED
    BY <1>7, <2>1, <2>2 DEF Terminal
<1> QED
  BY <1>2, <1>3, <1>4, <1>5, <1>6, <1>8, <1>9, <1>10, <1>11, <1>12
     DEF Next, HandlerStep, WorkerStep, QuietStep

\* The pipeline implements VideoLifecycle: a row is created pending, settles
\* once, and settles again only after a redelivery.
THEOREM LifecycleImplemented == Spec => LifecycleSpec
<1>1. Init => Lifecycle!Init
  BY DEF Init, Lifecycle!Init
<1> QED
  BY <1>1, InitJobInv, JobStep, RefinesStep, PTL DEF Spec, LifecycleSpec, Lifecycle!Spec

\* What a polling client relies on: unless the work was redelivered, the
\* "processed" or "failed" it was told is the final answer.
THEOREM PolledOutcomeIsFinal == Spec => Lifecycle!SettledIsFinal
<1>1. ASSUME TypeInv, [Lifecycle!Next]_(Lifecycle!vars)
      PROVE  [\A v \in Videos :
                 status[v] \in Lifecycle!Terminal /\ v \notin redelivered
                     => status'[v] = status[v]]_(Lifecycle!vars)
  <2>1. status \in [Videos -> Statuses]
    BY <1>1 DEF TypeInv, TypeOK
  <2> QED
    BY <1>1, <2>1
       DEF Lifecycle!Next, Lifecycle!Create, Lifecycle!Settle, Lifecycle!Redeliver,
           Lifecycle!Resettle, Lifecycle!Terminal, Lifecycle!vars
<1>2. Spec => []TypeInv
  BY TypeCorrect, PTL DEF TypeInv
<1> QED
  BY <1>1, <1>2, LifecycleImplemented, PTL
     DEF LifecycleSpec, Lifecycle!Spec, Lifecycle!SettledIsFinal

-----------------------------------------------------------------------------
(* What a poll answers.                                                    *)

\* PollMatchesUrls of every row, deleted or not.
SettledUrls ==
    \A v \in Videos :
        v \notin redelivered => (status[v] = "processed" <=> urls[v] # "null")

LEMMA SettledUrlsStep ==
    ASSUME JobInv, SettledUrls, [Next]_vars
    PROVE  SettledUrls'
<1>0. /\ TypeInv /\ status \in [Videos -> Statuses] /\ urls \in [Videos -> UrlStates]
  BY DEF JobInv, TypeInv, TypeOK
<1>1. ASSUME UNCHANGED <<status, urls>>, redelivered \subseteq redelivered' PROVE SettledUrls'
  BY <1>1 DEF SettledUrls
<1>2. ASSUME NEW v \in Videos, NEW request \in Requests, InsertVideo(v, request)
      PROVE  SettledUrls'
  <2>1. status[v] = "absent"
    BY <1>2 DEF InsertVideo, JobInv, Ownership
  <2> QED
    BY <1>0, <1>2, <2>1 DEF InsertVideo, SettledUrls, history
<1>3. ASSUME NEW v \in Videos, UpdateHostedRow(v) PROVE SettledUrls'
  BY <1>0, <1>3 DEF UpdateHostedRow, SettledUrls, history
<1>4. ASSUME NEW v \in Videos, BustFeedCache(v) \/ PushJob(v) PROVE SettledUrls'
  BY <1>1, <1>4 DEF BustFeedCache, PushJob, rowVars, history
<1>5. ASSUME NEW v \in Videos, AdminDeleteVideo(v) PROVE SettledUrls'
  BY <1>1, <1>5 DEF AdminDeleteVideo, history
<1>6. ASSUME NEW w \in Workers,
             MakeTmpDir(w) \/ GenerateThumbnail(w) \/ Retry(w) \/ WorkerRestart(w) \/ Hang(w)
      PROVE  SettledUrls'
  BY <1>1, <1>6 DEF MakeTmpDir, GenerateThumbnail, Retry, WorkerRestart, Hang, rowVars, history
<1>7. ASSUME NEW w \in Workers, UploadVideoAsset(w) \/ UploadThumbnail(w) PROVE SettledUrls'
  BY <1>1, <1>7 DEF UploadVideoAsset, UploadThumbnail, rowVars, history
<1>8. ASSUME NEW w \in Workers, UpdateProcessed(w) \/ CrashAfterUpdate(w) PROVE SettledUrls'
  BY <1>0, <1>1, <1>8, Working DEF UpdateProcessed, CrashAfterUpdate, SettledUrls, history
<1>9. ASSUME NEW w \in Workers, MarkFailed(w) PROVE SettledUrls'
  <2>1. PICK u \in Videos : u = job[w]
    BY <1>0, <1>9, Working DEF MarkFailed
  <2>2. u \in redelivered \/ urls[u] = "null"
    BY <1>0, <2>1, HeldIsPending DEF SettledUrls
  <2> QED
    BY <1>0, <1>9, <2>1, <2>2 DEF MarkFailed, SettledUrls
<1>10. ASSUME NEW w \in Workers, PopJob(w) \/ LoseReply(w) \/ WorkerCrash(w) PROVE SettledUrls'
  BY <1>1, <1>10 DEF PopJob, LoseReply, WorkerCrash, Die, rowVars, history
<1>11. CASE ServerCrash \/ UNCHANGED vars
  BY <1>1, <1>11 DEF ServerCrash, vars, rowVars, history
<1> QED
  BY <1>2, <1>3, <1>4, <1>5, <1>6, <1>7, <1>8, <1>9, <1>10, <1>11
     DEF Next, HandlerStep, WorkerStep

\* GET /api/videos/:id/status answers "processed" exactly when it carries the
\* URLs, unless the work was redelivered.
THEOREM PollCorrect == Spec => []PollMatchesUrls
<1>1. Init => SettledUrls
  BY DEF Init, SettledUrls
<1>2. SettledUrls => PollMatchesUrls
  BY DEF SettledUrls, PollMatchesUrls, PollStatus
<1> QED
  BY <1>1, <1>2, InitJobInv, JobStep, SettledUrlsStep, PTL DEF Spec

-----------------------------------------------------------------------------
(* Assets and directories.                                                 *)

\* The order of processVideo: a worker reaches the UPDATE with both assets
\* uploaded, and a URL is written by that UPDATE only.
AssetsBeforeUpdate ==
    \A w \in Workers :
        /\ wpc[w] \in {"uploadThumb", "dbUpdate"} => <<job[w], "video">> \in assets
        /\ wpc[w] = "dbUpdate" => <<job[w], "thumbnail">> \in assets

HostedInv == AssetsBeforeUpdate /\ HostedUrlsExist

\* A step that uploads nothing and writes no URL.
LEMMA NoUpload ==
    ASSUME HostedInv, UNCHANGED <<urls, assets>>,
           \A w \in Workers :
               wpc'[w] \in {"uploadThumb", "dbUpdate"} => wpc'[w] = wpc[w] /\ job'[w] = job[w]
    PROVE  HostedInv'
BY DEF HostedInv, AssetsBeforeUpdate, HostedUrlsExist

LEMMA HostedStep ==
    ASSUME JobInv, HostedInv, [Next]_vars
    PROVE  HostedInv'
<1>0. /\ TypeInv /\ wpc \in [Workers -> WorkerPhases]
      /\ urls \in [Videos -> UrlStates] /\ job \in [Workers -> Videos \cup {NoJob}]
  BY DEF JobInv, TypeInv, TypeOK
<1> USE DEF rowVars, handlerVars, workerVars
<1>1. ASSUME NEW v \in Videos, NEW request \in Requests, InsertVideo(v, request)
      PROVE  HostedInv'
  BY <1>1, NoUpload DEF InsertVideo
<1>2. ASSUME NEW v \in Videos, BustFeedCache(v) \/ PushJob(v) \/ AdminDeleteVideo(v)
      PROVE  HostedInv'
  BY <1>2, NoUpload DEF BustFeedCache, PushJob, AdminDeleteVideo
<1>3. ASSUME NEW v \in Videos, UpdateHostedRow(v) PROVE HostedInv'
  BY <1>0, <1>3 DEF UpdateHostedRow, HostedInv, AssetsBeforeUpdate, HostedUrlsExist
<1>4. ASSUME NEW w \in Workers, PopJob(w) PROVE HostedInv'
  BY <1>0, <1>4, NoUpload DEF PopJob
<1>5. ASSUME NEW w \in Workers, LoseReply(w) PROVE HostedInv'
  BY <1>5, NoUpload DEF LoseReply
<1>6. ASSUME NEW w \in Workers, MakeTmpDir(w) \/ Retry(w) \/ Hang(w) PROVE HostedInv'
  BY <1>0, <1>6, NoUpload DEF MakeTmpDir, Retry, Hang
<1>7. ASSUME NEW w \in Workers, GenerateThumbnail(w) PROVE HostedInv'
  BY <1>0, <1>7, NoUpload DEF GenerateThumbnail, FailAttempt
<1>8. ASSUME NEW w \in Workers, WorkerRestart(w) \/ MarkFailed(w) PROVE HostedInv'
  BY <1>0, <1>8, NoUpload DEF WorkerRestart, MarkFailed, Listen
<1>9. ASSUME NEW w \in Workers, WorkerCrash(w) PROVE HostedInv'
  BY <1>0, <1>9, NoUpload DEF WorkerCrash, Die
<1>10. ASSUME NEW w \in Workers, UploadVideoAsset(w) PROVE HostedInv'
  <2>1. assets \subseteq assets' /\ UNCHANGED <<urls, job>>
    BY <1>10 DEF UploadVideoAsset, FailAttempt
  <2>2. \A x \in Workers \ {w} : wpc'[x] = wpc[x]
    BY <1>0, <1>10 DEF UploadVideoAsset, FailAttempt
  <2>3. \/ wpc'[w] = "backoff"
        \/ wpc'[w] = "uploadThumb" /\ <<job[w], "video">> \in assets'
    BY <1>0, <1>10 DEF UploadVideoAsset, FailAttempt
  <2> QED
    BY <2>1, <2>2, <2>3 DEF HostedInv, AssetsBeforeUpdate, HostedUrlsExist
<1>11. ASSUME NEW w \in Workers, UploadThumbnail(w) PROVE HostedInv'
  <2>1. assets \subseteq assets' /\ UNCHANGED <<urls, job>>
    BY <1>11 DEF UploadThumbnail, FailAttempt
  <2>2. \A x \in Workers \ {w} : wpc'[x] = wpc[x]
    BY <1>0, <1>11 DEF UploadThumbnail, FailAttempt
  <2>3. /\ <<job[w], "video">> \in assets'
        /\ \/ wpc'[w] = "backoff"
           \/ wpc'[w] = "dbUpdate" /\ <<job[w], "thumbnail">> \in assets'
    BY <1>0, <1>11, <2>1 DEF UploadThumbnail, FailAttempt, HostedInv, AssetsBeforeUpdate
  <2> QED
    BY <2>1, <2>2, <2>3 DEF HostedInv, AssetsBeforeUpdate, HostedUrlsExist
<1>12. ASSUME NEW w \in Workers, UpdateProcessed(w) \/ CrashAfterUpdate(w) PROVE HostedInv'
  <2>1. PICK u \in Videos : u = job[w]
    BY <1>0, <1>12, Working DEF UpdateProcessed, CrashAfterUpdate, Die
  <2>2. /\ {<<u, "video">>, <<u, "thumbnail">>} \subseteq assets
        /\ \A v \in Videos : urls'[v] = "hosted" => urls[v] = "hosted" \/ v = u
        /\ UNCHANGED assets
    BY <1>0, <1>12, <2>1 DEF UpdateProcessed, CrashAfterUpdate, Die, HostedInv, AssetsBeforeUpdate
  <2>3. \A x \in Workers \ {w} : wpc'[x] = wpc[x] /\ job'[x] = job[x]
    BY <1>0, <1>12 DEF UpdateProcessed, CrashAfterUpdate, Die, FailAttempt, Listen
  <2>4. wpc'[w] \in {"backoff", "listening", "down"}
    BY <1>0, <1>12 DEF UpdateProcessed, CrashAfterUpdate, Die, FailAttempt, Listen
  <2>5. HostedUrlsExist'
    BY <2>2 DEF HostedInv, HostedUrlsExist
  <2>6. AssetsBeforeUpdate'
    BY <2>2, <2>3, <2>4 DEF HostedInv, AssetsBeforeUpdate
  <2> QED
    BY <2>5, <2>6 DEF HostedInv
<1>13. CASE ServerCrash \/ UNCHANGED vars
  BY <1>13, NoUpload DEF ServerCrash, vars
<1> QED
  BY <1>1, <1>2, <1>3, <1>4, <1>5, <1>6, <1>7, <1>8, <1>9, <1>10, <1>11, <1>12, <1>13
     DEF Next, HandlerStep, WorkerStep

\* A row that points into unibuzz/ on Cloudinary has both assets there.
THEOREM HostedCorrect == Spec => []HostedUrlsExist
<1>1. Init => HostedInv
  BY DEF Init, HostedInv, AssetsBeforeUpdate, HostedUrlsExist
<1>2. HostedInv => HostedUrlsExist
  BY DEF HostedInv
<1> QED
  BY <1>1, <1>2, InitJobInv, JobStep, HostedStep, PTL DEF Spec

-----------------------------------------------------------------------------
\* A worker between two attempts, or without a job, has no directory but
\* those a crash or a failed removal left.
TmpInv ==
    /\ TmpDirsAccounted
    /\ \A w \in Workers :
          wpc[w] \in {"listening", "backoff", "mkdir", "down"} => tmp[w] \subseteq lost \cup leftover

\* A step that touches no directory and enters no phase without one.
LEMMA NoDirectory ==
    ASSUME TmpInv, UNCHANGED tmp, lost \subseteq lost', leftover \subseteq leftover',
           \A w \in Workers :
               \/ tmp[w] \subseteq lost' \cup leftover'
               \/ /\ job'[w] = job[w]
                  /\ wpc'[w] \notin {"listening", "backoff", "mkdir", "down"}
    PROVE  TmpInv'
BY DEF TmpInv, TmpDirsAccounted

\* The attempt ends: its directory is removed, or is one a removal left.
LEMMA RemovesDirectory ==
    ASSUME TmpInv, JobInv, lost \subseteq lost', NEW w \in Workers,
           RemoveTmpDir(w),
           \A x \in Workers \ {w} : wpc'[x] = wpc[x] /\ job'[x] = job[x]
    PROVE  TmpInv'
<1>1. tmp \in [Workers -> SUBSET Videos] /\ leftover \subseteq leftover'
  BY DEF RemoveTmpDir, JobInv, TypeInv, TypeOK
<1>2. tmp'[w] \subseteq lost' \cup leftover'
  <2>1. tmp[w] \subseteq {job[w]} \cup lost \cup leftover
    BY DEF TmpInv, TmpDirsAccounted
  <2>2. CASE tmp' = [tmp EXCEPT ![w] = @ \ {job[w]}] /\ UNCHANGED leftover
    BY <1>1, <2>1, <2>2
  <2>3. CASE leftover' = leftover \cup {job[w]} /\ UNCHANGED tmp
    BY <2>1, <2>3
  <2> QED
    BY <2>2, <2>3 DEF RemoveTmpDir
<1>3. \A x \in Workers \ {w} : tmp'[x] = tmp[x]
  BY <1>1 DEF RemoveTmpDir
<1> QED
  BY <1>1, <1>2, <1>3 DEF TmpInv, TmpDirsAccounted

LEMMA LeftoverGrows ==
    ASSUME [Next]_vars
    PROVE  leftover \subseteq leftover'
BY DEF Next, vars, disk, workerVars, InsertVideo, HandlerStep, UpdateHostedRow, BustFeedCache,
       PushJob, AdminDeleteVideo, WorkerStep, PopJob, MakeTmpDir, GenerateThumbnail,
       UploadVideoAsset, UploadThumbnail, UpdateProcessed, Retry, MarkFailed,
       WorkerRestart, LoseReply, Hang, WorkerCrash, CrashAfterUpdate, ServerCrash,
       FailAttempt, RemoveTmpDir

LEMMA TmpStep ==
    ASSUME JobInv, TmpInv, [Next]_vars
    PROVE  TmpInv'
<1>0. /\ TypeInv /\ wpc \in [Workers -> WorkerPhases]
      /\ lost \subseteq lost' /\ leftover \subseteq leftover'
      /\ tmp \in [Workers -> SUBSET Videos] /\ job \in [Workers -> Videos \cup {NoJob}]
  BY LostGrows, LeftoverGrows DEF JobInv, TypeInv, TypeOK
<1>1. ASSUME UNCHANGED <<wpc, job, tmp>> PROVE TmpInv'
  BY <1>0, <1>1 DEF TmpInv, TmpDirsAccounted
<1> USE DEF rowVars, handlerVars, workerVars, disk
<1>2. ASSUME NEW v \in Videos, NEW request \in Requests, InsertVideo(v, request)
      PROVE  TmpInv'
  BY <1>1, <1>2 DEF InsertVideo
<1>3. ASSUME NEW v \in Videos, HandlerStep(v) \/ AdminDeleteVideo(v) PROVE TmpInv'
  BY <1>1, <1>3 DEF HandlerStep, UpdateHostedRow, BustFeedCache, PushJob, AdminDeleteVideo
<1>4. ASSUME NEW w \in Workers, PopJob(w) PROVE TmpInv'
  BY <1>0, <1>4, NoDirectory DEF PopJob, TmpInv
<1>5. ASSUME NEW w \in Workers, LoseReply(w) PROVE TmpInv'
  BY <1>1, <1>5 DEF LoseReply
<1>6. ASSUME NEW w \in Workers, MakeTmpDir(w) PROVE TmpInv'
  BY <1>0, <1>6 DEF MakeTmpDir, TmpInv, TmpDirsAccounted, history
<1>7. ASSUME NEW w \in Workers, Retry(w) \/ Hang(w) PROVE TmpInv'
  BY <1>0, <1>7, NoDirectory DEF Retry, Hang, TmpInv
<1>8. ASSUME NEW w \in Workers, FailAttempt(w) PROVE TmpInv'
  <2>1. \A x \in Workers \ {w} : wpc'[x] = wpc[x] /\ job'[x] = job[x]
    BY <1>0, <1>8 DEF FailAttempt
  <2> QED
    BY <1>0, <1>8, <2>1, RemovesDirectory DEF FailAttempt
<1>9. ASSUME NEW w \in Workers,
             GenerateThumbnail(w) \/ UploadVideoAsset(w) \/ UploadThumbnail(w)
      PROVE  TmpInv'
  BY <1>0, <1>8, <1>9, NoDirectory
     DEF GenerateThumbnail, UploadVideoAsset, UploadThumbnail, TmpInv
<1>10. ASSUME NEW w \in Workers, UpdateProcessed(w) PROVE TmpInv'
  <2>1. CASE Listen(w) /\ RemoveTmpDir(w)
    <3>1. \A x \in Workers \ {w} : wpc'[x] = wpc[x] /\ job'[x] = job[x]
      BY <1>0, <2>1 DEF Listen
    <3> QED
      BY <1>0, <2>1, <3>1, RemovesDirectory
  <2> QED
    BY <1>8, <1>10, <2>1 DEF UpdateProcessed
<1>11. ASSUME NEW w \in Workers, MarkFailed(w) \/ WorkerRestart(w) PROVE TmpInv'
  BY <1>0, <1>11, NoDirectory DEF MarkFailed, WorkerRestart, Listen, TmpInv
<1>12. ASSUME NEW w \in Workers, WorkerCrash(w) \/ CrashAfterUpdate(w) PROVE TmpInv'
  <2>1. tmp[w] \subseteq lost' \cup leftover'
    <3>1. tmp[w] \subseteq {job[w]} \cup lost \cup leftover /\ tmp[w] \subseteq Videos
      BY <1>0 DEF TmpInv, TmpDirsAccounted
    <3>2. lost' = lost \cup ({job[w]} \ {NoJob})
      BY <1>12 DEF WorkerCrash, CrashAfterUpdate, Die
    <3> QED
      BY <1>0, <3>1, <3>2, PipelineAssumption
  <2>2. \A x \in Workers \ {w} : wpc'[x] = wpc[x] /\ job'[x] = job[x]
    BY <1>0, <1>12 DEF WorkerCrash, CrashAfterUpdate, Die
  <2>3. UNCHANGED tmp
    BY <1>12 DEF WorkerCrash, CrashAfterUpdate, Die
  <2>4. ASSUME NEW x \in Workers, x # w
        PROVE  /\ tmp'[x] \subseteq {job'[x]} \cup lost' \cup leftover'
               /\ wpc'[x] \in {"listening", "backoff", "mkdir", "down"}
                     => tmp'[x] \subseteq lost' \cup leftover'
    BY <1>0, <2>2, <2>3, <2>4 DEF TmpInv, TmpDirsAccounted
  <2>5. tmp'[w] \subseteq lost' \cup leftover'
    BY <2>1, <2>3
  <2> QED
    BY <2>4, <2>5 DEF TmpInv, TmpDirsAccounted
<1>13. CASE ServerCrash \/ UNCHANGED vars
  BY <1>1, <1>13 DEF ServerCrash, vars
<1> QED
  BY <1>2, <1>3, <1>4, <1>5, <1>6, <1>7, <1>9, <1>10, <1>11, <1>12, <1>13
     DEF Next, WorkerStep

\* A worker's disk keeps the directory of its current job only; any other is
\* one a crash left, or one whose removal failed.
THEOREM TmpCorrect == Spec => []TmpDirsAccounted
<1>1. Init => TmpInv
  BY DEF Init, TmpInv, TmpDirsAccounted
<1>2. TmpInv => TmpDirsAccounted
  BY DEF TmpInv
<1> QED
  BY <1>1, <1>2, InitJobInv, JobStep, TmpStep, PTL DEF Spec
=============================================================================
