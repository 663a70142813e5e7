--------------------------- MODULE FeedCacheProofs ---------------------------
(***************************************************************************)
(* Theorems about the feed and its cached page, for any number of videos   *)
(* and requests, any limit, time to live, fill time and number of faults.  *)
(***************************************************************************)
EXTENDS FeedCache, TLAPS

\* What holds of a page that was read at most a ticks ago.
Fresh(p, a) ==
    /\ \A v \in p : v \in Eligible \/ since[v] <= a
    /\ sinceCut > a /\ (\A v \in Videos : since[v] > a) => p = Feed
    /\ exposed \subseteq p

\* A page in the key was read at most MaxFill ticks before it was SET, so its
\* age is bounded by what is left of its time to live.
FeedInv ==
    /\ TypeOK
    /\ exposed \subseteq Feed
    /\ Cached => Fresh(cache.page, Horizon - cache.ttl)
    /\ \A r \in Readers : reader[r] = "read" => Fresh(page[r], age[r])

-----------------------------------------------------------------------------
(* The feed and its histories.                                             *)

LEMMA FeedIsEligible == Feed \subseteq Eligible /\ Eligible \subseteq Videos
BY DEF Feed, Newest, Eligible

\* The feed depends on the rows only by which are eligible.
LEMMA SameFeed ==
    ASSUME Eligible' = Eligible
    PROVE  Feed' = Feed
BY DEF Feed, Newest

LEMMA HorizonType == Horizon \in Nat /\ TTL <= Horizon /\ MaxFill = Horizon - TTL /\ MaxFill < Horizon
BY FeedAssumption DEF Horizon

\* A step that moves no video in or out of the feed.
LEMMA FreshKept ==
    ASSUME NEW p, NEW a, Fresh(p, a), Eligible' = Eligible,
           UNCHANGED <<since, sinceCut>>, exposed' \subseteq exposed
    PROVE  Fresh(p, a)'
BY SameFeed DEF Fresh

\* A step that does: whoever left has age 0, and whoever remains exposed is
\* still in the feed.
LEMMA FreshMoved ==
    ASSUME TypeOK, NEW p \in SUBSET Videos, NEW a \in Nat, Fresh(p, a),
           FeedMoves, UNCHANGED sinceCut
    PROVE  Fresh(p, a)'
<1>1. \A v \in Videos :
          since'[v] = IF (v \in Eligible) = (v \in Eligible') THEN since[v] ELSE 0
  BY DEF FeedMoves
<1>2. ASSUME NEW v \in p
      PROVE  (v \in Eligible \/ since[v] <= a)'
  <2>1. CASE (v \in Eligible) = (v \in Eligible')
    BY <1>1, <2>1 DEF Fresh
  <2>2. CASE (v \in Eligible) # (v \in Eligible')
    BY <1>1, <2>2
  <2> QED
    BY <2>1, <2>2
<1>3. ASSUME sinceCut' > a, \A v \in Videos : since'[v] > a
      PROVE  p = Feed'
  <2>1. \A v \in Videos : (v \in Eligible) = (v \in Eligible') /\ since'[v] = since[v]
    BY <1>1, <1>3
  <2>2. Eligible' = Eligible
    BY <2>1 DEF Eligible
  <2> QED
    BY <1>3, <2>1, <2>2, SameFeed DEF Fresh
<1>4. exposed' \subseteq p
  BY DEF FeedMoves, Fresh
<1> QED
  BY <1>2, <1>3, <1>4 DEF Fresh

\* A tick makes a page at most one tick older.
LEMMA FreshAged ==
    ASSUME FeedInv, Tick, NEW p \in SUBSET Videos, NEW a \in Nat, a < Horizon, Fresh(p, a)
    PROVE  Fresh(p, a + 1)'
<1>0. Eligible' = Eligible /\ exposed' = exposed
  BY DEF Tick, rows, Eligible
<1>1. /\ \A v \in Videos : since[v] \in 0 .. Horizon
      /\ sinceCut \in 0 .. Horizon
      /\ Horizon \in Nat
  BY HorizonType DEF FeedInv, TypeOK
<1>2. /\ \A v \in Videos : since'[v] = IF since[v] < Horizon THEN since[v] + 1 ELSE Horizon
      /\ sinceCut' = IF sinceCut < Horizon THEN sinceCut + 1 ELSE Horizon
  BY DEF Tick
<1>3. ASSUME NEW v \in Videos
      PROVE  /\ since[v] <= a => since'[v] <= a + 1
             /\ since'[v] > a + 1 => since[v] > a
  BY <1>1, <1>2
<1>4. sinceCut' > a + 1 => sinceCut > a
  BY <1>1, <1>2
<1>5. \A v \in p : (v \in Eligible \/ since[v] <= a + 1)'
  BY <1>0, <1>3 DEF Fresh
<1>6. ASSUME sinceCut' > a + 1, \A v \in Videos : since'[v] > a + 1
      PROVE  p = Feed'
  BY <1>0, <1>3, <1>4, <1>6, SameFeed DEF Fresh
<1> QED
  BY <1>0, <1>5, <1>6 DEF Fresh

\* A page may be taken for an older one.
LEMMA FreshWeaker ==
    ASSUME TypeOK, NEW p \in SUBSET Videos, NEW a \in Nat, NEW b \in Nat, a <= b, Fresh(p, a)
    PROVE  Fresh(p, b)
<1>1. sinceCut \in Int /\ \A v \in Videos : since[v] \in Int
  BY HorizonType DEF TypeOK
<1> QED
  BY <1>1 DEF Fresh

-----------------------------------------------------------------------------
(* Types.                                                                  *)

LEMMA MovesTyped ==
    ASSUME TypeOK, FeedMoves
    PROVE  since' \in [Videos -> 0 .. Horizon] /\ exposed' \subseteq Videos
BY HorizonType DEF TypeOK, FeedMoves

LEMMA TypeStep ==
    ASSUME TypeOK, [Next]_vars
    PROVE  TypeOK'
<1> USE DEF rows, requests, clocks
<1>1. ASSUME NEW v \in Videos, CreateRow(v) \/ RedeliverWork(v)
      PROVE  TypeOK'
  BY <1>1 DEF CreateRow, RedeliverWork, TypeOK, Rows!TypeOK, Rows!Statuses,
              Rows!Create, Rows!Redeliver
<1>2. ASSUME NEW v \in Videos, PublishHosted(v)
      PROVE  TypeOK'
  <2>1. Rows!TypeOK'
    BY <1>2 DEF PublishHosted, TypeOK, Rows!TypeOK, Rows!Statuses, Rows!Terminal, Rows!Settle
  <2> QED
    BY <1>2, <2>1, MovesTyped DEF PublishHosted, TypeOK
<1>3. ASSUME NEW v \in Videos, NEW outcome \in Rows!Terminal, WorkerSettles(v, outcome)
      PROVE  TypeOK'
  <2>1. Rows!TypeOK'
    BY <1>3 DEF WorkerSettles, TypeOK, Rows!TypeOK, Rows!Statuses, Rows!Settle, Rows!Resettle
  <2> QED
    BY <1>3, <2>1, MovesTyped DEF WorkerSettles, TypeOK
<1>4. ASSUME NEW v \in Videos, AdminDeleteVideo(v)
      PROVE  TypeOK'
  BY <1>4, MovesTyped DEF AdminDeleteVideo, TypeOK, Rows!TypeOK
<1>5. ASSUME NEW v \in Videos, BustFeedCache(v)
      PROVE  TypeOK'
  BY <1>5, FeedAssumption DEF BustFeedCache, TypeOK, Rows!TypeOK, NoFeed, Fault
<1>6. ASSUME NEW r \in Readers, MissFeed(r) \/ FeedError(r)
      PROVE  TypeOK'
  BY <1>6, FeedAssumption DEF MissFeed, FeedError, TypeOK, Rows!TypeOK, Fault
<1>7. ASSUME NEW r \in Readers, QueryFeed(r)
      PROVE  TypeOK'
  <2>1. page' \in [Readers -> SUBSET Videos]
    BY <1>7, FeedIsEligible DEF QueryFeed, TypeOK
  <2>2. sinceCut' \in 0 .. Horizon /\ exposed' \subseteq Videos /\ faults' \in 0 .. MaxFaults
    BY <1>7, HorizonType, FeedAssumption DEF QueryFeed, TypeOK, Fault
  <2> QED
    BY <1>7, <2>1, <2>2 DEF QueryFeed, TypeOK, Rows!TypeOK
<1>8. ASSUME NEW r \in Readers, SetFeed(r)
      PROVE  TypeOK'
  BY <1>8, FeedAssumption DEF SetFeed, TypeOK, Rows!TypeOK, Fault
<1>9. CASE Tick
  <2>1. /\ since' \in [Videos -> 0 .. Horizon] /\ sinceCut' \in 0 .. Horizon
        /\ age' \in [Readers -> 0 .. MaxFill]
    BY <1>9, HorizonType, FeedAssumption DEF Tick, TypeOK
  <2>2. cache' \in [page : SUBSET Videos, ttl : 0 .. TTL]
    BY <1>9, FeedAssumption DEF Tick, TypeOK, NoFeed
  <2> QED
    BY <1>9, <2>1, <2>2 DEF Tick, TypeOK, Rows!TypeOK
<1>10. CASE UNCHANGED vars
  BY <1>10 DEF vars, TypeOK, Rows!TypeOK
<1> QED
  BY <1>1, <1>2, <1>3, <1>4, <1>5, <1>6, <1>7, <1>8, <1>9, <1>10 DEF Next

-----------------------------------------------------------------------------
(* Steps.                                                                  *)

\* The pages in use and their ages.
LEMMA PagesTyped ==
    ASSUME TypeOK
    PROVE  /\ cache.page \in SUBSET Videos /\ cache.ttl \in 0 .. TTL
           /\ Horizon - cache.ttl \in Nat
           /\ \A r \in Readers : page[r] \in SUBSET Videos /\ age[r] \in 0 .. MaxFill
BY HorizonType, FeedAssumption DEF TypeOK

\* A step that leaves every page alone and moves no video.
LEMMA QuietStep ==
    ASSUME FeedInv, TypeOK', Eligible' = Eligible, UNCHANGED <<cache, page, age, clocks, exposed>>,
           \A r \in Readers : reader'[r] = "read" => reader[r] = "read"
    PROVE  FeedInv'
<1>1. ASSUME NEW p, NEW a, Fresh(p, a) PROVE Fresh(p, a)'
  BY <1>1, FreshKept DEF clocks
<1>2. exposed' \subseteq Feed'
  BY SameFeed DEF FeedInv
<1>3. Cached' => Fresh(cache.page, Horizon - cache.ttl)'
  <2> SUFFICES ASSUME Cached'
               PROVE  Fresh(cache.page, Horizon - cache.ttl)'
    OBVIOUS
  <2>1. cache' = cache /\ Fresh(cache.page, Horizon - cache.ttl)
    BY DEF FeedInv, Cached
  <2>2. \A p, a : Fresh(p, a) => Fresh(p, a)'
    BY <1>1
  <2> QED
    BY <2>1, <2>2 DEF Fresh, Horizon
<1>4. ASSUME NEW r \in Readers, reader'[r] = "read"
      PROVE  Fresh(page[r], age[r])'
  <2>1. page' = page /\ age' = age /\ Fresh(page[r], age[r])
    BY <1>4 DEF FeedInv
  <2>2. \A p, a : Fresh(p, a) => Fresh(p, a)'
    BY <1>1
  <2> QED
    BY <2>1, <2>2 DEF Fresh
<1> QED
  BY <1>2, <1>3, <1>4 DEF FeedInv

\* A step that moves a video.
LEMMA MovingStep ==
    ASSUME FeedInv, TypeOK', FeedMoves, UNCHANGED <<cache, requests, sinceCut>>
    PROVE  FeedInv'
<1>1. ASSUME NEW p \in SUBSET Videos, NEW a \in Nat, Fresh(p, a) PROVE Fresh(p, a)'
  BY <1>1, FreshMoved DEF FeedInv
<1>2. Cached => Fresh(cache.page, Horizon - cache.ttl)'
  BY <1>1, PagesTyped DEF FeedInv, Horizon
<1>3. \A r \in Readers : reader[r] = "read" => Fresh(page[r], age[r])'
  BY <1>1, PagesTyped, FeedAssumption DEF FeedInv, requests
<1>4. exposed' \subseteq Feed'
  BY DEF FeedMoves
<1> QED
  BY <1>2, <1>3, <1>4 DEF FeedInv, Cached, requests

\* The DEL exposes a video only when no request in flight read a page without
\* it; the key is gone, so nobody else is served such a page.
LEMMA BustStep ==
    ASSUME FeedInv, TypeOK', NEW v \in Videos, BustFeedCache(v)
    PROVE  FeedInv'
<1>1. Eligible' = Eligible /\ UNCHANGED <<requests, clocks, reader, page, age, since, sinceCut>>
  BY DEF BustFeedCache, rows, Eligible, requests, clocks
<1>2. CASE UNCHANGED <<cache, exposed>>
  BY <1>1, <1>2, QuietStep
<1>3. CASE /\ cache' = NoFeed
           /\ exposed' = exposed \cup
                 {u \in {v} \cap Feed : \A r \in Readers : reader[r] = "read" => u \in page[r]}
  <2>1. exposed' \subseteq Feed' /\ ~Cached'
    BY <1>1, <1>3, SameFeed DEF FeedInv, Cached, NoFeed
  <2>2. ASSUME NEW r \in Readers, reader[r] = "read"
        PROVE  Fresh(page[r], age[r])'
    <3>1. exposed' \subseteq page[r]
      BY <1>3, <2>2 DEF FeedInv, Fresh
    <3> QED
      BY <1>1, <2>2, <3>1, SameFeed DEF FeedInv, Fresh
  <2> QED
    BY <1>1, <2>1, <2>2 DEF FeedInv
<1> QED
  BY <1>2, <1>3 DEF BustFeedCache

\* A page just read is the feed, or was cut short just now.
LEMMA QueryStep ==
    ASSUME FeedInv, TypeOK', NEW r \in Readers, QueryFeed(r)
    PROVE  FeedInv'
<1>0. /\ reader \in [Readers -> {"idle", "missed", "read"}]
      /\ page \in [Readers -> SUBSET Videos] /\ age \in [Readers -> 0 .. MaxFill]
  BY DEF FeedInv, TypeOK
<1>1. /\ Eligible' = Eligible /\ Feed' = Feed
      /\ UNCHANGED <<cache, age, since>>
      /\ \A q \in Readers \ {r} : reader'[q] = reader[q] /\ page'[q] = page[q]
      /\ exposed' \subseteq exposed
      /\ sinceCut' = sinceCut \/ sinceCut' = 0
  BY <1>0, SameFeed DEF QueryFeed, rows, Eligible
<1>2. ASSUME NEW p \in SUBSET Videos, NEW a \in Nat, Fresh(p, a)
      PROVE  Fresh(p, a)'
  BY <1>1, <1>2 DEF Fresh
<1>3. Cached => Fresh(cache.page, Horizon - cache.ttl)'
  BY <1>1, <1>2, PagesTyped DEF FeedInv, Horizon
<1>4. \A q \in Readers \ {r} : reader'[q] = "read" => Fresh(page[q], age[q])'
  BY <1>1, <1>2, PagesTyped, FeedAssumption DEF FeedInv
<1>5. page'[r] \subseteq Feed /\ exposed' \subseteq page'[r]
  BY <1>0 DEF QueryFeed, FeedInv
<1>6. page'[r] = Feed \/ sinceCut' = 0
  BY <1>0 DEF QueryFeed
<1>7. age[r] \in Nat
  BY <1>0, FeedAssumption
<1>8. Fresh(page[r], age[r])'
  BY <1>1, <1>5, <1>6, <1>7, FeedIsEligible DEF Fresh
<1>9. exposed' \subseteq Feed'
  BY <1>1 DEF FeedInv
<1> QED
  BY <1>1, <1>3, <1>4, <1>8, <1>9 DEF FeedInv, Cached

\* What is SET was read at most MaxFill ticks ago.
LEMMA SetStep ==
    ASSUME FeedInv, TypeOK', NEW r \in Readers, SetFeed(r)
    PROVE  FeedInv'
<1>0. /\ reader \in [Readers -> {"idle", "missed", "read"}]
      /\ page \in [Readers -> SUBSET Videos] /\ age \in [Readers -> 0 .. MaxFill]
  BY DEF FeedInv, TypeOK
<1>1. /\ Eligible' = Eligible /\ Feed' = Feed
      /\ UNCHANGED <<since, sinceCut, exposed>>
      /\ \A q \in Readers \ {r} : /\ reader'[q] = reader[q] /\ page'[q] = page[q]
                                  /\ age'[q] = age[q]
      /\ reader[r] = "read" /\ reader'[r] = "idle"
  BY <1>0, SameFeed DEF SetFeed, rows, clocks, Eligible
<1>2. ASSUME NEW p, NEW a, Fresh(p, a) PROVE Fresh(p, a)'
  BY <1>1, <1>2, FreshKept
<1>3. Fresh(page[r], MaxFill)
  BY <1>1, PagesTyped, FreshWeaker, FeedAssumption DEF FeedInv
<1>4. CASE cache' = cache
  BY <1>1, <1>2, <1>4 DEF FeedInv, Cached, Fresh, Horizon
<1>5. CASE cache' = [page |-> page[r], ttl |-> TTL]
  <2>1. cache'.page = page[r] /\ (Horizon - cache.ttl)' = MaxFill
    BY <1>5, HorizonType DEF Horizon
  <2>2. Fresh(cache.page, Horizon - cache.ttl)'
    BY <1>1, <1>3, <2>1 DEF Fresh
  <2>3. \A q \in Readers : reader'[q] = "read" => Fresh(page[q], age[q])'
    BY <1>1 DEF FeedInv, Fresh
  <2> QED
    BY <1>1, <2>2, <2>3 DEF FeedInv
<1> QED
  BY <1>4, <1>5 DEF SetFeed

\* The key expires before the bound on its page's age reaches Horizon.
LEMMA TickStep ==
    ASSUME FeedInv, TypeOK', Tick
    PROVE  FeedInv'
<1>0. /\ Eligible' = Eligible /\ Feed' = Feed
      /\ UNCHANGED <<reader, page, exposed>>
  BY SameFeed DEF Tick, rows, Eligible
<1>1. ASSUME Cached'
      PROVE  Fresh(cache.page, Horizon - cache.ttl)'
  <2>1. cache.ttl > 1 /\ cache' = [cache EXCEPT !.ttl = @ - 1]
    BY <1>1 DEF Tick, Cached, NoFeed
  <2>2. /\ cache'.page = cache.page /\ cache'.ttl = cache.ttl - 1
        /\ cache.ttl \in 0 .. TTL
    BY <2>1 DEF FeedInv, TypeOK
  <2>3. /\ Horizon - cache.ttl \in Nat /\ Horizon - cache.ttl < Horizon
        /\ Horizon - cache'.ttl = (Horizon - cache.ttl) + 1
    BY <2>1, <2>2, HorizonType, FeedAssumption
  <2>4. Cached /\ cache.page \in SUBSET Videos
    BY <2>1, <2>2, PagesTyped, FeedAssumption DEF Cached, FeedInv
  <2>5. \A a \in Nat : a = Horizon - cache.ttl => Fresh(cache.page, a)
    BY <2>4 DEF FeedInv
  <2>6. ASSUME NEW p \in SUBSET Videos, NEW a \in Nat, p = cache.page, a = Horizon - cache.ttl
        PROVE  Fresh(p, a + 1)'
    BY <2>3, <2>5, <2>6, FreshAged
  <2> QED
    BY <2>2, <2>3, <2>4, <2>6 DEF Fresh, Horizon
<1>2. ASSUME NEW r \in Readers, reader'[r] = "read"
      PROVE  Fresh(page[r], age[r])'
  <2>1. age'[r] = age[r] + 1 /\ age[r] < MaxFill /\ age[r] \in Nat
    BY <1>0, <1>2, PagesTyped, FeedAssumption DEF Tick, FeedInv
  <2>2. age[r] < Horizon
    BY <2>1, HorizonType, FeedAssumption
  <2>3. ASSUME NEW p \in SUBSET Videos, NEW a \in Nat, p = page[r], a = age[r]
        PROVE  Fresh(p, a + 1)'
    BY <1>0, <1>2, <2>2, <2>3, FreshAged DEF FeedInv
  <2> QED
    BY <1>0, <2>1, <2>3, PagesTyped DEF Fresh, FeedInv
<1> QED
  BY <1>0, <1>1, <1>2 DEF FeedInv

LEMMA FeedStep ==
    ASSUME FeedInv, [Next]_vars
    PROVE  FeedInv'
<1>0. TypeOK'
  BY TypeStep DEF FeedInv
<1>1. ASSUME NEW v \in Videos, CreateRow(v) \/ RedeliverWork(v)
      PROVE  FeedInv'
  <2>1. Eligible' = Eligible
    BY <1>1 DEF CreateRow, RedeliverWork, Rows!Create, Rows!Redeliver, Eligible, FeedInv,
               TypeOK, Rows!TypeOK
  <2> QED
    BY <1>0, <1>1, <2>1, QuietStep DEF CreateRow, RedeliverWork, requests
<1>2. ASSUME NEW v \in Videos, NEW outcome \in Rows!Terminal,
             PublishHosted(v) \/ WorkerSettles(v, outcome) \/ AdminDeleteVideo(v)
      PROVE  FeedInv'
  BY <1>0, <1>2, MovingStep DEF PublishHosted, WorkerSettles, AdminDeleteVideo
<1>3. ASSUME NEW r \in Readers, MissFeed(r) \/ FeedError(r)
      PROVE  FeedInv'
  <2>1. Eligible' = Eligible
    BY <1>3 DEF MissFeed, FeedError, rows, Eligible
  <2>2. \A q \in Readers : reader'[q] = "read" => reader[q] = "read"
    BY <1>3 DEF MissFeed, FeedError, FeedInv, TypeOK
  <2> QED
    BY <1>0, <1>3, <2>1, <2>2, QuietStep DEF MissFeed, FeedError
<1>4. CASE UNCHANGED vars
  BY <1>0, <1>4, QuietStep DEF vars, rows, requests, Eligible
<1>5. Rows!Terminal # {}
  BY DEF Rows!Terminal
<1> QED
  BY <1>0, <1>1, <1>2, <1>3, <1>4, <1>5, BustStep, QueryStep, SetStep, TickStep DEF Next

LEMMA FeedInit == Init => FeedInv
<1> SUFFICES ASSUME Init PROVE FeedInv
  OBVIOUS
<1>1. Rows!TypeOK
  BY DEF Init, Rows!Init, Rows!TypeOK, Rows!Statuses
<1>2. TypeOK
  BY <1>1, HorizonType, FeedAssumption DEF Init, TypeOK, NoFeed
<1> QED
  BY <1>2 DEF Init, FeedInv, Cached, NoFeed

LEMMA Invariant == Spec => []FeedInv
BY FeedInit, FeedStep, PTL DEF Spec

\* What is served is a page in use, and its age is below Horizon.
LEMMA ServedIsFresh ==
    ASSUME FeedInv, NEW p \in SUBSET Videos, Served(p)
    PROVE  \E a \in Nat : a < Horizon /\ Fresh(p, a)
<1>1. CASE Cached /\ p = cache.page
  <2>1. Horizon - cache.ttl \in Nat /\ Horizon - cache.ttl < Horizon
    BY <1>1, PagesTyped, HorizonType, FeedAssumption DEF FeedInv, Cached
  <2> QED
    BY <1>1, <2>1 DEF FeedInv
<1>2. CASE \E r \in Readers : reader[r] = "read" /\ p = page[r]
  BY <1>2, PagesTyped, HorizonType, FeedAssumption DEF FeedInv
<1> QED
  BY <1>1, <1>2 DEF Served

-----------------------------------------------------------------------------
\* Type correctness of the feed.
THEOREM FeedTypeCorrect == Spec => []TypeOK
<1>1. FeedInv => TypeOK
  BY DEF FeedInv
<1> QED
  BY <1>1, Invariant, PTL

\* GetFeed serves no video for longer than the time to live and one fill
\* after it was deleted or lost its status.
THEOREM DeletedVideoLeavesCorrect == Spec => []DeletedVideoLeaves
<1>1. FeedInv => DeletedVideoLeaves
  <2> SUFFICES ASSUME FeedInv, NEW p \in SUBSET Videos, Served(p), NEW v \in p
               PROVE  v \in Eligible \/ since[v] < Horizon
    BY DEF DeletedVideoLeaves
  <2>1. PICK a \in Nat : a < Horizon /\ Fresh(p, a)
    BY ServedIsFresh
  <2>2. since[v] \in Nat /\ Horizon \in Nat
    BY HorizonType DEF FeedInv, TypeOK
  <2> QED
    BY <2>1, <2>2 DEF Fresh
<1> QED
  BY <1>1, Invariant, PTL

\* When nothing moved and no read was cut short for that long, GetFeed
\* answers the newest processed videos, whatever went wrong before.
THEOREM QuietFeedCorrect == Spec => []QuietFeedIsExact
<1>1. FeedInv => QuietFeedIsExact
  <2> SUFFICES ASSUME FeedInv, sinceCut = Horizon, \A v \in Videos : since[v] = Horizon,
                      NEW p \in SUBSET Videos, Served(p)
               PROVE  p = Feed
    BY DEF QuietFeedIsExact
  <2>1. PICK a \in Nat : a < Horizon /\ Fresh(p, a)
    BY ServedIsFresh
  <2> QED
    BY <2>1, HorizonType DEF Fresh
<1> QED
  BY <1>1, Invariant, PTL

\* A video whose DEL no request in flight could undo is on every page GetFeed
\* serves, as long as it is among the newest.
THEOREM BustedFeedCorrect == Spec => []BustedFeedShowsVideo
<1>1. FeedInv => BustedFeedShowsVideo
  BY ServedIsFresh DEF BustedFeedShowsVideo, Fresh
<1> QED
  BY <1>1, Invariant, PTL
=============================================================================
