---------------------------- MODULE Crawl_proofs ----------------------------
(***************************************************************************)
(* Theorems about the crawl tool's three modules, which share no name:     *)
(* SiteCrawl, for any crawls, sites, configurations and timeouts;          *)
(* SitemapDiscovery, for any sitemaps; BfsCrawl, for any web.              *)
(*                                                                         *)
(* SiteCrawl: a call is in the Firecrawl phase only with a Firecrawl       *)
(* configured, and has booked nothing until it leaves it; what a polling   *)
(* call has waited and its timer add up to no more than the deadline, an   *)
(* interval and a poll.                                                    *)
(*                                                                         *)
(* SitemapDiscovery: the sitemaps under way are a path from the candidate, *)
(* of different sitemaps below the first; and where the candidate leads to *)
(* no more than maxDepth of them, every sitemap seen lists only what was   *)
(* seen, or is on that path.  So a sitemap that is too deep was seen.      *)
(*                                                                         *)
(* BfsCrawl: the queue is in the order of depth, so what is read next was  *)
(* found at the least depth at which it can be reached; and what a page    *)
(* that was read links to is visited, disallowed, or in the queue no       *)
(* deeper than one level below.                                            *)
(***************************************************************************)
EXTENDS SiteCrawl, SitemapDiscovery, BfsCrawl, DataLemmas

(* The cascade of strategies.                                              *)

Fields == {"at", "strategy", "pages", "waited", "due", "urls", "first", "settled", "fetched"}

Phase1 == {"start", "sleeping", "polling", "storing"}

(* What a call's state q and what it booked, b, have to do with each other. *)
BookedOnce(q, b) ==
    /\ b = IF config.firecrawl = "none" \/ q.strategy = "cached" \/ q.at \in {"idle", "lookup"} \union Phase1
           THEN 0 ELSE 1
    /\ config.firecrawl = "none" => q.at \notin Phase1 \union {"map"}
    /\ q.strategy = "cached" => q.at = "done"

WaitsWithin(q) ==
    /\ q.at \in {"sleeping", "polling"} => q.waited \in Nat /\ q.due \in Nat
    /\ q.at = "sleeping" => q.waited + q.due <= MaxWait - 1 + Interval
    /\ q.at = "polling" => q.waited + q.due <= LongestWait

Good(q, b) == DOMAIN q = Fields /\ BookedOnce(q, b) /\ WaitsWithin(q)

IInv ==
    /\ config \in Configs
    /\ DOMAIN crawl = Crawl /\ DOMAIN booked = Crawl
    /\ \A c \in Crawl : Good(crawl[c], booked[c])

-----------------------------------------------------------------------------
(* The invariant at the start.                                             *)
LEMMA InitIInv == Init => IInv
<1>. SUFFICES ASSUME Init PROVE IInv
  OBVIOUS
<1>1. DOMAIN Fresh = Fields /\ Fresh.at = "idle" /\ Fresh.strategy = None
  BY DEF Fresh, Fields
<1>2. Good(Fresh, 0)
  BY <1>1, SiteCrawlAssumption DEF Good, BookedOnce, WaitsWithin, Phase1
<1>. QED  BY <1>2 DEF Init, IInv

(* A step of one call.                                                     *)
LEMMA OneCall ==
    ASSUME IInv, NEW c \in Crawl, UNCHANGED config, NEW q, crawl' = [crawl EXCEPT ![c] = q],
           UNCHANGED booked \/ \E b \in {0, booked[c] + 1} : booked' = [booked EXCEPT ![c] = b],
           Good(q, booked'[c])
    PROVE  IInv'
<1>1. /\ DOMAIN crawl' = Crawl /\ DOMAIN booked' = Crawl
      /\ crawl'[c] = q
      /\ \A d \in Crawl \ {c} : crawl'[d] = crawl[d] /\ booked'[d] = booked[d]
  BY DEF IInv
<1>. QED  BY <1>1 DEF IInv, Good, BookedOnce, WaitsWithin

(* A call begins or returns.                                               *)
LEMMA BeginReturnStep ==
    ASSUME IInv, NEW c \in Crawl, UNCHANGED config, Begin(c) \/ Return(c)
    PROVE  IInv'
<1>. DEFINE q == IF Begin(c) THEN [Fresh EXCEPT !.at = "lookup"] ELSE Fresh
<1>1. crawl' = [crawl EXCEPT ![c] = q] /\ booked' = [booked EXCEPT ![c] = 0]
  BY DEF Begin, Return
<1>2. DOMAIN q = Fields /\ q.at \in {"idle", "lookup"} /\ q.strategy = None
  BY DEF Fresh, Fields
<1>. HIDE DEF q
<1>3. booked'[c] = 0
  BY <1>1 DEF IInv
<1>4. Good(q, 0)
  BY <1>2, SiteCrawlAssumption DEF Good, BookedOnce, WaitsWithin, Phase1
<1>. QED  BY <1>1, <1>3, <1>4, OneCall

(* A failure of the Firecrawl phase is booked, and leaves it.              *)
LEMMA MissesStep ==
    ASSUME IInv, NEW c \in Crawl, UNCHANGED config, crawl[c].at \in Phase1, Misses(c)
    PROVE  IInv'
<1>. DEFINE q == [Fresh EXCEPT !.at = AfterFirecrawl]
<1>1. crawl' = [crawl EXCEPT ![c] = q] /\ booked' = [booked EXCEPT ![c] = booked[c] + 1]
  BY DEF Misses, Books
<1>2. /\ DOMAIN q = Fields /\ q.at = AfterFirecrawl /\ q.strategy = None
      /\ AfterFirecrawl \in {"map", "sitemap"}
  BY DEF Fresh, Fields, AfterFirecrawl
<1>. HIDE DEF q
<1>3. booked[c] = 0 /\ config.firecrawl # "none"
  BY DEF IInv, Good, BookedOnce, Phase1
<1>4. booked'[c] = 1
  BY <1>1, <1>3 DEF IInv
<1>5. Good(q, 1)
  BY <1>2, <1>3, SiteCrawlAssumption DEF Good, BookedOnce, WaitsWithin, Phase1
<1>. QED  BY <1>1, <1>4, <1>5, OneCall

(* A call that has time for another poll; or has not.                      *)
LEMMA NextPollStep ==
    ASSUME IInv, NEW c \in Crawl, UNCHANGED config, crawl[c].at \in Phase1,
           NEW waited \in Nat, NextPoll(c, waited)
    PROVE  IInv'
<1>1. CASE waited < MaxWait
  <2>. DEFINE q == [crawl[c] EXCEPT !.at = "sleeping", !.due = Interval, !.waited = waited]
  <2>1. crawl' = [crawl EXCEPT ![c].at = "sleeping", ![c].due = Interval, ![c].waited = waited]
        /\ UNCHANGED booked
    BY <1>1 DEF NextPoll, Sleeps
  <2>2. DOMAIN crawl[c] = Fields
    BY DEF IInv, Good
  <2>3. crawl' = [crawl EXCEPT ![c] = q]
    BY <2>1 DEF IInv
  <2>4. /\ DOMAIN q = Fields /\ q.at = "sleeping" /\ q.strategy = crawl[c].strategy
        /\ q.due = Interval /\ q.waited = waited
    BY <2>2 DEF Fields
  <2>. HIDE DEF q
  <2>5. booked[c] = 0 /\ config.firecrawl # "none" /\ crawl[c].strategy # "cached"
    BY DEF IInv, Good, BookedOnce, Phase1
  <2>6. WaitsWithin(q)
    BY <1>1, <2>4, SiteCrawlAssumption DEF WaitsWithin
  <2>7. Good(q, booked'[c])
    BY <2>1, <2>4, <2>5, <2>6 DEF Good, BookedOnce, Phase1
  <2>. QED  BY <2>1, <2>3, <2>7, OneCall
<1>2. CASE ~(waited < MaxWait)
  BY <1>2, MissesStep DEF NextPoll
<1>. QED  BY <1>1, <1>2

(* A step that books nothing, and neither sleeps nor polls.                *)
LEMMA MoveStep ==
    ASSUME IInv, NEW c \in Crawl, UNCHANGED <<config, booked>>,
           NEW q, crawl' = [crawl EXCEPT ![c] = q], DOMAIN q = Fields,
           q.strategy # "cached", crawl[c].at # "done", q.at \notin {"sleeping", "polling"},
           \/ config.firecrawl = "none" /\ q.at \notin Phase1 \union {"map"}
           \/ /\ config.firecrawl # "none"
              /\ q.at \in {"idle", "lookup"} \union Phase1 <=> crawl[c].at \in {"idle", "lookup"} \union Phase1
    PROVE  IInv'
<1>1. crawl[c].strategy # "cached" /\ BookedOnce(crawl[c], booked[c])
  BY DEF IInv, Good, BookedOnce
<1>2. Good(q, booked'[c])
  BY <1>1 DEF Good, BookedOnce, WaitsWithin
<1>. QED  BY <1>2, OneCall

(* A call looks its manifest up or saves it.                               *)
LEMMA ManifestStep ==
    ASSUME IInv, NEW c \in Crawl, UNCHANGED config, ManifestHit(c) \/ ManifestMiss(c)
    PROVE  IInv'
<1>1. /\ UNCHANGED booked /\ booked[c] = 0 /\ crawl[c].at = "lookup"
      /\ DOMAIN crawl[c] = Fields /\ crawl[c].strategy # "cached"
  BY DEF ManifestHit, ManifestMiss, At, IInv, Good, BookedOnce
<1>2. CASE ManifestHit(c)
  <2>. DEFINE q == [Fresh EXCEPT !.at = "done", !.strategy = "cached", !.pages = manifest.pages]
  <2>1. crawl' = [crawl EXCEPT ![c] = q]
    BY <1>2 DEF ManifestHit, Ends
  <2>2. DOMAIN q = Fields /\ q.at = "done" /\ q.strategy = "cached"
    BY DEF Fresh, Fields
  <2>. HIDE DEF q
  <2>3. Good(q, booked'[c])
    BY <1>1, <2>2 DEF Good, BookedOnce, WaitsWithin, Phase1
  <2>. QED  BY <1>1, <2>1, <2>3, OneCall
<1>3. CASE ManifestMiss(c)
  <2>. DEFINE q == [crawl[c] EXCEPT !.at = IF config.firecrawl = "none" THEN "sitemap" ELSE "start"]
  <2>1. crawl' = [crawl EXCEPT ![c] = q]
    BY <1>3 DEF ManifestMiss, Goto
  <2>2. /\ DOMAIN q = Fields /\ q.strategy # "cached"
        /\ q.at = IF config.firecrawl = "none" THEN "sitemap" ELSE "start"
    BY <1>1 DEF Fields
  <2>. HIDE DEF q
  <2>. QED  BY <1>1, <2>1, <2>2, MoveStep DEF Phase1
<1>. QED  BY <1>2, <1>3

(* A step of the Firecrawl job.                                            *)
LEMMA FirecrawlStep ==
    ASSUME IInv, NEW c \in Crawl, UNCHANGED config, firecrawlCrawl(c)
    PROVE  IInv'
<1>. DEFINE r == crawl[c]
<1>1. /\ r.at \in Phase1
      /\ Misses(c) \/ UNCHANGED booked \/ booked' = [booked EXCEPT ![c] = booked[c] + 1]
  BY DEF firecrawlCrawl, StartJob, Poll, StillRunning, PollFails, Completed, Store, StoreBreaks,
     Stored, At, Phase1, Books, NextPoll, Sleeps
<1>2. /\ DOMAIN r = Fields /\ booked[c] = 0 /\ config.firecrawl # "none"
      /\ r.strategy # "cached" /\ r.at # "done"
  BY <1>1 DEF IInv, Good, BookedOnce, Phase1
<1>3. CASE StartJob(c)
  BY <1>1, <1>3, MissesStep, NextPollStep DEF StartJob
<1>4. CASE Poll(c)
  <2>. DEFINE q == [r EXCEPT !.at = "polling", !.due = PollTimeout]
  <2>1. /\ crawl' = [crawl EXCEPT ![c].at = "polling", ![c].due = PollTimeout] /\ UNCHANGED booked
        /\ r.at = "sleeping" /\ r.due = 0
    BY <1>4 DEF Poll, At
  <2>2. crawl' = [crawl EXCEPT ![c] = q]
    BY <2>1 DEF IInv
  <2>3. /\ DOMAIN q = Fields /\ q.at = "polling" /\ q.due = PollTimeout
        /\ q.strategy = r.strategy /\ q.waited = r.waited
    BY <1>2 DEF Fields
  <2>4. r.waited \in Nat /\ r.waited <= MaxWait - 1 + Interval
    BY <2>1, SiteCrawlAssumption DEF IInv, Good, WaitsWithin
  <2>. HIDE DEF q, r
  <2>5. WaitsWithin(q)
    BY <2>3, <2>4, SiteCrawlAssumption DEF WaitsWithin, LongestWait
  <2>6. Good(q, booked'[c])
    BY <1>2, <2>1, <2>3, <2>5 DEF Good, BookedOnce, Phase1
  <2>. QED  BY <2>1, <2>2, <2>6, OneCall
<1>5. CASE StillRunning(c)
  <2>1. r.waited \in Nat
    BY <1>5 DEF StillRunning, At, IInv, Good, WaitsWithin
  <2>. QED  BY <1>1, <1>5, <2>1, NextPollStep DEF StillRunning
<1>6. CASE PollFails(c) \/ StoreBreaks(c)
  BY <1>1, <1>6, MissesStep DEF PollFails, StoreBreaks
<1>7. CASE Completed(c)
  <2>1. PICK data \in Lists : crawl' = [crawl EXCEPT ![c] = [Fresh EXCEPT !.at = "storing", !.urls = data]]
    BY <1>7 DEF Completed
  <2>. DEFINE q == [Fresh EXCEPT !.at = "storing", !.urls = data]
  <2>2. DOMAIN q = Fields /\ q.at = "storing" /\ q.strategy = None
    BY DEF Fresh, Fields
  <2>3. UNCHANGED booked /\ crawl' = [crawl EXCEPT ![c] = q]
    BY <1>7, <2>1 DEF Completed
  <2>. HIDE DEF q
  <2>. QED  BY <1>1, <1>2, <2>2, <2>3, SiteCrawlAssumption, MoveStep DEF Phase1
<1>8. CASE Store(c)
  <2>. DEFINE q == [r EXCEPT !.urls = Tail(@), !.pages = Append(@, Head(r.urls))]
  <2>1. /\ crawl' = [crawl EXCEPT ![c].urls = Tail(@), ![c].pages = Append(@, Head(crawl[c].urls))]
        /\ UNCHANGED booked /\ r.at = "storing"
    BY <1>8 DEF Store, At
  <2>2. crawl' = [crawl EXCEPT ![c] = q]
    BY <1>2, <2>1 DEF IInv, Fields
  <2>3. DOMAIN q = Fields /\ q.at = r.at /\ q.strategy = r.strategy
    BY <1>2 DEF Fields
  <2>. HIDE DEF q
  <2>. QED  BY <1>2, <2>1, <2>2, <2>3, MoveStep
<1>9. CASE Stored(c)
  <2>. DEFINE q == [r EXCEPT !.at = "save", !.strategy = "firecrawl"]
  <2>1. /\ crawl' = [crawl EXCEPT ![c].at = "save", ![c].strategy = "firecrawl"]
        /\ booked' = [booked EXCEPT ![c] = booked[c] + 1]
    BY <1>9 DEF Stored, Books
  <2>2. crawl' = [crawl EXCEPT ![c] = q]
    BY <2>1 DEF IInv
  <2>3. DOMAIN q = Fields /\ q.at = "save" /\ q.strategy = "firecrawl"
    BY <1>2 DEF Fields
  <2>4. booked'[c] = 1
    BY <1>2, <2>1 DEF IInv
  <2>. HIDE DEF q
  <2>5. Good(q, booked'[c])
    BY <1>2, <2>3, <2>4 DEF Good, BookedOnce, WaitsWithin, Phase1
  <2>. QED  BY <2>1, <2>2, <2>5, OneCall
<1>. QED  BY <1>3, <1>4, <1>5, <1>6, <1>7, <1>8, <1>9 DEF firecrawlCrawl

(* The later phases book nothing.                                          *)
LEMMA LaterStep ==
    ASSUME IInv, NEW c \in Crawl, UNCHANGED config,
           mapCrawl(c) \/ sitemapCrawl(c) \/ Settle(c) \/ ChunkEnds(c) \/ bfsCrawl(c)
           \/ AllFailed(c) \/ Save(c)
    PROVE  IInv'
<1>. DEFINE r == crawl[c]
            later == {"map", "sitemap", "batch", "bfs", "none", "save"}
<1>1. UNCHANGED booked /\ r.at \in later /\ DOMAIN crawl = Crawl
  BY DEF mapCrawl, sitemapCrawl, Settle, ChunkEnds, bfsCrawl, AllFailed, Save, At, IInv
<1>2. /\ DOMAIN r = Fields /\ r.strategy # "cached"
      /\ config.firecrawl = "none" => r.at # "map"
  BY <1>1 DEF IInv, Good, BookedOnce
<1>3. SUFFICES ASSUME NEW q, crawl' = [crawl EXCEPT ![c] = q], DOMAIN q = Fields,
                      q.strategy # "cached", q.at \in (later \ {"map"}) \union {"done"}
               PROVE  IInv'
  <2>1. ASSUME NEW at \in {"sitemap", "bfs", "none"}, crawl' = [crawl EXCEPT ![c] = [@ EXCEPT !.at = at]]
        PROVE  IInv'
    <3>1. /\ DOMAIN [r EXCEPT !.at = at] = Fields /\ [r EXCEPT !.at = at].at = at
          /\ [r EXCEPT !.at = at].strategy = r.strategy
      BY <1>2 DEF Fields
    <3>. QED  BY <1>2, <1>3, <2>1, <3>1
  <2>2. ASSUME NEW strategy \in {"map", "sitemap"}, NEW urls,
               crawl' = [crawl EXCEPT ![c] = [@ EXCEPT !.at = "batch", !.strategy = strategy, !.urls = urls]]
        PROVE  IInv'
    <3>. DEFINE q == [r EXCEPT !.at = "batch", !.strategy = strategy, !.urls = urls]
    <3>1. DOMAIN q = Fields /\ q.at = "batch" /\ q.strategy = strategy
      BY <1>2 DEF Fields
    <3>2. crawl' = [crawl EXCEPT ![c] = q]
      BY <2>2
    <3>. HIDE DEF q
    <3>. QED  BY <1>3, <3>1, <3>2
  <2>3. ASSUME NEW strategy \in {"map", "sitemap"}, NEW next \in {"sitemap", "bfs", "none"},
               FetchAny(c, strategy, next)
        PROVE  IInv'
    BY <2>1, <2>2, <2>3 DEF FetchAny
  <2>4. CASE mapCrawl(c) \/ sitemapCrawl(c)
    BY <2>3, <2>4 DEF mapCrawl, sitemapCrawl, AfterMap, AfterSitemap
  <2>5. CASE Settle(c)
    <3>1. PICK i : FetchPage(c, i) \/ FetchFails(c, i)
      BY <2>5 DEF Settle
    <3>. DEFINE q == IF FetchPage(c, i)
                     THEN [r EXCEPT !.settled = @ \union {i}, !.fetched = @ \union {i}]
                     ELSE [r EXCEPT !.settled = @ \union {i}]
    <3>2. crawl' = [crawl EXCEPT ![c] = q]
      BY <1>1, <1>2, <3>1 DEF FetchPage, FetchFails, Fields
    <3>3. DOMAIN q = Fields /\ q.at = r.at /\ q.strategy = r.strategy /\ r.at = "batch"
      BY <1>2, <2>5 DEF Fields, Settle, At
    <3>. HIDE DEF q
    <3>. QED  BY <1>2, <1>3, <3>2, <3>3
  <2>6. CASE ChunkEnds(c)
    <3>. DEFINE got == r.pages \o Fulfilled(c)
                first == r.first + concurrency
                at == IF r.first + concurrency > Len(r.urls) THEN "save" ELSE "batch"
                q == [r EXCEPT !.pages = got, !.first = first, !.at = at]
    <3>1. crawl' = [crawl EXCEPT ![c].pages = @ \o Fulfilled(c), ![c].first = @ + concurrency,
                                 ![c].at = at]
      BY <2>6 DEF ChunkEnds
    <3>2. crawl' = [crawl EXCEPT ![c] = q]
      BY <1>1, <1>2, <3>1 DEF Fields
    <3>3. at \in {"save", "batch"}
      OBVIOUS
    <3>. HIDE DEF got, first, at
    <3>4. DOMAIN q = Fields /\ q.at = at /\ q.strategy = r.strategy
      BY <1>2 DEF Fields
    <3>. HIDE DEF q
    <3>. QED  BY <1>2, <1>3, <3>2, <3>4, <3>3
  <2>7. CASE bfsCrawl(c)
    <3>1. PICK got : crawl' = [crawl EXCEPT ![c].at = "save", ![c].strategy = "bfs", ![c].pages = got]
      BY <2>7 DEF bfsCrawl
    <3>. DEFINE q == [r EXCEPT !.at = "save", !.strategy = "bfs", !.pages = got]
    <3>2. crawl' = [crawl EXCEPT ![c] = q]
      BY <1>1, <1>2, <3>1
    <3>3. DOMAIN q = Fields /\ q.at = "save" /\ q.strategy = "bfs"
      BY <1>2 DEF Fields
    <3>. HIDE DEF q
    <3>. QED  BY <1>2, <1>3, <3>2, <3>3
  <2>8. ASSUME NEW strategy, strategy # "cached", NEW got, Ends(c, strategy, got)
        PROVE  IInv'
    <3>. DEFINE q == [Fresh EXCEPT !.at = "done", !.strategy = strategy, !.pages = got]
    <3>1. crawl' = [crawl EXCEPT ![c] = q]
      BY <2>8 DEF Ends
    <3>2. DOMAIN q = Fields /\ q.at = "done" /\ q.strategy = strategy
      BY DEF Fresh, Fields
    <3>. HIDE DEF q
    <3>. QED  BY <1>3, <2>8, <3>1, <3>2
  <2>9. CASE AllFailed(c) \/ Save(c)
    BY <1>2, <2>8, <2>9 DEF AllFailed, Save
  <2>. QED  BY <2>4, <2>5, <2>6, <2>7, <2>9
<1>4. r.at \notin {"idle", "lookup"} \union Phase1 /\ r.at # "done"
  BY <1>1 DEF Phase1
<1>5. q.at \notin {"idle", "lookup", "map"} \union Phase1
  BY <1>3 DEF Phase1
<1>. HIDE DEF r, later
<1>. QED  BY <1>1, <1>3, <1>4, <1>5, MoveStep DEF r, Phase1

(* The clock.                                                              *)
LEMMA TickStep ==
    ASSUME IInv, UNCHANGED config, Tick
    PROVE  IInv'
<1>1. /\ DOMAIN crawl' = Crawl /\ UNCHANGED booked
      /\ \A c \in Crawl :
            /\ crawl'[c] = IF Timed(c)
                           THEN [crawl[c] EXCEPT !.due = @ - 1, !.waited = Lesser(@ + 1, LongestWait + 1)]
                           ELSE crawl[c]
            /\ Timed(c) => crawl[c].due > 0
  BY DEF Tick
<1>2. ASSUME NEW c \in Crawl
      PROVE  Good(crawl'[c], booked'[c])
  <2>1. CASE Timed(c)
    <3>1. DOMAIN crawl[c] = Fields
      BY DEF IInv, Good
    <3>2. /\ DOMAIN crawl'[c] = Fields /\ crawl'[c].at = crawl[c].at
          /\ crawl'[c].strategy = crawl[c].strategy /\ crawl'[c].due = crawl[c].due - 1
          /\ crawl'[c].waited = Lesser(crawl[c].waited + 1, LongestWait + 1)
      BY <1>1, <2>1, <3>1 DEF Fields
    <3>3. /\ crawl[c].waited \in Nat /\ crawl[c].due \in Nat /\ crawl[c].due > 0
          /\ crawl[c].at = "sleeping" => crawl[c].waited + crawl[c].due <= MaxWait - 1 + Interval
          /\ crawl[c].at = "polling" => crawl[c].waited + crawl[c].due <= LongestWait
          /\ crawl[c].at \in {"sleeping", "polling"}
      BY <1>1, <2>1 DEF Timed, IInv, Good, WaitsWithin
    <3>4. crawl'[c].waited = crawl[c].waited + 1
      <4>. DEFINE w == crawl[c].waited
                  d == crawl[c].due
      <4>1. MaxWait \in Nat /\ Interval \in Nat /\ PollTimeout \in Nat
        BY SiteCrawlAssumption
      <4>2. LongestWait \in Int /\ MaxWait - 1 + Interval <= LongestWait
        BY <4>1 DEF LongestWait
      <4>3. w \in Nat /\ d \in Nat /\ d > 0 /\ w + d <= LongestWait
        BY <3>3, <4>1, <4>2
      <4>. HIDE DEF w, d
      <4>4. Lesser(w + 1, LongestWait + 1) = w + 1
        BY <4>2, <4>3 DEF Lesser
      <4>. QED  BY <3>2, <4>4 DEF w
    <3>5. WaitsWithin(crawl'[c])
      <4>1. /\ crawl'[c].waited \in Nat /\ crawl'[c].due \in Nat
            /\ crawl'[c].waited + crawl'[c].due = crawl[c].waited + crawl[c].due
        BY <3>2, <3>3, <3>4
      <4>. QED  BY <3>2, <3>3, <4>1 DEF WaitsWithin
    <3>. QED  BY <1>1, <3>2, <3>5 DEF IInv, Good, BookedOnce
  <2>2. CASE ~Timed(c)
    BY <1>1, <2>2 DEF IInv, Good, BookedOnce, WaitsWithin
  <2>. QED  BY <2>1, <2>2
<1>. QED  BY <1>1, <1>2 DEF IInv, Good, BookedOnce, WaitsWithin

(* The strengthened invariant holds of every behaviour of the crawls.      *)
THEOREM CrawlInvariant == Spec => []IInv
<1>1. IInv /\ [Next]_vars => IInv'
  <2>. SUFFICES ASSUME IInv, [Next]_vars PROVE IInv'
    OBVIOUS
  <2>1. CASE UNCHANGED vars
    BY <2>1 DEF vars, IInv, Good, BookedOnce, WaitsWithin
  <2>2. CASE UNCHANGED config /\ cacheClear
    BY <2>2 DEF cacheClear, IInv, Good, BookedOnce, WaitsWithin
  <2>3. CASE UNCHANGED config /\ Tick
    BY <2>3, TickStep
  <2>4. ASSUME UNCHANGED config, NEW c \in Crawl, Begin(c) \/ Return(c)
        PROVE  IInv'
    BY <2>4, BeginReturnStep
  <2>5. ASSUME UNCHANGED config, NEW c \in Crawl, crawlSite(c)
        PROVE  IInv'
    BY <2>5, ManifestStep, FirecrawlStep, LaterStep DEF crawlSite
  <2>. QED  BY <2>1, <2>2, <2>3, <2>4, <2>5 DEF Next
<1>. QED  BY InitIInv, <1>1, PTL DEF Spec

(* Every crawl that runs the Firecrawl phase books exactly one outcome of  *)
(* it, on every way out of the phase.                                      *)
THEOREM OutcomeAlwaysBookedOnce == Spec => []OneOutcomeBooked
<1>1. IInv => OneOutcomeBooked
  BY DEF IInv, Good, BookedOnce, Phase1, OneOutcomeBooked
<1>. QED  BY CrawlInvariant, <1>1, PTL

(* The polling is over no later than one interval and one poll after its   *)
(* deadline.                                                               *)
THEOREM PollingAlwaysBounded == Spec => []PollingIsBounded
<1>1. ASSUME IInv, NEW c \in Crawl, Timed(c)
      PROVE  crawl[c].waited <= LongestWait
  <2>1. /\ crawl[c].waited \in Nat /\ crawl[c].due \in Nat
        /\ crawl[c].at = "sleeping" => crawl[c].waited + crawl[c].due <= MaxWait - 1 + Interval
        /\ crawl[c].at = "polling" => crawl[c].waited + crawl[c].due <= LongestWait
        /\ crawl[c].at \in {"sleeping", "polling"}
    BY <1>1 DEF Timed, IInv, Good, WaitsWithin
  <2>. QED  BY <2>1, SiteCrawlAssumption DEF LongestWait
<1>2. IInv => PollingIsBounded
  BY <1>1 DEF PollingIsBounded
<1>. QED  BY CrawlInvariant, <1>2, PTL

-----------------------------------------------------------------------------
(* The sitemaps.                                                           *)

Loc == Map \union Page
Contents == [Map -> Seq(Loc)]

(* The locations in a list.                                                *)
In(list) == {list[i] : i \in DOMAIN list}

(* The recursion of ReachedFrom has a solution, which therefore is         *)
(* ReachedFrom.                                                            *)
LEMMA ReachedFacts ==
    ASSUME sitemaps \in Contents, NEW w \in Map
    PROVE  /\ ReachedFrom(w) \in [Nat -> SUBSET Map] /\ ReachedFrom(w)[0] = {w}
           /\ \A n \in Nat : ReachedFrom(w)[n + 1]
                  = ReachedFrom(w)[n] \union (Links(ReachedFrom(w)[n]) \intersect Map)
<1>. DEFINE X == SUBSET Map
            More(U) == U \union (Links(U) \intersect Map)
            step == [n \in Nat |-> [U \in X |-> More(U)]]
            base == {w}
            Fix(g) == g = [n \in Nat |-> IF n = 0 THEN {w}
                                         ELSE g[n - 1] \union (Links(g[n - 1]) \intersect Map)]
<1>1. \A U \in X : More(U) \in X
  OBVIOUS
<1>. HIDE DEF More
<1>2. step \in [Nat -> [X -> X]] /\ base \in X
  BY <1>1
<1>3. PICK f \in [Nat -> X] : f[0] = base /\ \A n \in Nat : f[n + 1] = step[n][f[n]]
  <2>. HIDE DEF step, X, base
  <2>1. PICK go \in [Nat -> [X -> X]] : go = step
    BY <1>2
  <2>2. PICK from \in X : from = base
    BY <1>2
  <2>3. \E f \in [Nat -> X] : f[0] = from /\ \A n \in Nat : f[n + 1] = go[n][f[n]]
    BY ONLY Recursion
  <2>. QED  BY <2>1, <2>2, <2>3
<1>4. Fix(f)
  <2>1. \A n \in Nat \ {0} : n - 1 \in Nat /\ (n - 1) + 1 = n
    OBVIOUS
  <2>2. \A n \in Nat : f[n + 1] = More(f[n])
    BY <1>3
  <2>3. \A n \in Nat : f[n] = IF n = 0 THEN {w} ELSE More(f[n - 1])
    BY <1>3, <2>1, <2>2
  <2>. QED  BY <2>3 DEF More
<1>5. Fix(ReachedFrom(w))
  <2>1. ReachedFrom(w) = CHOOSE g : Fix(g)
    BY DEF ReachedFrom
  <2>. HIDE DEF Fix
  <2>. QED  BY <1>4, <2>1
<1>. DEFINE W == ReachedFrom(w)
<1>6. W = [n \in Nat |-> IF n = 0 THEN {w} ELSE More(W[n - 1])]
  BY <1>5 DEF More
<1>. HIDE DEF W
<1>7. W[0] = {w} /\ \A n \in Nat : W[n + 1] = More(W[n])
  <2>. DEFINE V(n) == IF n = 0 THEN {w} ELSE More(W[n - 1])
  <2>1. \A n \in Nat : W[n] = V(n)
    <3>. HIDE DEF V
    <3>1. W = [n \in Nat |-> V(n)]
      BY <1>6 DEF V
    <3>. QED  BY <3>1
  <2>2. V(0) = {w}
    OBVIOUS
  <2>3. \A n \in Nat : n + 1 \in Nat /\ V(n + 1) = More(W[n])
    OBVIOUS
  <2>. HIDE DEF V
  <2>. QED  BY <2>1, <2>2, <2>3
<1>8. \A n \in Nat : W[n] \in X
  <2>. DEFINE S == {n \in Nat : W[n] \in X}
  <2>1. 0 \in S
    BY <1>7
  <2>2. \A n \in Nat : n \in S => n + 1 \in S
    BY <1>1, <1>7
  <2>3. Nat \subseteq S
    <3>. HIDE DEF S
    <3>. QED  BY <2>1, <2>2, Induction
  <2>. QED  BY <2>3
<1>9. W \in [Nat -> X]
  BY <1>6, <1>8
<1>. QED  BY <1>7, <1>9 DEF W, More

(* What is reached in some steps is reached in more.                       *)
LEMMA ReachedGrows ==
    ASSUME sitemaps \in Contents, NEW w \in Map, NEW m \in Nat, NEW n \in Nat, m <= n
    PROVE  ReachedFrom(w)[m] \subseteq ReachedFrom(w)[n]
<1>. DEFINE W == ReachedFrom(w)
            S == {k \in Nat : W[m] \subseteq W[m + k]}
<1>1. \A k \in Nat : W[k] \subseteq W[k + 1]
  BY ReachedFacts
<1>. HIDE DEF W
<1>2. 0 \in S
  OBVIOUS
<1>3. ASSUME NEW k \in Nat, k \in S
      PROVE  k + 1 \in S
  <2>1. m + k \in Nat /\ (m + k) + 1 = m + (k + 1)
    OBVIOUS
  <2>2. W[m + k] \subseteq W[m + (k + 1)]
    BY <1>1, <2>1
  <2>. QED  BY <1>3, <2>2
<1>4. n - m \in S
  <2>. HIDE DEF S
  <2>1. n - m \in Nat
    OBVIOUS
  <2>. QED  BY <1>2, <1>3, <2>1, Induction
<1>5. m + (n - m) = n
  OBVIOUS
<1>. QED  BY <1>4, <1>5 DEF W

(* What is listed by something reached is reached in one step more.        *)
LEMMA NextReached ==
    ASSUME sitemaps \in Contents, NEW w \in Map, NEW n \in Nat,
           NEW m \in ReachedFrom(w)[n], NEW child \in Listed(m), child \in Map
    PROVE  child \in ReachedFrom(w)[n + 1]
BY ReachedFacts DEF Links

(* What holds of all that a set of sitemaps lists holds of all that can be *)
(* reached from one of them.                                               *)
LEMMA ClosedIsAll ==
    ASSUME sitemaps \in Contents, NEW w \in Map, NEW U, w \in U,
           \A m \in U : Listed(m) \intersect Map \subseteq U, NEW n \in Nat
    PROVE  ReachedFrom(w)[n] \subseteq U
<1>. DEFINE W == ReachedFrom(w)
            S == {k \in Nat : W[k] \subseteq U}
<1>1. /\ W[0] = {w}
      /\ \A k \in Nat : W[k + 1] = W[k] \union (Links(W[k]) \intersect Map)
  BY ReachedFacts
<1>. HIDE DEF W
<1>2. 0 \in S
  BY <1>1
<1>3. \A k \in Nat : k \in S => k + 1 \in S
  BY <1>1 DEF Links
<1>4. n \in S
  <2>. HIDE DEF S
  <2>. QED  BY <1>2, <1>3, Induction
<1>. QED  BY <1>4 DEF W

-----------------------------------------------------------------------------
(* The sitemaps that are being read, from the candidate down: the names of *)
(* the levels of the stack.                                                *)
Deepest == SitemapDepth + 1

(* Each level was listed by something on the way to it; what a level's     *)
(* sitemap lists was seen or is still to be looked at.                     *)
Path(names, w, stk, urls) ==
    /\ names \in Seq(Map) /\ Len(names) = Len(stk) /\ Len(stk) <= Deepest
    /\ stk # <<>> => names[1] = w
    /\ \A i \in 1..Len(stk) : names[i] \in ReachedFrom(w)[i - 1]
    /\ \A i, j \in 2..Len(stk) : names[i] = names[j] => i = j
    /\ \A i \in 2..Len(stk) : names[i] \in urls
    /\ \A i \in 1..Len(stk) : /\ In(stk[i]) \subseteq Listed(names[i])
                              /\ Listed(names[i]) \subseteq urls \union In(stk[i])

(* All the sitemaps that can be reached.                                   *)
All(w) == ReachedFrom(w)[Cardinality(Map)]

(* What has been collected, given the sitemaps that are being read.        *)
Collected(names, w, stk, urls) ==
    /\ urls \ Map \subseteq Links(ReachedFrom(w)[SitemapDepth]) \intersect Links(All(w))
    /\ stk = <<>> => Listed(w) \subseteq urls
    /\ Cardinality(All(w)) <= SitemapDepth =>
          \A m \in urls \intersect Map :
              Listed(m) \subseteq urls \/ \E i \in 1..Len(stk) : names[i] = m

Reading(w, stk, urls) ==
    \E names \in Seq(Map) : Path(names, w, stk, urls) /\ Collected(names, w, stk, urls)

SitemapTypeOK ==
    /\ sitemaps \in Contents /\ candidates \in Seq(Map) /\ tried \in Seq(Map)
    /\ stack \in Seq(Seq(Loc)) /\ allUrls \subseteq Loc /\ discovery \in {"running", "done"}

(* The last candidate that was tried.                                      *)
Winner == tried[Len(tried)]

TriedInv ==
    /\ \A i \in 1..Len(tried) - 1 : sitemaps[tried[i]] = <<>>
    /\ tried = <<>> => stack = <<>> /\ allUrls = {} /\ candidates # <<>>
    /\ discovery = "done" => stack = <<>> /\ tried # <<>>

SitemapInv ==
    /\ SitemapTypeOK /\ TriedInv
    /\ tried # <<>> => Reading(Winner, stack, allUrls)

(* The levels below the first are different members of T: no more than     *)
(* there are; and if as many, all of them.                                 *)
Different(names, L, T) ==
    /\ \A i \in 2..L : names[i] \in T
    /\ \A i, j \in 2..L : names[i] = names[j] => i = j

(* The pigeonhole principle for such a path.                               *)
LEMMA Levels ==
    ASSUME NEW L \in Nat \ {0}, NEW names, NEW T, IsFiniteSet(T), Different(names, L, T)
    PROVE  /\ L - 1 <= Cardinality(T) /\ Cardinality(T) \in Nat
           /\ L - 1 = Cardinality(T) => \A t \in T : \E i \in 2..L : names[i] = t
<1>. DEFINE f == [i \in 2..L |-> names[i]]
<1>1. f \in Injection(2..L, T)
  BY DEF Injection, IsInjective, Different
<1>2. Cardinality(2..L) = L - 1
  <2>1. 2 \in Int /\ L \in Int
    OBVIOUS
  <2>2. Cardinality(2..L) = IF 2 > L THEN 0 ELSE L - 2 + 1
    BY <2>1, FS_Interval
  <2>. QED  BY <2>2
<1>3. \A i \in 2..L : f[i] = names[i]
  OBVIOUS
<1>. HIDE DEF f
<1>4. /\ Cardinality(2..L) <= Cardinality(T)
      /\ Cardinality(2..L) = Cardinality(T) => f \in Surjection(2..L, T)
  BY <1>1, FS_Injection
<1>. QED  BY <1>2, <1>3, <1>4, FS_CardinalityType DEF Surjection

(* Where a sitemap's list is read from.                                    *)
LEMMA ListFacts ==
    ASSUME NEW list \in Seq(Loc)
    PROVE  /\ In(list) \subseteq Loc
           /\ list # <<>> => /\ Head(list) \in In(list) /\ Head(list) \in Loc
                             /\ Tail(list) \in Seq(Loc) /\ In(Tail(list)) \subseteq In(list)
                             /\ In(list) \subseteq {Head(list)} \union In(Tail(list))
<1>1. DOMAIN list = 1..Len(list) /\ Len(list) \in Nat /\ \A i \in DOMAIN list : list[i] \in Loc
  OBVIOUS
<1>2. CASE list # <<>>
  <2>. DEFINE t == Tail(list)
              n == Len(list)
  <2>1. /\ n # 0 /\ Head(list) = list[1] /\ t \in Seq(Loc) /\ DOMAIN t = 1..n - 1
        /\ \A i \in 1..n - 1 : t[i] = list[i + 1]
    BY <1>1, <1>2
  <2>. HIDE DEF t
  <2>2. Head(list) \in In(list)
    BY <1>1, <2>1 DEF In
  <2>3. In(t) \subseteq In(list)
    <3>1. \A i \in 1..n - 1 : i + 1 \in 1..n
      BY <1>1
    <3>. QED  BY <1>1, <2>1, <3>1 DEF In
  <2>4. ASSUME NEW i \in DOMAIN list
        PROVE  list[i] = Head(list) \/ list[i] \in In(t)
    <3>1. CASE i = 1
      BY <2>1, <3>1
    <3>2. CASE i # 1
      <4>1. i - 1 \in 1..n - 1 /\ (i - 1) + 1 = i
        BY <1>1, <3>2
      <4>. QED  BY <2>1, <4>1 DEF In
    <3>. QED  BY <3>1, <3>2
  <2>. QED  BY <1>1, <2>1, <2>2, <2>3, <2>4 DEF In, t
<1>. QED  BY <1>1, <1>2 DEF In

(* What a sitemap lists is what its list holds.                            *)
LEMMA ListedIsIn == ASSUME NEW m PROVE Listed(m) = In(sitemaps[m])
BY DEF Listed, In

(* The innermost sitemap of a path.                                        *)
LEMMA InnermostFacts ==
    ASSUME sitemaps \in Contents, NEW w \in Map, NEW stk \in Seq(Seq(Loc)), stk # <<>>,
           NEW names, NEW urls, Path(names, w, stk, urls), NEW L, L = Len(stk)
    PROVE  /\ L \in Nat \ {0} /\ 1 \in 1..L /\ L \in 1..L /\ DOMAIN stk = 1..L /\ stk[L] \in Seq(Loc)
           /\ names \in Seq(Map) /\ Len(names) = L /\ DOMAIN names = 1..L
           /\ L - 1 \in Nat /\ L - 1 <= SitemapDepth /\ L - 1 <= Cardinality(Map)
           /\ Cardinality(Map) \in Nat /\ SitemapDepth \in Nat
           /\ names[L] \in Map /\ names[L] \in ReachedFrom(w)[L - 1]
           /\ names[L] \in ReachedFrom(w)[SitemapDepth] /\ names[L] \in All(w)
<1>1. /\ L \in Nat \ {0} /\ 1 \in 1..L /\ L \in 1..L /\ DOMAIN stk = 1..L
      /\ stk[L] \in Seq(Loc) /\ L - 1 \in Nat
  OBVIOUS
<1>2. names \in Seq(Map) /\ Len(names) = L /\ DOMAIN names = 1..L
  <2>1. names \in Seq(Map) /\ Len(names) = L
    BY DEF Path
  <2>. QED  BY <2>1
<1>3. \A i \in 1..L : names[i] \in Map
  BY <1>2
<1>4. SitemapDepth \in Nat /\ L <= SitemapDepth + 1 /\ IsFiniteSet(Map)
  BY SitemapAssumption DEF Path, Deepest
<1>5. L - 1 <= Cardinality(Map) /\ Cardinality(Map) \in Nat
  <2>1. \A i \in 2..L : names[i] \in Map
    BY <1>1, <1>3
  <2>2. Different(names, L, Map)
    BY <2>1 DEF Path, Different
  <2>. QED  BY <1>1, <1>4, <2>2, Levels
<1>6. names[L] \in ReachedFrom(w)[L - 1]
  BY <1>1 DEF Path
<1>7. L - 1 <= SitemapDepth
  BY <1>1, <1>4
<1>8. names[L] \in ReachedFrom(w)[SitemapDepth]
  BY <1>1, <1>4, <1>6, <1>7, ReachedGrows
<1>9. names[L] \in All(w)
  BY <1>1, <1>5, <1>6, ReachedGrows DEF All
<1>. QED  BY <1>1, <1>2, <1>3, <1>4, <1>5, <1>6, <1>7, <1>8, <1>9

(* A location of the innermost sitemap is taken off its list.              *)
Taken(x, stk, rest) ==
    /\ stk # <<>> /\ stk[Len(stk)] # <<>> /\ x = Head(stk[Len(stk)])
    /\ rest = [stk EXCEPT ![Len(stk)] = Tail(stk[Len(stk)])]

(* The path stays one, and the location is one that its sitemap lists.     *)
LEMMA RestPath ==
    ASSUME sitemaps \in Contents, NEW w \in Map, NEW stk \in Seq(Seq(Loc)),
           NEW names, NEW urls, Path(names, w, stk, urls), NEW x, NEW rest, Taken(x, stk, rest)
    PROVE  /\ Path(names, w, rest, urls \union {x}) /\ rest \in Seq(Seq(Loc))
           /\ Len(rest) = Len(stk) /\ rest # <<>> /\ stk # <<>>
           /\ x \in Listed(names[Len(stk)]) /\ x \in Loc
<1>. DEFINE L == Len(stk)
<1>1. /\ stk # <<>> /\ stk[L] # <<>> /\ x = Head(stk[L])
      /\ rest = [stk EXCEPT ![L] = Tail(stk[L])]
  BY DEF Taken
<1>2. /\ L \in Nat \ {0} /\ L \in 1..L /\ DOMAIN stk = 1..L /\ stk[L] \in Seq(Loc)
  BY <1>1, InnermostFacts
<1>3. /\ x \in In(stk[L]) /\ x \in Loc /\ Tail(stk[L]) \in Seq(Loc)
      /\ In(Tail(stk[L])) \subseteq In(stk[L]) /\ In(stk[L]) \subseteq {x} \union In(Tail(stk[L]))
  BY <1>1, <1>2, ListFacts
<1>4. /\ rest \in Seq(Seq(Loc)) /\ Len(rest) = L /\ rest # <<>> /\ rest[L] = Tail(stk[L])
      /\ \A i \in 1..L : i # L => rest[i] = stk[i]
  <2>1. rest \in [1..L -> Seq(Loc)] /\ rest[L] = Tail(stk[L])
        /\ \A i \in 1..L : i # L => rest[i] = stk[i]
    <3>1. stk \in [1..L -> Seq(Loc)]
      BY <1>2
    <3>. HIDE DEF L
    <3>. QED  BY <1>1, <1>2, <1>3, <3>1
  <2>2. rest \in Seq(Seq(Loc)) /\ Len(rest) = L
    <3>. HIDE DEF L
    <3>. QED  BY <1>2, <2>1
  <2>3. rest # <<>>
    BY <1>2, <2>2
  <2>. QED  BY <2>1, <2>2, <2>3
<1>5. x \in Listed(names[L])
  BY <1>2, <1>3 DEF Path
<1>6. \A i \in 1..L : /\ In(rest[i]) \subseteq In(stk[i])
                      /\ In(stk[i]) \subseteq {x} \union In(rest[i])
  BY <1>3, <1>4
<1>7. \A i \in 1..L : /\ In(rest[i]) \subseteq Listed(names[i])
                      /\ Listed(names[i]) \subseteq (urls \union {x}) \union In(rest[i])
  BY <1>6 DEF Path
<1>8. Path(names, w, rest, urls \union {x})
  <2>1. /\ names \in Seq(Map) /\ Len(names) = L /\ L <= Deepest
        /\ names[1] = w
        /\ \A i \in 1..L : names[i] \in ReachedFrom(w)[i - 1]
        /\ \A i, j \in 2..L : names[i] = names[j] => i = j
        /\ \A i \in 2..L : names[i] \in urls
    BY <1>1 DEF Path
  <2>. HIDE DEF L
  <2>. QED  BY <1>4, <1>7, <2>1 DEF Path
<1>. QED  BY <1>1, <1>3, <1>4, <1>5, <1>8

(* A page is kept.                                                         *)
LEMMA PageStep ==
    ASSUME sitemaps \in Contents, NEW w \in Map, NEW stk \in Seq(Seq(Loc)), NEW urls,
           Reading(w, stk, urls), NEW x \in Page, NEW rest, Taken(x, stk, rest)
    PROVE  Reading(w, rest, urls \union {x})
<1>1. PICK names \in Seq(Map) : Path(names, w, stk, urls) /\ Collected(names, w, stk, urls)
  BY DEF Reading
<1>2. /\ Path(names, w, rest, urls \union {x}) /\ Len(rest) = Len(stk) /\ rest # <<>>
      /\ stk # <<>> /\ x \in Listed(names[Len(stk)])
  BY <1>1, RestPath
<1>3. x \notin Map
  BY SitemapAssumption
<1>4. names[Len(stk)] \in ReachedFrom(w)[SitemapDepth] /\ names[Len(stk)] \in All(w)
  BY <1>1, <1>2, InnermostFacts
<1>5. x \in Links(ReachedFrom(w)[SitemapDepth]) /\ x \in Links(All(w))
  BY <1>2, <1>4 DEF Links
<1>6. Collected(names, w, rest, urls \union {x})
  BY <1>1, <1>2, <1>3, <1>5 DEF Collected
<1>. QED  BY <1>2, <1>6 DEF Reading

(* Where nothing is deeper than maxDepth, a sitemap too deep was seen.     *)
LEMMA TooDeepIsSeen ==
    ASSUME sitemaps \in Contents, NEW w \in Map, NEW stk \in Seq(Seq(Loc)), stk # <<>>,
           NEW names, NEW urls, Path(names, w, stk, urls), NEW L, L = Len(stk),
           Cardinality(All(w)) <= SitemapDepth, L > SitemapDepth,
           NEW child \in Map, child \in Listed(names[L])
    PROVE  child \in urls
<1>1. /\ L \in Nat \ {0} /\ L - 1 \in Nat /\ L - 1 <= SitemapDepth
      /\ L - 1 <= Cardinality(Map) /\ Cardinality(Map) \in Nat /\ SitemapDepth \in Nat
      /\ names \in Seq(Map) /\ DOMAIN names = 1..L /\ names[L] \in ReachedFrom(w)[L - 1]
  BY InnermostFacts
<1>2. IsFiniteSet(Map) /\ All(w) \subseteq Map
  BY <1>1, ReachedFacts, SitemapAssumption DEF All
<1>3. IsFiniteSet(All(w))
  BY <1>2, FS_Subset
<1>4. \A i \in 2..L : names[i] \in All(w) /\ names[i] \in Map /\ names[i] \in urls
  <2>. TAKE i \in 2..L
  <2>1. i \in 1..L /\ i - 1 \in Nat /\ i - 1 <= Cardinality(Map)
    BY <1>1
  <2>2. names[i] \in ReachedFrom(w)[i - 1] /\ names[i] \in urls
    BY <2>1 DEF Path
  <2>3. names[i] \in All(w)
    BY <1>1, <2>1, <2>2, ReachedGrows DEF All
  <2>. QED  BY <1>1, <2>1, <2>2, <2>3
<1>5. Different(names, L, All(w)) /\ Different(names, L, Map)
  BY <1>4 DEF Path, Different
<1>6. /\ L - 1 <= Cardinality(All(w)) /\ Cardinality(All(w)) \in Nat
      /\ L - 1 = Cardinality(All(w)) => \A t \in All(w) : \E i \in 2..L : names[i] = t
  <2>1. L \in Nat \ {0} /\ IsFiniteSet(All(w)) /\ Different(names, L, All(w))
    BY <1>1, <1>3, <1>5
  <2>2. PICK T : T = All(w)
    OBVIOUS
  <2>3. L \in Nat \ {0} /\ IsFiniteSet(T) /\ Different(names, L, T)
    BY <2>1, <2>2
  <2>4. /\ L - 1 <= Cardinality(T) /\ Cardinality(T) \in Nat
        /\ L - 1 = Cardinality(T) => \A t \in T : \E i \in 2..L : names[i] = t
    BY ONLY <2>3, Levels
  <2>. QED  BY <2>2, <2>4
<1>7. L - 1 = Cardinality(Map) => \A t \in Map : \E i \in 2..L : names[i] = t
  <2>1. L \in Nat \ {0} /\ IsFiniteSet(Map) /\ Different(names, L, Map)
    BY <1>1, <1>2, <1>5
  <2>. QED  BY ONLY <2>1, Levels
<1>8. L - 1 = Cardinality(All(w))
  BY <1>1, <1>6
<1>9. CASE L - 1 = Cardinality(Map)
  BY <1>4, <1>7, <1>9
<1>10. CASE L - 1 # Cardinality(Map)
  <2>1. L \in Nat /\ L <= Cardinality(Map) /\ (L - 1) + 1 = L
    BY <1>1, <1>10
  <2>2. child \in ReachedFrom(w)[L]
    BY <1>1, <2>1, NextReached
  <2>3. child \in All(w)
    BY <1>1, <2>1, <2>2, ReachedGrows DEF All
  <2>. QED  BY <1>4, <1>6, <1>8, <2>3
<1>. QED  BY <1>9, <1>10

(* A sitemap that was seen, or is too deep, is not read.                   *)
LEMMA PassedStep ==
    ASSUME sitemaps \in Contents, NEW w \in Map, NEW stk \in Seq(Seq(Loc)), NEW urls,
           Reading(w, stk, urls), NEW x \in Map, x \in urls \/ Len(stk) > SitemapDepth,
           NEW rest, Taken(x, stk, rest)
    PROVE  Reading(w, rest, urls \union {x})
<1>1. PICK names \in Seq(Map) : Path(names, w, stk, urls) /\ Collected(names, w, stk, urls)
  BY DEF Reading
<1>2. /\ Path(names, w, rest, urls \union {x}) /\ Len(rest) = Len(stk) /\ rest # <<>>
      /\ stk # <<>> /\ x \in Listed(names[Len(stk)])
  BY <1>1, RestPath
<1>3. Cardinality(All(w)) <= SitemapDepth => x \in urls
  BY <1>1, <1>2, TooDeepIsSeen
<1>4. Cardinality(All(w)) <= SitemapDepth => urls \union {x} = urls
  BY <1>3
<1>5. Collected(names, w, rest, urls \union {x})
  BY <1>1, <1>2, <1>4 DEF Collected
<1>. QED  BY <1>2, <1>5 DEF Reading

(* A new one is.                                                           *)
LEMMA EnterStep ==
    ASSUME sitemaps \in Contents, NEW w \in Map, NEW stk \in Seq(Seq(Loc)), NEW urls,
           Reading(w, stk, urls), NEW x \in Map, x \notin urls, ~(Len(stk) > SitemapDepth),
           NEW rest, Taken(x, stk, rest)
    PROVE  Reading(w, Append(rest, sitemaps[x]), urls \union {x})
<1>. DEFINE L == Len(stk)
            new == Append(rest, sitemaps[x])
<1>1. PICK names \in Seq(Map) : Path(names, w, stk, urls) /\ Collected(names, w, stk, urls)
  BY DEF Reading
<1>2. /\ Path(names, w, rest, urls \union {x}) /\ rest \in Seq(Seq(Loc)) /\ Len(rest) = L
      /\ rest # <<>> /\ stk # <<>> /\ x \in Listed(names[L])
  BY <1>1, RestPath
<1>3. /\ L \in Nat \ {0} /\ L - 1 \in Nat /\ names \in Seq(Map) /\ Len(names) = L
      /\ names[L] \in ReachedFrom(w)[L - 1] /\ SitemapDepth \in Nat
  BY <1>1, <1>2, InnermostFacts
<1>4. sitemaps[x] \in Seq(Loc) /\ In(sitemaps[x]) = Listed(x)
  BY ListedIsIn DEF Contents
<1>. DEFINE deeper == Append(names, x)
<1>5. /\ new \in Seq(Seq(Loc)) /\ Len(new) = L + 1 /\ new[L + 1] = sitemaps[x]
      /\ \A i \in 1..L : new[i] = rest[i]
  BY <1>2, <1>3, <1>4
<1>6. /\ deeper \in Seq(Map) /\ Len(deeper) = L + 1 /\ deeper[L + 1] = x
      /\ \A i \in 1..L : deeper[i] = names[i]
  BY <1>3
<1>7. \A i \in 1..L + 1 : i \in 1..L \/ i = L + 1
  BY <1>3
<1>8. \A i \in 2..L + 1 : i \in 2..L \/ i = L + 1
  BY <1>3
<1>. HIDE DEF deeper, new
<1>9. x \in ReachedFrom(w)[(L + 1) - 1]
  <2>1. (L - 1) + 1 = L /\ (L + 1) - 1 = L
    BY <1>3
  <2>. QED  BY <1>2, <1>3, <2>1, NextReached
<1>10. /\ \A i \in 1..L : names[i] \in ReachedFrom(w)[i - 1]
       /\ \A i, j \in 2..L : names[i] = names[j] => i = j
       /\ \A i \in 2..L : names[i] \in urls /\ i \in 1..L
       /\ \A i \in 1..L : /\ In(rest[i]) \subseteq Listed(names[i])
                          /\ Listed(names[i]) \subseteq (urls \union {x}) \union In(rest[i])
       /\ names[1] = w /\ 1 \in 1..L
  <2>1. \A i \in 2..L : i \in 1..L
    BY <1>3
  <2>2. /\ \A i \in 1..L : names[i] \in ReachedFrom(w)[i - 1]
        /\ \A i, j \in 2..L : names[i] = names[j] => i = j
        /\ \A i \in 2..L : names[i] \in urls
        /\ names[1] = w
    BY <1>1, <1>2 DEF Path
  <2>3. \A i \in 1..L : /\ In(rest[i]) \subseteq Listed(names[i])
                         /\ Listed(names[i]) \subseteq (urls \union {x}) \union In(rest[i])
    BY <1>2 DEF Path
  <2>4. 1 \in 1..L
    BY <1>3
  <2>. QED  BY <2>1, <2>2, <2>3, <2>4
<1>11. Path(deeper, w, new, urls \union {x})
  <2>1. Len(new) <= Deepest
    BY <1>3, <1>5 DEF Deepest
  <2>2. deeper[1] = w
    BY <1>6, <1>10
  <2>3. \A i \in 1..L + 1 : deeper[i] \in ReachedFrom(w)[i - 1]
    BY <1>6, <1>7, <1>9, <1>10
  <2>4. \A i, j \in 2..L + 1 : deeper[i] = deeper[j] => i = j
    <3>. SUFFICES ASSUME NEW i \in 2..L + 1, NEW j \in 2..L + 1, deeper[i] = deeper[j] PROVE i = j
      OBVIOUS
    <3>1. \A k \in 2..L : deeper[k] = names[k] /\ deeper[k] # x
      BY <1>6, <1>10
    <3>2. CASE i = L + 1
      BY <1>6, <1>8, <3>1, <3>2
    <3>3. CASE j = L + 1
      BY <1>6, <1>8, <3>1, <3>3
    <3>4. CASE i \in 2..L /\ j \in 2..L
      BY <1>10, <3>1, <3>4
    <3>. QED  BY <1>8, <3>2, <3>3, <3>4
  <2>5. \A i \in 2..L + 1 : deeper[i] \in urls \union {x}
    BY <1>6, <1>8, <1>10
  <2>6. \A i \in 1..L + 1 : /\ In(new[i]) \subseteq Listed(deeper[i])
                            /\ Listed(deeper[i]) \subseteq (urls \union {x}) \union In(new[i])
    <3>. TAKE i \in 1..L + 1
    <3>1. CASE i \in 1..L
      <4>1. new[i] = rest[i] /\ deeper[i] = names[i]
        BY <1>5, <1>6, <3>1
      <4>. QED  BY <1>10, <3>1, <4>1
    <3>2. CASE i = L + 1
      <4>1. new[i] = sitemaps[x] /\ deeper[i] = x
        BY <1>5, <1>6, <3>2
      <4>. QED  BY <1>4, <4>1
    <3>. QED  BY <1>7, <3>1, <3>2
  <2>. QED  BY <1>5, <1>6, <2>1, <2>2, <2>3, <2>4, <2>5, <2>6 DEF Path
<1>12. Collected(deeper, w, new, urls \union {x})
  <2>1. new # <<>>
    BY <1>3, <1>5
  <2>2. ASSUME Cardinality(All(w)) <= SitemapDepth, NEW m \in (urls \union {x}) \intersect Map
        PROVE  Listed(m) \subseteq urls \union {x} \/ \E i \in 1..Len(new) : deeper[i] = m
    <3>1. L + 1 \in 1..L + 1 /\ \A i \in 1..L : i \in 1..L + 1
      BY <1>3
    <3>2. CASE m = x
      BY <1>5, <1>6, <3>1, <3>2
    <3>3. CASE m \in urls
      <4>1. Listed(m) \subseteq urls \/ \E i \in 1..Len(stk) : names[i] = m
        BY <1>1, <2>2, <3>3 DEF Collected
      <4>. QED  BY <1>5, <1>6, <3>1, <4>1
    <3>. QED  BY <2>2, <3>2, <3>3
  <2>3. (urls \union {x}) \ Map \subseteq Links(ReachedFrom(w)[SitemapDepth]) \intersect Links(All(w))
    BY <1>1 DEF Collected
  <2>. QED  BY <2>1, <2>2, <2>3 DEF Collected
<1>. QED  BY <1>6, <1>11, <1>12 DEF Reading, new

(* A sequence without its last element.                                    *)
LEMMA OneShorter ==
    ASSUME NEW T, NEW q \in Seq(T), Len(q) # 0
    PROVE  /\ SubSeq(q, 1, Len(q) - 1) \in Seq(T)
           /\ Len(SubSeq(q, 1, Len(q) - 1)) = Len(q) - 1
           /\ \A i \in 1..Len(q) - 1 : SubSeq(q, 1, Len(q) - 1)[i] = q[i]
<1>. DEFINE n == Len(q) - 1
<1>1. n \in Nat /\ n <= Len(q) /\ Len(q) \in Nat
  OBVIOUS
<1>2. \A i \in 1..n : q[i] \in T
  BY <1>1
<1>3. SubSeq(q, 1, n) = [i \in 1..n |-> q[i]]
  BY <1>1
<1>. HIDE DEF n
<1>4. [i \in 1..n |-> q[i]] \in [1..n -> T]
  BY <1>2
<1>5. [i \in 1..n |-> q[i]] \in Seq(T) /\ Len([i \in 1..n |-> q[i]]) = n
  BY <1>1, <1>4
<1>. QED  BY <1>3, <1>5 DEF n

(* The innermost sitemap has been read.                                    *)
LEMMA ReadStep ==
    ASSUME sitemaps \in Contents, NEW w \in Map, NEW stk \in Seq(Seq(Loc)), stk # <<>>,
           NEW urls, Reading(w, stk, urls), stk[Len(stk)] = <<>>
    PROVE  Reading(w, SubSeq(stk, 1, Len(stk) - 1), urls)
<1>. DEFINE L == Len(stk)
            rest == SubSeq(stk, 1, L - 1)
<1>1. PICK names \in Seq(Map) : Path(names, w, stk, urls) /\ Collected(names, w, stk, urls)
  BY DEF Reading
<1>2. /\ L \in Nat \ {0} /\ L - 1 \in Nat /\ names \in Seq(Map) /\ Len(names) = L /\ L \in 1..L
  BY <1>1, InnermostFacts
<1>. DEFINE fewer == SubSeq(names, 1, L - 1)
            n == L - 1
<1>3. rest \in Seq(Seq(Loc)) /\ Len(rest) = n /\ \A i \in 1..n : rest[i] = stk[i]
  BY <1>2, OneShorter
<1>4. fewer \in Seq(Map) /\ Len(fewer) = n /\ \A i \in 1..n : fewer[i] = names[i]
  BY <1>2, OneShorter
<1>5. /\ \A i \in 1..n : i \in 1..L
      /\ \A i \in 2..n : i \in 2..L /\ i \in 1..n
      /\ \A i \in 1..L : i \in 1..n \/ i = L
      /\ n <= L /\ (n # 0 => 1 \in 1..n)
  BY <1>2
<1>6. Listed(names[L]) \subseteq urls
  <2>1. In(stk[L]) = {}
    BY DEF In
  <2>. QED  BY <1>1, <1>2, <2>1 DEF Path
<1>7. rest # <<>> => n # 0
  BY <1>3
<1>8. n <= Deepest
  BY <1>1, <1>2, SitemapAssumption DEF Path, Deepest
<1>. HIDE DEF fewer, n, rest
<1>9. Path(fewer, w, rest, urls)
  <2>1. rest # <<>> => fewer[1] = w
    BY <1>1, <1>4, <1>5, <1>7 DEF Path
  <2>2. \A i \in 1..n : fewer[i] \in ReachedFrom(w)[i - 1]
    BY <1>1, <1>4, <1>5 DEF Path
  <2>3. \A i, j \in 2..n : fewer[i] = fewer[j] => i = j
    BY <1>1, <1>4, <1>5 DEF Path
  <2>4. \A i \in 2..n : fewer[i] \in urls
    BY <1>1, <1>4, <1>5 DEF Path
  <2>5. \A i \in 1..n : /\ In(rest[i]) \subseteq Listed(fewer[i])
                        /\ Listed(fewer[i]) \subseteq urls \union In(rest[i])
    BY <1>1, <1>3, <1>4, <1>5 DEF Path
  <2>. QED  BY <1>3, <1>4, <1>8, <2>1, <2>2, <2>3, <2>4, <2>5 DEF Path
<1>10. Collected(fewer, w, rest, urls)
  <2>1. ASSUME rest = <<>> PROVE Listed(w) \subseteq urls
    <3>1. n = 0
      BY <1>3, <2>1
    <3>2. L = 1
      <4>. HIDE DEF L
      <4>. QED  BY <1>2, <3>1 DEF n
    <3>3. names[1] = w
      BY <1>1 DEF Path
    <3>. QED  BY <1>6, <3>2, <3>3
  <2>2. ASSUME Cardinality(All(w)) <= SitemapDepth, NEW m \in urls \intersect Map
        PROVE  Listed(m) \subseteq urls \/ \E i \in 1..Len(rest) : fewer[i] = m
    <3>1. Listed(m) \subseteq urls \/ \E i \in 1..L : names[i] = m
      BY <1>1, <2>2 DEF Collected
    <3>. QED  BY <1>3, <1>4, <1>5, <1>6, <3>1
  <2>. QED  BY <1>1, <2>1, <2>2 DEF Collected
<1>. QED  BY <1>4, <1>9, <1>10 DEF Reading, rest

(* A candidate is tried.                                                   *)
LEMMA CandidateStep ==
    ASSUME sitemaps \in Contents, NEW w \in Map, NEW new, new = <<sitemaps[w]>>
    PROVE  Reading(w, new, {})
<1>. DEFINE names == <<w>>
<1>1. /\ names \in Seq(Map) /\ Len(names) = 1 /\ names[1] = w
      /\ Len(new) = 1 /\ new[1] = sitemaps[w] /\ new # <<>>
      /\ \A i \in 1..1 : i = 1 /\ i - 1 = 0
      /\ 2..1 = {}
  OBVIOUS
<1>2. 1 <= Deepest
  BY SitemapAssumption DEF Deepest
<1>3. ReachedFrom(w)[0] = {w} /\ In(sitemaps[w]) = Listed(w)
  BY ReachedFacts, ListedIsIn
<1>. HIDE DEF names
<1>4. Path(names, w, new, {})
  BY <1>1, <1>2, <1>3 DEF Path
<1>5. Collected(names, w, new, {})
  BY <1>1 DEF Collected
<1>. QED  BY <1>1, <1>4, <1>5 DEF Reading

-----------------------------------------------------------------------------
(* What the sitemaps hold does not change while they are read.             *)
LEMMA ReadingStays ==
    ASSUME sitemaps' = sitemaps, NEW w, NEW stk, NEW urls
    PROVE  Reading(w, stk, urls)' <=> Reading(w, stk, urls)
<1>1. ReachedFrom(w)' = ReachedFrom(w)
  BY DEF ReachedFrom, Links, Listed
<1>2. \A m : Listed(m)' = Listed(m)
  BY DEF Listed
<1>3. \A m : Links(m)' = Links(m)
  BY <1>2 DEF Links
<1>4. \A names : Path(names, w, stk, urls)' <=> Path(names, w, stk, urls)
  BY <1>1, <1>2 DEF Path
<1>5. All(w)' = All(w)
  BY <1>1 DEF All
<1>6. \A names : Collected(names, w, stk, urls)' <=> Collected(names, w, stk, urls)
  BY <1>1, <1>2, <1>3, <1>5 DEF Collected
<1>. QED  BY <1>4, <1>6 DEF Reading

(* The candidate that is being read stays the same until the next.         *)
LEMMA SameWinner ==
    ASSUME sitemaps' = sitemaps, tried' = tried, Reading(Winner, stack', allUrls')
    PROVE  Reading(Winner, stack, allUrls)'
<1>1. PICK w : w = Winner
  OBVIOUS
<1>2. PICK stk : stk = stack'
  OBVIOUS
<1>3. PICK urls : urls = allUrls'
  OBVIOUS
<1>4. Reading(w, stk, urls)
  BY <1>1, <1>2, <1>3
<1>5. Reading(w, stk, urls)'
  BY <1>4, ReadingStays
<1>6. w = Winner'
  BY <1>1 DEF Winner
<1>. QED  BY <1>2, <1>3, <1>5, <1>6

(* Before the first candidate.                                             *)
LEMMA SitemapInvInit == SitemapInit => SitemapInv
<1>. SUFFICES ASSUME SitemapInit PROVE SitemapInv
  OBVIOUS
<1>1. PICK named \in Named : candidates = named \o WellKnown
  BY DEF SitemapInit
<1>2. named \in Seq(Map) /\ WellKnown \in Seq(Map) /\ WellKnown # <<>>
  BY SitemapAssumption
<1>3. candidates \in Seq(Map) /\ candidates # <<>>
  <2>1. Len(named) \in Nat /\ Len(WellKnown) \in Nat \ {0} /\ Len(candidates) = Len(named) + Len(WellKnown)
    BY <1>1, <1>2
  <2>2. candidates \in Seq(Map)
    BY <1>1, <1>2
  <2>. QED  BY <2>1, <2>2
<1>4. sitemaps \in Contents
  BY SitemapAssumption DEF SitemapInit, Contents, Loc
<1>. QED  BY <1>3, <1>4 DEF SitemapInit, SitemapInv, SitemapTypeOK, TriedInv

(* The first location of the innermost sitemap, and the stack without it.  *)
LEMMA LookFacts ==
    ASSUME SitemapInv, Looks, Innermost # <<>>
    PROVE  /\ Taken(Head(Innermost), stack, Rest) /\ Rest \in Seq(Seq(Loc)) /\ Rest # <<>>
           /\ tried # <<>> /\ Winner \in Map /\ Reading(Winner, stack, allUrls)
<1>1. stack \in Seq(Seq(Loc)) /\ stack # <<>> /\ tried # <<>> /\ tried \in Seq(Map)
  BY DEF SitemapInv, SitemapTypeOK, TriedInv, Looks
<1>2. Taken(Head(Innermost), stack, Rest)
  BY <1>1 DEF Taken, Innermost, Rest
<1>3. Winner \in Map
  <2>1. Len(tried) \in 1..Len(tried)
    BY <1>1
  <2>. QED  BY <1>1, <2>1 DEF Winner
<1>4. Rest \in Seq(Seq(Loc)) /\ Rest # <<>>
  <2>1. Tail(stack[Len(stack)]) \in Seq(Loc)
    <3>1. stack[Len(stack)] \in Seq(Loc) /\ stack[Len(stack)] # <<>>
      BY <1>1 DEF Innermost
    <3>. QED  BY <3>1
  <2>2. PICK n : n = Len(stack)
    OBVIOUS
  <2>3. n \in Nat \ {0} /\ stack \in [1..n -> Seq(Loc)]
    BY <1>1, <2>2
  <2>4. Rest \in [1..n -> Seq(Loc)]
    BY <2>1, <2>2, <2>3 DEF Rest
  <2>5. Rest \in Seq(Seq(Loc)) /\ Len(Rest) = n
    BY <2>3, <2>4
  <2>. QED  BY <2>3, <2>5
<1>. QED  BY <1>1, <1>2, <1>3, <1>4 DEF SitemapInv

(* ListedPage.                                                             *)
LEMMA ListedPageStep == ASSUME SitemapInv, ListedPage PROVE SitemapInv'
<1>1. /\ Taken(Head(Innermost), stack, Rest) /\ Rest \in Seq(Seq(Loc)) /\ Rest # <<>>
      /\ tried # <<>> /\ Winner \in Map /\ Reading(Winner, stack, allUrls)
  BY LookFacts DEF ListedPage
<1>2. /\ Head(Innermost) \in Page /\ allUrls' = allUrls \union {Head(Innermost)} /\ stack' = Rest
      /\ UNCHANGED <<sitemaps, candidates, tried, discovery>> /\ discovery = "running"
  BY DEF ListedPage, Looks
<1>3. SitemapTypeOK' /\ TriedInv'
  BY <1>1, <1>2 DEF SitemapInv, SitemapTypeOK, TriedInv, Loc
<1>4. Reading(Winner, stack', allUrls')
  <2>1. PICK x : x = Head(Innermost)
    OBVIOUS
  <2>2. x \in Page /\ Taken(x, stack, Rest) /\ stack \in Seq(Seq(Loc)) /\ sitemaps \in Contents
    BY <1>1, <1>2, <2>1 DEF SitemapInv, SitemapTypeOK
  <2>3. Reading(Winner, Rest, allUrls \union {x})
    BY <1>1, <2>2, PageStep
  <2>. QED  BY <1>2, <2>1, <2>3
<1>5. Reading(Winner, stack, allUrls)'
  BY <1>2, <1>4, SameWinner
<1>. QED  BY <1>3, <1>5 DEF SitemapInv

(* ListedSitemap, whether the child is read or passed over.                *)
LEMMA ListedSitemapStep == ASSUME SitemapInv, ListedSitemap PROVE SitemapInv'
<1>1. /\ Taken(Head(Innermost), stack, Rest) /\ Rest \in Seq(Seq(Loc)) /\ Rest # <<>>
      /\ tried # <<>> /\ Winner \in Map /\ Reading(Winner, stack, allUrls)
  BY LookFacts DEF ListedSitemap
<1>2. PICK x : x = Head(Innermost)
  OBVIOUS
<1>3. /\ x \in Map /\ allUrls' = allUrls \union {x}
      /\ stack' = IF x \in allUrls \/ Len(stack) > SitemapDepth THEN Rest
                  ELSE Append(Rest, sitemaps[x])
      /\ UNCHANGED <<sitemaps, candidates, tried, discovery>> /\ discovery = "running"
  BY <1>2 DEF ListedSitemap, Looks, Seen, TooDeep
<1>4. stack \in Seq(Seq(Loc)) /\ sitemaps \in Contents /\ Taken(x, stack, Rest)
  BY <1>1, <1>2 DEF SitemapInv, SitemapTypeOK
<1>5. sitemaps[x] \in Seq(Loc)
  BY <1>3, <1>4 DEF Contents
<1>6. Append(Rest, sitemaps[x]) \in Seq(Seq(Loc))
  BY <1>1, <1>5
<1>7. SitemapTypeOK' /\ TriedInv'
  BY <1>1, <1>3, <1>6 DEF SitemapInv, SitemapTypeOK, TriedInv, Loc
<1>8. Reading(Winner, stack', allUrls')
  <2>1. CASE x \in allUrls \/ Len(stack) > SitemapDepth
    <3>1. Reading(Winner, Rest, allUrls \union {x})
      BY <1>1, <1>3, <1>4, <2>1, PassedStep
    <3>. QED  BY <1>3, <2>1, <3>1
  <2>2. CASE ~(x \in allUrls \/ Len(stack) > SitemapDepth)
    <3>1. Reading(Winner, Append(Rest, sitemaps[x]), allUrls \union {x})
      BY <1>1, <1>3, <1>4, <2>2, EnterStep
    <3>. QED  BY <1>3, <2>2, <3>1
  <2>. QED  BY <2>1, <2>2
<1>9. Reading(Winner, stack, allUrls)'
  BY <1>3, <1>8, SameWinner
<1>. QED  BY <1>7, <1>9 DEF SitemapInv

(* SitemapRead.                                                            *)
LEMMA SitemapReadStep == ASSUME SitemapInv, SitemapRead PROVE SitemapInv'
<1>1. /\ stack # <<>> /\ stack[Len(stack)] = <<>> /\ stack' = SubSeq(stack, 1, Len(stack) - 1)
      /\ UNCHANGED <<sitemaps, candidates, allUrls, tried, discovery>> /\ discovery = "running"
  BY DEF SitemapRead, Looks, Innermost
<1>2. /\ stack \in Seq(Seq(Loc)) /\ sitemaps \in Contents /\ tried # <<>> /\ tried \in Seq(Map)
      /\ Reading(Winner, stack, allUrls)
  BY <1>1 DEF SitemapInv, SitemapTypeOK, TriedInv
<1>3. Winner \in Map
  <2>1. Len(tried) \in 1..Len(tried)
    BY <1>2
  <2>. QED  BY <1>2, <2>1 DEF Winner
<1>4. stack' \in Seq(Seq(Loc))
  <2>1. Len(stack) # 0
    BY <1>1, <1>2
  <2>. QED  BY <1>1, <1>2, <2>1, OneShorter
<1>5. SitemapTypeOK' /\ TriedInv'
  BY <1>1, <1>2, <1>4 DEF SitemapInv, SitemapTypeOK, TriedInv
<1>6. Reading(Winner, SubSeq(stack, 1, Len(stack) - 1), allUrls)
  BY <1>1, <1>2, <1>3, ReadStep
<1>7. Reading(Winner, stack', allUrls')
  BY <1>1, <1>6
<1>8. Reading(Winner, stack, allUrls)'
  BY <1>1, <1>7, SameWinner
<1>. QED  BY <1>5, <1>8 DEF SitemapInv

(* When the next candidate is tried, the last listed nothing.              *)
LEMMA NextCandidateStep == ASSUME SitemapInv, NextCandidate PROVE SitemapInv'
<1>1. PICK w : w = Head(candidates)
  OBVIOUS
<1>2. /\ stack = <<>> /\ candidates # <<>> /\ allUrls = {} /\ discovery = "running"
      /\ stack' = Append(stack, sitemaps[w]) /\ candidates' = Tail(candidates)
      /\ tried' = Append(tried, w) /\ UNCHANGED <<sitemaps, allUrls, discovery>>
  BY <1>1 DEF NextCandidate, Enter
<1>3. sitemaps \in Contents /\ candidates \in Seq(Map) /\ tried \in Seq(Map) /\ allUrls \subseteq Loc
  BY DEF SitemapInv, SitemapTypeOK
<1>4. w \in Map /\ Tail(candidates) \in Seq(Map)
  BY <1>1, <1>2, <1>3
<1>5. sitemaps[w] \in Seq(Loc) /\ stack' = <<sitemaps[w]>>
  BY <1>2, <1>3, <1>4 DEF Contents
<1>6. /\ tried' \in Seq(Map) /\ Len(tried') = Len(tried) + 1 /\ tried'[Len(tried) + 1] = w
      /\ \A i \in 1..Len(tried) : tried'[i] = tried[i]
      /\ Len(tried) \in Nat /\ tried' # <<>>
  BY <1>2, <1>3, <1>4
<1>7. SitemapTypeOK'
  <2>1. stack' \in Seq(Seq(Loc))
    BY <1>5
  <2>. QED  BY <1>2, <1>3, <1>4, <1>6, <2>1 DEF SitemapTypeOK, SitemapInv
<1>8. \A i \in 1..Len(tried) : sitemaps[tried[i]] = <<>>
  <2>. TAKE i \in 1..Len(tried)
  <2>1. CASE i # Len(tried)
    <3>1. i \in 1..Len(tried) - 1
      BY <1>6, <2>1
    <3>. QED  BY <3>1 DEF SitemapInv, TriedInv
  <2>2. CASE i = Len(tried)
    <3>1. tried # <<>> /\ tried[i] \in Map
      BY <1>3
    <3>2. PICK names \in Seq(Map) : Collected(names, Winner, <<>>, {})
      BY <1>2, <3>1 DEF SitemapInv, Reading
    <3>3. Listed(Winner) = {} /\ Winner = tried[i]
      BY <2>2, <3>2 DEF Collected, Winner
    <3>4. sitemaps[tried[i]] \in Seq(Loc)
      BY <1>3, <3>1 DEF Contents
    <3>5. DOMAIN sitemaps[tried[i]] = {}
      BY <3>3 DEF Listed
    <3>6. PICK list : list = sitemaps[tried[i]]
      OBVIOUS
    <3>7. list \in Seq(Loc) /\ DOMAIN list = {}
      BY <3>4, <3>5, <3>6
    <3>8. Len(list) \in Nat /\ DOMAIN list = 1..Len(list)
      BY <3>7
    <3>9. Len(list) = 0
      BY <3>7, <3>8
    <3>. QED  BY <3>6, <3>7, <3>9
  <2>. QED  BY <2>1, <2>2
<1>9. TriedInv'
  <2>1. Len(tried') - 1 = Len(tried)
    BY <1>6
  <2>2. \A i \in 1..Len(tried') - 1 : sitemaps'[tried'[i]] = <<>>
    BY <1>2, <1>6, <1>8, <2>1
  <2>. QED  BY <1>2, <1>6, <2>2 DEF TriedInv
<1>10. Reading(Winner, stack, allUrls)'
  <2>1. PICK new : new = <<sitemaps[w]>>
    OBVIOUS
  <2>2. Reading(w, new, {})
    BY <1>3, <1>4, <2>1, CandidateStep
  <2>3. Reading(w, new, {})'
    BY <1>2, <2>2, ReadingStays
  <2>4. Winner' = w /\ stack' = new /\ allUrls' = {}
    BY <1>2, <1>5, <1>6, <2>1 DEF Winner
  <2>. QED  BY <2>3, <2>4
<1>. QED  BY <1>7, <1>9, <1>10 DEF SitemapInv

(* DiscoveryEnds.                                                          *)
LEMMA DiscoveryEndsStep == ASSUME SitemapInv, DiscoveryEnds PROVE SitemapInv'
<1>1. /\ stack = <<>> /\ discovery' = "done"
      /\ candidates = <<>> \/ allUrls # {}
      /\ UNCHANGED <<sitemaps, candidates, stack, allUrls, tried>>
  BY DEF DiscoveryEnds
<1>2. tried # <<>>
  BY <1>1 DEF SitemapInv, TriedInv
<1>3. SitemapTypeOK' /\ TriedInv'
  BY <1>1, <1>2 DEF SitemapInv, SitemapTypeOK, TriedInv
<1>4. Reading(Winner, stack', allUrls')
  BY <1>1, <1>2 DEF SitemapInv
<1>5. Reading(Winner, stack, allUrls)'
  BY <1>1, <1>4, SameWinner
<1>. QED  BY <1>3, <1>5 DEF SitemapInv

(* The sitemaps being read form a path from the candidate, and all that    *)
(* those already read list has been seen.                                  *)
THEOREM SitemapInvariant == SitemapSpec => []SitemapInv
<1>1. SitemapInit => SitemapInv
  BY SitemapInvInit
<1>2. SitemapInv /\ [SitemapNext]_sitemapVars => SitemapInv'
  <2>. SUFFICES ASSUME SitemapInv, [SitemapNext]_sitemapVars PROVE SitemapInv'
    OBVIOUS
  <2>1. CASE UNCHANGED sitemapVars
    <3>1. /\ UNCHANGED <<sitemaps, candidates, stack, allUrls, tried, discovery>>
      BY <2>1 DEF sitemapVars
    <3>2. SitemapTypeOK' /\ TriedInv'
      BY <3>1 DEF SitemapInv, SitemapTypeOK, TriedInv
    <3>3. tried # <<>> => Reading(Winner, stack', allUrls')
      BY <3>1 DEF SitemapInv
    <3>4. tried # <<>> => Reading(Winner, stack, allUrls)'
      BY <3>1, <3>3, SameWinner
    <3>. QED  BY <3>1, <3>2, <3>4 DEF SitemapInv
  <2>. QED  BY <2>1, NextCandidateStep, ListedPageStep, ListedSitemapStep, SitemapReadStep,
               DiscoveryEndsStep DEF SitemapNext
<1>. QED  BY <1>1, <1>2, PTL DEF SitemapSpec

(* What the sitemaps' reading returns is what the candidate that won leads *)
(* to: no more, and where maxDepth can cut nothing off, no less.           *)
THEOREM DiscoversWhatIsLed == SitemapSpec => []Discovers
<1>1. SitemapInv => Discovers
  <2>. SUFFICES ASSUME SitemapInv, discovery = "done"
                PROVE  /\ discovered \subseteq Links(ReachedFrom(Winner)[SitemapDepth])
                       /\ Cardinality(All(Winner)) <= SitemapDepth =>
                              discovered = Links(All(Winner)) \ Map
                       /\ \A i \in 1..Len(tried) - 1 : sitemaps[tried[i]] = <<>>
    BY DEF Discovers, Winner, All
  <2>1. /\ stack = <<>> /\ tried # <<>> /\ sitemaps \in Contents /\ tried \in Seq(Map)
        /\ \A i \in 1..Len(tried) - 1 : sitemaps[tried[i]] = <<>>
    BY DEF SitemapInv, SitemapTypeOK, TriedInv
  <2>2. PICK w : w = Winner
    OBVIOUS
  <2>3. w \in Map
    <3>1. Len(tried) \in 1..Len(tried)
      BY <2>1
    <3>. QED  BY <2>1, <2>2, <3>1 DEF Winner
  <2>4. PICK names \in Seq(Map) : Collected(names, w, <<>>, allUrls)
    BY <2>1, <2>2 DEF SitemapInv, Reading
  <2>5. /\ allUrls \ Map \subseteq Links(ReachedFrom(w)[SitemapDepth])
        /\ allUrls \ Map \subseteq Links(All(w))
        /\ Listed(w) \subseteq allUrls
        /\ Cardinality(All(w)) <= SitemapDepth =>
              \A m \in allUrls \intersect Map : Listed(m) \subseteq allUrls
    BY <2>4 DEF Collected
  <2>6. ASSUME Cardinality(All(w)) <= SitemapDepth
        PROVE  Links(All(w)) \subseteq allUrls
    <3>1. PICK U : U = {w} \union (allUrls \intersect Map)
      OBVIOUS
    <3>2. w \in U /\ \A m \in U : Listed(m) \subseteq allUrls
      BY <2>5, <2>6, <3>1
    <3>3. \A m \in U : Listed(m) \intersect Map \subseteq U
      BY <3>1, <3>2
    <3>4. Cardinality(Map) \in Nat
      BY SitemapAssumption, FS_CardinalityType
    <3>5. All(w) \subseteq U
      BY <2>1, <2>3, <3>2, <3>3, <3>4, ClosedIsAll DEF All
    <3>. QED  BY <3>2, <3>5 DEF Links
  <2>. QED  BY <2>1, <2>2, <2>5, <2>6 DEF discovered
<1>. QED  BY <1>1, SitemapInvariant, PTL

-----------------------------------------------------------------------------
(* The breadth-first crawl.                                                *)

Site == [links : [BfsUrl -> SUBSET BfsUrl], allowed : SUBSET BfsUrl, follow : SUBSET BfsUrl]

(* The recursion of Reach has a solution, which therefore is Reach.        *)
LEMMA ReachFacts ==
    ASSUME NEW where \in Site, NEW R
    PROVE  /\ Reach(where, R) \in [Nat -> SUBSET BfsUrl]
           /\ Reach(where, R)[0] = {startUrl}
           /\ \A n \in Nat : Reach(where, R)[n + 1]
                  = Reach(where, R)[n] \union Onward(where, R, Reach(where, R)[n])
<1>. DEFINE X == SUBSET BfsUrl
            base == {startUrl}
            step == [n \in Nat |-> [U \in X |-> U \union Onward(where, R, U)]]
            Fix(g) == g = [n \in Nat |-> IF n = 0 THEN {startUrl}
                                         ELSE g[n - 1] \union Onward(where, R, g[n - 1])]
<1>1. \A U \in X : U \union Onward(where, R, U) \in X
  BY DEF Onward, Site
<1>2. step \in [Nat -> [X -> X]] /\ base \in X
  BY <1>1, CrawlAssumption
<1>3. PICK f \in [Nat -> X] : f[0] = {startUrl} /\ \A n \in Nat : f[n + 1] = step[n][f[n]]
  <2>. HIDE DEF step, X, base
  <2>1. \E f \in [Nat -> X] : f[0] = base /\ \A n \in Nat : f[n + 1] = step[n][f[n]]
    BY <1>2, Recursion
  <2>. QED  BY <2>1 DEF base
<1>4. Fix(f)
  <2>1. \A n \in Nat \ {0} : n - 1 \in Nat /\ (n - 1) + 1 = n
    OBVIOUS
  <2>2. \A n \in Nat : f[n + 1] = f[n] \union Onward(where, R, f[n])
    BY <1>3
  <2>3. \A n \in Nat : f[n] = IF n = 0 THEN {startUrl}
                              ELSE f[n - 1] \union Onward(where, R, f[n - 1])
    BY <1>3, <2>1, <2>2
  <2>. QED  BY <2>3
<1>5. Fix(Reach(where, R))
  <2>1. Reach(where, R) = CHOOSE g : Fix(g)
    BY DEF Reach
  <2>. HIDE DEF Fix
  <2>. QED  BY <1>4, <2>1
<1>. DEFINE W == Reach(where, R)
<1>6. W = [n \in Nat |-> IF n = 0 THEN {startUrl} ELSE W[n - 1] \union Onward(where, R, W[n - 1])]
  BY <1>5
<1>. HIDE DEF W
<1>7. /\ W[0] = {startUrl}
      /\ \A n \in Nat : W[n + 1] = W[n] \union Onward(where, R, W[n])
  <2>. DEFINE V(n) == IF n = 0 THEN {startUrl} ELSE W[n - 1] \union Onward(where, R, W[n - 1])
  <2>1. \A n \in Nat : W[n] = V(n)
    <3>. HIDE DEF V
    <3>1. W = [n \in Nat |-> V(n)]
      BY <1>6 DEF V
    <3>. QED  BY <3>1
  <2>2. V(0) = {startUrl}
    OBVIOUS
  <2>3. \A n \in Nat : n + 1 \in Nat /\ V(n + 1) = W[n] \union Onward(where, R, W[n])
    OBVIOUS
  <2>. HIDE DEF V
  <2>. QED  BY <2>1, <2>2, <2>3
<1>8. \A n \in Nat : W[n] \in X
  <2>. DEFINE S == {n \in Nat : W[n] \in X}
  <2>1. 0 \in S
    BY <1>2, <1>7
  <2>2. \A n \in Nat : n \in S => n + 1 \in S
    BY <1>1, <1>7
  <2>3. Nat \subseteq S
    <3>. HIDE DEF S
    <3>. QED  BY <2>1, <2>2, Induction
  <2>. QED  BY <2>3
<1>9. W \in [Nat -> X]
  BY <1>6, <1>8
<1>. QED  BY <1>7, <1>9 DEF W

(* More pages to go by reach further, and so do more links.                *)
LEMMA ReachGrows ==
    ASSUME NEW where \in Site, NEW R, NEW T, R \subseteq T, NEW n \in Nat
    PROVE  Reach(where, R)[n] \subseteq Reach(where, T)[n]
<1>. DEFINE V == Reach(where, R)
            W == Reach(where, T)
            S == {k \in Nat : V[k] \subseteq W[k]}
<1>1. /\ V[0] = W[0]
      /\ \A k \in Nat : V[k + 1] = V[k] \union Onward(where, R, V[k])
      /\ \A k \in Nat : W[k + 1] = W[k] \union Onward(where, T, W[k])
  BY ReachFacts
<1>. HIDE DEF V, W
<1>2. 0 \in S
  BY <1>1
<1>3. ASSUME NEW k \in Nat, k \in S
      PROVE  k + 1 \in S
  <2>1. Onward(where, R, V[k]) \subseteq Onward(where, T, W[k])
    BY <1>3 DEF Onward
  <2>. QED  BY <1>1, <1>3, <2>1
<1>4. n \in S
  <2>. HIDE DEF S
  <2>. QED  BY <1>2, <1>3, Induction
<1>. QED  BY <1>4 DEF V, W

(* What is reached in some steps is reached in more.                       *)
LEMMA ReachChain ==
    ASSUME NEW where \in Site, NEW R, NEW m \in Nat, NEW n \in Nat, m <= n
    PROVE  Reach(where, R)[m] \subseteq Reach(where, R)[n]
<1>. DEFINE W == Reach(where, R)
            S == {k \in Nat : W[m] \subseteq W[m + k]}
<1>1. \A k \in Nat : W[k + 1] = W[k] \union Onward(where, R, W[k])
  BY ReachFacts
<1>. HIDE DEF W
<1>2. 0 \in S
  OBVIOUS
<1>3. ASSUME NEW k \in Nat, k \in S
      PROVE  k + 1 \in S
  <2>1. m + k \in Nat /\ (m + k) + 1 = m + (k + 1)
    OBVIOUS
  <2>2. W[m + k] \subseteq W[m + (k + 1)]
    BY <1>1, <2>1
  <2>. QED  BY <1>3, <2>2
<1>4. n - m \in S
  <2>. HIDE DEF S
  <2>1. n - m \in Nat
    OBVIOUS
  <2>. QED  BY <1>2, <1>3, <2>1, Induction
<1>5. m + (n - m) = n
  OBVIOUS
<1>. QED  BY <1>4, <1>5 DEF W

(* Pages that are no nearer than n change nothing up to there.             *)
LEMMA ReachKept ==
    ASSUME NEW where \in Site, NEW R, NEW T, R \subseteq T, NEW n \in Nat,
           \A m \in 0..n - 1 : \A z \in T : z \in R \/ z \notin Reach(where, R)[m]
    PROVE  Reach(where, T)[n] = Reach(where, R)[n]
<1>. DEFINE V == Reach(where, R)
            W == Reach(where, T)
            S == {k \in Nat : k <= n => W[k] = V[k]}
<1>1. /\ V[0] = W[0]
      /\ \A k \in Nat : V[k + 1] = V[k] \union Onward(where, R, V[k])
      /\ \A k \in Nat : W[k + 1] = W[k] \union Onward(where, T, W[k])
  BY ReachFacts
<1>2. \A m \in 0..n - 1 : \A z \in T : z \in R \/ z \notin V[m]
  OBVIOUS
<1>. HIDE DEF V, W
<1>3. 0 \in S
  BY <1>1
<1>4. ASSUME NEW k \in Nat, k \in S
      PROVE  k + 1 \in S
  <2>. SUFFICES ASSUME k + 1 <= n PROVE W[k + 1] = V[k + 1]
    OBVIOUS
  <2>1. k \in 0..n - 1 /\ W[k] = V[k]
    BY <1>4
  <2>2. V[k] \intersect T = V[k] \intersect R
    BY <1>2, <2>1
  <2>3. Onward(where, T, W[k]) = Onward(where, R, V[k])
    BY <2>1, <2>2 DEF Onward
  <2>. QED  BY <1>1, <2>1, <2>3
<1>5. n \in S
  <2>. HIDE DEF S
  <2>. QED  BY <1>3, <1>4, Induction
<1>. QED  BY <1>5 DEF V, W

-----------------------------------------------------------------------------
Entry == [url : BfsUrl, depth : Nat]

BfsTypeOK ==
    /\ site \in Site /\ bound \in [pages : Nat \ {0}, depth : Nat]
    /\ visited \subseteq BfsUrl /\ queue \in Seq(Entry)
    /\ fetched \in [BfsUrl -> Nat]

BoundsInv ==
    /\ Cardinality(visited) <= bound.pages
    /\ \A u \in BfsUrl : fetched[u] = IF u \in visited THEN 1 ELSE 0
    /\ visited \subseteq Within(pages)[bound.depth]
    /\ \A i \in DOMAIN queue :
          queue[i].depth <= bound.depth /\ queue[i].url \in Within(pages)[queue[i].depth]

(* The queue holds two levels at most, the nearer one first.               *)
OrderInv ==
    \A i, j \in DOMAIN queue :
        i < j => queue[j].depth \in {queue[i].depth, queue[i].depth + 1}

(* A page is settled at level n when it was visited or may not be, or      *)
(* waits at that level or before.                                          *)
Settled(u, n) ==
    \/ u \in visited \/ u \notin site.allowed
    \/ \E i \in DOMAIN queue : queue[i].url = u /\ queue[i].depth <= n

(* A page whose links were read was taken off the queue at its own level,  *)
(* the least at which it can be reached; its links are settled at the next.*)
Expanded(w) ==
    \E level \in 0..bound.depth :
        /\ \A m \in 0..level - 1 : w \notin Within(read)[m]
        /\ \A i \in DOMAIN queue : level <= queue[i].depth
        /\ level < bound.depth =>
              \A u \in site.links[w] \intersect site.follow : Settled(u, level + 1)

LevelInv ==
    /\ Settled(startUrl, 0)
    /\ \A w \in read : Expanded(w)

BfsInv == BfsTypeOK /\ BoundsInv /\ OrderInv /\ LevelInv

-----------------------------------------------------------------------------
(* The entries for a set of pages: one for each, at the depth that is given*)
LEMMA EntriesFacts ==
    ASSUME NEW L \in SUBSET BfsUrl, NEW depth \in Nat, NEW more \in Entries(L, depth)
    PROVE  /\ more \in Seq(Entry)
           /\ \A k \in DOMAIN more : more[k].url \in L /\ more[k].depth = depth
           /\ \A u \in L : \E k \in DOMAIN more : more[k].url = u
<1>. DEFINE E == {[url |-> u, depth |-> depth] : u \in L}
<1>1. IsFiniteSet(L)
  BY CrawlAssumption, FS_Subset
<1>2. IsFiniteSet(E)
  <2>. DEFINE f == [u \in L |-> [url |-> u, depth |-> depth]]
  <2>1. f \in Surjection(L, E)
    BY DEF Surjection
  <2>. HIDE DEF f, E
  <2>. QED  BY <1>1, <2>1, FS_Surjection
<1>3. more \in SetToSeqs(E)
  BY DEF Entries
<1>4. \A e \in E : e \in Entry /\ e.url \in L /\ e.depth = depth
  BY DEF Entry
<1>5. \A u \in L : [url |-> u, depth |-> depth] \in E
  OBVIOUS
<1>. HIDE DEF E
<1>6. more \in Seq(E) /\ \A e \in E : \E k \in DOMAIN more : more[k] = e
  BY <1>2, <1>3, OrderFacts
<1>7. more \in Seq(Entry) /\ \A k \in DOMAIN more : more[k].url \in L /\ more[k].depth = depth
  BY <1>4, <1>6
<1>8. ASSUME NEW u \in L
      PROVE  \E k \in DOMAIN more : more[k].url = u
  <2>1. PICK k \in DOMAIN more : more[k] = [url |-> u, depth |-> depth]
    BY <1>5, <1>6
  <2>2. more[k].url = u
    BY <2>1
  <2>. QED  BY <2>2
<1>. QED  BY <1>7, <1>8

(* Whatever the step: the head entry x goes, and links L of its page, none *)
(* but those to follow, are appended one level below; the page is visited, *)
(* or there was no need to; it was read only if all the links went in.     *)
Turn(x, L, more) ==
    /\ L \subseteq site.links[x.url] \intersect site.follow
    /\ more \in Seq(Entry)
    /\ \A k \in DOMAIN more : more[k].url \in L /\ more[k].depth = x.depth + 1
    /\ \A u \in L : \E k \in DOMAIN more : more[k].url = u
    /\ queue' = Tail(queue) \o more
    /\ x.depth <= bound.depth => x.url \in visited' \/ x.url \notin site.allowed
    /\ \/ UNCHANGED <<visited, fetched>>
       \/ /\ visited' = visited \union {x.url} /\ x.url \notin visited
          /\ x.depth <= bound.depth /\ x.url \in site.allowed
          /\ fetched' = [fetched EXCEPT ![x.url] = @ + 1]
    /\ \/ L = {} /\ UNCHANGED pages
       \/ pages' = pages \union {x.url} /\ (L # {} => x.depth < bound.depth)
    /\ \/ UNCHANGED read
       \/ /\ read' = read \union {x.url}
          /\ x.url \in visited' /\ x.url \notin visited /\ x.url \in site.allowed
          /\ x.depth <= bound.depth
          /\ x.depth < bound.depth =>
                \A u \in site.links[x.url] \intersect site.follow : u \in visited' \union L

(* Every action of BfsNext is a turn.                                      *)
LEMMA TurnOfAStep ==
    ASSUME BfsTypeOK, BfsNext
    PROVE  /\ queue # <<>> /\ Cardinality(visited) < bound.pages /\ UNCHANGED <<site, bound>>
           /\ \E L \in SUBSET BfsUrl : \E more : Turn(Head(queue), L, more)
<1>1. queue # <<>> /\ Cardinality(visited) < bound.pages
  BY DEF BfsNext, Skip, BfsFetchFails, Fetches, Visits, Running
<1>2. UNCHANGED <<site, bound>>
  BY DEF BfsNext, Skip, BfsFetchFails, Fetches, bfsCall
<1>3. /\ queue \in Seq(Entry) /\ Tail(queue) \in Seq(Entry) /\ Tail(queue) \o <<>> = Tail(queue)
      /\ Head(queue) \in Entry /\ <<>> \in Seq(Entry) /\ DOMAIN <<>> = {}
  BY <1>1 DEF BfsTypeOK
<1>4. CASE Skip \/ BfsFetchFails
  <2>1. queue' = Tail(queue) /\ UNCHANGED <<pages, read>>
    BY <1>4 DEF Skip, BfsFetchFails, DropItem
  <2>2. \/ UNCHANGED <<visited, fetched>>
        \/ /\ visited' = visited \union {Head(queue).url} /\ Head(queue).url \notin visited
           /\ Head(queue).depth <= bound.depth /\ Head(queue).url \in site.allowed
           /\ fetched' = [fetched EXCEPT ![Head(queue).url] = @ + 1]
    BY <1>4 DEF Skip, BfsFetchFails, Visits, item
  <2>3. Head(queue).depth <= bound.depth =>
            Head(queue).url \in visited' \/ Head(queue).url \notin site.allowed
    <3>1. CASE Skip
      <4>1. /\ Head(queue).url \in visited \/ Head(queue).depth > bound.depth
                  \/ Head(queue).url \notin site.allowed
            /\ visited' = visited
        BY <3>1 DEF Skip, item
      <4>. QED  BY <1>3, <4>1 DEF Entry, BfsTypeOK
    <3>2. CASE BfsFetchFails
      BY <3>2 DEF BfsFetchFails, Visits, item
    <3>. QED  BY <1>4, <3>1, <3>2
  <2>4. Turn(Head(queue), {}, <<>>)
    BY <1>3, <2>1, <2>2, <2>3 DEF Turn
  <2>. QED  BY <1>1, <1>2, <2>4
<1>5. CASE Fetches
  <2>. DEFINE x == Head(queue)
              links == IF Follows
                       THEN {u \in site.links[x.url] : u \notin visited' /\ u \in site.follow}
                       ELSE {}
  <2>1. /\ visited' = visited \union {x.url} /\ x.url \notin visited
        /\ x.depth <= bound.depth /\ x.url \in site.allowed
        /\ fetched' = [fetched EXCEPT ![x.url] = @ + 1]
    BY <1>5 DEF Fetches, Visits, item
  <2>2. pages' = pages \union {x.url}
    BY <1>5 DEF Fetches, item
  <2>3. \E L \in SUBSET links :
           queue' \in Push(L) /\ (UNCHANGED read \/ (L = links /\ read' = read \union {x.url}))
    BY <1>5 DEF Fetches, item
  <2>4. /\ links \subseteq BfsUrl /\ links \subseteq site.links[x.url] \intersect site.follow
        /\ links # {} => x.depth < bound.depth
        /\ x.depth < bound.depth =>
              \A u \in site.links[x.url] \intersect site.follow : u \in visited' \union links
    BY <1>3 DEF Follows, item, BfsTypeOK, Site, Entry
  <2>. HIDE DEF links
  <2>5. PICK L \in SUBSET links :
           queue' \in Push(L) /\ (UNCHANGED read \/ (L = links /\ read' = read \union {x.url}))
    BY <2>3
  <2>6. PICK more \in Entries(L, x.depth + 1) : queue' = Tail(queue) \o more
    BY <2>5 DEF Push, item
  <2>7. /\ more \in Seq(Entry)
        /\ \A k \in DOMAIN more : more[k].url \in L /\ more[k].depth = x.depth + 1
        /\ \A u \in L : \E k \in DOMAIN more : more[k].url = u
    <3>1. x.depth + 1 \in Nat /\ L \in SUBSET BfsUrl
      BY <1>3, <2>4 DEF Entry
    <3>. DEFINE depth == x.depth + 1
    <3>2. more \in Entries(L, depth) /\ depth \in Nat
      BY <2>6, <3>1
    <3>. HIDE DEF x, depth
    <3>3. /\ more \in Seq(Entry)
          /\ \A k \in DOMAIN more : more[k].url \in L /\ more[k].depth = depth
          /\ \A u \in L : \E k \in DOMAIN more : more[k].url = u
      BY <3>1, <3>2, EntriesFacts
    <3>. QED  BY <3>3 DEF depth
  <2>8. Turn(x, L, more)
    <3>1. L \subseteq site.links[x.url] \intersect site.follow /\ (L # {} => x.depth < bound.depth)
      BY <2>4
    <3>2. L = links => (x.depth < bound.depth =>
              \A u \in site.links[x.url] \intersect site.follow : u \in visited' \union L)
      BY <2>4
    <3>. HIDE DEF x
    <3>. QED  BY <2>1, <2>2, <2>5, <2>6, <2>7, <3>1, <3>2 DEF Turn
  <2>9. L \in SUBSET BfsUrl
    BY <2>4
  <2>. QED  BY <1>1, <1>2, <2>8, <2>9
<1>. QED  BY <1>4, <1>5 DEF BfsNext

-----------------------------------------------------------------------------
(* A turn keeps the types.                                                 *)
LEMMA BfsTypeStep ==
    ASSUME BfsTypeOK, queue # <<>>, UNCHANGED <<site, bound>>,
           NEW L \in SUBSET BfsUrl, NEW more, Turn(Head(queue), L, more)
    PROVE  BfsTypeOK'
<1>1. Head(queue) \in Entry /\ queue' \in Seq(Entry)
  BY QueueFacts DEF BfsTypeOK, Turn
<1>2. visited' \subseteq BfsUrl /\ fetched' \in [BfsUrl -> Nat]
  BY <1>1 DEF BfsTypeOK, Turn, Entry
<1>. QED  BY <1>1, <1>2 DEF BfsTypeOK

(* Everything asked for, or to be asked for, is within reach.              *)
LEMMA BoundsStep ==
    ASSUME BfsTypeOK, BoundsInv, queue # <<>>, UNCHANGED <<site, bound>>,
           Cardinality(visited) < bound.pages,
           NEW L \in SUBSET BfsUrl, NEW more, Turn(Head(queue), L, more)
    PROVE  BoundsInv'
<1>. DEFINE x == Head(queue)
            W == Reach(site, pages)
            V == Reach(site, pages')
<1>1. x \in Entry /\ x.url \in BfsUrl /\ x.depth \in Nat /\ bound.depth \in Nat /\ bound.pages \in Nat
  <2>1. Head(queue) \in Entry
    BY DEF BfsTypeOK
  <2>. QED  BY <2>1 DEF Entry, BfsTypeOK
<1>2. /\ 1 \in DOMAIN queue /\ x = queue[1] /\ queue' \in Seq(Entry)
      /\ \A j \in DOMAIN queue' : \/ j + 1 \in DOMAIN queue /\ queue'[j] = queue[j + 1]
                                  \/ \E k \in DOMAIN more : queue'[j] = more[k]
  BY QueueFacts DEF BfsTypeOK, Turn
<1>3. x.depth <= bound.depth /\ x.url \in W[x.depth]
  BY <1>2 DEF BoundsInv, Within
<1>4. pages \subseteq pages' /\ (L # {} => x.url \in pages' /\ x.depth < bound.depth)
  BY DEF Turn
<1>5. site \in Site /\ \A n \in Nat : W[n] \subseteq V[n]
  BY <1>4, ReachGrows DEF BfsTypeOK
<1>6. V[x.depth + 1] = V[x.depth] \union Onward(site, pages', V[x.depth])
  <2>1. \A n \in Nat : V[n + 1] = V[n] \union Onward(site, pages', V[n])
    BY <1>5, ReachFacts
  <2>. HIDE DEF V, x
  <2>. QED  BY <1>1, <2>1
<1>7. W[x.depth] \subseteq W[bound.depth]
  BY <1>1, <1>3, <1>5, ReachChain
<1>. HIDE DEF V, W
<1>8. Cardinality(visited') <= bound'.pages
  <2>1. IsFiniteSet(visited) /\ Cardinality(visited) \in Nat
    BY CrawlAssumption, FS_Subset, FS_CardinalityType DEF BfsTypeOK
  <2>2. visited' = visited \/ visited' = visited \union {x.url}
    BY DEF Turn
  <2>. HIDE DEF x
  <2>3. \A u : Cardinality(visited \union {u}) \in {Cardinality(visited), Cardinality(visited) + 1}
    BY <2>1, FS_AddElement
  <2>. DEFINE size == Cardinality(visited)
  <2>4. Cardinality(visited') \in {size, size + 1}
    BY <2>2, <2>3
  <2>. QED  BY <1>1, <2>1, <2>4
<1>9. \A u \in BfsUrl : fetched'[u] = IF u \in visited' THEN 1 ELSE 0
  BY <1>1 DEF Turn, BoundsInv, BfsTypeOK
<1>10. visited' \subseteq V[bound.depth]
  <2>1. visited \subseteq V[bound.depth]
    BY <1>1, <1>5 DEF BoundsInv, Within, W
  <2>2. x.url \in V[bound.depth]
    BY <1>1, <1>3, <1>5, <1>7
  <2>. QED  BY <2>1, <2>2 DEF Turn
<1>11. ASSUME NEW j \in DOMAIN queue'
       PROVE  queue'[j].depth <= bound.depth /\ queue'[j].url \in V[queue'[j].depth]
  <2>1. CASE j + 1 \in DOMAIN queue /\ queue'[j] = queue[j + 1]
    <3>1. queue[j + 1].depth <= bound.depth /\ queue[j + 1].url \in W[queue[j + 1].depth]
      BY <2>1 DEF BoundsInv, Within, W
    <3>2. queue[j + 1] \in Entry
      BY <2>1 DEF BfsTypeOK
    <3>3. queue[j + 1].depth \in Nat
      BY <3>2 DEF Entry
    <3>. QED  BY <1>5, <2>1, <3>1, <3>3
  <2>2. CASE \E k \in DOMAIN more : queue'[j] = more[k]
    <3>1. PICK k \in DOMAIN more : queue'[j] = more[k]
      BY <2>2
    <3>2. more[k].url \in L /\ more[k].depth = x.depth + 1
      BY DEF Turn
    <3>3. more[k].url \in site.follow /\ more[k].url \in site.links[x.url]
      BY <3>2 DEF Turn
    <3>4. x.url \in V[x.depth] /\ x.url \in pages' /\ x.depth < bound.depth
      BY <1>1, <1>3, <1>4, <1>5, <3>2
    <3>5. more[k].url \in V[x.depth + 1]
      BY <1>6, <3>3, <3>4 DEF Onward
    <3>6. x.depth + 1 <= bound.depth
      BY <1>1, <3>4
    <3>. QED  BY <3>1, <3>2, <3>5, <3>6
  <2>. QED  BY <1>2, <2>1, <2>2
<1>. QED  BY <1>8, <1>9, <1>10, <1>11 DEF BoundsInv, Within, V

(* A turn keeps the queue in the order of depth.                           *)
LEMMA OrderStep ==
    ASSUME BfsTypeOK, OrderInv, queue # <<>>,
           NEW L \in SUBSET BfsUrl, NEW more, Turn(Head(queue), L, more)
    PROVE  OrderInv'
<1>. DEFINE d == Head(queue).depth
<1>1. queue \in Seq(Entry) /\ more \in Seq(Entry) /\ queue' = Tail(queue) \o more
  BY DEF BfsTypeOK, Turn
<1>2. /\ 1 \in DOMAIN queue /\ d = queue[1].depth
      /\ DOMAIN queue = 1..Len(queue) /\ Len(queue) \in Nat /\ DOMAIN queue' \subseteq Nat
  BY <1>1, QueueFacts
<1>3. \A j \in DOMAIN queue' :
         \/ j + 1 \in DOMAIN queue /\ queue'[j] = queue[j + 1]
         \/ \E k \in DOMAIN more : j = Len(queue) - 1 + k /\ queue'[j] = more[k]
  BY <1>1, QueueFacts
<1>4. \A i \in DOMAIN queue : queue[i].depth \in Nat
  <2>1. \A i \in DOMAIN queue : queue[i] \in Entry
    BY DEF BfsTypeOK
  <2>. QED  BY <2>1 DEF Entry
<1>5. \A k \in DOMAIN more : more[k].depth = d + 1 /\ k \in Nat /\ k >= 1
  BY QueueFacts DEF Turn, BfsTypeOK
<1>6. \A i \in DOMAIN queue : queue[i].depth \in {d, d + 1}
  BY <1>2, <1>4 DEF OrderInv
<1>. SUFFICES ASSUME NEW i \in DOMAIN queue', NEW j \in DOMAIN queue', i < j
              PROVE  queue'[j].depth \in {queue'[i].depth, queue'[i].depth + 1}
  BY DEF OrderInv
<1>. HIDE DEF d
<1>7. CASE j + 1 \in DOMAIN queue /\ queue'[j] = queue[j + 1]
  <2>1. i + 1 < j + 1 /\ i + 1 \in DOMAIN queue
    BY <1>2, <1>7, <1>3
  <2>2. queue'[i] = queue[i + 1]
    BY <1>2, <1>5, <1>3, <2>1
  <2>. QED  BY <1>7, <2>1, <2>2 DEF OrderInv
<1>8. CASE \E k \in DOMAIN more : queue'[j] = more[k]
  <2>1. queue'[j].depth = d + 1
    BY <1>5, <1>8
  <2>2. queue'[i].depth \in {d, d + 1}
    BY <1>2, <1>5, <1>6, <1>3
  <2>. QED  BY <1>2, <1>4, <2>1, <2>2
<1>. QED  BY <1>7, <1>8, <1>3

(* Depths are numbers.                                                     *)
LEMMA DepthIsNat ==
    ASSUME BfsTypeOK
    PROVE  bound.depth \in Nat /\ \A i \in DOMAIN queue : queue[i].depth \in Nat
<1>1. \A i \in DOMAIN queue : queue[i] \in Entry
  BY DEF BfsTypeOK
<1>. QED  BY <1>1 DEF Entry, BfsTypeOK

(* What is settled at a level is settled at every later one.               *)
LEMMA SettledLater ==
    ASSUME BfsTypeOK, NEW m \in Nat, NEW n \in Nat, m <= n, NEW u, Settled(u, m)
    PROVE  Settled(u, n)
<1>1. \A i \in DOMAIN queue : queue[i].depth <= m => queue[i].depth <= n
  BY DepthIsNat
<1>. QED  BY <1>1 DEF Settled

(* Whatever can be reached in n steps is settled at level n.               *)
LEMMA ReachedIsSettled ==
    ASSUME BfsTypeOK, LevelInv, NEW n \in 0..bound.depth, NEW u \in Within(read)[n]
    PROVE  Settled(u, n)
<1>. DEFINE W == Reach(site, read)
            S == {k \in Nat : k <= bound.depth => \A v \in W[k] : Settled(v, k)}
<1>1. W[0] = {startUrl} /\ \A k \in Nat : W[k + 1] = W[k] \union Onward(site, read, W[k])
  BY ReachFacts DEF BfsTypeOK
<1>2. n \in Nat /\ n <= bound.depth /\ bound.depth \in Nat /\ u \in W[n]
  BY DepthIsNat DEF Within
<1>3. \A w \in read : \E level \in 0..bound.depth :
         /\ \A m \in 0..level - 1 : w \notin W[m]
         /\ level < bound.depth =>
               \A v \in site.links[w] \intersect site.follow : Settled(v, level + 1)
  BY DEF LevelInv, Expanded, Within
<1>. HIDE DEF W
<1>4. 0 \in S
  BY <1>1 DEF LevelInv
<1>5. ASSUME NEW k \in Nat, k \in S
      PROVE  k + 1 \in S
  <2>. SUFFICES ASSUME k + 1 <= bound.depth, NEW v \in W[k + 1] PROVE Settled(v, k + 1)
    OBVIOUS
  <2>1. CASE v \in W[k]
    <3>1. Settled(v, k)
      BY <1>2, <1>5, <2>1
    <3>2. k + 1 \in Nat /\ k <= k + 1
      OBVIOUS
    <3>. QED  BY <3>1, <3>2, SettledLater
  <2>2. CASE v \in Onward(site, read, W[k])
    <3>1. PICK w \in W[k] \intersect read : v \in site.links[w] \intersect site.follow
      BY <2>2 DEF Onward
    <3>2. PICK level \in 0..bound.depth :
             /\ \A m \in 0..level - 1 : w \notin W[m]
             /\ level < bound.depth =>
                   \A t \in site.links[w] \intersect site.follow : Settled(t, level + 1)
      BY <1>3, <3>1
    <3>3. k \notin 0..level - 1
      BY <3>1, <3>2
    <3>4. level <= k /\ level < bound.depth /\ level + 1 \in Nat /\ level + 1 <= k + 1
      BY <1>2, <3>3
    <3>5. Settled(v, level + 1)
      BY <3>1, <3>2, <3>4
    <3>. QED  BY <3>4, <3>5, SettledLater
  <2>. QED  BY <1>1, <2>1, <2>2
<1>6. n \in S
  <2>. HIDE DEF S
  <2>. QED  BY <1>2, <1>4, <1>5, Induction
<1>. QED  BY <1>2, <1>6

(* What is settled stays so: the head of the queue was worth its place.    *)
LEMMA SettledStep ==
    ASSUME BfsTypeOK, BoundsInv, queue # <<>>, UNCHANGED <<site, bound>>,
           NEW L \in SUBSET BfsUrl, NEW more, Turn(Head(queue), L, more),
           NEW n \in Nat, NEW u, Settled(u, n)
    PROVE  Settled(u, n)'
<1>1. /\ 1 \in DOMAIN queue /\ Head(queue) = queue[1]
      /\ \A i \in DOMAIN queue : i # 1 => i - 1 \in DOMAIN queue' /\ queue'[i - 1] = queue[i]
  BY QueueFacts DEF BfsTypeOK, Turn
<1>2. visited \subseteq visited'
  BY DEF Turn
<1>3. CASE u \in visited \/ u \notin site.allowed
  BY <1>2, <1>3 DEF Settled
<1>4. ASSUME NEW i \in DOMAIN queue, queue[i].url = u, queue[i].depth <= n
      PROVE  Settled(u, n)'
  <2>1. CASE i = 1
    <3>1. queue[1].depth <= bound.depth
      BY <1>1 DEF BoundsInv
    <3>2. queue[1].url \in visited' \/ queue[1].url \notin site.allowed
      BY <1>1, <3>1 DEF Turn
    <3>. QED  BY <1>4, <2>1, <3>2 DEF Settled
  <2>2. CASE i # 1
    <3>1. i - 1 \in DOMAIN queue' /\ queue'[i - 1] = queue[i]
      BY <1>1, <2>2
    <3>. QED  BY <1>4, <3>1 DEF Settled
  <2>. QED  BY <2>1, <2>2
<1>. QED  BY <1>3, <1>4 DEF Settled

(* The head is the nearest entry of the queue.                             *)
LEMMA HeadIsNearest ==
    ASSUME BfsTypeOK, OrderInv, queue # <<>>
    PROVE  /\ 1 \in DOMAIN queue /\ Head(queue) = queue[1]
           /\ Head(queue).url \in BfsUrl /\ Head(queue).depth \in Nat
           /\ \A i \in DOMAIN queue : queue[i].depth \in Nat /\ Head(queue).depth <= queue[i].depth
<1>1. /\ 1 \in DOMAIN queue /\ Head(queue) = queue[1] /\ Head(queue) \in Entry
      /\ \A i \in DOMAIN queue : i \in Nat /\ i >= 1
  BY DEF BfsTypeOK
<1>2. \A i \in DOMAIN queue : i # 1 => queue[i].depth \in {queue[1].depth, queue[1].depth + 1}
  BY <1>1 DEF OrderInv
<1>3. Head(queue).url \in BfsUrl /\ Head(queue).depth \in Nat
  BY <1>1 DEF Entry
<1>. QED  BY <1>1, <1>2, <1>3, DepthIsNat

(* A page that is visited only now cannot be reached in fewer steps.       *)
LEMMA NewIsNotNearer ==
    ASSUME BfsInv, queue # <<>>, Head(queue).url \notin visited,
           Head(queue).url \in site.allowed, Head(queue).depth <= bound.depth,
           NEW m \in 0..Head(queue).depth - 1
    PROVE  Head(queue).url \notin Within(read)[m]
<1>. SUFFICES ASSUME Head(queue).url \in Within(read)[m] PROVE FALSE
  OBVIOUS
<1>1. Head(queue).depth \in Nat /\ \A i \in DOMAIN queue : queue[i].depth \in Nat /\ Head(queue).depth <= queue[i].depth
  BY HeadIsNearest DEF BfsInv
<1>2. m \in 0..bound.depth /\ m \in Nat /\ m < Head(queue).depth
  BY <1>1, DepthIsNat DEF BfsInv
<1>3. Settled(Head(queue).url, m)
  BY <1>2, ReachedIsSettled DEF BfsInv
<1>4. PICK i \in DOMAIN queue : queue[i].depth <= m
  BY <1>3 DEF Settled
<1>. QED  BY <1>1, <1>2, <1>4

(* A turn keeps the levels.                                                *)
LEMMA LevelStep ==
    ASSUME BfsInv, queue # <<>>, UNCHANGED <<site, bound>>,
           NEW x, x = Head(queue),
           NEW L \in SUBSET BfsUrl, NEW more, Turn(x, L, more)
    PROVE  LevelInv'
<1>. DEFINE d == x.depth
            W == Reach(site, read)
            V == Reach(site, read')
<1>1. /\ 1 \in DOMAIN queue /\ x = queue[1] /\ d \in Nat
      /\ \A i \in DOMAIN queue : queue[i].depth \in Nat /\ d <= queue[i].depth
  BY HeadIsNearest DEF BfsInv
<1>2. /\ \A j \in DOMAIN queue' : \/ j + 1 \in DOMAIN queue /\ queue'[j] = queue[j + 1]
                                  \/ \E k \in DOMAIN more : queue'[j] = more[k]
      /\ \A k \in DOMAIN more : \E j \in DOMAIN queue' : queue'[j] = more[k]
  <2>1. queue \in Seq(Entry) /\ more \in Seq(Entry) /\ queue' = Tail(queue) \o more
    BY DEF BfsInv, BfsTypeOK, Turn
  <2>. HIDE DEF d, W, V
  <2>2. \A k \in DOMAIN more : \E j \in DOMAIN queue' : queue'[j] = more[k]
    <3>1. Tail(queue) \in Seq(Entry)
      BY <2>1
    <3>2. \A k \in DOMAIN more : /\ Len(Tail(queue)) + k \in DOMAIN queue'
                                 /\ queue'[Len(Tail(queue)) + k] = more[k]
      BY <2>1, <3>1
    <3>. QED  BY <3>2
  <2>3. \A j \in DOMAIN queue' :
           \/ j + 1 \in DOMAIN queue /\ queue'[j] = queue[j + 1]
           \/ \E k \in DOMAIN more : j = Len(queue) - 1 + k /\ queue'[j] = more[k]
    BY <2>1, QueueFacts
  <2>. QED  BY <2>2, <2>3
<1>3. \A k \in DOMAIN more : more[k].url \in L /\ more[k].depth = d + 1
  BY DEF Turn
<1>4. \A j \in DOMAIN queue' : d <= queue'[j].depth
  <2>1. d <= d + 1
    BY <1>1
  <2>. HIDE DEF d
  <2>. QED  BY <1>1, <1>2, <1>3, <2>1
<1>5. ASSUME NEW n \in 0..d
      PROVE  V[n] = W[n]
  <2>1. CASE read' = read
    BY <2>1
  <2>2. CASE /\ read' = read \union {x.url} /\ x.url \notin visited /\ x.url \in site.allowed
             /\ x.depth <= bound.depth
    <3>1. \A m \in 0..d - 1 : x.url \notin W[m]
      BY <2>2, NewIsNotNearer DEF Within, BfsInv
    <3>2. site \in Site /\ n \in Nat /\ read \subseteq read' /\ \A m \in 0..n - 1 : m \in 0..d - 1
      BY <1>1, <2>2 DEF BfsInv, BfsTypeOK
    <3>3. \A m \in 0..n - 1 : \A z \in read' : z \in read \/ z \notin Reach(site, read)[m]
      BY <2>2, <3>1, <3>2
    <3>. HIDE DEF d, V, W
    <3>4. Reach(site, read')[n] = Reach(site, read)[n]
      BY <3>2, <3>3, ReachKept
    <3>. QED  BY <3>4 DEF V, W
  <2>. QED  BY <2>1, <2>2 DEF Turn
<1>6. Settled(startUrl, 0)'
  BY SettledStep DEF BfsInv, LevelInv
<1>7. ASSUME NEW w \in read
      PROVE  Expanded(w)'
  <2>1. PICK level \in 0..bound.depth :
           /\ \A m \in 0..level - 1 : w \notin W[m]
           /\ \A i \in DOMAIN queue : level <= queue[i].depth
           /\ level < bound.depth =>
                 \A u \in site.links[w] \intersect site.follow : Settled(u, level + 1)
    BY DEF BfsInv, LevelInv, Expanded, Within
  <2>2. level <= d /\ level \in Nat /\ level + 1 \in Nat
    BY <1>1, <2>1, DepthIsNat DEF BfsInv
  <2>3. \A m \in 0..level - 1 : m \in 0..d
    BY <1>1, <2>2
  <2>4. \A m \in 0..level - 1 : w \notin V[m]
    <3>. HIDE DEF W, V, d
    <3>. QED  BY <1>5, <2>1, <2>3
  <2>5. \A j \in DOMAIN queue' : queue'[j].depth \in Nat
    <3>1. d + 1 \in Nat
      BY <1>1
    <3>. HIDE DEF d
    <3>. QED  BY <1>1, <1>2, <1>3, <3>1
  <2>6. \A j \in DOMAIN queue' : level <= queue'[j].depth
    <3>. HIDE DEF d
    <3>. QED  BY <1>1, <1>4, <2>2, <2>5
  <2>7. level < bound.depth =>
           \A u \in site.links[w] \intersect site.follow : Settled(u, level + 1)'
    <3>. SUFFICES ASSUME level < bound.depth, NEW u \in site.links[w] \intersect site.follow
                  PROVE  Settled(u, level + 1)'
      OBVIOUS
    <3>. DEFINE n == level + 1
    <3>1. Settled(u, n) /\ n \in Nat
      BY <2>1, <2>2
    <3>. HIDE DEF n
    <3>2. Settled(u, n)'
      BY <3>1, SettledStep DEF BfsInv
    <3>. QED  BY <3>2 DEF n
  <2>. HIDE DEF W, V
  <2>8. \A m \in 0..level - 1 : w \notin Within(read)'[m]
    BY <2>4 DEF Within, V
  <2>. QED  BY <2>1, <2>6, <2>7, <2>8 DEF Expanded
<1>8. ASSUME read' = read \union {x.url}, read' # read
      PROVE  Expanded(x.url)'
  <2>1. /\ x.url \in visited' /\ x.url \notin visited /\ x.url \in site.allowed
        /\ x.depth <= bound.depth
        /\ x.depth < bound.depth =>
              \A u \in site.links[x.url] \intersect site.follow : u \in visited' \union L
    BY <1>8 DEF Turn
  <2>2. \A m \in 0..d - 1 : x.url \notin W[m]
    BY <2>1, NewIsNotNearer DEF Within, BfsInv
  <2>3. \A m \in 0..d - 1 : m \in 0..d
    BY <1>1
  <2>4. d \in 0..bound.depth
    BY <1>1, <2>1, DepthIsNat DEF BfsInv
  <2>5. \A m \in 0..d - 1 : x.url \notin V[m]
    <3>. HIDE DEF W, V, d
    <3>. QED  BY <1>5, <2>2, <2>3
  <2>6. d < bound.depth =>
           \A u \in site.links[x.url] \intersect site.follow : Settled(u, d + 1)'
    <3>. SUFFICES ASSUME d < bound.depth, NEW u \in site.links[x.url] \intersect site.follow
                  PROVE  Settled(u, d + 1)'
      OBVIOUS
    <3>1. CASE u \in visited'
      BY <3>1 DEF Settled
    <3>2. CASE u \in L
      <4>1. PICK k \in DOMAIN more : more[k].url = u
        BY <3>2 DEF Turn
      <4>2. PICK j \in DOMAIN queue' : queue'[j] = more[k]
        BY <1>2
      <4>3. queue'[j].url = u /\ queue'[j].depth = d + 1 /\ d + 1 <= d + 1
        BY <1>1, <1>3, <4>1, <4>2
      <4>. QED  BY <4>2, <4>3 DEF Settled
    <3>. QED  BY <2>1, <3>1, <3>2
  <2>. HIDE DEF W, V, d
  <2>7. \A m \in 0..d - 1 : x.url \notin Within(read)'[m]
    BY <2>5 DEF Within, V
  <2>. QED  BY <1>4, <2>4, <2>6, <2>7 DEF Expanded
<1>9. \A w \in read' : Expanded(w)'
  <2>1. read' = read \/ read' = read \union {x.url}
    BY DEF Turn
  <2>. QED  BY <1>7, <1>8, <2>1
<1>. QED  BY <1>6, <1>9 DEF LevelInv

-----------------------------------------------------------------------------
(* The invariant at the start.                                             *)
LEMMA BfsInitInv ==
    ASSUME BfsInit
    PROVE  BfsInv
<1>1. /\ queue = <<[url |-> startUrl, depth |-> 0]>> /\ DOMAIN queue = {1}
      /\ queue[1].url = startUrl /\ queue[1].depth = 0 /\ queue \in Seq(Entry)
  BY CrawlAssumption DEF BfsInit, Entry
<1>2. bound \in [pages : Nat \ {0}, depth : Nat] /\ bound.depth \in Nat /\ bound.pages \in Nat
  BY CrawlAssumption DEF BfsInit
<1>3. site \in Site
  BY CrawlAssumption DEF BfsInit, Site
<1>4. BfsTypeOK
  BY <1>1, <1>2, <1>3 DEF BfsInit, BfsTypeOK
<1>5. BoundsInv
  <2>1. Cardinality(visited) = 0
    BY FS_EmptySet DEF BfsInit
  <2>2. Within(pages)[0] = {startUrl}
    BY <1>3, ReachFacts DEF Within
  <2>3. Cardinality(visited) <= bound.pages
    BY <1>2, <2>1
  <2>4. \A i \in DOMAIN queue :
           queue[i].depth <= bound.depth /\ queue[i].url \in Within(pages)[queue[i].depth]
    BY <1>1, <1>2, <2>2
  <2>5. visited = {} /\ fetched = [u \in BfsUrl |-> 0]
    BY DEF BfsInit
  <2>6. \A u \in BfsUrl : fetched[u] = IF u \in visited THEN 1 ELSE 0
    BY <2>5
  <2>. QED  BY <2>3, <2>4, <2>5, <2>6 DEF BoundsInv
<1>6. OrderInv
  BY <1>1 DEF OrderInv
<1>7. LevelInv
  BY <1>1 DEF LevelInv, Settled, BfsInit
<1>. QED  BY <1>4, <1>5, <1>6, <1>7 DEF BfsInv

(* Every step keeps the invariant.                                         *)
LEMMA BfsStepInv ==
    ASSUME BfsInv, [BfsNext]_bfsVars
    PROVE  BfsInv'
<1>1. CASE BfsNext
  <2>1. /\ queue # <<>> /\ Cardinality(visited) < bound.pages /\ UNCHANGED <<site, bound>>
        /\ \E L \in SUBSET BfsUrl : \E more : Turn(Head(queue), L, more)
    BY <1>1, TurnOfAStep DEF BfsInv
  <2>2. PICK L \in SUBSET BfsUrl : \E more : Turn(Head(queue), L, more)
    BY <2>1
  <2>3. PICK more : Turn(Head(queue), L, more)
    BY <2>2
  <2>4. BfsTypeOK'
    BY <2>1, <2>3, BfsTypeStep DEF BfsInv
  <2>5. BoundsInv'
    BY <2>1, <2>3, BoundsStep DEF BfsInv
  <2>6. OrderInv'
    BY <2>1, <2>3, OrderStep DEF BfsInv
  <2>7. LevelInv'
    <3>1. PICK x : x = Head(queue)
      OBVIOUS
    <3>. QED  BY <2>1, <2>3, <3>1, LevelStep
  <2>. QED  BY <2>4, <2>5, <2>6, <2>7 DEF BfsInv
<1>2. CASE UNCHANGED bfsVars
  BY <1>2 DEF bfsVars, bfsCall, BfsInv, BfsTypeOK, BoundsInv, OrderInv, LevelInv, Settled,
              Expanded, Within
<1>. QED  BY <1>1, <1>2

(* The inductive invariant of the breadth-first phase: types, the bounds   *)
(* of what waits in the queue, its two levels, and what each page whose    *)
(* links were read has left behind.                                        *)
THEOREM BfsInvariant == BfsSpec => []BfsInv
<1>1. BfsInit => BfsInv
  BY BfsInitInv
<1>2. BfsInv /\ [BfsNext]_bfsVars => BfsInv'
  BY BfsStepInv
<1>. QED  BY <1>1, <1>2, PTL DEF BfsSpec

(* For every site, every robots.txt and every pair of bounds: no more      *)
(* pages than maxPages are asked for, none twice, and none that is more    *)
(* than maxDepth links from the start.                                     *)
THEOREM BfsFetchesWithinBounds == BfsSpec => []FetchesWithinBounds
<1>1. BfsInv => FetchesWithinBounds
  BY DEF BfsInv, BoundsInv, FetchesWithinBounds
<1>. QED  BY <1>1, BfsInvariant, PTL

(* When the queue has run dry, everything allowed and within maxDepth      *)
(* links of the start, by way of pages whose links were read, was visited. *)
THEOREM BfsComplete == BfsSpec => []Complete
<1>1. ASSUME BfsInv
      PROVE  Complete
  <2>. SUFFICES ASSUME Done, Cardinality(visited) < bound.pages,
                       NEW u \in Within(read)[bound.depth], u \in site.allowed
                PROVE  u \in visited
    BY DEF Complete
  <2>1. queue = <<>>
    BY DEF Done, Running
  <2>2. bound.depth \in 0..bound.depth
    BY <1>1, DepthIsNat DEF BfsInv
  <2>3. Settled(u, bound.depth)
    BY <1>1, <2>2, ReachedIsSettled DEF BfsInv
  <2>. QED  BY <2>1, <2>3 DEF Settled
<1>. QED  BY <1>1, BfsInvariant, PTL
=============================================================================
