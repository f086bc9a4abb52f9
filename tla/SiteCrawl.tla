----------------------------- MODULE SiteCrawl -----------------------------
(***************************************************************************)
(* crawlSite: the cascade of crawl strategies (a Firecrawl job and its     *)
(* polling, /map, the sitemap, the breadth-first crawl), the batches in    *)
(* which the pages of a list are fetched, and the manifest it caches.      *)
(*                                                                         *)
(* The calls share one manifest key.  The breadth-first phase is BfsCrawl  *)
(* and the fetch of one page is FetchPage, which also has the page cache   *)
(* that both it and the Firecrawl phase fill; here each is one step.  A    *)
(* timer that is due fires before the next tick.                           *)
(***************************************************************************)
EXTENDS Naturals, FiniteSets, SequencesExt

CONSTANTS
    Crawl,         \* the calls under way with the same arguments
    Url,           \* the pages of the site
    Lists,         \* the lists of pages a strategy may come up with
    Allowed,       \* the pages that robots.txt allows
    Configs,       \* what FIRECRAWL_URL, FIRECRAWL_API_VERSION, CRAWL_BFS_ENABLED may say
    maxPages,      \* the parameter
    concurrency,   \* the parameter of batchFetch
    MaxWait,       \* FIRECRAWL_CRAWL_MAX_WAIT_MS, in ticks, as all that follow
    Interval,      \* FIRECRAWL_CRAWL_POLL_INTERVAL_MS
    PollTimeout,   \* the timeout of one poll
    ManifestTtl,   \* CRAWL_MANIFEST_TTL_SECONDS
    Outages,       \* whether the manifest's cache may fail
    None

ASSUME SiteCrawlAssumption ==
    /\ Lists \subseteq Seq(Url) /\ Allowed \subseteq Url
    /\ Configs \subseteq [firecrawl : {"none", "v1", "v2"}, bfs : BOOLEAN] /\ Outages \in BOOLEAN
    /\ {maxPages, concurrency, Interval, PollTimeout, ManifestTtl} \subseteq Nat \ {0}
    /\ MaxWait \in Nat /\ None # "cached"

VARIABLES
    config,    \* never changes
    manifest,  \* the cached manifest, or None
    crawl,     \* [Crawl -> the call's local state]
    booked     \* history: [Crawl -> outcomes recordCrawlOutcome was told]

vars == <<config, manifest, crawl, booked>>

(* due is what a timer has left; urls is a list being fetched, from its    *)
(* chunk at first on, of which the indices in settled and fetched are done.*)
Fresh == [at |-> "idle", strategy |-> None, pages |-> <<>>, waited |-> 0, due |-> 0,
          urls |-> <<>>, first |-> 1, settled |-> {}, fetched |-> {}]

At(c, where) == crawl[c].at = where
Lesser(a, b) == IF a < b THEN a ELSE b

Goto(c, where) == crawl' = [crawl EXCEPT ![c].at = where]
Books(c) == booked' = [booked EXCEPT ![c] = @ + 1]

Init ==
    /\ config \in Configs
    /\ manifest = None
    /\ crawl = [c \in Crawl |-> Fresh]
    /\ booked = [c \in Crawl |-> 0]

-----------------------------------------------------------------------------
Begin(c) ==
    /\ At(c, "idle")
    /\ crawl' = [crawl EXCEPT ![c] = [Fresh EXCEPT !.at = "lookup"]]
    /\ booked' = [booked EXCEPT ![c] = 0]
    /\ UNCHANGED manifest

Ends(c, strategy, pages) ==
    crawl' = [crawl EXCEPT ![c] = [Fresh EXCEPT !.at = "done", !.strategy = strategy, !.pages = pages]]

ManifestHit(c) ==
    /\ At(c, "lookup") /\ manifest # None
    /\ Ends(c, "cached", manifest.pages)
    /\ UNCHANGED <<manifest, booked>>

ManifestMiss(c) ==
    /\ At(c, "lookup") /\ (manifest = None \/ Outages)
    /\ Goto(c, IF config.firecrawl = "none" THEN "sitemap" ELSE "start")
    /\ UNCHANGED <<manifest, booked>>

-----------------------------------------------------------------------------
(* Phase 1.  A failure goes on with the next phase that there is.          *)
AfterFirecrawl == IF config.firecrawl = "v2" THEN "map" ELSE "sitemap"

Misses(c) ==
    /\ crawl' = [crawl EXCEPT ![c] = [Fresh EXCEPT !.at = AfterFirecrawl]]
    /\ Books(c)
    /\ UNCHANGED manifest

Sleeps(c, waited) ==
    /\ crawl' = [crawl EXCEPT ![c].at = "sleeping", ![c].due = Interval, ![c].waited = waited]
    /\ UNCHANGED <<manifest, booked>>

Leaves(c) ==
    /\ crawl' = [crawl EXCEPT ![c] = [Fresh EXCEPT !.at = AfterFirecrawl]]
    /\ UNCHANGED <<manifest, booked>>

(* Faults: the deadline is left to the job; a timeout is not booked.       *)
FaultyNextPoll(c, waited)      == Sleeps(c, waited)
FaultySilentTimeout(c, waited) == IF waited < MaxWait THEN Sleeps(c, waited) ELSE Leaves(c)

(* The head of pollFirecrawlJob's loop.                                    *)
NextPoll(c, waited) ==
    IF waited < MaxWait THEN Sleeps(c, waited) ELSE Misses(c)

StartJob(c) == At(c, "start") /\ (NextPoll(c, 0) \/ Misses(c))

Poll(c) ==
    /\ At(c, "sleeping") /\ crawl[c].due = 0
    /\ crawl' = [crawl EXCEPT ![c].at = "polling", ![c].due = PollTimeout]
    /\ UNCHANGED <<manifest, booked>>

(* The job is still running; or it failed, or the poll did, be it by its   *)
(* timeout.                                                                *)
StillRunning(c) == At(c, "polling") /\ crawl[c].due > 0 /\ NextPoll(c, crawl[c].waited)
PollFails(c) == At(c, "polling") /\ Misses(c)

Completed(c) ==
    /\ At(c, "polling") /\ crawl[c].due > 0
    /\ \E data \in Lists :
          crawl' = [crawl EXCEPT ![c] = [Fresh EXCEPT !.at = "storing", !.urls = data]]
    /\ UNCHANGED <<manifest, booked>>

Store(c) ==
    /\ At(c, "storing") /\ crawl[c].urls # <<>>
    /\ crawl' = [crawl EXCEPT ![c].urls = Tail(@), ![c].pages = Append(@, Head(crawl[c].urls))]
    /\ UNCHANGED <<manifest, booked>>

(* An entry of the job's data that is no page at all.                      *)
StoreBreaks(c) == At(c, "storing") /\ crawl[c].urls # <<>> /\ Misses(c)

Stored(c) ==
    /\ At(c, "storing") /\ crawl[c].urls = <<>>
    /\ crawl' = [crawl EXCEPT ![c].at = "save", ![c].strategy = "firecrawl"]
    /\ Books(c)
    /\ UNCHANGED manifest

-----------------------------------------------------------------------------
(* Phases 1b and 2: a list of pages, empty if there is none to be had.     *)
AfterMap     == "sitemap"
AfterSitemap == IF config.bfs THEN "bfs" ELSE "none"

FetchAny(c, strategy, next) ==
    \E urls \in Lists :
        crawl' = [crawl EXCEPT ![c] =
            IF urls = <<>> THEN [@ EXCEPT !.at = next]
            ELSE [@ EXCEPT !.at = "batch", !.strategy = strategy,
                           !.urls = SubSeq(urls, 1, Lesser(Len(urls), maxPages))]]

mapCrawl(c) ==
    /\ At(c, "map")
    /\ FetchAny(c, "map", AfterMap)
    /\ UNCHANGED <<manifest, booked>>

sitemapCrawl(c) ==
    /\ At(c, "sitemap")
    /\ FetchAny(c, "sitemap", AfterSitemap)
    /\ UNCHANGED <<manifest, booked>>

(* batchFetch: the pages of a chunk are fetched concurrently, the next     *)
(* chunk when all of them have settled.                                    *)
Chunk(c) == crawl[c].first..Lesser(crawl[c].first + concurrency - 1, Len(crawl[c].urls))
InFlight(c) == Chunk(c) \ crawl[c].settled

(* checkRobots and fetchPage.                                              *)
FetchPage(c, i) ==
    /\ crawl[c].urls[i] \in Allowed
    /\ crawl' = [crawl EXCEPT ![c].settled = @ \union {i}, ![c].fetched = @ \union {i}]

FetchFails(c, i) ==
    crawl' = [crawl EXCEPT ![c].settled = @ \union {i}]

Settle(c) ==
    /\ At(c, "batch")
    /\ \E i \in InFlight(c) : FetchPage(c, i) \/ FetchFails(c, i)
    /\ UNCHANGED <<manifest, booked>>

(* The fulfilled pages of a chunk, in the order of the list.               *)
Fulfilled(c) ==
    LET got == SetToSortSeq(crawl[c].fetched \intersect Chunk(c), <)
    IN [k \in 1..Len(got) |-> crawl[c].urls[got[k]]]

ChunkEnds(c) ==
    /\ At(c, "batch") /\ InFlight(c) = {}
    /\ crawl' = [crawl EXCEPT ![c].pages = @ \o Fulfilled(c),
                              ![c].first = @ + concurrency,
                              ![c].at = IF crawl[c].first + concurrency > Len(crawl[c].urls)
                                        THEN "save" ELSE "batch"]
    /\ UNCHANGED <<manifest, booked>>

(* Phase 3, which always has a manifest, be it an empty one: BfsCrawl says *)
(* which pages it lists.                                                   *)
bfsCrawl(c) ==
    /\ At(c, "bfs")
    /\ \E got \in SUBSET Allowed :
          /\ Cardinality(got) <= maxPages
          /\ \E pages \in SetToSeqs(got) :
                crawl' = [crawl EXCEPT ![c].at = "save", ![c].strategy = "bfs", ![c].pages = pages]
    /\ UNCHANGED <<manifest, booked>>

AllFailed(c) ==
    /\ At(c, "none")
    /\ Ends(c, "error", <<>>)
    /\ UNCHANGED <<manifest, booked>>

Save(c) ==
    /\ At(c, "save")
    /\ manifest' \in {[pages |-> crawl[c].pages, left |-> ManifestTtl]}
                        \union (IF Outages THEN {manifest} ELSE {})
    /\ Ends(c, crawl[c].strategy, crawl[c].pages)
    /\ UNCHANGED booked

Return(c) ==
    /\ At(c, "done")
    /\ crawl' = [crawl EXCEPT ![c] = Fresh]
    /\ booked' = [booked EXCEPT ![c] = 0]
    /\ UNCHANGED manifest

-----------------------------------------------------------------------------
(* clear_cache for the target "crawl".                                     *)
cacheClear ==
    /\ manifest # None
    /\ manifest' = None
    /\ UNCHANGED <<crawl, booked>>

(* waited saturates.                                                       *)
LongestWait == MaxWait - 1 + Interval + PollTimeout
Timed(c) == crawl[c].at \in {"sleeping", "polling"}

Tick ==
    /\ \A c \in Crawl : Timed(c) => crawl[c].due > 0
    /\ crawl' = [c \in Crawl |->
                    IF Timed(c) THEN [crawl[c] EXCEPT !.due = @ - 1, !.waited = Lesser(@ + 1, LongestWait + 1)]
                    ELSE crawl[c]]
    /\ manifest' = IF manifest = None \/ manifest.left = 1 THEN None
                   ELSE [manifest EXCEPT !.left = @ - 1]
    /\ UNCHANGED booked

firecrawlCrawl(c) ==
    \/ StartJob(c) \/ Poll(c) \/ StillRunning(c) \/ PollFails(c)
    \/ Completed(c) \/ Store(c) \/ StoreBreaks(c) \/ Stored(c)

crawlSite(c) ==
    \/ ManifestHit(c) \/ ManifestMiss(c)
    \/ firecrawlCrawl(c)
    \/ mapCrawl(c) \/ sitemapCrawl(c) \/ Settle(c) \/ ChunkEnds(c)
    \/ bfsCrawl(c) \/ AllFailed(c) \/ Save(c)

Next ==
    /\ \/ \E c \in Crawl : Begin(c) \/ crawlSite(c) \/ Return(c)
       \/ cacheClear
       \/ Tick
    /\ UNCHANGED config

Spec == Init /\ [][Next]_vars

(* Time passes, and every await of a crawl ends: a fetch, a cache command  *)
(* and a request all have their timeouts.                                  *)
FairSpec == Spec /\ WF_vars(Tick /\ UNCHANGED config)
            /\ \A c \in Crawl : WF_vars(crawlSite(c) /\ UNCHANGED config)

-----------------------------------------------------------------------------
(* Every crawl that runs the Firecrawl phase books exactly one outcome of  *)
(* it, on every way out of the phase: a phase that never succeeds shows in *)
(* the statistics (vikunja#644).                                           *)
OneOutcomeBooked ==
    \A c \in Crawl :
        booked[c] = IF \/ config.firecrawl = "none"
                       \/ crawl[c].strategy = "cached"
                       \/ crawl[c].at \in {"idle", "lookup", "start", "sleeping", "polling", "storing"}
                    THEN 0 ELSE 1

(* However slowly the job and its polls answer, the polling is over no     *)
(* later than one interval and one poll after its deadline.                *)
PollingIsBounded == \A c \in Crawl : Timed(c) => crawl[c].waited <= LongestWait

(* A crawl that was asked for ends, whatever the job does.                 *)
EveryCrawlEnds == \A c \in Crawl : At(c, "lookup") ~> At(c, "done")
=============================================================================
