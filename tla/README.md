# searxng-mcp in TLA+

searxng-mcp is an MCP server that searches through SearXNG replicas, fetches
pages through a cascade of extraction services and crawls sites. It keeps what
it learns about each host in Valkey, which several server processes and two
command-line tools share. This directory models the parts of the program that
decide something, and above all those whose correctness depends on the order in
which things happen or on how they fail. TLC checks the models on small
instances; TLAPS proves every safety property that those runs check, in all
fifteen modules that model code, for every value of their parameters.

Source paths below are relative to the repository root.

## 1. Inventory

| Component (source) | State it keeps | Operations | Talks to | Hard part |
|---|---|---|---|---|
| Atomic update of a cached record (`src/cache.ts`) | the key in Valkey; `inflightUpdates`, one promise per key and process | `cacheAtomicUpdate`, `casUpdate`, the Lua `casSet` | Valkey, from every process | chaining of promises, retries, commands that time out and execute later, crashes |
| Cache client (`src/cache.ts`) | one client per process, TTLs | `getValkey`, `cacheGet`, `cacheSet`, `cacheClear`, `cachePing` | every other component | fail-soft reads and writes |
| Domain database: records, routing (`src/domain-db.ts`, `src/routing.ts`, `src/domains.ts`) | a record per host: tier counters, window stamps, probes | `recordTierAttempt`, `updateRecord`, `getTiers`, `computeTierSkips` | the atomic update; read before each fetch | fire-and-forget writes, windows that elapse with nobody writing, configuration reloaded meanwhile |
| Domain database: durability (`src/domain-snapshot.ts`, `src/cli/`, `src/domain-stats.ts`) | a directory of snapshot files | scan, write, prune, reap; restore | the live database, while servers write it | two tools and the servers interleave; either tool may die at any step |
| HTTP sessions (`src/http-transport.ts`) | `transports`, `lastActivity`, `inFlight` | connect, request, DELETE, close, sweep, cap | the SDK's transports and their `onclose` | handlers that interleave at every await with a timer and callbacks |
| SearXNG failover (`src/instances.ts`, `src/search.ts`) | unhealthy markers with a TTL, in the cache | order of candidates, attempt, mark, clear | replicas, the cache | one time budget over many attempts; markers shared by all calls |
| Search tools (`src/search.ts`, `src/tools.ts`, `src/reranker.ts`, `src/ollama.ts`) | cached results, `domains.json` | `searxSearch`, query expansion, filters, reranking, summary | failover, reranker, language model | a cache key shared by different requests, filters that are reloaded, fallbacks |
| Fetch cascade (`src/fetch.ts`) | the page cache; per-request challenge flag | `fetchPage` | robots gate, fast paths, tiers, solver, Wayback | the order of a long cascade; a cache shared by requests that asked for different things |
| Sources of pages (`src/tiers/`, `src/kiwix.ts`, `src/hister.ts`, `src/youtube.ts`, `src/reddit.ts`) | none; a Crawl4AI job | one or more requests each | the network | every request can go unanswered, and "nothing there" must not look like an outage; polling under two clocks |
| Robots gate (`src/robots.ts`) | a cached robots.txt per origin, two TTLs | `checkRobots` | cache, network, domain database | a failed read is permission, but only for minutes |
| llms.txt fast path (`src/llms-txt.ts`) | a probe flag and a body in the cache, an in-memory cache bounded in bytes | lookup, eviction, `extractSection` | cache, network, domain database | TTLs in a row, the byte count, the end of a page inside a long document |
| Breadth-first crawl (`src/crawl.ts`) | `visited`, the queue, the pages | `bfsCrawl` | fetch cascade, robots gate | budget, depth and duplicates around their limits |
| Crawl cascade, manifests, sitemaps (`src/crawl.ts`, `src/firecrawl-api.ts`) | cached manifests | `crawlSite`, Firecrawl jobs, `batchFetch`, `discoverSitemapUrls` | fetch cascade, Firecrawl | polling, partial results, nested sitemaps |
| Extraction, SSRF guard, formatting, configuration, telemetry | none that a decision reads | pure functions, output | | string processing |

How they interact: a tool call arrives over an HTTP session (or stdio). A search
goes through the cache and the failover, then the filters and the reranker. A
fetch asks the domain database which tiers to skip, asks the robots gate, runs
the cascade, and books every attempt by `recordTierAttempt`, which nobody awaits
and which ends in `cacheAtomicUpdate`. The crawl calls the fetch cascade page by
page. The maintenance job and the restore CLI are processes of their own on the
same Valkey.

What makes each correct:

* *atomic update*: no update is lost, repeated, computed from a stale value or
  applied out of its process's call order, and every call settles;
* *durability*: the newest snapshot is always usable, an outage is never saved
  as an empty corpus, neither tool destroys what a server wrote before it looked;
* *sessions*: busy sessions survive, abandoned ones do not, the bookkeeping
  follows the map, the cap holds as far as it can;
* *failover*: a working replica is not hidden by failing ones, inside one budget;
* *search*: filtered as configured now, ranked as asked, and one request's
  answer does not leak into another's;
* *fetch*: no recognised interstitial is served, the paid solver runs only for a challenge of
  the same request, all sources are tried before giving up, the page is as long
  as was asked;
* *sources, robots, llms.txt*: an outage is told apart from an absence; what is
  cached is as fresh as its TTL promises; a served section is one whole page;
* *routing*: skips rest on enough recent evidence and end by themselves;
* *crawl*: nothing twice, nothing too deep, nothing missed, within the budget;
  every crawl ends and its outcome is booked once.

## 2. Modules

| Module | What it is | Proofs |
|---|---|---|
| `AtomicRecord` | the abstract specification: a record to which each update is applied at most once, atomically, to the current value; the record may disappear | |
| `CacheAtomicUpdate` | `cacheAtomicUpdate`/`casUpdate` for one key, in several processes; implements `AtomicRecord` | `CacheAtomicUpdate_proofs` |
| `DomainDbDurability` | servers, maintenance job and restore over one corpus | `DomainDbDurability_proofs` |
| `HttpSessions` | the session table of the HTTP transport | `HttpSessions_proofs` |
| `SearxFailover` | `searxSearchSingle` with `getSearxCandidates` and the markers | `Search_proofs` |
| `SearchTools` | the three search tools from request to reply | `Search_proofs` |
| `FetchPage` | the fetch cascade with its page cache | `FetchPage_proofs` |
| `LlmsFullTxt`, `LlmsSection` | the caches of llms-full.txt; the section cut out of one | `FetchPage_proofs` |
| `TierRouting` | the tier statistics of one host, from attempt to skip | `Tiers_proofs` |
| `PageSources`, `Crawl4aiTier`, `RobotsGate` | each source as its requests; the Crawl4AI job; `checkRobots` | `Tiers_proofs` |
| `SiteCrawl` | `crawlSite`: the strategies, the Firecrawl job, batches, the manifest | `Crawl_proofs` |
| `SitemapDiscovery`, `BfsCrawl` | two of its phases in detail, over every small site | `Crawl_proofs` |
| `Filtering` | `Array.prototype.filter`, by the positions that are kept | |
| `DataLemmas` | what the proofs need to know of numbers, sets and sequences | itself |
| `MCCacheAtomicUpdate`, `MCDomainDbDurability`, `MCHttpSessions`, `MCSearxFailover`, `MCSearchTools` | instances of one module | |
| `MCFetchPage`, `MCTiers`, `MCCrawl` | instances of several modules that meet in one component: `FetchPage` with the llms.txt modules; `TierRouting` with the sources and the gate; `SiteCrawl` with two of its phases | |

The modules use each other's results rather than each other's text. The CAS loop
is modelled in full in `CacheAtomicUpdate` and shown to implement
`AtomicRecord`; the modules whose code calls it (`TierRouting`,
`DomainDbDurability`) therefore take an update as one atomic step that may come
late or never. `FetchPage` takes routing, the robots gate and each source as one
step with every outcome; `SearchTools` takes the failover so, and `SiteCrawl` a
fetch, a sitemap discovery and a whole breadth-first crawl. The last three `MC`
modules put the modules of one component beside each other; a variable `focus`
says which one a behaviour is about, and the others stand still, since they
share no state.

### Correspondence with the code

**CacheAtomicUpdate.** `value` is the key; JSON is abstracted to the sequence of
updates it reflects, so a mutation is an `Append` to what was read.
`inflightUpdates` and `previous` are the promise chain; `pc`, `raw`, `attempt`
are the local state of `casUpdate`. One action per await: `cacheAtomicUpdate`
(the synchronous part), `Begin`, `Get`/`GetFails`, the answers of `casSet`
(`CasCommits`, `CasConflicts`, `CasFails`, `CasCommitsUnanswered`), `Finally`. A
command whose caller timed out joins `late` and may be executed at any later
time. `Crash` empties a process's map; `Disappear` is expiry, a flush or the
reaper. `ticket`, `calls`, `applied`, `clash` and `excused` are history.

**DomainDbDurability.** `db` maps a host to schema and `last_fetch`; `snaps`
maps a time to a file, whole or torn. The job's steps are those of `main`:
scan, read, write, rename, prune, then confirm and delete batch by batch; the
restore is GET, compare, SET for each record. Either tool may die between any
two steps; a failing command follows the code's error path. `sinceConfirm` and
`sinceGet` are history: what servers wrote after the tool last looked.

**HttpSessions.** The three maps, plus `request` (what a handler awaits) and
`quiet` (history: how long nothing has begun or ended). Stamps are ages that
saturate just past the idle timeout. The SDK is external: `handleRequest` stays
pending while its request or stream lasts, and `close()` fires `onclose` later.

**SearxFailover.** `state` says whether a replica works, `marker` how long its
unhealthy marker lives, `call` a search's position, its candidates and the
budget left, `spent` (history) what its attempts took. Time may pass and the
cache may fail between any two steps, cache commands included.

**SearchTools.** One call is followed through the cache, the query and its
variants, the filters, the reranker, the pages and the summary; what other calls
and the reload of `domains.json` do meanwhile happens to `searchEntry` and
`domainConfig`. A result is its URL, with the language and the query it was
found for. What SearXNG answers is any list.

**FetchPage.** `cache` holds for each URL a page: its body, the length of the
text the source made of it and of what is held of that, and whether a selector
narrowed it. What a source is answered is any of `Responses`: a status, a body and
a length of text, the narrowed part's where a selector applied. `Outcome` says what
each source makes of it, with its checks in the code's order: tiers 1 and 2 see no
status (tier 1 one of its own under Firecrawl v2) and look for text before they
look for markers; a raw fetch looks at the status, then for markers, and takes a
blank page; the solver and the archive are raw fetches whose failures are nulls.
The body `other` is what detection misses, and it is served. `req` is each
request's position. Each step of `fetchPage` is an action: cache lookup, GitHub, fast paths,
robots, routing, address check, structured-content probe, the tiers, the solver,
Wayback, the final store. `saw` and `failing` are history.

**LlmsFullTxt, LlmsSection.** `flag` and `bodyKept` are the two keys in Valkey,
`bodyCache` the L1 map in insertion order and `totalBytes` its counter. A lookup
goes body, flag, fetch, two SETs. A document is a sequence of lines known by
their kind; `StartOf` and `EndOf` cut as `extractSection` does. The
documents that a generator writes are `UrlPage`s after front matter or
`LinkPage`s under linked headings, all of a document alike
(`SectionAssumption`).

**TierRouting.** `stats` are the counters and windows of the tiers, `operator`
the hot-reloaded `tier_skip`, `fetch` the tiers a fetch will still run, `pending`
its attempts that are not committed. Actions carry the code's names; `Drop` is
an update that failed, `Vanish` expiry. `log` is history: the attempts that were
committed and are no older than the window.

**PageSources, Crawl4aiTier, RobotsGate.** A source is the requests it makes in
turn, each with the answers that its reader tells apart; `told` records whether
an unanswered request left a log line, a counter or an error. The Crawl4AI call
runs under the 45 s abort and the 40 s polling budget. The robots entry has the
TTL its kind gives it, and `ago` (history) its true age.

**SiteCrawl, SitemapDiscovery, BfsCrawl.** `crawl` holds each call's local
state: where it is, the time polled (`waited`) and left to its timer (`due`),
the list it fetches. `booked` is history: the outcomes `recordCrawlOutcome` was
told. The recursion of `processSitemap` is an explicit `stack`. The sites of
`BfsCrawl` and `SitemapDiscovery` are drawn at the start; `queue`, `visited`,
`allUrls` are the code's.

Operators named `Faulty...` are plausible slips of the code beside which they
stand; no behaviour uses them. They serve to confirm that every property
distinguishes the code from a nearby wrong one.

## 3. Runs

| Run | Instance | Properties |
|---|---|---|
| `atomic_update` | 2 processes, 3 calls (two in one process), 2 retries | `EntryIsTail`, `RecordInCallOrder`, `NoSilentDrop`, `ImplementsAtomicRecord` |
| `atomic_update_live` | 1 process, 2 chained calls, 3 retries | `EveryCallEnds` |
| `durability` | 2 hosts, 2 instants, scans truncated at 1 or 2 keys, retention 0, batches of 1 | `RestorePointWhole`, `NoFalseEmptySnapshot`, `ReapSparesTheConfirmed`, `RestoreSparesTheRead` |
| `sessions` | 3 sessions, 2 requests, cap 1, timeout 1 tick | `BookkeepingFollowsMap`, `EvictionSparesHandlers`, `SweepsOnlyTheQuiet`, `GrowsOnlyWhenBusy`, `AbandonedSessionCloses` |
| `searx_failover` | 2 replicas, 2 calls, budget for 2 attempts | `OneBudget`, `FailsOnlyWhenExhausted`, `EveryCallEnds` |
| `fetch_page` | 2 requests, an ordinary URL with two fast paths, or a GitHub URL; 2 lookups of 2 origins; every document of up to three pages | `SolverOnlyForOwnChallenge`, `NoKnownInterstitialIsServed`, `GivesUpLast`, `FetchedInFull`; `BytesAddUp`, `FreshEnough`; `ServesOneWholePage` |
| `tiers` | 2 fetches, tier 2 not configured, 2 attempts decide; every source and setting; one Crawl4AI call; 2 robots checks | `SkipsOnEvidence`, `CountsItsWindow`, `SkippedTierComesBack`; `OutageIsTold`; `UnavailableIsNotEmpty`, `PollingEnds`; `VerdictsAreCurrent` |
| `crawl` | 2 crawls, three configurations, 3 pages asked for, chunks of 2; every nesting of 3 sitemaps; every site of 4 pages | `OneOutcomeBooked`, `PollingIsBounded`, `EveryCrawlEnds`; `Discovers`; `FetchesWithinBounds`, `Complete` |
| `search_tools` | 3 results, one no URL; pools of up to 3; thresholds 0 and 2 | `FilteredAsConfigured`, `BestOrUnranked`, `ExpansionStaysOut` |
| `durability_restore_race`, `fetch_page_selector`, `search_language` | the smallest instance of each | violation runs, section 6 |

The comment above each property in its module says what it means and of which
behaviour of the code it speaks.

Why the bounds are enough for the cases that matter:

* *atomic update*: three calls give a chain of two and a competitor in another
  process; two retries let the budget run out.
* *durability*: two hosts separate "this key" from "another key", one key per
  batch makes the reaper loop, a limit of one key truncates scans, and retention
  0 is below the floor of the code. Two instants order two snapshots, and a
  record before or after a snapshot.
* *sessions*: with a cap of 1, three sessions give one evicted, one busy and one
  new; two requests give a session with two handlers, and a handler beside an
  initialize.
* *failover*: two replicas are a first and a next candidate; two calls share the
  markers. A budget of two attempts can end before, during and after the last
  candidate.
* *fetch*: sizes are in units in which the default store size is 2 and the
  ceiling 3; requests for 1 and 4 lie on both sides of each, a text of 4 is beyond
  both and one of 0 is blank. Requests share the cache entry of their URL and nothing
  else, so the two of a behaviour are for the same URL, ordinary or GitHub's.
  Firecrawl is at its default version, v1; the proofs cover both. What was recorded in
  the last step is left out of the view, because nothing reads it.
* *llms.txt*: L1 holds one document of size 2 or two of size 1, so that putting
  one may evict none, one or all; documents of 0 and 3 are too small and too
  large to be accepted; all lifetimes are one tick. Paths include one that is the
  end of another; pages include separators and sub-headings of their own.
* *routing*: two attempts and a strict threshold of 1/2 put 0, 1 and 2
  attempts on both sides of a decision. `MaxPending` (1) bounds the uncommitted
  attempts of a fetch and `MaxLog` (2) the commits one record is followed for; a
  renewed window starts again from nothing.
* *sources*: the run is exhaustive: each source makes at most a few requests, and
  every kind of answer to each is tried. The Crawl4AI abort (5 ticks), budget (4)
  and pause (2) let either clock end a call; the robots lifetimes are 3 and
  1, so the short one ends inside the long one.
* *crawl*: a deadline of 2 ticks, an interval and a poll timeout of 1 let the
  deadline pass before, in and after a poll. One list is longer than what is
  asked for, names a page twice and a disallowed one. Three sitemaps can nest,
  share a child and list themselves; the depth limit of 2 is reached. Four pages
  give a shortcut to a page first met on a longer way, cycles and duplicates in
  the queue; a budget of 5 never binds, one of 2 does. No page links back to
  the first, which is visited already; links back to other pages there are.
* *search*: three results are one blocked for everyone, one boosted but blocked
  for a profile, and one that is no URL; 1 or 2 are wanted of at most three.

Deadlock is checked in every run except `atomic_update` and
`atomic_update_live`, where all calls may have ended. In the runs with a `focus`
an input that has been dealt with stutters explicitly; a module that stops
anywhere else is reported.

### Fairness

* `CacheAtomicUpdate`: weak fairness of each update's own loop. Every await in it
  is bounded by the client's connect and command timeouts, so it answers or
  rejects; no fairness for callers, late commands, crashes or expiry.
* `HttpSessions`: time passes, the interval timer fires while it is enabled, a
  closing transport reaches `onclose`. No client has to end a request, and none
  has to connect.
* `SearxFailover`: time passes, and an attempt whose time is up is aborted
  (`AbortSignal.timeout`); cache commands end. Replicas are under no obligation.
* `SiteCrawl`: time passes, and each crawl's next await ends, be it by its
  timeout. The job is under no obligation to complete.
* `TierRouting`: time passes; no fetch has to come by, which is the point.

## 4. What is proved

All theorems hold for every value of the constants that the `ASSUME`s of the
module admit. Those say that sets of actors are finite where something is
counted, that limits and durations are positive, that the shorter of two
lifetimes or bounds is the shorter, that there is something to try first (a
replica, a well-known sitemap, tier 3), and that a model value for "nothing" is
not one of the values it stands beside.

**`DataLemmas`**. The induction theorems of the library take an operator, which
no installed prover can instantiate. The lemmas take a set in its place
(`Induction`, from the well-foundedness of the numbers), so that a proof by
induction names the set of the numbers for which the claim holds. On it rest the
existence and uniqueness of what is defined by recursion (`Recursion`,
`IteratesUnique`), what `Filter` keeps and in which order (`NthFacts`,
`FilterFacts`, `FilterPlaces`), what a step of a queue does to what is in it
(`QueueFacts`), what an enumeration of a finite set holds (`OrderFacts`), and where the elements of sequences that are joined are
(`FlattenIsJoin`, `JoinPlaces`).

**`CacheAtomicUpdate_proofs`**: `TypeCorrect`, `SerializedAlways`,
`EntryIsTailAlways`, `RecordInCallOrderAlways`, `NoSilentDropAlways`, and
`Refinement` (`Spec` implements `AtomicRecord`). None of these invariants is
inductive alone. The strengthening adds: tickets of one process are distinct and
bounded by its count of calls (`TicketInv`); a call that has begun finds all
earlier calls of its process settled, and one that waits is chained on the
latest of them (`ChainInv`); the map's entry is the last open call (`EntryInv`);
a call that may still write has not written (`OnceInv`); what an update has read
reflects only earlier calls of its process, in order (`RecordInv`); the loop
counter is matched by that many changes by others (`BudgetInv`). `ChainInv`
carries the ordering: without it a late write could land behind that of a later
call.

**`DomainDbDurability_proofs`**: `DurabilityTypeCorrect`, `RestorePointAlwaysWhole`,
`EmptyIsNeverFalse`, `ReapAlwaysSpares`, `RestoreAlwaysSpares`. The invariant says
that every file of the directory is whole and that an empty one is honestly so
(`SnapsInv`), the latter because the records a job carries towards its file are
empty only if the corpus was (`JobInv`); that a key confirmed for deletion is
current only if it was written since (`ConfirmInv`); and that the answer a
restore holds is as fresh as the key, or the key was written since
(`RestoreInv`). The newest file exists by a lemma on finite sets of times
(`NewestExists`), through the well-founded order of strict subsets.

**`HttpSessions_proofs`**: `SessionsTypeCorrect`, `BookkeepingAlwaysFollows`,
`EvictionAlwaysSpares`, `SweepAlwaysWaits`, `GrowthIsForced`. The bookkeeping
property gives an open session a stamp and an exact count, confines stamps to the
map, open or closing, and lets a session that is gone count nothing but 0. A count
never exceeds the handlers that are pending, even on a session that is closing, whose
count the property leaves open (`CountInv`); a session that is not
yet born has no handlers (`BornInv`); a stamp is as old as the quiet it measures
(`QuietInv`). The action properties
follow from what the sweep and the cap read in a state of the invariant.

**`Search_proofs`**, of `SearxFailover`: `BudgetIsAlwaysOne`, `FailureIsExhaustion`.
While a request is under way, what the call has spent and the budget together
stay within the total (`BudgetInv`); between two requests the budget may be
overrun by a slow cache command, and then it is 0 and no request follows. A call
that fails with budget left has tried every replica, because `Ordered` is the
replicas without a marker followed by those with one, and so leaves none out
whatever the markers were when they were read (`TriedInv`). Of `SearchTools`:
`PoolsAreFiltered` and `ListsAreBest`, action properties, which follow from what
`Filter` keeps and from what it means to be ranked; and `ExpansionNeverLeaks`,
whose invariant (`ToolInv`) follows a result from where it was found to the store:
a query's variants are asked only after the lookup, and what is stored is then
taken from the pool of the query itself.

**`FetchPage_proofs`**, of `FetchPage`: `SolverAlwaysForOwnChallenge`,
`KnownInterstitialsAreNeverServed`, `AlwaysGivesUpLast`, `AlwaysFetchedInFull`.
Until it is answered a request's flag says exactly that it met a challenge itself;
where it stands tells what it has tried (`Trail`); a page on its way to the store
carries no known marker, because no source, whatever the order of its checks, makes
a hit of a body with one (`HitsCarryNoMarker`), and it was cut where `storeChars`
says. That is all that is proved of content: what detection does not recognise is
served. `CutTwice` is the arithmetic of the two cuts, which is
why the default size must not exceed the ceiling (`FetchAssumption`). Of
`LlmsFullTxt`: `L1BytesAddUp`, `AlwaysFreshEnough`. `Bytes` counts the bytes of
the entries as the elements of one finite set, so that those of a part and of
the rest make up the whole (`BytesSplit`) and an eviction takes off the counter
what it takes out of the map; two entries never have one origin (`Apart`), without
which `Without` would take out more than `l1Set` accounts for. What an entry has
left of its TTL and the age of its document together are bounded, by one TTL for
the key and by both for L1, which is filled from it. Of `LlmsSection`:
`AlwaysOneWholePage`. The pages of a document occupy successive intervals of its
lines (`Laid`), the lines that are searched for are one of each page, in the order
of the pages (`OneOfEach`), and the last separator before the next page's `url:`
line is the one that introduces that page (`UrlSections`), or the next heading
that is not below this one is the next page's (`LinkSections`).

**`Tiers_proofs`**, of the sources: `Crawl4aiTypeCorrect`,
`UnavailableIsNeverEmpty`, `PollingAlwaysEnds`, `OutageIsAlwaysTold`,
`RobotsTypeCorrect`, `VerdictsAreAlwaysCurrent`. The invariants: a call that ended
with null hears nothing more (`NullInv`); a pause began before both clocks ran out
(`ClockInv`), so that a call ends by the abort and one pause, while of the poll
budget it follows only that no pause reaches more than one beyond it: the poll that
begins there is bounded by the abort; no source goes on after an unanswered request without having told
of it; an entry's age and what is left of it add up to the lifetime of its kind.
Of `TierRouting`: `StatisticsCountTheirWindow`, `SkipsHaveEvidence`. The log of a
tier is in the order of time, so that the attempts of the window that is running
are the latest ones, as many as the statistics say, with as many hits; the first
of them is as old as the window. Everything a skip rests on is therefore an
attempt that was made, and not longer ago than the window.

**`Crawl_proofs`**, of `SiteCrawl`: `CrawlInvariant`, `OutcomeAlwaysBookedOnce`,
`PollingAlwaysBounded`. A call is in the Firecrawl phase only with a Firecrawl
configured and has booked nothing until it leaves it (`BookedOnce`); what a
polling call has waited and its timer add up to no more than the deadline, an
interval and a poll (`WaitsWithin`). Of `SitemapDiscovery`: `SitemapInvariant`,
`DiscoversWhatIsLed`. The sitemaps that are being read are a path from the
candidate, of different sitemaps below the first, so that nothing is met too deep
where the candidate leads to no more than `maxDepth` sitemaps; and every sitemap
that was seen lists only what was seen, or is on that path with the rest of its
list still ahead. Of `BfsCrawl`: `BfsInvariant`, `BfsFetchesWithinBounds`,
`BfsComplete`. The queue is in the order of depth and spans at most two levels, so
what is read next was found on a shortest way (`OrderInv`); what a page that was
read links to is visited, disallowed or in the queue no deeper than one level
below (`LevelInv`). The latter is the argument for `Complete`: a queue that is
empty leaves nothing between what was read and what can be reached.

## 5. What is only model-checked, and why

* Liveness (`EveryCallEnds` twice, `AbandonedSessionCloses`,
  `SkippedTierComesBack`, `EveryCrawlEnds`): fairness and `ENABLED` are beyond the
  prover.
* The properties of the three violation runs, which do not hold.
* What the models take for granted of each other (section 2): that `FetchPage`
  sees of routing, of the gate and of the sources only the outcomes that their
  own modules can have is read off the code and not proved, except for the one
  refinement, of `AtomicRecord` by `CacheAtomicUpdate`.

Every other property of every run is the subject of a theorem.

## 6. Where the documents and the code part

Each violation run checks a sentence of the repository and finds a behaviour of
the code against it:

* `durability_restore_race`: the head of `src/cli/restore-domain-db.ts` and
  `docs/architecture.md:207` say a fresher record is never clobbered. One written
  between GET and SET is. What does hold is `RestoreSparesTheRead`.
* `fetch_page_selector`: `CHANGELOG.md:1318` says default fetches are not changed by
  the selectors. The page cache is keyed by URL alone, so a fetch without a
  selector may be answered with a page narrowed by another's.
* `search_language`: `docs/tools.md:27` says a search is for the language it names.
  The cache key leaves the language out (`src/search.ts:211`), so it may be
  answered with the results of another.

Met while modelling, without a run of their own:

* Durability. A record rewritten between the reaper's second MGET and its DEL is
  deleted (`src/cli/domain-db-maintenance.ts:251`), against the comment at 201
  ("closes a real race"); `ReapSparesTheConfirmed` says what holds.
* Sessions. The initialize request of a session is not counted as in flight and
  does not keep it from eviction (`docs/configuration.md:61`); the map outgrows
  its cap when all sessions are busy, though `docs/deployment.md:206` calls the
  cap hard. The handler of a DELETE ends after `onclose`, and its `finally` puts a
  count of 0 back for a session that is gone (`src/http-transport.ts:207`): such
  entries are never removed.
* Failover. With the default timeouts one hanging replica may spend the whole
  budget, so that the full list is not tried (`docs/configuration.md:12`); a marker
  is cleared only when a later candidate answers (`src/search.ts:157`, against
  `src/instances.ts:147`).
* Fetch. A page cached for a small request answers a larger one short
  (`src/fetch.ts:253`, against 216); tiers 1 and 2 test for emptiness before they
  test for a challenge; a 200 with an empty body is a hit of tier 3, and so are an
  interstitial without a known marker and, under Firecrawl v1, an error page
  (`src/tiers/firecrawl.ts:94`), in every tier that renders one; the title of a good
  page is taken from the metadata fetch, which is not looked at for a challenge
  (`src/extractors/post-extract.ts`), so it may be an interstitial's; a detected
  challenge is booked as a miss of its tier (`src/fetch.ts:181`, against
  `docs/architecture.md:282`).
* Sources. The poll of a Crawl4AI job sends no Authorization header though the
  POST does; a completed job whose result cannot be read, or that reports
  `success: false`, is a silent null (`src/tiers/crawl4ai.ts:261`; `blank` in
  `Crawl4aiTier` stands for these too); so is a Wayback index, Kiwix
  (`src/kiwix.ts:50`), YouTube (`src/youtube.ts:167`) or Reddit
  (`src/reddit.ts:120`) that answers with an error status.
* Robots, llms.txt. A slow robots fetch that fails may overwrite an answer that
  another call stored meanwhile, for the short TTL; a transport failure of
  llms-full.txt is cached as "absent" for a week; a page whose path merely ends
  like the requested one may shadow the exact one.
* Search. A result that is no URL makes `withSearchEvents` throw after the search
  went well (`src/tools.ts:88`); an answer cached for a small `num_results` serves
  larger requests; `rerankApplied` is reported even when the reranker was out;
  "No content to summarize." passes as a summary when every fetch failed
  (against `docs/tools.md:9`).
* Crawl. A map or a sitemap that yields no page still ends the cascade and is
  cached (`src/crawl.ts:630`); a child sitemap that cannot be reached counts as the
  first hit; a child sitemap first met too deep is not visited on a shorter way; a
  `/map` that fails is not booked (`src/crawl.ts:269`, against
  `docs/architecture.md:262`); a manifest may outlive its pages (`src/crawl.ts:202`,
  against `docs/architecture.md:266`).
* Configuration and statistics. A malformed `domains.json` at reload keeps the old
  configuration (against `src/domains.ts:21`); `docs/architecture.md:176` gives
  `schema_version` 6 where the code has 7.

## 7. Not modelled, and why

* Extraction (`src/extractors/`), content types, HTML and text processing: pure
  functions over strings, of which the models keep whether the body has a marker
  of a challenge, how long its text is and whether a selector narrowed it.
* The SSRF guard: classification of addresses, a pure function over numbers and
  strings; its verdict is a free choice in `FetchPage`.
* The construction and loss of the Valkey client (`getValkey`) and `cachePing`:
  callers that meet no client each build one, a leak that no modelled decision
  reads. All callers' views of a cache that is down are modelled.
* Gauges, reports and the aggregation of `src/domain-stats.ts`, the fields of the
  domain record that only reports read (metadata samples, crawl outcomes beyond
  their count), prompts and credentials of the language model.
* Configuration (it appears as CONSTANTS), telemetry (output only), resources,
  schemas, formatting, `/health` and authentication (they touch no modelled
  state), and the tools that call one modelled function each.
* Wall clocks that step backwards, full disks and Valkey replication.

Smaller things that the modules leave out or fold together, none of which a
property depends on unless it is said here:

* `CacheAtomicUpdate`: the client library may send an unanswered `casSet` again
  (`CACHE_MAX_RETRIES_PER_REQUEST`, `src/config.ts:259`). A command is sent once
  here, late or not; that each update is applied at most once
  (`ImplementsAtomicRecord`) is said of such commands only.
* `SearxFailover`: an answer without a list of results after a failed attempt clears
  the replica's marker and is then a failure of it (`src/search.ts:157`); here it is a
  failure at once.
* `SearchTools`: SearXNG's lists name a URL once, and the reranker scores each
  document once (`src/search.ts:301`, `src/reranker.ts:44`).
* `TierRouting`: a restore that brings back an older record is not an action, so its
  counters are not those of the window it then claims to be in.
* `FetchPage`: the provenance line of an archived page is not counted in its length
  (`src/tiers/wayback.ts`); an article in the metadata is the page's.
* `PageSources`: a `target_selector` that does not parse makes `rawFetch` throw
  (`src/tiers/raw.ts:138`).
* `RobotsGate`: `recordRobotsProbe` is not awaited and may commit later
  (`src/robots.ts:161`); it is part of the verdict's step here.
* `SiteCrawl`: a start URL that the SSRF guard rejects ends the call before the
  manifest is looked up (`src/crawl.ts:581`).
* `SitemapDiscovery`: the sitemaps that robots.txt names are all `.xml` here;
  `src/crawl.ts:381` takes any `Sitemap:` line.
* `BfsCrawl`: an anchor that is repeated on a page is pushed once, where
  `src/crawl.ts:543` pushes each and the duplicates fall to `visited`; `fetched` counts
  visits, of which the raw re-fetch for links (`src/crawl.ts:522`) is a part.

## 8. Running

`tlc -config <X>.cfg <MC module>` for a run: each configuration names the
instance's values, and `PROJECT.json` lists for every run its module, its
configuration and its properties. `tlapm DataLemmas.tla` and
`tlapm <M>_proofs.tla` check the proofs of a module. `PROJECT.json` also maps every definition to the lines it models and
lists the mutants, the hazards and the theorems.
