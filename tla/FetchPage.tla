----------------------------- MODULE FetchPage -----------------------------
(***************************************************************************)
(* fetchPage: concurrent requests for pages, each walking from the cache   *)
(* over the fast paths, the robots gate, the tier cascade, the challenge   *)
(* solver and the Wayback Machine to one cache entry per URL.              *)
(*                                                                         *)
(* A response is its status, its body and the length of the text that the  *)
(* source makes of it.  A body is a challenge where detectChallenge finds  *)
(* a marker in its head, other where it is an error page or an             *)
(* interstitial without one, and else the page.  What a remote service     *)
(* answers is free; every await ends a step.                               *)
(***************************************************************************)
EXTENDS Naturals, Sequences, FiniteSets

CONSTANTS
    Req,             \* requests that can be under way at once
    Url,
    Github,          \* the URLs for which isGithubUrl holds
    Fast,            \* [Url -> the fast paths that apply, in order]
    Sizes,           \* lengths of text, in characters; 0 is no text
    Want,            \* values of maxChars
    DefaultChars,    \* DEFAULT_FETCH_CHARS
    Ceiling,         \* FETCH_STORE_CEILING
    WaybackEnabled,  \* WAYBACK_ENABLED
    FirecrawlV2,     \* FIRECRAWL_API_VERSION is "v2"
    None

ASSUME FetchAssumption ==
    /\ IsFiniteSet(Req) /\ IsFiniteSet(Url) /\ Github \subseteq Url
    /\ Want \union {DefaultChars, Ceiling} \subseteq Nat \ {0} /\ DefaultChars <= Ceiling
    /\ Sizes \subseteq Nat /\ {WaybackEnabled, FirecrawlV2} \subseteq BOOLEAN

VARIABLES
    cache,      \* [Url -> the fetch cache's entry, or None]
    req,        \* [Req -> the request's local state]
    recorded,   \* what recordTierAttempt was told in the last step, or None
    saw,        \* history: [Req -> a tier reported a challenge to this request]
    failing     \* history: [Req -> what failed this request: "cascade" for its tiers]

hist == <<saw, failing>>
vars == <<cache, req, recorded, hist>>

AllTiers == <<"tier1_firecrawl", "tier2_crawl4ai", "tier3_rawfetch">>
Cascade == {AllTiers[k] : k \in 1..Len(AllTiers)}

Idle == [at |-> "idle", url |-> None, want |-> 0, selector |-> FALSE, todo |-> <<>>,
         challengeDetected |-> FALSE, page |-> None]

Init ==
    /\ cache = [u \in Url |-> None]
    /\ req = [r \in Req |-> Idle]
    /\ recorded = None
    /\ saw = [r \in Req |-> FALSE]
    /\ failing = [r \in Req |-> {}]

-----------------------------------------------------------------------------
Lesser(a, b)  == IF a < b THEN a ELSE b
Greater(a, b) == IF a > b THEN a ELSE b

At(r, where) == req[r].at = where
Silent == recorded' = None
Moves(r, where) == req' = [req EXCEPT ![r].at = where]
Refuses(r) == Moves(r, "failed") /\ Silent /\ UNCHANGED <<cache, hist>>

(* Fault: everything is stored at the default size.                        *)
FaultyStoreChars(r) == DefaultChars

storeChars(r) == Lesser(Greater(req[r].want, DefaultChars), Ceiling)

-----------------------------------------------------------------------------
(* What the sources make of a response.                                    *)

Responses == [status : {"ok", "edge", "other"},   \* edge: 403 or 503 from Cloudflare's
              body   : {"page", "challenge", "other"},
              text   : Sizes]

(* A rendered document comes without the status of its page, and is looked *)
(* at for text before it is for markers.                                   *)
rendered(a) ==
    IF a.text = 0 THEN "empty_result"
    ELSE IF a.body = "challenge" THEN "challenge_detected" ELSE "hit"

firecrawlScrape(a) == IF FirecrawlV2 /\ a.status # "ok" THEN "error" ELSE rendered(a)

(* Fault: only the status tells a challenge from a page.                   *)
FaultyRawFetch(a) ==
    CASE a.status = "edge"  -> "challenge_detected"
      [] a.status = "other" -> "error"
      [] a.status = "ok"    -> "hit"

(* A page without text is a hit here.                                      *)
rawFetch(a) ==
    CASE a.status = "edge"  -> "challenge_detected"
      [] a.status = "other" -> "error"
      [] a.status = "ok"    -> IF a.body = "challenge" THEN "challenge_detected" ELSE "hit"

(* The solver's replay and the archive's snapshot are raw fetches too; of  *)
(* what fails them the solver tells a challenge only, the archive nothing. *)
Outcome(source, a) ==
    CASE source = "tier1_firecrawl" -> firecrawlScrape(a)
      [] source = "tier2_crawl4ai"  -> rendered(a)
      [] source = "tier3_rawfetch"  -> rawFetch(a)
      [] source = "solver_byparr"   -> IF rawFetch(a) = "error" THEN "empty_result" ELSE rawFetch(a)
      [] OTHER (* the archive *)    -> IF rawFetch(a) = "hit" THEN "hit" ELSE "empty_result"

(* ... and what they report when there is no response to look at.          *)
Unanswered(source) ==
    CASE source = "tier2_crawl4ai" -> {"error", "empty_result"}
      [] source \in {"solver_byparr", "tier4_wayback"} -> {"empty_result"}
      [] OTHER -> {"error"}

Outcomes(source) == Unanswered(source) \union {Outcome(source, a) : a \in Responses}

(* A selector may have narrowed the page where it is passed on.            *)
Narrowings(r, source) ==
    {FALSE, req[r].selector /\ source \in Cascade \union {"solver_byparr"}}

Extract(r, body, text, narrowed) ==
    [body |-> body, text |-> text, len |-> Lesser(text, storeChars(r)), narrowed |-> narrowed]

PagesFor(r, source) ==
    {Extract(r, a.body, a.text, n) :
        a \in {x \in Responses : Outcome(source, x) = "hit"}, n \in Narrowings(r, source)}

(* GitHub and the fast paths answer with documents of their own, not with  *)
(* the origin's page.  Nobody looks at them for markers, and one that      *)
(* merely quotes a marker is no interstitial.                              *)
OwnPages(r, texts) ==
    {Extract(r, a.body, a.text, FALSE) : a \in [body : {"page", "other"}, text : texts]}

(* The caller reads back a slice of the page.                              *)
Answer(r, page) ==
    req' = [req EXCEPT ![r].at = "answered", ![r].todo = <<>>, ![r].challengeDetected = FALSE,
                       ![r].page = [page EXCEPT !.len = Lesser(@, req[r].want)]]

(* cacheSet and the answer; the cache may be down.                         *)
StoreAndAnswer(r, page) ==
    /\ cache' \in {cache, [cache EXCEPT ![req[r].url] = page]}
    /\ Answer(r, page)

-----------------------------------------------------------------------------
(* Entry: the block list of the caller's profile comes before the cache.   *)
Begin(r, u, want, selector) ==
    /\ At(r, "idle")
    /\ \E where \in {"cache", "failed"} :
          req' = [req EXCEPT ![r] = [Idle EXCEPT !.at = where, !.url = u, !.want = want,
                                                 !.selector = selector]]
    /\ Silent /\ UNCHANGED <<cache, hist>>

(* A corrupt entry, or a cache that is down, is a miss.                    *)
CacheHit(r) ==
    /\ At(r, "cache") /\ cache[req[r].url] # None
    /\ Answer(r, cache[req[r].url])
    /\ Silent /\ UNCHANGED <<cache, hist>>

CacheMiss(r) ==
    /\ At(r, "cache")
    /\ req' = [req EXCEPT ![r].at = IF req[r].url \in Github THEN "github" ELSE "fast",
                          ![r].todo = IF req[r].url \in Github THEN <<>> ELSE Fast[req[r].url]]
    /\ Silent /\ UNCHANGED <<cache, hist>>

-----------------------------------------------------------------------------
(* runTier: every outcome is recorded for the domain database.             *)

Records(outcome) == recorded' = outcome

(* onOutcome and onChallenge, for a tier of the cascade, the solver or the *)
(* archive; at says where the failure leads.                               *)
Misses(r, tier, at, todo, challenged) ==
    /\ req' = [req EXCEPT ![r].at = at, ![r].todo = todo,
                          ![r].challengeDetected = @ \/ challenged]
    /\ saw' = [saw EXCEPT ![r] = @ \/ challenged]
    /\ failing' = [failing EXCEPT ![r] = @ \union {tier}]
    /\ UNCHANGED cache

TierFails(r, source, tier, at, todo) ==
    \E outcome \in Outcomes(source) \ {"hit", "challenge_detected"} :
        Records(outcome) /\ Misses(r, tier, at, todo, FALSE)

(* Fault: the flag outlives its request, and all requests share it.        *)
FaultyTierIsChallenged(r, tier, at, todo) ==
    /\ Records("challenge_detected")
    /\ req' = [q \in Req |-> IF q = r
                  THEN [req[r] EXCEPT !.at = at, !.todo = todo, !.challengeDetected = TRUE]
                  ELSE [req[q] EXCEPT !.challengeDetected = TRUE]]
    /\ saw' = [saw EXCEPT ![r] = TRUE]
    /\ failing' = [failing EXCEPT ![r] = @ \union {tier}]
    /\ UNCHANGED cache

TierIsChallenged(r, tier, at, todo) ==
    Records("challenge_detected") /\ Misses(r, tier, at, todo, TRUE)

TierHits(r, page) ==
    /\ Records("hit")
    /\ req' = [req EXCEPT ![r].at = "post", ![r].todo = <<>>, ![r].page = page]
    /\ UNCHANGED <<cache, hist>>

-----------------------------------------------------------------------------
(* GitHub URLs take one source, and its failure is the request's.          *)
GithubTier(r) ==
    /\ At(r, "github")
    /\ \/ \E page \in OwnPages(r, Sizes) :
             Records("hit") /\ StoreAndAnswer(r, page) /\ UNCHANGED hist
       \/ Records("error") /\ Moves(r, "failed") /\ UNCHANGED <<cache, hist>>

(* llms.txt, Kiwix, Hister, YouTube, Reddit: a hit is stored and answered, *)
(* a miss leads to the next; none of them is a tier.                       *)
FastPath(r) ==
    /\ At(r, "fast") /\ req[r].todo # <<>>
    /\ \/ \E page \in OwnPages(r, Sizes \ {0}) : StoreAndAnswer(r, page)
       \/ req' = [req EXCEPT ![r].todo = Tail(@)] /\ UNCHANGED cache
    /\ Silent /\ UNCHANGED hist

(* The robots gate.                                                        *)
checkRobots(r) ==
    /\ At(r, "fast") /\ req[r].todo = <<>>
    /\ Moves(r, "routing") \/ Moves(r, "failed")
    /\ Silent /\ UNCHANGED <<cache, hist>>

(* getTiers: any of the tiers may be skipped.                              *)
getTiers(r) ==
    /\ At(r, "routing")
    /\ \E active \in SUBSET Cascade :
          req' = [req EXCEPT ![r].at = "resolve",
                             ![r].todo = SelectSeq(AllTiers, LAMBDA t : t \in active)]
    /\ Silent /\ UNCHANGED <<cache, hist>>

(* A host that resolves to a private address ends the request.             *)
assertResolvedPublic(r) ==
    /\ At(r, "resolve")
    /\ Moves(r, "probe") \/ Moves(r, "failed")
    /\ Silent /\ UNCHANGED <<cache, hist>>

probeStructuredContent(r) ==
    /\ At(r, "probe")
    /\ Moves(r, "structured") \/ Moves(r, "cascade")
    /\ Silent /\ UNCHANGED <<cache, hist>>

(* A structured document goes to tier 3 at once; a hit is answered without *)
(* post-extraction, anything else falls through to the cascade.            *)
Structured(r) ==
    /\ At(r, "structured")
    /\ \/ \E page \in PagesFor(r, "tier3_rawfetch") :
             /\ Records("hit")
             /\ StoreAndAnswer(r, page)
             /\ UNCHANGED hist
       \/ TierFails(r, "tier3_rawfetch", "cascade", "cascade", req[r].todo)
       \/ TierIsChallenged(r, "cascade", "cascade", req[r].todo)

(* The next active tier of the cascade.                                    *)
RunTier(r) ==
    /\ At(r, "cascade") /\ req[r].todo # <<>>
    /\ \/ \E page \in PagesFor(r, Head(req[r].todo)) : TierHits(r, page)
       \/ TierFails(r, Head(req[r].todo), "cascade", "cascade", Tail(req[r].todo))
       \/ TierIsChallenged(r, "cascade", "cascade", Tail(req[r].todo))

(* Fault: the challenge the tiers met is forgotten.                        *)
FaultyExhausted(r) ==
    /\ At(r, "cascade") /\ req[r].todo = <<>>
    /\ Moves(r, "wayback")
    /\ Silent /\ UNCHANGED <<cache, hist>>

(* After the last tier: the solver if this request met a challenge.        *)
Exhausted(r) ==
    /\ At(r, "cascade") /\ req[r].todo = <<>>
    /\ Moves(r, IF req[r].challengeDetected THEN "solver" ELSE "wayback")
    /\ Silent /\ UNCHANGED <<cache, hist>>

(* A page that is still an interstitial is a miss that arms nothing.       *)
Solver(r) ==
    /\ At(r, "solver")
    /\ \/ \E page \in PagesFor(r, "solver_byparr") : TierHits(r, page)
       \/ TierFails(r, "solver_byparr", "solver_byparr", "wayback", <<>>)
       \/ /\ Records("challenge_detected")
          /\ Misses(r, "solver_byparr", "wayback", <<>>, FALSE)

Wayback(r) ==
    /\ At(r, "wayback")
    /\ IF WaybackEnabled
       THEN \/ \E page \in PagesFor(r, "tier4_wayback") : TierHits(r, page)
            \/ TierFails(r, "tier4_wayback", "tier4_wayback", "failed", <<>>)
       ELSE Refuses(r)

(* Post-extraction: the metadata's JSON-LD article may replace the text.   *)
PostExtract(r) ==
    /\ At(r, "post")
    /\ \E page \in {req[r].page} \union {Extract(r, "page", text, FALSE) : text \in Sizes \ {0}} :
          StoreAndAnswer(r, page)
    /\ Silent /\ UNCHANGED hist

-----------------------------------------------------------------------------
(* The caller takes its answer.                                            *)
Return(r) ==
    /\ req[r].at \in {"answered", "failed"}
    /\ req' = [req EXCEPT ![r] = Idle]
    /\ saw' = [saw EXCEPT ![r] = FALSE]
    /\ failing' = [failing EXCEPT ![r] = {}]
    /\ Silent /\ UNCHANGED cache

(* An entry's TTL runs out, or the cache is cleared.                       *)
Expire(u) ==
    /\ cache' = [cache EXCEPT ![u] = None]
    /\ Silent /\ UNCHANGED <<req, hist>>

Step(r) ==
    \/ CacheHit(r) \/ CacheMiss(r) \/ GithubTier(r) \/ FastPath(r) \/ checkRobots(r)
    \/ getTiers(r) \/ assertResolvedPublic(r) \/ probeStructuredContent(r) \/ Structured(r)
    \/ RunTier(r) \/ Exhausted(r) \/ Solver(r) \/ Wayback(r) \/ PostExtract(r)

Next ==
    \/ \E r \in Req : \/ \E u \in Url, w \in Want, s \in BOOLEAN : Begin(r, u, w, s)
                      \/ Step(r)
                      \/ Return(r)
    \/ \E u \in Url : Expire(u)

Spec == Init /\ [][Next]_vars

-----------------------------------------------------------------------------
(* The solver serves only a request that met a challenge itself, whatever  *)
(* the requests beside it met.                                             *)
SolverOnlyForOwnChallenge ==
    \A r \in Req : At(r, "solver") \/ "solver_byparr" \in failing[r] => saw[r]

(* No interstitial that carries a known marker is cached, or held by a     *)
(* request to be answered with, whichever source fetched it, the solver's  *)
(* replay and the archive among them.  It is the known ones only: what     *)
(* detectChallenge does not recognise, an error page that tier 1 or 2      *)
(* rendered and a page without text from tier 3 are cached and served.     *)
NoKnownInterstitialIsServed ==
    /\ \A u \in Url : cache[u] # None => cache[u].body # "challenge"
    /\ \A r \in Req : req[r].page # None => req[r].page.body # "challenge"

(* A request that gave up after the robots gate and the routing has tried  *)
(* the archive, and the solver if it met a challenge.                      *)
GivesUpLast ==
    \A r \in Req : At(r, "failed") /\ failing[r] # {} =>
        /\ WaybackEnabled => "tier4_wayback" \in failing[r]
        /\ saw[r] => "solver_byparr" \in failing[r]

(* A request that fetched its page itself answers with as much of its text *)
(* as was asked for, up to the ceiling.                                    *)
FetchedInFull ==
    [][\A r \in Req :
          (req[r].at \notin {"cache", "answered"} /\ req'[r].at = "answered")
             => req'[r].page.len = Lesser(req'[r].page.text, Lesser(req[r].want, Ceiling))]_vars

(* As the changelog has it: a fetch without selectors is not affected by   *)
(* the selector feature.                                                   *)
PlainFetchIsWhole ==
    \A r \in Req : At(r, "answered") /\ ~req[r].selector => ~req[r].page.narrowed
=============================================================================
