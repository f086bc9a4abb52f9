--------------------------- MODULE FetchPage_proofs ---------------------------
(***************************************************************************)
(* Theorems about FetchPage, for any requests, pages, sizes and sources,   *)
(* about LlmsFullTxt, for any lookups, origins, sizes and TTLs, and about  *)
(* LlmsSection, for documents of any number of pages of any length.        *)
(*                                                                         *)
(* FetchPage: until it is answered, a request's challengeDetected says     *)
(* exactly that it met a challenge; where a request stands tells what it   *)
(* has tried; and a page on its way to the cache carries no known marker   *)
(* and was cut where storeChars says, which is where the caller's own cut  *)
(* ends or beyond it.                                                      *)
(*                                                                         *)
(* LlmsFullTxt: the bytes of the entries at some places of L1 and of those *)
(* at the others make up the whole, so what l1Set takes off the counter is *)
(* what it takes out of the map; and what is left of an entry's TTL,       *)
(* together with the age of its document, is bounded.                      *)
(*                                                                         *)
(* LlmsSection: each page of a document occupies its own interval of       *)
(* lines (Laid), the lines that are searched for are one of each page and  *)
(* in the order of the pages (OneOfEach), and no separator or heading of   *)
(* another page lies between a page's and its ends.                        *)
(***************************************************************************)
EXTENDS FetchPage, LlmsFullTxt, LlmsSection, DataLemmas

Fields == {"at", "url", "want", "selector", "todo", "challengeDetected", "page"}

(* A page that carries no known marker.                                    *)
IsPage(p) ==
    /\ DOMAIN p = {"body", "text", "len", "narrowed"}
    /\ p.text \in Nat /\ p.len \in Nat /\ p.body # "challenge"

(* What a request holds of a text of n characters.                         *)
Held(q, n) == Lesser(n, Lesser(Greater(q.want, DefaultChars), Ceiling))

Untried == {"idle", "cache", "github", "fast", "routing", "resolve", "probe", "structured"}

(* What a request that stands at `at` has met, s, and tried, f.            *)
Trail(at, s, f) ==
    /\ s \in BOOLEAN
    /\ at \in Untried => f = {} /\ s = FALSE
    /\ at = "solver" => s
    /\ "solver_byparr" \in f => s
    /\ at = "wayback" /\ s => "solver_byparr" \in f
    /\ at = "failed" /\ f # {} => /\ WaybackEnabled => "tier4_wayback" \in f
                                  /\ s => "solver_byparr" \in f

Good(q, s, f) ==
    /\ DOMAIN q = Fields
    /\ q.at # "idle" => q.url \in Url /\ q.want \in Want
    /\ q.at # "answered" => q.challengeDetected = s
    /\ Trail(q.at, s, f)
    /\ q.page # None => IsPage(q.page)
    /\ q.at = "post" => IsPage(q.page) /\ q.page.len = Held(q, q.page.text)

CacheInv ==
    /\ DOMAIN cache = Url
    /\ \A u \in Url : cache[u] # None => IsPage(cache[u])

IInv ==
    /\ CacheInv
    /\ DOMAIN req = Req /\ DOMAIN saw = Req /\ DOMAIN failing = Req
    /\ \A r \in Req : Good(req[r], saw[r], failing[r])

(* What FetchedInFull asks of one request's step.                          *)
Full(p, q) ==
    (p.at \notin {"cache", "answered"} /\ q.at = "answered")
        => q.page.len = Lesser(q.page.text, Lesser(p.want, Ceiling))

Kept == IInv' /\ \A r \in Req : Full(req[r], req'[r])

-----------------------------------------------------------------------------
(* No request has begun.                                                   *)
LEMMA InitIInv == Init => IInv
<1>. SUFFICES ASSUME Init PROVE IInv
  OBVIOUS
<1>1. DOMAIN Idle = Fields /\ Idle.at = "idle" /\ Idle.challengeDetected = FALSE /\ Idle.page = None
  BY DEF Idle, Fields
<1>2. Good(Idle, FALSE, {})
  BY <1>1 DEF Good, Trail, Untried
<1>3. CacheInv
  BY DEF Init, CacheInv
<1>. QED  BY <1>2, <1>3 DEF Init, IInv

(* A step of one request.                                                  *)
LEMMA OneRequest ==
    ASSUME IInv, NEW r \in Req, NEW q, NEW s, NEW f,
           req' = [req EXCEPT ![r] = q],
           \/ saw' = [saw EXCEPT ![r] = s] /\ failing' = [failing EXCEPT ![r] = f]
           \/ UNCHANGED <<saw, failing>> /\ s = saw[r] /\ f = failing[r],
           Good(q, s, f), Full(req[r], q), CacheInv'
    PROVE  Kept
<1>1. /\ DOMAIN req' = Req /\ DOMAIN saw' = Req /\ DOMAIN failing' = Req
      /\ req'[r] = q /\ saw'[r] = s /\ failing'[r] = f
      /\ \A d \in Req \ {r} : req'[d] = req[d] /\ saw'[d] = saw[d] /\ failing'[d] = failing[d]
  BY DEF IInv
<1>2. \A d \in Req : Good(req'[d], saw'[d], failing'[d])
  BY <1>1 DEF IInv
<1>3. \A d \in Req : Full(req[d], req'[d])
  BY <1>1 DEF Full
<1>4. IInv'
  BY <1>1, <1>2 DEF IInv, Good, Trail, IsPage, Held
<1>. QED  BY <1>3, <1>4 DEF Kept

(* ... that leaves the history alone.                                      *)
LEMMA QuietRequest ==
    ASSUME IInv, NEW r \in Req, NEW q, UNCHANGED hist,
           req' = [req EXCEPT ![r] = q],
           Good(q, saw[r], failing[r]), Full(req[r], q), CacheInv'
    PROVE  Kept
<1>1. UNCHANGED <<saw, failing>>
  BY DEF hist
<1>. QED  BY <1>1, OneRequest

(* A step that leaves the cache alone leaves it sound.                     *)
LEMMA CacheKept == ASSUME IInv, UNCHANGED cache PROVE CacheInv'
  BY DEF IInv, CacheInv, IsPage

(* A step that only moves the request on, to where its trail allows.       *)
LEMMA Moved ==
    ASSUME IInv, NEW r \in Req, UNCHANGED <<cache, hist>>, NEW at,
           \/ req' = [req EXCEPT ![r].at = at]
           \/ \E todo : req' = [req EXCEPT ![r].at = at, ![r].todo = todo],
           req[r].at \notin {"idle", "answered"}, at \notin {"post", "answered"},
           Trail(at, saw[r], failing[r])
    PROVE  Kept
<1>1. PICK todo : \/ req' = [req EXCEPT ![r].at = at]
                 \/ req' = [req EXCEPT ![r].at = at, ![r].todo = todo]
  OBVIOUS
<1>. DEFINE q == IF req' = [req EXCEPT ![r].at = at] THEN [req[r] EXCEPT !.at = at]
                 ELSE [req[r] EXCEPT !.at = at, !.todo = todo]
<1>2. DOMAIN req = Req /\ Good(req[r], saw[r], failing[r])
  BY DEF IInv
<1>3. req' = [req EXCEPT ![r] = q]
  BY <1>1, <1>2
<1>4. /\ DOMAIN q = Fields /\ q.at = at /\ q.url = req[r].url /\ q.want = req[r].want
      /\ q.challengeDetected = req[r].challengeDetected /\ q.page = req[r].page
  BY <1>2 DEF Good, Fields
<1>. HIDE DEF q
<1>5. Good(q, saw[r], failing[r]) /\ Full(req[r], q)
  BY <1>2, <1>4 DEF Good, Full
<1>. QED  BY <1>3, <1>5, CacheKept, QuietRequest DEF hist

-----------------------------------------------------------------------------
(* The caller's cut of a page that was cut where storeChars says.          *)
LEMMA CutTwice ==
    ASSUME NEW n \in Nat, NEW w \in Want
    PROVE  Lesser(Lesser(n, Lesser(Greater(w, DefaultChars), Ceiling)), w) = Lesser(n, Lesser(w, Ceiling))
<1>1. w \in Nat /\ DefaultChars \in Nat /\ Ceiling \in Nat /\ DefaultChars <= Ceiling
  BY FetchAssumption
<1>. QED  BY <1>1 DEF Lesser, Greater

(* The lesser of two lengths is a length.                                  *)
LEMMA LesserNat == ASSUME NEW a \in Nat, NEW b \in Nat PROVE Lesser(a, b) \in Nat
  BY DEF Lesser

(* What a request may hold is a length.                                    *)
LEMMA HeldNat ==
    ASSUME NEW q, q.want \in Want, NEW n \in Nat
    PROVE  Held(q, n) \in Nat
<1>1. q.want \in Nat /\ DefaultChars \in Nat /\ Ceiling \in Nat
  BY FetchAssumption
<1>2. Greater(q.want, DefaultChars) \in Nat
  BY <1>1 DEF Greater
<1>. QED  BY <1>1, <1>2, LesserNat DEF Held

(* What is extracted of a body without a known marker.                     *)
LEMMA Extracted ==
    ASSUME NEW r \in Req, req[r].want \in Want, NEW body, body # "challenge", NEW text \in Nat,
           NEW narrowed, NEW page, page = Extract(r, body, text, narrowed)
    PROVE  IsPage(page) /\ page.len = Held(req[r], page.text)
<1>1. page = [body |-> body, text |-> text, len |-> Held(req[r], text), narrowed |-> narrowed]
  BY DEF Extract, Held, storeChars
<1>2. Held(req[r], text) \in Nat
  BY HeldNat
<1>. QED  BY <1>1, <1>2 DEF IsPage

(* What a source takes for a hit carries no known marker, whichever of the *)
(* checks it makes and in whichever order.                                 *)
LEMMA HitsCarryNoMarker ==
    ASSUME NEW source, NEW a \in Responses, Outcome(source, a) = "hit"
    PROVE  a.body # "challenge" /\ a.text \in Nat
<1>1. a.status \in {"ok", "edge", "other"} /\ a.text \in Nat
  BY FetchAssumption DEF Responses
<1>2. rendered(a) = "hit" => a.body # "challenge"
  BY DEF rendered
<1>3. rawFetch(a) = "hit" => a.body # "challenge"
  BY <1>1 DEF rawFetch
<1>4. firecrawlScrape(a) = "hit" => rendered(a) = "hit"
  BY DEF firecrawlScrape
<1>5. \/ firecrawlScrape(a) = "hit" \/ rendered(a) = "hit" \/ rawFetch(a) = "hit"
  BY DEF Outcome
<1>. QED  BY <1>1, <1>2, <1>3, <1>4, <1>5

(* What a source hands over carries no known marker, and is cut where      *)
(* storeChars says.                                                        *)
LEMMA SourcesHandPages ==
    ASSUME NEW r \in Req, req[r].want \in Want, NEW page,
           \/ \E source : page \in PagesFor(r, source)
           \/ \E texts \in SUBSET Sizes : page \in OwnPages(r, texts)
    PROVE  IsPage(page) /\ page.len = Held(req[r], page.text)
<1>1. ASSUME NEW source, page \in PagesFor(r, source)
      PROVE  IsPage(page) /\ page.len = Held(req[r], page.text)
  <2>1. PICK a \in Responses : /\ Outcome(source, a) = "hit"
                              /\ \E n : page = Extract(r, a.body, a.text, n)
    BY <1>1 DEF PagesFor
  <2>. QED  BY <2>1, HitsCarryNoMarker, Extracted
<1>2. ASSUME NEW texts \in SUBSET Sizes, page \in OwnPages(r, texts)
      PROVE  IsPage(page) /\ page.len = Held(req[r], page.text)
  <2>1. PICK a \in [body : {"page", "other"}, text : texts] : \E n : page = Extract(r, a.body, a.text, n)
    BY <1>2 DEF OwnPages
  <2>2. a.text \in Nat /\ a.body # "challenge"
    BY FetchAssumption
  <2>. QED  BY <2>1, <2>2, Extracted
<1>. QED  BY <1>1, <1>2

(* An answer with a page, cut where storeChars says unless it comes from   *)
(* the cache.                                                              *)
LEMMA Answered ==
    ASSUME IInv, NEW r \in Req, UNCHANGED hist, NEW page, Answer(r, page), IsPage(page),
           req[r].at \notin {"idle", "answered"},
           req[r].at # "cache" => page.len = Held(req[r], page.text),
           CacheInv'
    PROVE  Kept
<1>. DEFINE cut == [page EXCEPT !.len = Lesser(@, req[r].want)]
            q == [req[r] EXCEPT !.at = "answered", !.todo = <<>>, !.challengeDetected = FALSE, !.page = cut]
<1>1. DOMAIN req = Req /\ Good(req[r], saw[r], failing[r])
  BY DEF IInv
<1>2. req[r].url \in Url /\ req[r].want \in Want /\ req[r].want \in Nat /\ page.text \in Nat
  BY <1>1, FetchAssumption DEF Good, IsPage
<1>3. req' = [req EXCEPT ![r] = q]
  BY <1>1 DEF Answer
<1>4. /\ DOMAIN cut = {"body", "text", "len", "narrowed"} /\ cut.body # "challenge"
      /\ cut.len = Lesser(page.len, req[r].want) /\ cut.text = page.text
  BY DEF IsPage
<1>5. IsPage(cut)
  BY <1>2, <1>4, LesserNat DEF IsPage
<1>. HIDE DEF cut
<1>6. /\ DOMAIN q = Fields /\ q.at = "answered" /\ q.url = req[r].url /\ q.want = req[r].want
      /\ q.page = cut
  BY <1>1 DEF Good, Fields
<1>. HIDE DEF q
<1>7. Trail("answered", saw[r], failing[r])
  BY <1>1 DEF Good, Trail, Untried
<1>8. Good(q, saw[r], failing[r])
  BY <1>2, <1>5, <1>6, <1>7 DEF Good
<1>9. Full(req[r], q)
  <2>1. CASE req[r].at = "cache"
    BY <2>1 DEF Full
  <2>2. CASE req[r].at # "cache"
    <3>1. q.page.text = page.text /\ q.page.len = Lesser(Held(req[r], page.text), req[r].want)
      BY <2>2, <1>4, <1>6
    <3>2. q.page.len = Lesser(page.text, Lesser(req[r].want, Ceiling))
      BY <3>1, <1>2, CutTwice DEF Held
    <3>. QED  BY <3>1, <3>2 DEF Full
  <2>. QED  BY <2>1, <2>2
<1>. QED  BY <1>3, <1>8, <1>9, QuietRequest

(* A page that is stored and served is the one the cache then holds.       *)
LEMMA Stored ==
    ASSUME IInv, NEW r \in Req, UNCHANGED hist, NEW page, StoreAndAnswer(r, page), IsPage(page),
           req[r].at \notin {"idle", "answered", "cache"}, page.len = Held(req[r], page.text)
    PROVE  Kept
<1>1. CacheInv'
  BY DEF StoreAndAnswer, IInv, CacheInv, IsPage
<1>2. Answer(r, page)
  BY DEF StoreAndAnswer
<1>. QED  BY <1>1, <1>2, Answered
-----------------------------------------------------------------------------
(* What a tier of the cascade, the solver or the archive may do.           *)
LEMMA MissesStep ==
    ASSUME IInv, NEW r \in Req, NEW tier, NEW at, NEW todo, NEW challenged \in BOOLEAN,
           Misses(r, tier, at, todo, challenged),
           req[r].at \notin {"idle", "answered"}, at \notin {"post", "answered"},
           Trail(at, saw[r] \/ challenged, failing[r] \union {tier})
    PROVE  Kept
<1>. DEFINE q == [req[r] EXCEPT !.at = at, !.todo = todo, !.challengeDetected = @ \/ challenged]
<1>1. DOMAIN req = Req /\ DOMAIN saw = Req /\ DOMAIN failing = Req /\ Good(req[r], saw[r], failing[r])
  BY DEF IInv
<1>2. req' = [req EXCEPT ![r] = q]
  BY <1>1 DEF Misses
<1>3. /\ saw' = [saw EXCEPT ![r] = saw[r] \/ challenged]
      /\ failing' = [failing EXCEPT ![r] = failing[r] \union {tier}]
      /\ CacheInv'
  BY <1>1, CacheKept DEF Misses
<1>4. /\ DOMAIN q = Fields /\ q.at = at /\ q.url = req[r].url /\ q.want = req[r].want
      /\ q.page = req[r].page
  BY <1>1 DEF Good, Fields
<1>5. q.challengeDetected = (req[r].challengeDetected \/ challenged)
  BY <1>1 DEF Good, Fields
<1>. HIDE DEF q
<1>6. Good(q, saw[r] \/ challenged, failing[r] \union {tier}) /\ Full(req[r], q)
  BY <1>1, <1>4, <1>5 DEF Good, Full
<1>. QED  BY <1>2, <1>3, <1>6, OneRequest

(* A tier that succeeds hands its page to the extraction.                  *)
LEMMA TierHitsStep ==
    ASSUME IInv, NEW r \in Req, NEW page, TierHits(r, page),
           req[r].at \notin {"idle", "answered"}, IsPage(page), page.len = Held(req[r], page.text)
    PROVE  Kept
<1>. DEFINE q == [req[r] EXCEPT !.at = "post", !.todo = <<>>, !.page = page]
<1>1. DOMAIN req = Req /\ Good(req[r], saw[r], failing[r])
  BY DEF IInv
<1>2. req' = [req EXCEPT ![r] = q] /\ UNCHANGED hist /\ CacheInv'
  BY <1>1, CacheKept DEF TierHits
<1>3. /\ DOMAIN q = Fields /\ q.at = "post" /\ q.url = req[r].url /\ q.want = req[r].want
      /\ q.page = page /\ q.challengeDetected = req[r].challengeDetected
  BY <1>1 DEF Good, Fields
<1>. HIDE DEF q
<1>4. Trail("post", saw[r], failing[r])
  BY <1>1 DEF Good, Trail, Untried
<1>5. Good(q, saw[r], failing[r]) /\ Full(req[r], q)
  BY <1>1, <1>3, <1>4 DEF Good, Full, Held
<1>. QED  BY <1>2, <1>5, QuietRequest

(* Where a request stands, as the steps below need it.                     *)
LEMMA Standing ==
    ASSUME IInv, NEW r \in Req
    PROVE  /\ Trail(req[r].at, saw[r], failing[r])
           /\ req[r].at # "answered" => req[r].challengeDetected = saw[r]
           /\ req[r].at # "idle" => req[r].url \in Url /\ req[r].want \in Want
           /\ req[r].at = "post" => /\ IsPage(req[r].page)
                                    /\ req[r].page.len = Held(req[r], req[r].page.text)
<1>1. Good(req[r], saw[r], failing[r])
  BY DEF IInv
<1>. QED  BY <1>1 DEF Good

-----------------------------------------------------------------------------
(* A request begins with nothing tried, and is forgotten when it returns.  *)
LEMMA BeginReturnStep ==
    ASSUME IInv, NEW r \in Req,
           (\E u \in Url, w \in Want, s \in BOOLEAN : Begin(r, u, w, s)) \/ Return(r)
    PROVE  Kept
<1>1. DOMAIN req = Req /\ Good(req[r], saw[r], failing[r]) /\ CacheInv'
  BY CacheKept DEF IInv, Begin, Return
<1>2. CASE Return(r)
  <2>1. DOMAIN Idle = Fields /\ Idle.at = "idle" /\ Idle.challengeDetected = FALSE /\ Idle.page = None
    BY DEF Idle, Fields
  <2>2. Good(Idle, FALSE, {}) /\ Full(req[r], Idle)
    BY <2>1 DEF Good, Trail, Untried, Full
  <2>3. /\ req' = [req EXCEPT ![r] = Idle] /\ saw' = [saw EXCEPT ![r] = FALSE]
        /\ failing' = [failing EXCEPT ![r] = {}]
    BY <1>2 DEF Return
  <2>. QED  BY <1>1, <2>2, <2>3, OneRequest
<1>3. ASSUME NEW u \in Url, NEW w \in Want, NEW s \in BOOLEAN, Begin(r, u, w, s) PROVE Kept
  <2>1. PICK where \in {"cache", "failed"} :
            req' = [req EXCEPT ![r] = [Idle EXCEPT !.at = where, !.url = u, !.want = w, !.selector = s]]
    BY <1>3 DEF Begin
  <2>. DEFINE q == [Idle EXCEPT !.at = where, !.url = u, !.want = w, !.selector = s]
  <2>2. /\ DOMAIN q = Fields /\ q.at = where /\ q.url = u /\ q.want = w
        /\ q.challengeDetected = FALSE /\ q.page = None
    BY DEF Idle, Fields
  <2>3. req' = [req EXCEPT ![r] = q] /\ UNCHANGED hist /\ At(r, "idle")
    BY <1>3, <2>1 DEF Begin
  <2>. HIDE DEF q
  <2>4. saw[r] = FALSE /\ failing[r] = {}
    BY <1>1, <2>3 DEF Good, Trail, Untried, At
  <2>5. Good(q, saw[r], failing[r]) /\ Full(req[r], q)
    BY <2>2, <2>4 DEF Good, Trail, Full
  <2>. QED  BY <1>1, <2>3, <2>5, QuietRequest
<1>. QED  BY <1>2, <1>3

(* The cache answers with what an earlier request stored, or not at all.   *)
LEMMA LookupStep ==
    ASSUME IInv, NEW r \in Req, CacheHit(r) \/ CacheMiss(r)
    PROVE  Kept
<1>1. CASE CacheHit(r)
  <2>1. /\ req[r].at = "cache" /\ Answer(r, cache[req[r].url]) /\ UNCHANGED hist /\ CacheInv'
        /\ cache[req[r].url] # None
    BY <1>1, CacheKept DEF CacheHit, At
  <2>2. IsPage(cache[req[r].url])
    BY <2>1, Standing DEF IInv, CacheInv
  <2>. QED  BY <2>1, <2>2, Answered
<1>2. CASE CacheMiss(r)
  <2>1. PICK at \in {"github", "fast"} :
            /\ \E todo : req' = [req EXCEPT ![r].at = at, ![r].todo = todo]
            /\ req[r].at = "cache" /\ UNCHANGED <<cache, hist>>
    BY <1>2 DEF CacheMiss, At
  <2>2. Trail(at, saw[r], failing[r])
    BY <2>1, Standing DEF Trail, Untried
  <2>. QED  BY <2>1, <2>2, Moved
<1>. QED  BY <1>1, <1>2

(* The sources ahead of the cascade.                                       *)
LEMMA SourceStep ==
    ASSUME IInv, NEW r \in Req, GithubTier(r) \/ FastPath(r)
    PROVE  Kept
<1>1. req[r].at \in {"github", "fast"} /\ UNCHANGED hist
  BY DEF GithubTier, FastPath, At
<1>2. CASE \E texts \in SUBSET Sizes : \E page \in OwnPages(r, texts) : StoreAndAnswer(r, page)
  BY <1>1, <1>2, Standing, SourcesHandPages, Stored
<1>3. CASE GithubTier(r) /\ Moves(r, "failed") /\ UNCHANGED <<cache, hist>>
  <2>1. PICK at \in {"failed"} : req' = [req EXCEPT ![r].at = at]
    BY <1>3 DEF Moves
  <2>2. Trail(at, saw[r], failing[r])
    BY <1>1, Standing DEF Trail, Untried
  <2>. QED  BY <1>1, <1>3, <2>1, <2>2, Moved
<1>4. CASE FastPath(r) /\ req' = [req EXCEPT ![r].todo = Tail(@)] /\ UNCHANGED cache
  <2>1. DOMAIN req = Req /\ DOMAIN req[r] = Fields
    BY DEF IInv, Good
  <2>. DEFINE q == [req[r] EXCEPT !.todo = Tail(req[r].todo)]
  <2>2. req' = [req EXCEPT ![r] = q]
    BY <1>4, <2>1
  <2>3. /\ DOMAIN q = Fields /\ q.at = req[r].at /\ q.url = req[r].url /\ q.want = req[r].want
        /\ q.challengeDetected = req[r].challengeDetected /\ q.page = req[r].page
    BY <2>1 DEF Fields
  <2>. HIDE DEF q
  <2>4. Good(q, saw[r], failing[r]) /\ Full(req[r], q)
    BY <1>1, <2>3 DEF IInv, Good, Full
  <2>. QED  BY <1>1, <1>4, <2>2, <2>4, CacheKept, QuietRequest
<1>. QED  BY <1>2, <1>3, <1>4 DEF GithubTier, FastPath

(* The robots gate, the routing, the resolution and the probe.             *)
LEMMA GateStep ==
    ASSUME IInv, NEW r \in Req,
           checkRobots(r) \/ getTiers(r) \/ assertResolvedPublic(r) \/ probeStructuredContent(r)
    PROVE  Kept
<1>1. req[r].at \in Untried /\ req[r].at # "idle" /\ UNCHANGED <<cache, hist>>
  BY DEF checkRobots, getTiers, assertResolvedPublic, probeStructuredContent, At, Untried
<1>2. \A at \in Untried \union {"cascade", "failed"} : Trail(at, saw[r], failing[r])
  BY <1>1, Standing DEF Trail, Untried
<1>3. CASE getTiers(r)
  <2>1. PICK at \in {"resolve"} : \E todo : req' = [req EXCEPT ![r].at = at, ![r].todo = todo]
    BY <1>3 DEF getTiers
  <2>2. Trail(at, saw[r], failing[r])
    BY <1>2 DEF Untried
  <2>. QED  BY <1>1, <2>1, <2>2, Moved DEF Untried
<1>4. CASE ~getTiers(r)
  <2>1. PICK at \in {"routing", "probe", "structured", "cascade", "failed"} : req' = [req EXCEPT ![r].at = at]
    BY <1>4 DEF checkRobots, assertResolvedPublic, probeStructuredContent, Moves
  <2>2. Trail(at, saw[r], failing[r])
    BY <1>2 DEF Untried
  <2>. QED  BY <1>1, <2>1, <2>2, Moved DEF Untried
<1>. QED  BY <1>3, <1>4

(* The structured probe's own fetch and the cascade's next tier.           *)
LEMMA TierStep ==
    ASSUME IInv, NEW r \in Req, Structured(r) \/ RunTier(r)
    PROVE  Kept
<1>1. req[r].at \in {"structured", "cascade"}
  BY DEF Structured, RunTier, At
<1>2. \A c \in BOOLEAN : Trail("cascade", saw[r] \/ c, failing[r] \union {"cascade"})
  BY <1>1, Standing DEF Trail, Untried
<1>3. CASE \E source : \E page \in PagesFor(r, source) : TierHits(r, page)
  BY <1>1, <1>3, Standing, SourcesHandPages, TierHitsStep
<1>4. CASE UNCHANGED hist /\ \E source : \E page \in PagesFor(r, source) : StoreAndAnswer(r, page)
  BY <1>1, <1>4, Standing, SourcesHandPages, Stored
<1>5. CASE \E source, todo : TierFails(r, source, "cascade", "cascade", todo) \/ TierIsChallenged(r, "cascade", "cascade", todo)
  <2>1. PICK todo : \/ Misses(r, "cascade", "cascade", todo, FALSE)
                   \/ Misses(r, "cascade", "cascade", todo, TRUE)
    BY <1>5 DEF TierFails, TierIsChallenged
  <2>2. PICK c \in BOOLEAN : Misses(r, "cascade", "cascade", todo, c)
    BY <2>1
  <2>3. Trail("cascade", saw[r] \/ c, failing[r] \union {"cascade"})
    BY <1>2
  <2>. QED  BY <1>1, <2>2, <2>3, MissesStep
<1>. QED  BY <1>3, <1>4, <1>5 DEF Structured, RunTier

(* The sources behind the cascade.                                         *)
LEMMA LastResortStep ==
    ASSUME IInv, NEW r \in Req, Exhausted(r) \/ Solver(r) \/ Wayback(r)
    PROVE  Kept
<1>1. CASE Exhausted(r)
  <2>1. /\ req[r].at = "cascade" /\ UNCHANGED <<cache, hist>>
        /\ Moves(r, IF req[r].challengeDetected THEN "solver" ELSE "wayback")
    BY <1>1 DEF Exhausted, At
  <2>2. PICK at \in {"solver", "wayback"} : Moves(r, at) /\ (at = "solver" <=> saw[r] = TRUE)
    BY <2>1, Standing DEF Trail
  <2>3. Trail(at, saw[r], failing[r])
    BY <2>1, <2>2, Standing DEF Trail, Untried
  <2>. QED  BY <2>1, <2>2, <2>3, Moved DEF Moves
<1>2. CASE Solver(r)
  <2>1. req[r].at = "solver"
    BY <1>2 DEF Solver, At
  <2>2. \A at \in {"wayback"} : \A tier \in {"solver_byparr"} : Trail(at, saw[r] \/ FALSE, failing[r] \union {tier})
    BY <2>1, Standing DEF Trail, Untried
  <2>3. CASE \E source : \E page \in PagesFor(r, source) : TierHits(r, page)
    BY <2>1, <2>3, Standing, SourcesHandPages, TierHitsStep
  <2>4. CASE Misses(r, "solver_byparr", "wayback", <<>>, FALSE)
    <3>1. PICK tier \in {"solver_byparr"}, at \in {"wayback"}, c \in {FALSE} : Misses(r, tier, at, <<>>, c)
      BY <2>4
    <3>2. Trail(at, saw[r] \/ c, failing[r] \union {tier})
      BY <2>2
    <3>. QED  BY <2>1, <3>1, <3>2, MissesStep
  <2>. QED  BY <1>2, <2>3, <2>4 DEF Solver, TierFails
<1>3. CASE Wayback(r)
  <2>1. req[r].at = "wayback"
    BY <1>3 DEF Wayback, At
  <2>2. \A at \in {"failed"} : \A tier \in {"tier4_wayback"} : Trail(at, saw[r] \/ FALSE, failing[r] \union {tier})
    BY <2>1, Standing DEF Trail, Untried
  <2>3. CASE \E source : \E page \in PagesFor(r, source) : TierHits(r, page)
    BY <2>1, <2>3, Standing, SourcesHandPages, TierHitsStep
  <2>4. CASE Misses(r, "tier4_wayback", "failed", <<>>, FALSE)
    <3>1. PICK tier \in {"tier4_wayback"}, at \in {"failed"}, c \in {FALSE} : Misses(r, tier, at, <<>>, c)
      BY <2>4
    <3>2. Trail(at, saw[r] \/ c, failing[r] \union {tier})
      BY <2>2
    <3>. QED  BY <2>1, <3>1, <3>2, MissesStep
  <2>5. CASE ~WaybackEnabled /\ Refuses(r)
    <3>1. PICK at \in {"failed"} : req' = [req EXCEPT ![r].at = at] /\ UNCHANGED <<cache, hist>>
      BY <2>5 DEF Refuses, Moves
    <3>2. Trail(at, saw[r], failing[r])
      BY <2>1, <2>5, Standing DEF Trail, Untried
    <3>. QED  BY <2>1, <3>1, <3>2, Moved
  <2>. QED  BY <1>3, <2>3, <2>4, <2>5 DEF Wayback, TierFails
<1>. QED  BY <1>1, <1>2, <1>3

(* The extraction keeps the page, or puts an article of it in its place.   *)
LEMMA PostExtractStep ==
    ASSUME IInv, NEW r \in Req, PostExtract(r)
    PROVE  Kept
<1>1. req[r].at = "post" /\ UNCHANGED hist
  BY DEF PostExtract, At
<1>2. CASE StoreAndAnswer(r, req[r].page)
  BY <1>1, <1>2, Standing, Stored
<1>3. ASSUME NEW text \in Sizes, NEW narrowed, StoreAndAnswer(r, Extract(r, "page", text, narrowed))
      PROVE  Kept
  <2>. DEFINE page == Extract(r, "page", text, narrowed)
  <2>1. StoreAndAnswer(r, page) /\ page = Extract(r, "page", text, narrowed)
    BY <1>3
  <2>. HIDE DEF page
  <2>2. text \in Nat /\ req[r].want \in Want
    BY <1>1, FetchAssumption, Standing
  <2>3. IsPage(page) /\ page.len = Held(req[r], page.text)
    BY <2>1, <2>2, Extracted
  <2>. QED  BY <1>1, <2>1, <2>3, Stored
<1>. QED  BY <1>2, <1>3 DEF PostExtract

(* An entry expires, or nothing changes.                                   *)
LEMMA OthersStep ==
    ASSUME IInv, (\E u \in Url : Expire(u)) \/ UNCHANGED vars
    PROVE  Kept
<1>1. UNCHANGED <<req, saw, failing>>
  BY DEF Expire, vars, hist
<1>2. CacheInv'
  BY DEF IInv, CacheInv, Expire, vars, IsPage
<1>3. IInv'
  BY <1>1, <1>2 DEF IInv, Good, Trail, IsPage, Held
<1>4. \A r \in Req : Full(req[r], req'[r])
  BY <1>1 DEF Full
<1>. QED  BY <1>3, <1>4 DEF Kept

-----------------------------------------------------------------------------
(* All the steps together.                                                 *)
LEMMA StepKeeps == IInv /\ [Next]_vars => Kept
<1>. SUFFICES ASSUME IInv, [Next]_vars PROVE Kept
  OBVIOUS
<1>1. ASSUME NEW r \in Req, Step(r) PROVE Kept
  BY <1>1, LookupStep, SourceStep, GateStep, TierStep, LastResortStep, PostExtractStep DEF Step
<1>. QED  BY <1>1, BeginReturnStep, OthersStep DEF Next

(* The invariant the theorems below rest on.                               *)
THEOREM FetchInvariant == Spec => []IInv
<1>1. IInv /\ [Next]_vars => IInv'
  BY StepKeeps DEF Kept
<1>. QED  BY <1>1, InitIInv, PTL DEF Spec

(* The solver serves only a request that met a challenge itself, however   *)
(* many requests are under way beside it.                                  *)
THEOREM SolverAlwaysForOwnChallenge == Spec => []SolverOnlyForOwnChallenge
<1>1. IInv => SolverOnlyForOwnChallenge
  BY DEF IInv, Good, Trail, SolverOnlyForOwnChallenge, At
<1>. QED  BY <1>1, FetchInvariant, PTL

(* No page that carries a known marker is ever cached or served, for any   *)
(* bodies, texts and statuses that the sources are answered with, and for  *)
(* either version of Firecrawl.                                            *)
THEOREM KnownInterstitialsAreNeverServed == Spec => []NoKnownInterstitialIsServed
<1>1. IInv => NoKnownInterstitialIsServed
  BY DEF IInv, CacheInv, Good, IsPage, NoKnownInterstitialIsServed
<1>. QED  BY <1>1, FetchInvariant, PTL

(* A request gives up after the archive, and after the solver if it met a  *)
(* challenge.                                                              *)
THEOREM AlwaysGivesUpLast == Spec => []GivesUpLast
<1>1. IInv => GivesUpLast
  BY DEF IInv, Good, Trail, GivesUpLast, At
<1>. QED  BY <1>1, FetchInvariant, PTL

(* A request that fetched its page itself answers with as much of its text *)
(* as was asked for, up to the ceiling, for any sizes of text and request. *)
THEOREM AlwaysFetchedInFull == Spec => FetchedInFull
<1>1. Kept => \A r \in Req :
          (req[r].at \notin {"cache", "answered"} /\ req'[r].at = "answered")
             => req'[r].page.len = Lesser(req'[r].page.text, Lesser(req[r].want, Ceiling))
  BY DEF Kept, Full
<1>2. IInv /\ [Next]_vars => [\A r \in Req :
          (req[r].at \notin {"cache", "answered"} /\ req'[r].at = "answered")
             => req'[r].page.len = Lesser(req'[r].page.text, Lesser(req[r].want, Ceiling))]_vars
  BY <1>1, StepKeeps
<1>. QED  BY <1>2, FetchInvariant, PTL DEF Spec, FetchedInFull

-----------------------------------------------------------------------------
(* llms-full.txt.                                                          *)

Doc == [size : Nat, age : Nat]
Entry == [origin : Origin, doc : Doc, left : Nat]

-----------------------------------------------------------------------------
(* Bytes, of entries that fit.                                             *)

Fits(entries) == entries \in Seq(Entry) /\ \A i \in DOMAIN entries : entries[i].doc.size <= L1Max

(* The bytes at some of the places. *)
BytesAt(entries, K) == {p \in BytesOf(entries) : p[1] \in K}

(* The bytes of some entries can be counted.                               *)
LEMMA BytesAreFinite ==
    ASSUME NEW s, Fits(s)
    PROVE  /\ IsFiniteSet(BytesOf(s)) /\ Bytes(s) \in Nat
           /\ \A p : p \in BytesOf(s) <=> \E i \in DOMAIN s : \E b \in 1..s[i].doc.size : p = <<i, b>>
<1>. DEFINE n == Len(s)
<1>1. s \in Seq(Entry) /\ n \in Nat /\ DOMAIN s = 1..n /\ L1Max \in Nat
  BY LlmsAssumption DEF Fits, L1Max
<1>2. \A i \in DOMAIN s : s[i].doc.size \in Nat /\ s[i].doc.size <= L1Max
  <2>1. \A i \in DOMAIN s : s[i] \in Entry
    BY <1>1
  <2>. QED  BY <2>1 DEF Fits, Entry, Doc
<1>3. \A p : p \in BytesOf(s) <=> \E i \in DOMAIN s : \E b \in 1..s[i].doc.size : p = <<i, b>>
  BY DEF BytesOf
<1>4. IsFiniteSet((1..n) \X (1..L1Max))
  <2>1. IsFiniteSet(1..n) /\ IsFiniteSet(1..L1Max)
    BY <1>1, FS_Interval
  <2>. QED  BY <2>1, FS_Product
<1>. HIDE DEF n
<1>5. BytesOf(s) \in SUBSET ((1..n) \X (1..L1Max))
  <2>. SUFFICES ASSUME NEW p \in BytesOf(s) PROVE p \in (1..n) \X (1..L1Max)
    OBVIOUS
  <2>1. PICK i \in DOMAIN s : \E b \in 1..s[i].doc.size : p = <<i, b>>
    BY <1>3
  <2>2. PICK b \in 1..s[i].doc.size : p = <<i, b>>
    BY <2>1
  <2>3. b \in 1..L1Max /\ i \in 1..n
    BY <1>1, <1>2
  <2>. QED  BY <2>2, <2>3
<1>6. IsFiniteSet(BytesOf(s))
  BY <1>4, <1>5, FS_Subset
<1>. QED  BY <1>3, <1>6, FS_CardinalityType DEF Bytes

(* What is at some places and what is at the others make up the whole.     *)
LEMMA BytesSplit ==
    ASSUME NEW s, Fits(s), NEW K, NEW J, K \union J = DOMAIN s, K \intersect J = {}
    PROVE  /\ IsFiniteSet(BytesAt(s, K)) /\ Cardinality(BytesAt(s, K)) \in Nat
           /\ Bytes(s) = Cardinality(BytesAt(s, K)) + Cardinality(BytesAt(s, J))
<1>1. IsFiniteSet(BytesOf(s))
  BY BytesAreFinite
<1>2. \A p \in BytesOf(s) : p[1] \in DOMAIN s
  BY BytesAreFinite
<1>3. /\ BytesAt(s, K) \union BytesAt(s, J) = BytesOf(s)
      /\ BytesAt(s, K) \intersect BytesAt(s, J) = {}
      /\ BytesAt(s, K) \in SUBSET BytesOf(s) /\ BytesAt(s, J) \in SUBSET BytesOf(s)
  BY <1>2 DEF BytesAt
<1>4. IsFiniteSet(BytesAt(s, K)) /\ IsFiniteSet(BytesAt(s, J))
  BY <1>1, <1>3, FS_Subset
<1>5. Cardinality(BytesAt(s, K)) \in Nat /\ Cardinality(BytesAt(s, J)) \in Nat
  BY <1>4, FS_CardinalityType
<1>6. Cardinality(BytesAt(s, K) \union BytesAt(s, J))
        = Cardinality(BytesAt(s, K)) + Cardinality(BytesAt(s, J))
          - Cardinality(BytesAt(s, K) \intersect BytesAt(s, J))
  BY <1>4, FS_Union
<1>7. Cardinality({}) = 0
  BY FS_EmptySet
<1>8. Bytes(s) = Cardinality(BytesAt(s, K)) + Cardinality(BytesAt(s, J)) - 0
  BY <1>3, <1>6, <1>7 DEF Bytes
<1>. QED  BY <1>4, <1>5, <1>8

(* The same entries at other places are as many bytes.                     *)
LEMMA BytesMoved ==
    ASSUME NEW s, Fits(s), NEW t, Fits(t), NEW K \in SUBSET DOMAIN s,
           NEW g, g \in Bijection(DOMAIN t, K),
           \A i \in DOMAIN t : t[i].doc.size = s[g[i]].doc.size
    PROVE  Bytes(t) = Cardinality(BytesAt(s, K))
<1>. DEFINE h == [p \in BytesOf(t) |-> <<g[p[1]], p[2]>>]
<1>1. /\ g \in [DOMAIN t -> K] /\ \A i, j \in DOMAIN t : g[i] = g[j] => i = j
      /\ \A k \in K : \E i \in DOMAIN t : g[i] = k
  BY DEF Bijection, Injection, Surjection, IsInjective
<1>2. \A p : p \in BytesOf(t) <=> \E i \in DOMAIN t : \E b \in 1..t[i].doc.size : p = <<i, b>>
  BY BytesAreFinite
<1>3. \A p : p \in BytesAt(s, K) <=> \E k \in K : \E b \in 1..s[k].doc.size : p = <<k, b>>
  <2>1. \A p : p \in BytesOf(s) <=> \E i \in DOMAIN s : \E b \in 1..s[i].doc.size : p = <<i, b>>
    BY BytesAreFinite
  <2>. QED  BY <2>1 DEF BytesAt
<1>4. \A p \in BytesOf(t) : /\ p[1] \in DOMAIN t /\ p = <<p[1], p[2]>>
                            /\ p[2] \in 1..t[p[1]].doc.size
  BY <1>2
<1>5. \A p \in BytesOf(t) : h[p] \in BytesAt(s, K)
  <2>. TAKE p \in BytesOf(t)
  <2>1. g[p[1]] \in K /\ p[2] \in 1..s[g[p[1]]].doc.size
    BY <1>1, <1>4
  <2>. QED  BY <1>3, <2>1
<1>6. \A p, q \in BytesOf(t) : h[p] = h[q] => p = q
  <2>. SUFFICES ASSUME NEW p \in BytesOf(t), NEW q \in BytesOf(t), h[p] = h[q] PROVE p = q
    OBVIOUS
  <2>1. g[p[1]] = g[q[1]] /\ p[2] = q[2]
    OBVIOUS
  <2>. QED  BY <1>1, <1>4, <2>1
<1>7. \A x \in BytesAt(s, K) : \E p \in BytesOf(t) : h[p] = x
  <2>. TAKE x \in BytesAt(s, K)
  <2>1. PICK k \in K : \E b \in 1..s[k].doc.size : x = <<k, b>>
    BY <1>3
  <2>2. PICK b \in 1..s[k].doc.size : x = <<k, b>>
    BY <2>1
  <2>3. PICK i \in DOMAIN t : g[i] = k
    BY <1>1
  <2>4. <<i, b>> \in BytesOf(t)
    BY <1>2, <2>2, <2>3
  <2>5. h[<<i, b>>] = x
    BY <2>2, <2>3, <2>4
  <2>. QED  BY <2>4, <2>5
<1>8. h \in [BytesOf(t) -> BytesAt(s, K)]
  BY <1>5
<1>. HIDE DEF h
<1>9. h \in Bijection(BytesOf(t), BytesAt(s, K))
  BY <1>6, <1>7, <1>8 DEF Bijection, Injection, Surjection, IsInjective
<1>10. IsFiniteSet(BytesOf(t))
  BY BytesAreFinite
<1>. QED  BY <1>9, <1>10, FS_Bijection DEF Bytes, ExistsBijection

(* The size of 1..n.                                                       *)
LEMMA HowMany == ASSUME NEW n \in Nat PROVE IsFiniteSet(1..n) /\ Cardinality(1..n) = n
<1>1. 1 \in Int /\ n \in Int
  OBVIOUS
<1>. QED  BY <1>1, FS_Interval

(* No entries, no bytes.                                                   *)
LEMMA EmptyBytes == Fits(<<>>) /\ Bytes(<<>>) = 0
<1>1. DOMAIN <<>> = {} /\ <<>> \in Seq(Entry)
  OBVIOUS
<1>2. BytesOf(<<>>) = {}
  BY <1>1 DEF BytesOf
<1>. QED  BY <1>1, <1>2, FS_EmptySet DEF Fits, Bytes

(* An entry of its own is as many bytes as its document.                   *)
LEMMA AppendBytes ==
    ASSUME NEW s, Fits(s), NEW e \in Entry, e.doc.size <= L1Max, NEW t, t = Append(s, e)
    PROVE  Fits(t) /\ Bytes(t) = Bytes(s) + e.doc.size
<1>. DEFINE n == Len(s)
            K == 1..n
            J == {n + 1}
            size == e.doc.size
<1>1. Fits(s)
  OBVIOUS
<1>2. s \in Seq(Entry) /\ n \in Nat /\ DOMAIN s = 1..n /\ size \in Nat
  BY DEF Fits, Entry, Doc
<1>3. /\ t \in Seq(Entry) /\ DOMAIN t = 1..n + 1 /\ t[n + 1] = e
      /\ \A i \in 1..n : t[i] = s[i]
      /\ \A i \in 1..n + 1 : i = n + 1 \/ i \in 1..n
  BY <1>2
<1>. HIDE DEF n
<1>4. Fits(t)
  BY <1>2, <1>3 DEF Fits
<1>5. K \union J = DOMAIN t /\ K \intersect J = {}
  BY <1>2, <1>3
<1>6. Bytes(t) = Cardinality(BytesAt(t, K)) + Cardinality(BytesAt(t, J))
  <2>. HIDE DEF K, J
  <2>. QED  BY <1>4, <1>5, BytesSplit
<1>7. Bytes(s) = Cardinality(BytesAt(t, K))
  <2>. DEFINE g == [i \in DOMAIN s |-> i]
  <2>1. g \in Bijection(DOMAIN s, K)
    BY <1>2 DEF Bijection, Injection, Surjection, IsInjective
  <2>2. \A i \in DOMAIN s : s[i].doc.size = t[g[i]].doc.size
    BY <1>2, <1>3
  <2>3. K \in SUBSET DOMAIN t
    BY <1>5
  <2>. HIDE DEF K, g
  <2>. QED  BY ONLY <1>1, <1>4, <2>1, <2>2, <2>3, BytesMoved
<1>8. Cardinality(BytesAt(t, J)) = size
  <2>. DEFINE h == [b \in 1..size |-> <<n + 1, b>>]
  <2>1. \A p : p \in BytesOf(t) <=> \E i \in DOMAIN t : \E b \in 1..t[i].doc.size : p = <<i, b>>
    BY ONLY <1>4, BytesAreFinite
  <2>2. \A p : p \in BytesAt(t, J) <=> \E b \in 1..size : p = <<n + 1, b>>
    <3>1. n + 1 \in DOMAIN t
      BY <1>2, <1>3
    <3>. QED  BY <1>3, <2>1, <3>1 DEF BytesAt
  <2>. HIDE DEF size, J
  <2>3. h \in Bijection(1..size, BytesAt(t, J))
    BY <2>2 DEF Bijection, Injection, Surjection, IsInjective
  <2>4. IsFiniteSet(1..size) /\ Cardinality(1..size) = size
    BY <1>2, HowMany
  <2>. HIDE DEF h
  <2>. QED  BY <2>3, <2>4, FS_Bijection DEF ExistsBijection
<1>. QED  BY <1>4, <1>6, <1>7, <1>8

(* The first n entries and the rest of them make up the whole.             *)
LEMMA SubSeqBytes ==
    ASSUME NEW s, Fits(s), NEW n \in 0..Len(s),
           NEW u \in Seq(Entry), DOMAIN u = 1..n, \A i \in 1..n : u[i] = s[i],
           NEW v \in Seq(Entry), DOMAIN v = 1..Len(s) - n,
           \A i \in 1..Len(s) - n : v[i] = s[i + n]
    PROVE  /\ Fits(u) /\ Fits(v) /\ Bytes(s) = Bytes(u) + Bytes(v)
           /\ \A i \in DOMAIN v : i + n \in DOMAIN s /\ v[i] = s[i + n]
<1>. DEFINE m == Len(s)
            K == 1..n
            J == n + 1..m
<1>1. Fits(s)
  OBVIOUS
<1>2. s \in Seq(Entry) /\ m \in Nat /\ n \in Nat /\ n <= m /\ DOMAIN s = 1..m
  BY DEF Fits
<1>3. /\ u \in Seq(Entry) /\ DOMAIN u = 1..n /\ \A i \in 1..n : u[i] = s[i] /\ i \in 1..m
  BY <1>2
<1>4. /\ v \in Seq(Entry) /\ DOMAIN v = 1..m - n
      /\ \A i \in 1..m - n : v[i] = s[i + n] /\ i + n \in 1..m
  BY <1>2
<1>5. Fits(u) /\ Fits(v)
  BY <1>2, <1>3, <1>4 DEF Fits
<1>. HIDE DEF m
<1>6. K \union J = DOMAIN s /\ K \intersect J = {}
  BY <1>2
<1>7. Bytes(s) = Cardinality(BytesAt(s, K)) + Cardinality(BytesAt(s, J))
  <2>. HIDE DEF K, J
  <2>. QED  BY <1>6, BytesSplit
<1>8. Bytes(u) = Cardinality(BytesAt(s, K))
  <2>. DEFINE g == [i \in DOMAIN u |-> i]
  <2>1. g \in Bijection(DOMAIN u, K)
    BY <1>3 DEF Bijection, Injection, Surjection, IsInjective
  <2>2. \A i \in DOMAIN u : u[i].doc.size = s[g[i]].doc.size
    BY <1>3
  <2>3. K \in SUBSET DOMAIN s
    BY <1>6
  <2>. HIDE DEF K, g
  <2>. QED  BY ONLY <1>1, <1>5, <2>1, <2>2, <2>3, BytesMoved
<1>9. Bytes(v) = Cardinality(BytesAt(s, J))
  <2>. DEFINE g == [i \in DOMAIN v |-> i + n]
  <2>1. g \in Bijection(DOMAIN v, J)
    <3>1. g \in [DOMAIN v -> J]
      BY <1>2, <1>4
    <3>2. \A i, j \in DOMAIN v : g[i] = g[j] => i = j
      BY <1>2, <1>4
    <3>3. \A k \in J : k - n \in DOMAIN v /\ g[k - n] = k
      BY <1>2, <1>4
    <3>. HIDE DEF g, J
    <3>. QED  BY <3>1, <3>2, <3>3 DEF Bijection, Injection, Surjection, IsInjective
  <2>2. \A i \in DOMAIN v : v[i].doc.size = s[g[i]].doc.size
    BY <1>4
  <2>3. J \in SUBSET DOMAIN s
    BY <1>6
  <2>. HIDE DEF J, g
  <2>. QED  BY ONLY <1>1, <1>5, <2>1, <2>2, <2>3, BytesMoved
<1>. QED  BY <1>2, <1>4, <1>5, <1>7, <1>8, <1>9 DEF m
-----------------------------------------------------------------------------
(* The L1 cache: what it counts, and how old what it holds may become.     *)

Apart(entries) == \A i, j \in DOMAIN entries : entries[i].origin = entries[j].origin => i = j
Fresh(entry) == entry.left > 0 => entry.doc.age + entry.left < BodyTtl + PresentTtl

Counted(entries, total) ==
    /\ Fits(entries) /\ Apart(entries)
    /\ total = Bytes(entries) /\ total <= L1Max
    /\ \A i \in DOMAIN entries : Fresh(entries[i])

(* The entries of the other origins, and what they hold.                   *)
LEMMA Others ==
    ASSUME Counted(bodyCache, totalBytes), NEW o \in Origin
    PROVE  /\ Fits(OthersOf(o)) /\ Bytes(OthersOf(o)) = Without(o) /\ Without(o) \in Nat
           /\ Without(o) <= totalBytes /\ Apart(OthersOf(o))
           /\ \A i \in DOMAIN OthersOf(o) : /\ OthersOf(o)[i].origin # o
                                            /\ Fresh(OthersOf(o)[i])
<1>. DEFINE s == bodyCache
            K == {i \in DOMAIN s : s[i].origin # o}
            J == {i \in DOMAIN s : s[i].origin = o}
            t == OthersOf(o)
            u == Of(o)
<1>1. /\ Fits(s) /\ s \in Seq(Entry) /\ totalBytes = Bytes(s)
      /\ \A i \in DOMAIN s : s[i].doc.size <= L1Max /\ Fresh(s[i])
  BY DEF Counted, Fits
<1>2. K \in SUBSET DOMAIN s /\ J \in SUBSET DOMAIN s
  OBVIOUS
<1>3. t = Filter(s, K) /\ u = Filter(s, J)
  BY DEF OthersOf, Of
<1>4. K \union J = DOMAIN s /\ K \intersect J = {}
  OBVIOUS
<1>5. \A k \in K : k \in DOMAIN s /\ s[k].origin # o
  OBVIOUS
<1>. HIDE DEF K, J, t, u
<1>6. t \in Seq(Entry) /\ u \in Seq(Entry)
  BY <1>1, <1>2, <1>3, FilterFacts
<1>7. PICK g \in Bijection(DOMAIN t, K) : \A k \in DOMAIN t : t[k] = s[g[k]]
  BY <1>1, <1>2, <1>3, FilterPlaces
<1>8. PICK h \in Bijection(DOMAIN u, J) : \A k \in DOMAIN u : u[k] = s[h[k]]
  BY <1>1, <1>2, <1>3, FilterPlaces
<1>9. /\ \A k \in DOMAIN t : g[k] \in K
      /\ \A k, l \in DOMAIN t : g[k] = g[l] => k = l
  BY <1>7 DEF Bijection, Injection, Surjection, IsInjective
<1>10. \A k \in DOMAIN u : h[k] \in J
  BY <1>8 DEF Bijection, Surjection
<1>11. Fits(t)
  BY <1>1, <1>2, <1>6, <1>7, <1>9 DEF Fits
<1>12. Fits(u)
  BY <1>1, <1>2, <1>6, <1>8, <1>10 DEF Fits
<1>13. Bytes(t) = Cardinality(BytesAt(s, K))
  <2>1. \A k \in DOMAIN t : t[k].doc.size = s[g[k]].doc.size
    BY <1>7
  <2>2. g \in Bijection(DOMAIN t, K)
    BY <1>7
  <2>. QED  BY ONLY <1>1, <1>2, <1>11, <2>1, <2>2, BytesMoved
<1>14. Bytes(u) = Cardinality(BytesAt(s, J))
  <2>1. \A k \in DOMAIN u : u[k].doc.size = s[h[k]].doc.size
    BY <1>8
  <2>2. h \in Bijection(DOMAIN u, J)
    BY <1>8
  <2>. QED  BY ONLY <1>1, <1>2, <1>12, <2>1, <2>2, BytesMoved
<1>15. /\ Bytes(s) = Cardinality(BytesAt(s, K)) + Cardinality(BytesAt(s, J))
  BY ONLY <1>1, <1>4, BytesSplit
<1>16. Bytes(t) \in Nat /\ Bytes(u) \in Nat
  BY <1>11, <1>12, BytesAreFinite
<1>17. Without(o) = totalBytes - Bytes(u)
  BY DEF Without, u
<1>18. Without(o) = Bytes(t) /\ Without(o) <= totalBytes
  BY <1>1, <1>13, <1>14, <1>15, <1>16, <1>17
<1>19. Apart(t)
  <2>. SUFFICES ASSUME NEW i \in DOMAIN t, NEW j \in DOMAIN t, t[i].origin = t[j].origin
                PROVE  i = j
    BY DEF Apart
  <2>1. g[i] \in DOMAIN s /\ g[j] \in DOMAIN s /\ s[g[i]].origin = s[g[j]].origin
    BY <1>2, <1>7, <1>9
  <2>2. g[i] = g[j]
    BY <2>1 DEF Counted, Apart
  <2>. QED  BY <1>9, <2>2
<1>20. \A i \in DOMAIN t : t[i].origin # o /\ Fresh(t[i])
  BY <1>1, <1>5, <1>7, <1>9
<1>. QED  BY <1>11, <1>16, <1>18, <1>19, <1>20 DEF t

(* What l1Set leaves of the cache, for a document that is fresh enough.    *)
LEMMA SetKeeps ==
    ASSUME Counted(bodyCache, totalBytes), NEW o \in Origin, NEW doc \in Doc,
           doc.age < BodyTtl, l1Set(o, doc)
    PROVE  Counted(bodyCache', totalBytes')
<1>1. L1Max \in Nat /\ doc.size \in Nat /\ doc.age \in Nat /\ {BodyTtl, PresentTtl} \subseteq Nat \ {0}
  BY LlmsAssumption DEF L1Max, Doc
<1>2. CASE doc.size > L1Max
  BY <1>1, <1>2 DEF l1Set
<1>3. CASE ~(doc.size > L1Max)
  <2>. DEFINE others == OthersOf(o)
              e == [origin |-> o, doc |-> doc, left |-> PresentTtl]
  <2>1. /\ Fits(others) /\ Bytes(others) = Without(o) /\ Without(o) \in Nat
        /\ Without(o) <= totalBytes /\ Apart(others)
        /\ \A i \in DOMAIN others : others[i].origin # o /\ Fresh(others[i])
    BY Others
  <2>2. Evictions(others, Without(o), doc.size) \in 0..Len(others)
    <3>. DEFINE Enough(k) == \/ Without(o) - Bytes(SubSeq(others, 1, k)) + doc.size <= L1Max
                             \/ k = Len(others)
                S == {k \in 0..Len(others) : Enough(k)}
    <3>1. Len(others) \in Nat
      BY <2>1 DEF Fits
    <3>2. Len(others) \in S /\ S \in SUBSET Nat
      BY <3>1
    <3>3. PICK m \in S : \A k \in S : m <= k
      <4>1. S \in SUBSET Nat /\ S # {}
        BY <3>2
      <4>. HIDE DEF S
      <4>. QED  BY <4>1, LeastExists
    <3>4. m \in 0..Len(others) /\ Enough(m) /\ \A k \in 0..m - 1 : ~Enough(k)
      <4>1. m \in 0..Len(others) /\ Enough(m)
        OBVIOUS
      <4>2. \A k \in 0..m - 1 : k \in 0..Len(others) /\ ~(m <= k)
        BY <3>1, <4>1
      <4>3. \A k \in 0..m - 1 : k \notin S
        BY <3>3, <4>2
      <4>. HIDE DEF Enough
      <4>. QED  BY <4>1, <4>2, <4>3
    <3>. HIDE DEF others, S
    <3>. QED  BY <3>4 DEF Evictions
  <2>3. PICK n \in 0..Len(others) : n = Evictions(others, Without(o), doc.size)
    BY <2>2
  <2>4. PICK u : u = SubSeq(others, 1, n)
    OBVIOUS
  <2>5. PICK rest : rest = SubSeq(others, n + 1, Len(others))
    OBVIOUS
  <2>. DEFINE left == Without(o) - Bytes(u)
  <2>6. /\ (left + doc.size <= L1Max => /\ bodyCache' = Append(rest, e)
                                        /\ totalBytes' = left + doc.size)
        /\ (~(left + doc.size <= L1Max) => bodyCache' = rest /\ totalBytes' = left)
    BY <1>3, <2>3, <2>4, <2>5 DEF l1Set
  <2>7. e \in Entry /\ e.doc = doc /\ e.origin = o /\ e.left = PresentTtl /\ Fresh(e)
    <3>1. e \in Entry /\ e.doc = doc /\ e.origin = o /\ e.left = PresentTtl
      BY <1>1 DEF Entry
    <3>. HIDE DEF e
    <3>. QED  BY <1>1, <3>1 DEF Fresh
  <2>. HIDE DEF others
  <2>8. /\ Fits(u) /\ Fits(rest) /\ Bytes(others) = Bytes(u) + Bytes(rest)
        /\ DOMAIN rest = 1..Len(others) - n
        /\ \A i \in DOMAIN rest : i + n \in DOMAIN others /\ rest[i] = others[i + n]
    <3>1. Fits(others) /\ others \in Seq(Entry) /\ Len(others) \in Nat /\ n \in 0..Len(others)
      BY <2>1, <2>3 DEF Fits
    <3>2. u \in Seq(Entry) /\ DOMAIN u = 1..n /\ \A i \in 1..n : u[i] = others[i]
      BY <2>4, <3>1
    <3>3. /\ rest \in Seq(Entry) /\ DOMAIN rest = 1..Len(others) - n
          /\ \A i \in 1..Len(others) - n : rest[i] = others[i + n]
      BY <2>5, <3>1
    <3>4. /\ Fits(u) /\ Fits(rest) /\ Bytes(others) = Bytes(u) + Bytes(rest)
          /\ \A i \in DOMAIN rest : i + n \in DOMAIN others /\ rest[i] = others[i + n]
      BY ONLY <3>1, <3>2, <3>3, SubSeqBytes
    <3>. QED  BY <3>3, <3>4
  <2>9. Bytes(u) \in Nat /\ Bytes(rest) \in Nat
    BY <2>8, BytesAreFinite
  <2>. HIDE DEF e
  <2>10. left = Bytes(rest) /\ left <= totalBytes /\ left \in Nat
    <3>1. totalBytes \in Nat
      BY BytesAreFinite DEF Counted
    <3>. QED  BY <2>1, <2>8, <2>9, <3>1
  <2>. HIDE DEF left
  <2>11. /\ Apart(rest) /\ \A i \in DOMAIN rest : rest[i].origin # o /\ Fresh(rest[i])
    <3>1. \A i \in DOMAIN rest : rest[i].origin # o /\ Fresh(rest[i])
      BY <2>1, <2>8
    <3>2. ASSUME NEW i \in DOMAIN rest, NEW j \in DOMAIN rest, rest[i].origin = rest[j].origin
          PROVE  i = j
      <4>1. i + n = j + n
        BY <2>1, <2>8, <3>2 DEF Apart
      <4>2. Len(others) \in Nat
        BY <2>1 DEF Fits
      <4>3. i \in Int /\ j \in Int /\ n \in Int
        BY <2>8, <4>2
      <4>. QED  BY <4>1, <4>3
    <3>. QED  BY <3>1, <3>2 DEF Apart
  <2>12. CASE ~(left + doc.size <= L1Max)
    <3>1. totalBytes <= L1Max /\ totalBytes \in Nat
      BY BytesAreFinite DEF Counted
    <3>2. left <= L1Max
      BY <1>1, <2>10, <3>1
    <3>3. Counted(rest, left)
      BY <2>8, <2>10, <2>11, <3>2 DEF Counted
    <3>4. bodyCache' = rest /\ totalBytes' = left
      BY <2>6, <2>12
    <3>. QED  BY <3>3, <3>4
  <2>13. CASE left + doc.size <= L1Max
    <3>. DEFINE c == Append(rest, e)
                k == Len(rest)
    <3>1. rest \in Seq(Entry) /\ k \in Nat /\ DOMAIN rest = 1..k
      BY <2>8 DEF Fits
    <3>2. /\ DOMAIN c = 1..k + 1 /\ c[k + 1] = e /\ \A i \in 1..k : c[i] = rest[i]
          /\ \A i \in 1..k + 1 : i = k + 1 \/ i \in 1..k
      BY <2>7, <3>1
    <3>3. e.doc.size <= L1Max
      BY <1>1, <1>3, <2>7
    <3>. HIDE DEF c, k
    <3>4. Fits(c) /\ Bytes(c) = left + doc.size
      BY <2>7, <2>8, <2>10, <3>3, AppendBytes DEF c
    <3>5. \A i \in DOMAIN c : Fresh(c[i])
      BY <2>7, <2>11, <3>1, <3>2
    <3>6. Apart(c)
      <4>. SUFFICES ASSUME NEW i \in DOMAIN c, NEW j \in DOMAIN c, c[i].origin = c[j].origin
                    PROVE  i = j
        BY DEF Apart
      <4>. QED  BY <2>7, <2>11, <3>1, <3>2 DEF Apart
    <3>7. bodyCache' = c /\ totalBytes' = left + doc.size
      BY <2>6, <2>13 DEF c
    <3>. QED  BY <2>13, <3>4, <3>5, <3>6, <3>7 DEF Counted
  <2>. QED  BY <2>12, <2>13
<1>. QED  BY <1>2, <1>3
Where == {"idle", "body", "flag", "fetching", "setflag", "setbody"}
LookupState == [at : Where, origin : Origin \union {NoLlms},
                answer : {"none", "present", "absent"}, doc : Doc]

(* What a lookup holds: nothing, or something new, until it ends.          *)
GoodLookup(q) ==
    /\ q \in LookupState
    /\ q.at # "idle" => q.origin \in Origin /\ q.doc.age = 0
    /\ q.answer = "present" => q.doc.age < BodyTtl + PresentTtl

(* What Valkey holds: younger than its TTL, by what is left of it.         *)
GoodBody(body) ==
    body # NoLlms => /\ body \in [doc : Doc, left : Nat \ {0}]
                     /\ body.doc.age + body.left <= BodyTtl

LlmsInv ==
    /\ DOMAIN lookup = Lookup /\ \A c \in Lookup : GoodLookup(lookup[c])
    /\ DOMAIN bodyKept = Origin /\ \A o \in Origin : GoodBody(bodyKept[o])
    /\ Counted(bodyCache, totalBytes)

(* What the constants are.                                                 *)
LEMMA Ttls == /\ BodyTtl \in Nat \ {0} /\ PresentTtl \in Nat \ {0} /\ L1Max \in Nat
              /\ DocSize \subseteq Nat /\ NoDocument \in Doc /\ NoDocument.age = 0
BY LlmsAssumption DEF L1Max, Doc, NoDocument

(* The invariant at the start.                                             *)
LEMMA LlmsInvInit == LlmsInit => LlmsInv
<1>. SUFFICES ASSUME LlmsInit PROVE LlmsInv
  OBVIOUS
<1>1. \A c \in Lookup : GoodLookup(lookup[c])
  BY Ttls DEF LlmsInit, GoodLookup, IdleLookup, LookupState, Where
<1>2. Counted(<<>>, 0)
  <2>1. DOMAIN <<>> = {}
    OBVIOUS
  <2>. QED  BY <2>1, EmptyBytes, Ttls DEF Counted, Apart
<1>. QED  BY <1>1, <1>2 DEF LlmsInit, LlmsInv, GoodBody

(* An answer that is fresh enough, or none.                                *)
LEMMA Ended ==
    ASSUME LlmsInv, NEW c \in Lookup, NEW answer \in {"none", "present", "absent"},
           NEW doc \in Doc, answer = "present" => doc.age < BodyTtl + PresentTtl,
           LookupEnds(c, answer, doc)
    PROVE  DOMAIN lookup' = Lookup /\ \A d \in Lookup : GoodLookup(lookup'[d])
<1>1. GoodLookup(IdleLookup(answer, doc))
  BY DEF GoodLookup, IdleLookup, LookupState, Where
<1>. QED  BY <1>1 DEF LlmsInv, LookupEnds

(* A lookup that goes on.                                                  *)
LEMMA GoesOn ==
    ASSUME LlmsInv, NEW c \in Lookup, NEW q, GoodLookup(q), lookup' = [lookup EXCEPT ![c] = q],
           UNCHANGED <<bodyKept, bodyCache, totalBytes>>
    PROVE  LlmsInv'
<1>1. DOMAIN lookup' = Lookup /\ \A d \in Lookup : GoodLookup(lookup'[d])
  BY DEF LlmsInv
<1>2. Counted(bodyCache', totalBytes') /\ DOMAIN bodyKept' = Origin
      /\ \A o \in Origin : GoodBody(bodyKept'[o])
  BY DEF LlmsInv
<1>. QED  BY <1>1, <1>2 DEF LlmsInv, Counted, Fits, Apart, Fresh, Bytes, BytesOf, GoodLookup, GoodBody

(* The parts of LlmsInv, each in its new state, are LlmsInv in it.         *)
LEMMA Parts ==
    ASSUME DOMAIN lookup' = Lookup, \A c \in Lookup : GoodLookup(lookup'[c]),
           DOMAIN bodyKept' = Origin, \A o \in Origin : GoodBody(bodyKept'[o]),
           Counted(bodyCache', totalBytes')
    PROVE  LlmsInv'
BY DEF LlmsInv, Counted, Fits, Apart, Fresh, Bytes, BytesOf, GoodLookup, GoodBody

(* A lookup begins, and ends at once where L1 has the document.            *)
LEMMA BeginStep ==
    ASSUME LlmsInv, NEW c \in Lookup, BeginLookup(c)
    PROVE  LlmsInv'
<1>1. PICK o \in Origin :
         IF L1Entry(o) # <<>> THEN LookupEnds(c, "present", L1Entry(o)[1].doc)
         ELSE lookup' = [lookup EXCEPT ![c] = [IdleLookup("none", NoDocument) EXCEPT
                                                  !.at = "body", !.origin = o]]
  BY DEF BeginLookup
<1>2. UNCHANGED <<bodyKept, bodyCache, totalBytes>>
  BY DEF BeginLookup
<1>3. CASE L1Entry(o) # <<>>
  <2>. DEFINE K == {i \in DOMAIN bodyCache : bodyCache[i].origin = o}
              e == L1Entry(o)[1]
  <2>1. Of(o) # <<>> /\ e = Of(o)[1] /\ e.left > 0
    BY <1>3 DEF L1Entry
  <2>2. bodyCache \in Seq(Entry) /\ \A i \in DOMAIN bodyCache : Fresh(bodyCache[i])
    BY DEF LlmsInv, Counted, Fits
  <2>3. Of(o) = Filter(bodyCache, K) /\ K \in SUBSET DOMAIN bodyCache
    BY DEF Of
  <2>. HIDE DEF K, e
  <2>4. Of(o) \in Seq(Entry) /\ \A k \in DOMAIN Of(o) : \E i \in K : Of(o)[k] = bodyCache[i]
    BY <2>2, <2>3, FilterFacts
  <2>5. 1 \in DOMAIN Of(o) /\ e \in Entry
    BY <2>1, <2>4
  <2>6. Fresh(e)
    BY <2>1, <2>2, <2>3, <2>4, <2>5
  <2>7. e.doc \in Doc /\ e.doc.age \in Nat /\ e.left \in Nat
    BY <2>5 DEF Entry, Doc
  <2>8. e.doc.age < BodyTtl + PresentTtl
    BY <2>1, <2>6, <2>7, Ttls DEF Fresh
  <2>9. LookupEnds(c, "present", e.doc)
    BY <1>1, <1>3 DEF e
  <2>10. DOMAIN lookup' = Lookup /\ \A d \in Lookup : GoodLookup(lookup'[d])
    BY <2>7, <2>8, <2>9, Ended
  <2>. QED  BY <1>2, <2>10, Parts DEF LlmsInv
<1>4. CASE ~(L1Entry(o) # <<>>)
  <2>. DEFINE q == [IdleLookup("none", NoDocument) EXCEPT !.at = "body", !.origin = o]
  <2>1. GoodLookup(q)
    BY Ttls DEF GoodLookup, IdleLookup, LookupState, Where
  <2>2. lookup' = [lookup EXCEPT ![c] = q]
    BY <1>1, <1>4
  <2>. HIDE DEF q
  <2>. QED  BY <1>2, <2>1, <2>2, GoesOn
<1>. QED  BY <1>3, <1>4

(* A lookup finds the document in the cache and puts it into L1.           *)
LEMMA BodyHitStep ==
    ASSUME LlmsInv, NEW c \in Lookup, BodyHit(c)
    PROVE  LlmsInv'
<1>. DEFINE o == Mine(c)
            doc == bodyKept[o].doc
<1>1. /\ lookup[c].at = "body" /\ bodyKept[o] # NoLlms /\ l1Set(o, doc)
      /\ LookupEnds(c, "present", doc) /\ UNCHANGED bodyKept
  BY DEF BodyHit, LookupAt
<1>2. o \in Origin
  BY <1>1 DEF LlmsInv, GoodLookup, Mine
<1>3. /\ bodyKept[o] \in [doc : Doc, left : Nat \ {0}]
      /\ bodyKept[o].doc.age + bodyKept[o].left <= BodyTtl
  BY <1>1, <1>2 DEF LlmsInv, GoodBody
<1>4. doc \in Doc /\ doc.age \in Nat /\ bodyKept[o].left \in Nat \ {0}
  BY <1>3 DEF Doc
<1>5. doc.age < BodyTtl /\ doc.age < BodyTtl + PresentTtl
  BY <1>3, <1>4, Ttls
<1>. HIDE DEF doc, o
<1>6. Counted(bodyCache', totalBytes')
  BY <1>1, <1>2, <1>4, <1>5, SetKeeps DEF LlmsInv
<1>7. DOMAIN lookup' = Lookup /\ \A d \in Lookup : GoodLookup(lookup'[d])
  BY <1>1, <1>4, <1>5, Ended
<1>. QED  BY <1>1, <1>6, <1>7, Parts DEF LlmsInv

(* A lookup that only moves on, or gives up, or has the site's answer.     *)
LEMMA MovesStep ==
    ASSUME LlmsInv, NEW c \in Lookup,
           BodyMiss(c) \/ KnownAbsent(c) \/ FlagMiss(c) \/ fetchLlmsFullTxt(c)
    PROVE  LlmsInv'
<1>1. GoodLookup(lookup[c]) /\ lookup[c] \in LookupState
  BY DEF LlmsInv, GoodLookup
<1>2. UNCHANGED <<bodyKept, bodyCache, totalBytes>>
  BY DEF BodyMiss, KnownAbsent, FlagMiss, fetchLlmsFullTxt
<1>3. CASE BodyMiss(c)
  <2>. DEFINE q == [lookup[c] EXCEPT !.at = "flag"]
  <2>1. GoodLookup(q)
    BY <1>1, <1>3 DEF GoodLookup, LookupState, Where, BodyMiss, LookupAt
  <2>2. lookup' = [lookup EXCEPT ![c] = q]
    BY <1>3 DEF BodyMiss, LookupGoes
  <2>. HIDE DEF q
  <2>. QED  BY <1>2, <2>1, <2>2, GoesOn
<1>4. CASE FlagMiss(c)
  <2>. DEFINE q == [lookup[c] EXCEPT !.at = "fetching"]
  <2>1. GoodLookup(q)
    BY <1>1, <1>4 DEF GoodLookup, LookupState, Where, FlagMiss, LookupAt
  <2>2. lookup' = [lookup EXCEPT ![c] = q]
    BY <1>4 DEF FlagMiss, LookupGoes
  <2>. HIDE DEF q
  <2>. QED  BY <1>2, <2>1, <2>2, GoesOn
<1>5. CASE KnownAbsent(c)
  <2>1. LookupEnds(c, "absent", NoDocument)
    BY <1>5 DEF KnownAbsent
  <2>2. DOMAIN lookup' = Lookup /\ \A d \in Lookup : GoodLookup(lookup'[d])
    BY <2>1, Ended, Ttls
  <2>. QED  BY <1>2, <2>2, Parts DEF LlmsInv
<1>6. CASE fetchLlmsFullTxt(c)
  <2>1. PICK answer \in {"present", "absent"}, doc \in Doc :
           /\ doc.age = 0
           /\ lookup' = [lookup EXCEPT ![c] = [lookup[c] EXCEPT !.at = "setflag",
                                                  !.answer = answer, !.doc = doc]]
    <3>1. CASE lookup' = [lookup EXCEPT ![c].at = "setflag", ![c].answer = "absent"]
      <4>1. lookup' = [lookup EXCEPT ![c] = [lookup[c] EXCEPT !.at = "setflag",
                          !.answer = "absent", !.doc = lookup[c].doc]]
        BY <1>1, <3>1 DEF LookupState, LlmsInv
      <4>2. lookup[c].doc \in Doc /\ lookup[c].doc.age = 0
        BY <1>1, <1>6 DEF LookupState, GoodLookup, fetchLlmsFullTxt, LookupAt
      <4>. QED  BY <4>1, <4>2
    <3>2. CASE \E size \in DocSize :
             lookup' = [lookup EXCEPT ![c].at = "setflag",
                          ![c].answer = IF Accepted(size) THEN "present" ELSE "absent",
                          ![c].doc = IF Accepted(size) THEN [size |-> size, age |-> 0]
                                                       ELSE NoDocument]
      <4>1. PICK size \in DocSize :
             lookup' = [lookup EXCEPT ![c].at = "setflag",
                          ![c].answer = IF Accepted(size) THEN "present" ELSE "absent",
                          ![c].doc = IF Accepted(size) THEN [size |-> size, age |-> 0]
                                                       ELSE NoDocument]
        BY <3>2
      <4>. DEFINE a == IF Accepted(size) THEN "present" ELSE "absent"
                  d == IF Accepted(size) THEN [size |-> size, age |-> 0] ELSE NoDocument
      <4>2. a \in {"present", "absent"} /\ d \in Doc /\ d.age = 0
        BY Ttls DEF Doc
      <4>3. lookup' = [lookup EXCEPT ![c] = [lookup[c] EXCEPT !.at = "setflag",
                          !.answer = a, !.doc = d]]
        BY <4>1 DEF LlmsInv
      <4>. HIDE DEF a, d
      <4>4. PICK answer \in {"present", "absent"} : answer = a
        BY <4>2
      <4>5. PICK doc \in Doc : doc = d
        BY <4>2
      <4>. QED  BY <4>2, <4>3, <4>4, <4>5
    <3>. QED  BY <1>6, <3>1, <3>2 DEF fetchLlmsFullTxt
  <2>. DEFINE q == [lookup[c] EXCEPT !.at = "setflag", !.answer = answer, !.doc = doc]
  <2>2. GoodLookup(q)
    <3>1. lookup[c].at = "fetching"
      BY <1>6 DEF fetchLlmsFullTxt, LookupAt
    <3>2. doc.age < BodyTtl + PresentTtl
      BY <2>1, Ttls
    <3>3. /\ q \in LookupState /\ q.origin = lookup[c].origin /\ q.doc = doc
      BY <1>1, <2>1 DEF LookupState, Where
    <3>. HIDE DEF q
    <3>. QED  BY <1>1, <2>1, <3>1, <3>2, <3>3 DEF GoodLookup
  <2>. HIDE DEF q
  <2>. QED  BY <1>2, <2>1, <2>2, GoesOn DEF q
<1>. QED  BY <1>3, <1>4, <1>5, <1>6
(* A lookup stores what it fetched.                                        *)
LEMMA StoreStep ==
    ASSUME LlmsInv, NEW c \in Lookup, SetFlag(c) \/ SetBody(c)
    PROVE  LlmsInv'
<1>1. /\ GoodLookup(lookup[c]) /\ lookup[c] \in LookupState /\ lookup[c].doc \in Doc
      /\ Counted(bodyCache, totalBytes)
  BY DEF LlmsInv, GoodLookup, LookupState
<1>2. CASE SetFlag(c)
  <2>1. UNCHANGED <<bodyKept, bodyCache, totalBytes>> /\ lookup[c].at = "setflag"
    BY <1>2 DEF SetFlag, LookupAt
  <2>2. CASE lookup[c].answer = "present" /\ LookupGoes(c, "setbody")
    <3>. DEFINE q == [lookup[c] EXCEPT !.at = "setbody"]
    <3>1. GoodLookup(q)
      BY <1>1, <2>1, <2>2 DEF GoodLookup, LookupState, Where
    <3>2. lookup' = [lookup EXCEPT ![c] = q]
      BY <2>2 DEF LookupGoes
    <3>. HIDE DEF q
    <3>. QED  BY <2>1, <3>1, <3>2, GoesOn
  <2>3. CASE LookupEnds(c, "absent", NoDocument)
    <3>1. DOMAIN lookup' = Lookup /\ \A d \in Lookup : GoodLookup(lookup'[d])
      BY <2>3, Ended, Ttls
    <3>. QED  BY <2>1, <3>1, Parts DEF LlmsInv
  <2>. QED  BY <1>2, <2>2, <2>3 DEF SetFlag
<1>3. CASE SetBody(c)
  <2>. DEFINE o == Mine(c)
              doc == lookup[c].doc
  <2>1. /\ lookup[c].at = "setbody" /\ l1Set(o, doc) /\ LookupEnds(c, "present", doc)
        /\ \/ bodyKept' = [bodyKept EXCEPT ![o] = [doc |-> doc, left |-> BodyTtl]]
           \/ UNCHANGED bodyKept
    BY <1>3 DEF SetBody, LookupAt
  <2>2. o \in Origin /\ doc.age = 0 /\ doc \in Doc
    BY <1>1, <2>1 DEF GoodLookup, Mine
  <2>. HIDE DEF o, doc
  <2>3. doc.age < BodyTtl /\ doc.age < BodyTtl + PresentTtl
    BY <2>2, Ttls
  <2>4. Counted(bodyCache', totalBytes')
    BY <1>1, <2>1, <2>2, <2>3, SetKeeps
  <2>5. DOMAIN lookup' = Lookup /\ \A d \in Lookup : GoodLookup(lookup'[d])
    BY <2>1, <2>2, <2>3, Ended
  <2>6. DOMAIN bodyKept' = Origin /\ \A p \in Origin : GoodBody(bodyKept'[p])
    <3>1. GoodBody([doc |-> doc, left |-> BodyTtl])
      BY <2>2, Ttls DEF GoodBody
    <3>. QED  BY <2>1, <3>1 DEF LlmsInv
  <2>. QED  BY <2>4, <2>5, <2>6, Parts
<1>. QED  BY <1>2, <1>3

(* A tick takes from what is left at least what it adds to the age.        *)
LEMMA TickStep ==
    ASSUME LlmsInv, LlmsTick
    PROVE  LlmsInv'
<1>1. \A n \in Nat : Older(n) \in Nat /\ Older(n) <= n + 1
  BY DEF Older
<1>2. DOMAIN lookup' = Lookup /\ \A c \in Lookup : GoodLookup(lookup'[c])
  BY DEF LlmsInv, LlmsTick
<1>3. DOMAIN bodyKept' = Origin /\ \A o \in Origin : GoodBody(bodyKept'[o])
  <2>1. DOMAIN bodyKept' = Origin
    BY DEF LlmsTick
  <2>2. ASSUME NEW o \in Origin, bodyKept'[o] # NoLlms
        PROVE  GoodBody(bodyKept'[o])
    <3>. DEFINE b == bodyKept[o]
                entry == Faded(b)
    <3>1. bodyKept'[o] = IF entry = NoLlms THEN NoLlms ELSE [entry EXCEPT !.doc.age = Older(@)]
      BY DEF LlmsTick
    <3>2. entry # NoLlms
      BY <2>2, <3>1
    <3>3. b # NoLlms /\ b.left # 1 /\ entry = [b EXCEPT !.left = @ - 1]
      BY <3>2 DEF Faded
    <3>4. /\ b \in [doc : Doc, left : Nat \ {0}] /\ b.doc.age + b.left <= BodyTtl
      BY <3>3 DEF LlmsInv, GoodBody
    <3>. HIDE DEF entry, b
    <3>5. /\ entry \in [doc : Doc, left : Nat \ {0}] /\ entry.doc = b.doc /\ entry.left = b.left - 1
          /\ b.doc \in Doc /\ b.doc.age \in Nat /\ b.left \in Nat
      BY <3>3, <3>4 DEF Doc
    <3>. DEFINE new == [entry EXCEPT !.doc.age = Older(@)]
    <3>6. new \in [doc : Doc, left : Nat \ {0}] /\ new.doc.age = Older(b.doc.age) /\ new.left = b.left - 1
      BY <1>1, <3>5 DEF Doc
    <3>7. bodyKept'[o] = new
      BY <3>1, <3>2
    <3>. HIDE DEF new
    <3>8. Older(b.doc.age) <= b.doc.age + 1 /\ Older(b.doc.age) \in Nat
      BY <1>1, <3>5
    <3>9. new.doc.age + new.left <= BodyTtl
      BY <3>4, <3>5, <3>6, <3>8, Ttls
    <3>. QED  BY <3>6, <3>7, <3>9 DEF GoodBody
  <2>. QED  BY <2>1, <2>2 DEF GoodBody
<1>4. Counted(bodyCache', totalBytes')
  <2>. DEFINE s == bodyCache
              t == bodyCache'
  <2>1. /\ Fits(s) /\ s \in Seq(Entry) /\ Len(s) \in Nat /\ DOMAIN s = 1..Len(s) /\ Apart(s)
        /\ \A i \in DOMAIN s : s[i].doc.size <= L1Max /\ Fresh(s[i])
        /\ totalBytes = Bytes(s) /\ totalBytes <= L1Max
    BY DEF LlmsInv, Counted, Fits
  <2>2. /\ t = [i \in DOMAIN s |-> [s[i] EXCEPT !.doc.age = Older(@),
                                                !.left = IF @ = 0 THEN 0 ELSE @ - 1]]
        /\ totalBytes' = totalBytes
    BY DEF LlmsTick
  <2>. HIDE DEF s, t
  <2>3. ASSUME NEW i \in DOMAIN s
        PROVE  /\ t[i] \in Entry /\ t[i].origin = s[i].origin /\ t[i].doc.size = s[i].doc.size
               /\ Fresh(t[i])
    <3>. DEFINE a == Older(s[i].doc.age)
                l == IF s[i].left = 0 THEN 0 ELSE s[i].left - 1
    <3>1. s[i] \in Entry /\ Fresh(s[i])
      BY <2>1
    <3>2. /\ s[i].origin \in Origin /\ s[i].doc \in Doc /\ s[i].left \in Nat
          /\ s[i].doc.age \in Nat /\ s[i].doc.size \in Nat
      BY <3>1 DEF Entry, Doc
    <3>3. a \in Nat /\ a <= s[i].doc.age + 1 /\ l \in Nat /\ (l > 0 => s[i].left = l + 1)
      BY <1>1, <3>2
    <3>4. t[i] = [s[i] EXCEPT !.doc = [s[i].doc EXCEPT !.age = a], !.left = l]
      BY <2>2, <3>1 DEF Entry
    <3>. HIDE DEF a, l
    <3>5. /\ t[i] \in Entry /\ t[i].origin = s[i].origin /\ t[i].doc.size = s[i].doc.size
          /\ t[i].doc.age = a /\ t[i].left = l
      BY <3>1, <3>2, <3>3, <3>4 DEF Entry, Doc
    <3>6. Fresh(t[i])
      BY <3>1, <3>2, <3>3, <3>5, Ttls DEF Fresh
    <3>. QED  BY <3>5, <3>6
  <2>4. DOMAIN t = DOMAIN s
    BY <2>2
  <2>5. t \in Seq(Entry)
    <3>1. t = [i \in 1..Len(s) |-> t[i]]
      BY <2>1, <2>2
    <3>2. \A i \in 1..Len(s) : t[i] \in Entry
      BY <2>1, <2>3
    <3>. QED  BY <2>1, <3>1, <3>2
  <2>6. Fits(t) /\ Apart(t) /\ \A i \in DOMAIN t : Fresh(t[i])
    BY <2>1, <2>3, <2>4, <2>5 DEF Fits, Apart
  <2>7. Bytes(t) = Bytes(s)
    <3>1. BytesOf(t) = BytesOf(s)
      BY <2>3, <2>4 DEF BytesOf
    <3>. QED  BY <3>1 DEF Bytes
  <2>8. Counted(t, totalBytes')
    BY <2>1, <2>2, <2>6, <2>7 DEF Counted
  <2>. QED  BY <2>8 DEF t
<1>. QED  BY <1>2, <1>3, <1>4, Parts

(* The inductive invariant of the lookups.                                 *)
LEMMA LlmsInvariant == LlmsSpec => []LlmsInv
<1>1. ASSUME LlmsInv, [LlmsNext]_llmsVars
      PROVE  LlmsInv'
  <2>1. CASE \E c \in Lookup : BeginLookup(c)
    BY <1>1, <2>1, BeginStep
  <2>2. CASE \E c \in Lookup : BodyHit(c)
    BY <1>1, <2>2, BodyHitStep
  <2>3. CASE \E c \in Lookup : BodyMiss(c) \/ KnownAbsent(c) \/ FlagMiss(c) \/ fetchLlmsFullTxt(c)
    BY <1>1, <2>3, MovesStep
  <2>4. CASE \E c \in Lookup : SetFlag(c) \/ SetBody(c)
    BY <1>1, <2>4, StoreStep
  <2>5. CASE LlmsTick
    BY <1>1, <2>5, TickStep
  <2>6. CASE UNCHANGED llmsVars
    BY <1>1, <2>6, Parts DEF LlmsInv, llmsVars
  <2>. QED  BY <1>1, <2>1, <2>2, <2>3, <2>4, <2>5, <2>6 DEF LlmsNext
<1>. QED  BY <1>1, LlmsInvInit, PTL DEF LlmsSpec

(* The eviction of l1Set keeps its books, for any documents, origins and   *)
(* number of lookups that interleave: BytesAddUp.                          *)
THEOREM L1BytesAddUp == LlmsSpec => []BytesAddUp
<1>1. ASSUME LlmsInv PROVE BytesAddUp
  BY <1>1 DEF LlmsInv, Counted, Apart, BytesAddUp
<1>. QED  BY <1>1, LlmsInvariant, PTL

(* No document that getLlmsFullTxt hands out is as old as the two TTLs     *)
(* together, whatever they are: FreshEnough.                               *)
THEOREM AlwaysFreshEnough == LlmsSpec => []FreshEnough
<1>1. ASSUME LlmsInv PROVE FreshEnough
  BY <1>1 DEF LlmsInv, GoodLookup, FreshEnough
<1>. QED  BY <1>1, LlmsInvariant, PTL

-----------------------------------------------------------------------------
PageRec == [path : Paths, lines : Seq(Line)]

(* The lines of a document are those of its pages, one after the other: U  *)
(* counts the lines of the first pages.                                    *)
Laid(doc, lines, U) ==
    /\ lines \in Seq(Line) /\ U \in [0..Len(doc) -> Nat] /\ Len(lines) = U[Len(doc)]
    /\ \A p \in 1..Len(doc) : U[p] = U[p - 1] + Len(doc[p].lines)
    /\ \A p, q \in 0..Len(doc) : p <= q => U[p] <= U[q]
    /\ \A p \in 1..Len(doc) : \A k \in 1..Len(doc[p].lines) :
          lines[U[p - 1] + k] = doc[p].lines[k]
    /\ \A i \in 1..Len(lines) : \E p \in 1..Len(doc) : \E k \in 1..Len(doc[p].lines) :
          i = U[p - 1] + k

(* The lines of a document are those of its pages, laid one after another. *)
LEMMA DocumentIsLaid ==
    ASSUME NEW doc \in Seq(PageRec)
    PROVE  \E U : /\ Laid(doc, FlattenSeq([i \in DOMAIN doc |-> doc[i].lines]), U)
                  /\ \A q \in 0..Len(doc) : U[q] = Len(FlattenSeq([i \in 1..q |-> doc[i].lines]))
<1>. DEFINE N == Len(doc)
            ss == [i \in 1..N |-> doc[i].lines]
<1>1. N \in Nat /\ DOMAIN doc = 1..N /\ \A i \in 1..N : doc[i] \in PageRec
  OBVIOUS
<1>2. \A i \in 1..N : doc[i].lines \in Seq(Line)
  BY <1>1 DEF PageRec
<1>3. ss \in Seq(Seq(Line)) /\ Len(ss) = N /\ \A i \in 1..N : ss[i] = doc[i].lines
  BY <1>1, <1>2
<1>4. \A q \in 0..N : [i \in 1..q |-> doc[i].lines] = [i \in 1..q |-> ss[i]]
  <2>. TAKE q \in 0..N
  <2>1. \A i \in 1..q : i \in 1..N
    BY <1>1
  <2>. QED  BY <1>3, <2>1
<1>. HIDE DEF ss
<1>5. PICK to \in [Nat -> Seq(Line)] : Joins(to, ss) /\ Flattens(to, ss)
  <2>1. PICK tt \in Seq(Seq(Line)) : tt = ss
    BY <1>3
  <2>2. \E to \in [Nat -> Seq(Line)] : Joins(to, tt) /\ Flattens(to, tt)
    BY ONLY FlattenIsJoin
  <2>. QED  BY <2>1, <2>2
<1>6. \A n \in 0..Len(ss) : FlattenSeq([i \in 1..n |-> ss[i]]) = to[n]
  BY <1>5 DEF Flattens
<1>7. Placed(to, ss)
  <2>1. PICK tt \in Seq(Seq(Line)) : tt = ss
    BY <1>3
  <2>2. Joins(to, tt)
    BY <1>5, <2>1
  <2>3. Placed(to, tt)
    BY ONLY <2>2, JoinPlaces
  <2>. QED  BY <2>1, <2>3
<1>. DEFINE U == [q \in 0..N |-> Len(to[q])]
<1>8. /\ \A n \in 1..Len(ss) : Len(to[n]) = Len(to[n - 1]) + Len(ss[n])
      /\ \A m, n \in 0..Len(ss) : m <= n => Len(to[m]) <= Len(to[n])
      /\ \A n \in 1..Len(ss) : \A k \in 1..Len(ss[n]) :
            to[Len(ss)][Len(to[n - 1]) + k] = ss[n][k]
      /\ \A i \in 1..Len(to[Len(ss)]) :
            \E n \in 1..Len(ss) : \E k \in 1..Len(ss[n]) : i = Len(to[n - 1]) + k
  BY <1>7 DEF Placed
<1>9. /\ U \in [0..N -> Nat] /\ \A q \in 0..N : U[q] = Len(to[q])
      /\ N \in 0..N /\ \A n \in 1..N : n - 1 \in 0..N /\ n \in 0..N
  <2>1. \A q \in 0..N : to[q] \in Seq(Line) /\ Len(to[q]) \in Nat
    <3>1. \A q \in 0..N : q \in Nat
      BY <1>1
    <3>. HIDE DEF N
    <3>. QED  BY <3>1
  <2>2. N \in 0..N /\ \A n \in 1..N : n - 1 \in 0..N /\ n \in 0..N
    <3>1. N \in Nat
      BY <1>1
    <3>. HIDE DEF N
    <3>. QED  BY <3>1
  <2>3. U \in [0..N -> Nat] /\ \A q \in 0..N : U[q] = Len(to[q])
    <3>. HIDE DEF N
    <3>. QED  BY <2>1
  <2>. QED  BY <2>2, <2>3
<1>. HIDE DEF U
<1>10. FlattenSeq([i \in DOMAIN doc |-> doc[i].lines]) = to[N]
  BY <1>1, <1>3, <1>4, <1>6, <1>9
<1>11. to[N] \in Seq(Line)
  BY <1>1, <1>6
<1>12. Laid(doc, to[N], U)
  <2>1. \A p \in 1..N : U[p] = U[p - 1] + Len(doc[p].lines)
    BY <1>3, <1>8, <1>9
  <2>2. \A p, q \in 0..N : p <= q => U[p] <= U[q]
    BY <1>3, <1>8, <1>9
  <2>3. \A p \in 1..N : \A k \in 1..Len(doc[p].lines) : to[N][U[p - 1] + k] = doc[p].lines[k]
    <3>. TAKE p \in 1..N
    <3>. TAKE k \in 1..Len(doc[p].lines)
    <3>1. p \in 1..Len(ss) /\ ss[p] = doc[p].lines /\ Len(ss) = N
      BY <1>3
    <3>2. to[Len(ss)][Len(to[p - 1]) + k] = ss[p][k]
      BY <1>8, <3>1
    <3>3. Len(to[p - 1]) = U[p - 1]
      BY <1>9
    <3>. QED  BY <3>1, <3>2, <3>3
  <2>4. \A i \in 1..Len(to[N]) : \E p \in 1..N : \E k \in 1..Len(doc[p].lines) : i = U[p - 1] + k
    <3>. TAKE i \in 1..Len(to[N])
    <3>1. Len(ss) = N
      BY <1>3
    <3>2. PICK p \in 1..Len(ss) : \E k \in 1..Len(ss[p]) : i = Len(to[p - 1]) + k
      BY <1>8, <3>1
    <3>3. PICK k \in 1..Len(ss[p]) : i = Len(to[p - 1]) + k
      BY <3>2
    <3>4. p \in 1..N /\ ss[p] = doc[p].lines /\ Len(to[p - 1]) = U[p - 1]
      BY <1>3, <1>9, <3>1
    <3>. QED  BY <3>3, <3>4
  <2>. QED  BY <1>9, <1>11, <2>1, <2>2, <2>3, <2>4 DEF Laid
<1>13. \A q \in 0..N : U[q] = Len(FlattenSeq([i \in 1..q |-> doc[i].lines]))
  BY <1>3, <1>4, <1>6, <1>9
<1>. QED  BY <1>10, <1>12, <1>13

(* Where the lines of the pages are, and in which order.                   *)
LEMMA LaidFacts ==
    ASSUME NEW doc \in Seq(PageRec), NEW lines, NEW U, Laid(doc, lines, U)
    PROVE  /\ DOMAIN doc = 1..Len(doc) /\ Len(doc) \in Nat /\ DOMAIN lines = 1..U[Len(doc)]
           /\ \A p \in 1..Len(doc) : /\ U[p - 1] \in Nat /\ U[p] \in Nat /\ Len(doc[p].lines) \in Nat
                                     /\ DOMAIN doc[p].lines = 1..Len(doc[p].lines)
                                     /\ U[p] <= U[Len(doc)] /\ doc[p] \in PageRec
                                     /\ U[p] = U[p - 1] + Len(doc[p].lines)
           /\ \A p \in 1..Len(doc) : \A k \in 1..Len(doc[p].lines) :
                 /\ U[p - 1] + k \in DOMAIN lines /\ lines[U[p - 1] + k] = doc[p].lines[k]
                 /\ U[p - 1] + k <= U[p] /\ U[p - 1] < U[p - 1] + k
           /\ \A i \in DOMAIN lines : /\ i \in Nat /\ lines[i] \in Line
                                      /\ \E p \in 1..Len(doc) : \E k \in 1..Len(doc[p].lines) :
                                            i = U[p - 1] + k /\ lines[i] = doc[p].lines[k]
           /\ \A p, q \in 1..Len(doc) : p < q => U[p] <= U[q - 1]
<1>. DEFINE N == Len(doc)
<1>1. N \in Nat /\ DOMAIN doc = 1..N /\ \A p \in 1..N : doc[p] \in PageRec
  OBVIOUS
<1>2. \A p \in 1..N : doc[p].lines \in Seq(Line)
  BY <1>1 DEF PageRec
<1>3. \A p \in 1..N : Len(doc[p].lines) \in Nat /\ DOMAIN doc[p].lines = 1..Len(doc[p].lines)
  BY <1>2
<1>4. /\ lines \in Seq(Line) /\ U \in [0..N -> Nat] /\ Len(lines) = U[N]
      /\ \A p \in 1..N : U[p] = U[p - 1] + Len(doc[p].lines)
      /\ \A p, q \in 0..N : p <= q => U[p] <= U[q]
      /\ \A p \in 1..N : \A k \in 1..Len(doc[p].lines) : lines[U[p - 1] + k] = doc[p].lines[k]
      /\ \A i \in 1..Len(lines) : \E p \in 1..N : \E k \in 1..Len(doc[p].lines) : i = U[p - 1] + k
  BY DEF Laid
<1>. HIDE DEF N
<1>5. N \in 0..N /\ \A p \in 1..N : p \in 0..N /\ p - 1 \in 0..N /\ p <= N /\ p \in Nat
  BY <1>1
<1>6. \A p \in 1..N : U[p - 1] \in Nat /\ U[p] \in Nat /\ U[p] <= U[N]
  BY <1>4, <1>5
<1>7. U[N] \in Nat /\ DOMAIN lines = 1..U[N] /\ \A i \in 1..U[N] : i \in Nat /\ lines[i] \in Line
  BY <1>4, <1>5
<1>8. ASSUME NEW p \in 1..N, NEW k \in 1..Len(doc[p].lines)
      PROVE  /\ U[p - 1] + k \in 1..U[N] /\ lines[U[p - 1] + k] = doc[p].lines[k]
             /\ U[p - 1] + k <= U[p] /\ U[p - 1] < U[p - 1] + k
  <2>1. /\ U[p - 1] \in Nat /\ U[p] \in Nat /\ U[N] \in Nat /\ U[p] <= U[N]
        /\ U[p] = U[p - 1] + Len(doc[p].lines) /\ Len(doc[p].lines) \in Nat
    BY <1>3, <1>4, <1>6, <1>7
  <2>2. lines[U[p - 1] + k] = doc[p].lines[k]
    BY <1>4
  <2>3. PICK x \in Nat, y \in Nat : x = U[p - 1] /\ y = Len(doc[p].lines)
    BY <2>1
  <2>4. k \in 1..y /\ U[p] = x + y
    BY <2>1, <2>3
  <2>5. x + k \in 1..(x + y) /\ x < x + k /\ x + k <= x + y /\ x + k \in Nat /\ x + k # 0
    BY ONLY <2>4
  <2>6. \A a, b, c \in Nat : a # 0 /\ a <= b /\ b <= c => a \in 1..c
    OBVIOUS
  <2>7. U[p - 1] + k \in 1..U[N]
    BY <2>1, <2>3, <2>4, <2>5, <2>6
  <2>. QED  BY <2>2, <2>3, <2>4, <2>5, <2>7
<1>9. \A p, q \in 1..N : p < q => U[p] <= U[q - 1]
  <2>. TAKE p, q \in 1..N
  <2>1. p < q => p <= q - 1
    BY <1>5
  <2>. QED  BY <1>4, <1>5, <2>1
<1>10. \A i \in DOMAIN lines : /\ i \in Nat /\ lines[i] \in Line
                                /\ \E p \in 1..N : \E k \in 1..Len(doc[p].lines) :
                                      i = U[p - 1] + k /\ lines[i] = doc[p].lines[k]
  <2>. TAKE i \in DOMAIN lines
  <2>1. i \in 1..U[N] /\ i \in Nat /\ lines[i] \in Line /\ i \in 1..Len(lines)
    BY <1>4, <1>7
  <2>2. PICK p \in 1..N : \E k \in 1..Len(doc[p].lines) : i = U[p - 1] + k
    BY <1>4, <2>1
  <2>. QED  BY <1>8, <2>1, <2>2
<1>11. \A p \in 1..N : \A k \in 1..Len(doc[p].lines) :
          /\ U[p - 1] + k \in DOMAIN lines /\ lines[U[p - 1] + k] = doc[p].lines[k]
          /\ U[p - 1] + k <= U[p] /\ U[p - 1] < U[p - 1] + k
  BY <1>7, <1>8
<1>12. \A p \in 1..N : /\ U[p - 1] \in Nat /\ U[p] \in Nat /\ Len(doc[p].lines) \in Nat
                       /\ DOMAIN doc[p].lines = 1..Len(doc[p].lines)
                       /\ U[p] <= U[N] /\ doc[p] \in PageRec
                       /\ U[p] = U[p - 1] + Len(doc[p].lines)
  BY <1>1, <1>3, <1>4, <1>6
<1>. QED  BY <1>1, <1>7, <1>9, <1>10, <1>11, <1>12 DEF N

(* What a line is made with can be read off it.                            *)
LEMMA KindFacts ==
    /\ Text.kind = "text" /\ Sep.kind = "sep"
    /\ \A p : UrlLine(p).kind = "url" /\ UrlLine(p).path = p
    /\ \A l : Heading(l).kind = "heading" /\ Heading(l).level = l
    /\ \A l, p : /\ HeadingLink(l, p).kind = "link" /\ HeadingLink(l, p).level = l
                 /\ HeadingLink(l, p).path = p
BY DEF Text, Sep, UrlLine, Heading, HeadingLink

(* A heading has a level to compare.                                       *)
LEMMA HeadingHasLevel ==
    ASSUME NEW line \in Line, line.kind = "heading"
    PROVE  line.level \in Nat
<1>1. CASE line \in {Text, Sep}
  BY <1>1, KindFacts
<1>2. CASE line \in {UrlLine(p) : p \in Paths}
  BY <1>2, KindFacts
<1>3. CASE line \in {Heading(l) : l \in 1..6}
  <2>1. PICK l \in 1..6 : line = Heading(l)
    BY <1>3
  <2>. QED  BY <2>1, KindFacts
<1>4. CASE line \in {HeadingLink(l, p) : l \in 1..6, p \in Paths}
  <2>1. PICK l \in 1..6 : \E p \in Paths : line = HeadingLink(l, p)
    BY <1>4
  <2>. QED  BY <2>1, KindFacts
<1>. QED  BY <1>1, <1>2, <1>3, <1>4 DEF Line

-----------------------------------------------------------------------------
(* The pages that match, and the section that is to be served.             *)
Matching(doc, path) == {p \in DOMAIN doc : pathsMatch(doc[p].path, path)}

Whole(doc, U, path) ==
    IF Matching(doc, path) = {} THEN NoSection
    ELSE [from |-> U[Min(Matching(doc, path)) - 1] + 1, to |-> U[Min(Matching(doc, path))]]

(* A set of numbers with members has a least one.                          *)
LEMMA LeastIsIn ==
    ASSUME NEW S \in SUBSET Nat, S # {}
    PROVE  Min(S) \in S
<1>1. PICK m \in S : \A k \in S : m <= k
  BY LeastExists
<1>2. S \in SUBSET Int
  OBVIOUS
<1>3. Min(S) = m
  BY ONLY <1>1, <1>2, MinIs
<1>. QED  BY <1>3

(* If the lines of a kind are one of each page, the first that matches is  *)
(* that of the first page that does.                                       *)
OneOfEach(doc, lines, u, kind) ==
    /\ u \in [1..Len(doc) -> Nat \ {0}]
    /\ LinesOf(lines, {kind}) = {u[p] : p \in 1..Len(doc)}
    /\ \A p, q \in 1..Len(doc) : p < q => u[p] < u[q]
    /\ \A p \in 1..Len(doc) : lines[u[p]].path = doc[p].path

(* So the search finds the first page that matches, or none does.          *)
LEMMA FirstOfPages ==
    ASSUME NEW doc \in Seq(PageRec), NEW lines, NEW u, NEW kind, NEW path,
           OneOfEach(doc, lines, u, kind)
    PROVE  FirstMatch(lines, kind, path) =
              IF Matching(doc, path) = {} THEN 0 ELSE u[Min(Matching(doc, path))]
<1>. DEFINE N == Len(doc)
            M == Matching(doc, path)
            L == {i \in LinesOf(lines, {kind}) : pathsMatch(lines[i].path, path)}
<1>. /\ u \in [1..N -> Nat \ {0}]
     /\ LinesOf(lines, {kind}) = {u[p] : p \in 1..N}
     /\ \A p, q \in 1..N : p < q => u[p] < u[q]
     /\ \A p \in 1..N : lines[u[p]].path = doc[p].path
  BY DEF OneOfEach
<1>1. N \in Nat /\ DOMAIN doc = 1..N /\ M = {p \in 1..N : pathsMatch(doc[p].path, path)}
  BY DEF Matching
<1>2. L = {u[p] : p \in M}
  <2>. DEFINE J == LinesOf(lines, {kind})
  <2>1. J = {u[p] : p \in 1..N} /\ \A p \in 1..N : lines[u[p]].path = doc[p].path
    OBVIOUS
  <2>2. L = {i \in J : pathsMatch(lines[i].path, path)}
    OBVIOUS
  <2>. HIDE DEF J, N
  <2>3. ASSUME NEW i \in L PROVE i \in {u[p] : p \in M}
    <3>1. i \in J /\ pathsMatch(lines[i].path, path)
      BY <2>2
    <3>2. PICK p \in 1..N : i = u[p]
      BY <2>1, <3>1
    <3>3. pathsMatch(doc[p].path, path)
      BY <2>1, <3>1, <3>2
    <3>4. p \in M
      BY <1>1, <3>3
    <3>. QED  BY <3>2, <3>4
  <2>4. ASSUME NEW p \in M PROVE u[p] \in L
    <3>1. p \in 1..N /\ pathsMatch(doc[p].path, path)
      BY <1>1
    <3>2. u[p] \in J /\ lines[u[p]].path = doc[p].path
      BY <2>1, <3>1
    <3>. QED  BY <2>2, <3>1, <3>2
  <2>. HIDE DEF L, M
  <2>. QED  BY <2>3, <2>4
<1>3. FirstMatch(lines, kind, path) = IF L = {} THEN 0 ELSE Min(L)
  BY DEF FirstMatch
<1>4. CASE M = {}
  BY <1>2, <1>3, <1>4
<1>5. CASE M # {}
  <2>1. M \in SUBSET Nat /\ M \subseteq 1..N
    BY <1>1
  <2>2. PICK m \in M : \A p \in M : m <= p
    <3>. HIDE DEF M
    <3>. QED  BY <1>5, <2>1, LeastExists
  <2>3. Min(M) = m
    <3>1. M \in SUBSET Int
      BY <2>1
    <3>. HIDE DEF M
    <3>. QED  BY <2>2, <3>1, MinIs
  <2>4. \A p \in M : u[m] <= u[p] /\ u[p] \in Nat /\ u[m] \in Nat
    <3>. TAKE p \in M
    <3>1. u[p] \in Nat /\ u[m] \in Nat /\ m \in Nat /\ p \in Nat /\ m <= p /\ p \in 1..N /\ m \in 1..N
      BY <2>1, <2>2
    <3>2. m = p \/ m < p
      BY <3>1
    <3>. QED  BY <3>1, <3>2
  <2>5. Min(L) = u[m]
    <3>. HIDE DEF L, M
    <3>1. L \in SUBSET Int /\ u[m] \in L /\ \A i \in L : u[m] <= i
      BY <1>2, <2>2, <2>4
    <3>. QED  BY <3>1, MinIs
  <2>6. L # {}
    <3>. HIDE DEF L, M
    <3>1. u[m] \in L
      BY <1>2
    <3>. QED  BY <3>1
  <2>. QED  BY <1>3, <1>5, <2>3, <2>5, <2>6
<1>. QED  BY <1>4, <1>5

(* A page's url: line is its k-th.                                         *)
UrlAt(p, k) ==
    /\ k \in DOMAIN p.lines \ {1} /\ p.lines[1] = Sep /\ p.lines[k] = UrlLine(p.path)
    /\ \A j \in DOMAIN p.lines : /\ p.lines[j].kind = "url" => j = k
                                 /\ p.lines[j].kind = "sep" /\ j < k => j = 1

(* With url: lines the section is the whole of the first page that         *)
(* matches.                                                                *)
LEMMA UrlSections ==
    ASSUME NEW doc \in Seq(PageRec), NEW lines, NEW U, Laid(doc, lines, U), NEW path,
           \A p \in DOMAIN doc : UrlPage(doc[p])
    PROVE  extractSection(lines, path) = Whole(doc, U, path)
<1>. DEFINE N == Len(doc)
            K(p) == CHOOSE k \in DOMAIN doc[p].lines : UrlAt(doc[p], k)
            u == [p \in 1..N |-> U[p - 1] + K(p)]
            M == Matching(doc, path)
<1>1. /\ DOMAIN doc = 1..N /\ N \in Nat /\ DOMAIN lines = 1..U[N]
      /\ \A p \in 1..N : /\ U[p - 1] \in Nat /\ U[p] \in Nat /\ Len(doc[p].lines) \in Nat
                         /\ DOMAIN doc[p].lines = 1..Len(doc[p].lines)
                         /\ U[p] <= U[N] /\ doc[p] \in PageRec
                         /\ U[p] = U[p - 1] + Len(doc[p].lines)
      /\ \A p \in 1..N : \A k \in 1..Len(doc[p].lines) :
            /\ U[p - 1] + k \in DOMAIN lines /\ lines[U[p - 1] + k] = doc[p].lines[k]
            /\ U[p - 1] + k <= U[p] /\ U[p - 1] < U[p - 1] + k
      /\ \A i \in DOMAIN lines : /\ i \in Nat /\ lines[i] \in Line
                                 /\ \E p \in 1..N : \E k \in 1..Len(doc[p].lines) :
                                       i = U[p - 1] + k /\ lines[i] = doc[p].lines[k]
      /\ \A p, q \in 1..N : p < q => U[p] <= U[q - 1]
  BY LaidFacts
<1>2. \A p \in 1..N : K(p) \in DOMAIN doc[p].lines /\ UrlAt(doc[p], K(p))
  <2>. TAKE p \in 1..N
  <2>1. \E k \in DOMAIN doc[p].lines : UrlAt(doc[p], k)
    BY <1>1 DEF UrlPage, UrlAt
  <2>. QED  BY <2>1
<1>. HIDE DEF K
<1>3. ASSUME NEW p \in 1..N
      PROVE  /\ u[p] = U[p - 1] + K(p) /\ K(p) \in 2..Len(doc[p].lines)
             /\ u[p] \in DOMAIN lines /\ u[p] \in Nat \ {0}
             /\ lines[u[p]] = UrlLine(doc[p].path)
             /\ U[p - 1] + 1 < u[p] /\ u[p] <= U[p]
             /\ lines[U[p - 1] + 1] = Sep /\ U[p - 1] + 1 \in DOMAIN lines
  <2>1. /\ K(p) \in 1..Len(doc[p].lines) /\ K(p) # 1 /\ doc[p].lines[1] = Sep
        /\ doc[p].lines[K(p)] = UrlLine(doc[p].path)
        /\ 1 \in 1..Len(doc[p].lines) /\ Len(doc[p].lines) \in Nat /\ U[p - 1] \in Nat /\ U[p] \in Nat
    BY <1>1, <1>2 DEF UrlAt
  <2>2. u[p] = U[p - 1] + K(p)
    OBVIOUS
  <2>3. /\ u[p] \in DOMAIN lines /\ lines[u[p]] = UrlLine(doc[p].path) /\ u[p] <= U[p]
        /\ lines[U[p - 1] + 1] = Sep /\ U[p - 1] + 1 \in DOMAIN lines
    BY <1>1, <2>1, <2>2
  <2>4. K(p) \in 2..Len(doc[p].lines) /\ U[p - 1] + 1 < U[p - 1] + K(p) /\ U[p - 1] + K(p) \in Nat \ {0}
    BY <2>1
  <2>. QED  BY <2>2, <2>3, <2>4
<1>4. \A p \in 1..N : p \in Nat /\ (p = N \/ (p < N /\ p + 1 \in 1..N /\ (p + 1) - 1 = p /\ p < p + 1))
  <2>1. N \in Nat
    BY <1>1
  <2>. HIDE DEF N
  <2>. QED  BY <2>1
<1>5. u \in [1..N -> Nat \ {0}]
  BY <1>3
<1>. HIDE DEF u
(* What a line of the document is.                                         *)
<1>6. ASSUME NEW i \in DOMAIN lines
      PROVE  /\ lines[i].kind = "url" => \E p \in 1..N : i = u[p]
             /\ lines[i].kind # "link"
             /\ \A q \in 1..N : lines[i].kind = "sep" /\ i < u[q] => i <= U[q - 1] + 1
  <2>1. PICK p \in 1..N : \E k \in 1..Len(doc[p].lines) : i = U[p - 1] + k /\ lines[i] = doc[p].lines[k]
    BY <1>1
  <2>2. PICK k \in 1..Len(doc[p].lines) : i = U[p - 1] + k /\ lines[i] = doc[p].lines[k]
    BY <2>1
  <2>3. /\ lines[i].kind = "url" => k = K(p)
        /\ lines[i].kind = "sep" /\ k < K(p) => k = 1
    BY <1>1, <1>2, <2>2 DEF UrlAt
  <2>4. lines[i].kind # "link"
    <3>1. p \in DOMAIN doc /\ k \in DOMAIN doc[p].lines /\ UrlPage(doc[p])
      BY <1>1
    <3>2. \A j \in DOMAIN doc[p].lines : doc[p].lines[j].kind # "link"
      BY <3>1 DEF UrlPage
    <3>. QED  BY <2>2, <3>1, <3>2
  <2>5. lines[i].kind = "url" => i = u[p]
    BY <1>3, <2>2, <2>3
  <2>6. ASSUME NEW q \in 1..N, lines[i].kind = "sep", i < u[q]
        PROVE  i <= U[q - 1] + 1
    <3>1. /\ p \in Nat /\ q \in Nat /\ k \in Nat /\ i \in Nat /\ U[p - 1] \in Nat /\ U[q - 1] \in Nat
          /\ U[p] \in Nat /\ U[q] \in Nat /\ u[q] \in Nat /\ K(q) \in Nat
      <4>1. /\ p \in Nat /\ q \in Nat /\ i \in Nat /\ U[p - 1] \in Nat /\ U[q - 1] \in Nat
            /\ U[p] \in Nat /\ U[q] \in Nat
        BY <1>1
      <4>2. u[q] \in Nat
        BY <1>5
      <4>3. k \in Nat
        BY <1>1
      <4>4. Len(doc[q].lines) \in Nat /\ K(q) \in 2..Len(doc[q].lines)
        BY <1>1, <1>3
      <4>5. K(q) \in Nat
        BY <4>4
      <4>. QED  BY <4>1, <4>3, <4>5, <4>2
    <3>2. CASE p = q
      <4>1. PICK x \in Nat, y \in Nat : x = U[q - 1] /\ y = K(q)
        BY <3>1
      <4>2. i = x + k /\ x + k < x + y
        BY <1>3, <2>2, <2>6, <3>2, <4>1
      <4>3. k < y
        BY <3>1, <4>1, <4>2
      <4>4. k = 1
        BY <2>3, <2>6, <3>2, <4>1, <4>3
      <4>. QED  BY <3>1, <4>1, <4>2, <4>4
    <3>3. CASE p < q
      <4>1. i <= U[p] /\ U[p] <= U[q - 1]
        BY <1>1, <2>2, <3>3
      <4>2. \A a, b, c \in Nat : a <= b /\ b <= c => a <= c + 1
        OBVIOUS
      <4>. QED  BY <3>1, <4>1, <4>2
    <3>4. CASE q < p
      <4>1. u[q] <= U[q] /\ U[q] <= U[p - 1] /\ U[p - 1] < i
        BY <1>1, <1>3, <2>2, <3>4
      <4>2. \A a, b, c, d \in Nat : a <= b /\ b <= c /\ c < d => ~(d < a)
        OBVIOUS
      <4>. QED  BY <2>6, <3>1, <4>1, <4>2
    <3>. QED  BY <3>1, <3>2, <3>3, <3>4
  <2>. QED  BY <2>4, <2>5, <2>6
<1>7. LinesOf(lines, {"url"}) = {u[p] : p \in 1..N}
  <2>1. \A p \in 1..N : u[p] \in LinesOf(lines, {"url"})
    BY <1>3, KindFacts DEF LinesOf
  <2>2. \A i \in LinesOf(lines, {"url"}) : i \in DOMAIN lines /\ lines[i].kind = "url"
    BY DEF LinesOf
  <2>3. \A i \in LinesOf(lines, {"url"}) : \E p \in 1..N : i = u[p]
    BY <1>6, <2>2
  <2>. QED  BY <2>1, <2>3
<1>8. \A p, q \in 1..N : p < q => u[p] < u[q]
  <2>. TAKE p, q \in 1..N
  <2>1. /\ u[p] \in Nat /\ U[p] \in Nat /\ U[q - 1] \in Nat /\ u[q] \in Nat
        /\ u[p] <= U[p] /\ U[q - 1] + 1 < u[q]
    BY <1>1, <1>3
  <2>2. p < q => U[p] <= U[q - 1]
    BY <1>1
  <2>3. \A a, b, c, d \in Nat : a <= b /\ b <= c /\ c + 1 < d => a < d
    OBVIOUS
  <2>. QED  BY <2>1, <2>2, <2>3
<1>9. FirstMatch(lines, "url", path) = IF M = {} THEN 0 ELSE u[Min(M)]
  <2>1. \A p \in 1..N : lines[u[p]].path = doc[p].path
    BY <1>3, KindFacts
  <2>2. PICK kind : kind = "url"
    OBVIOUS
  <2>3. LinesOf(lines, {kind}) = {u[p] : p \in 1..N}
    BY <1>7, <2>2
  <2>4. OneOfEach(doc, lines, u, kind)
    BY <1>5, <1>8, <2>1, <2>3 DEF OneOfEach
  <2>5. FirstMatch(lines, kind, path) =
           IF Matching(doc, path) = {} THEN 0 ELSE u[Min(Matching(doc, path))]
    BY ONLY <2>4, FirstOfPages
  <2>. QED  BY <2>2, <2>5
<1>10. extractByHeadingLink(lines, path) = NoSection
  <2>1. LinesOf(lines, {"link"}) = {}
    BY <1>6 DEF LinesOf
  <2>2. FirstMatch(lines, "link", path) = 0
    BY <2>1 DEF FirstMatch
  <2>. QED  BY <2>2 DEF extractByHeadingLink
<1>11. ASSUME NEW p \in 1..N
       PROVE  StartOf(lines, u[p]) = U[p - 1] + 1
  <2>. DEFINE S == {1} \union {j \in LinesOf(lines, {"sep"}) : j < u[p]}
  <2>1. U[p - 1] + 1 \in S
    BY <1>3, KindFacts DEF LinesOf
  <2>2. ASSUME NEW j \in S
        PROVE  j = 1 \/ (j \in DOMAIN lines /\ lines[j].kind = "sep" /\ j < u[p])
    BY DEF LinesOf
  <2>3. U[p - 1] \in Nat /\ \A j \in S : j \in Int /\ j <= U[p - 1] + 1
    <3>1. U[p - 1] \in Nat /\ 1 <= U[p - 1] + 1
      BY <1>1
    <3>. HIDE DEF S
    <3>2. ASSUME NEW j \in S, j \in DOMAIN lines, lines[j].kind = "sep", j < u[p]
          PROVE  j \in Int /\ j <= U[p - 1] + 1
      BY <1>1, <1>6, <3>2
    <3>. QED  BY <2>2, <3>1, <3>2
  <2>4. StartOf(lines, u[p]) = Max(S)
    BY DEF StartOf
  <2>. HIDE DEF S
  <2>5. PICK m \in S : m = U[p - 1] + 1
    BY <2>1
  <2>6. S \in SUBSET Int /\ \A j \in S : j <= m
    BY <2>3, <2>5
  <2>7. Max(S) = m
    BY ONLY <2>6, MaxIs
  <2>. QED  BY <2>4, <2>5, <2>7
<1>12. ASSUME NEW p \in 1..N
       PROVE  EndOf(lines, u[p]) = U[p]
  <2>. DEFINE later == {j \in LinesOf(lines, {"url"}) : j > u[p]}
              seps == {j \in LinesOf(lines, {"sep"}) : u[p] < j /\ j < Min(later)}
  <2>1. EndOf(lines, u[p]) = CASE later = {} -> Len(lines)
                               [] later # {} /\ seps # {} -> Max(seps) - 1
                               [] OTHER -> Min(later) - 1
    BY DEF EndOf
  <2>2. p \in Nat /\ p <= N /\ u[p] \in Nat /\ U[p] \in Nat /\ u[p] <= U[p]
    BY <1>1, <1>3
  <2>3. later = {u[q] : q \in {r \in 1..N : u[r] > u[p]}}
    BY <1>7
  <2>4. \A q \in 1..N : u[q] > u[p] <=> q > p
    <3>. TAKE q \in 1..N
    <3>1. q \in Nat /\ u[q] \in Nat /\ (p < q => u[p] < u[q]) /\ (q < p => u[q] < u[p])
      BY <1>3, <1>8
    <3>2. q = p \/ q < p \/ p < q
      BY <2>2, <3>1
    <3>. QED  BY <2>2, <3>1, <3>2
  <2>5. CASE p = N
    <3>1. later = {}
      <4>1. \A q \in 1..N : ~(q > p)
        BY <1>1, <2>5
      <4>. QED  BY <2>3, <2>4, <4>1
    <3>2. Len(lines) = U[N]
      BY DEF Laid
    <3>. QED  BY <2>1, <2>5, <3>1, <3>2
  <2>6. CASE p < N
    <3>1. p + 1 \in 1..N /\ (p + 1) - 1 = p /\ p < p + 1
      BY <1>4, <2>6
    <3>2. PICK n \in 1..N : n = p + 1 /\ n - 1 = p /\ p < n /\ n \in Nat
      BY <2>2, <3>1
    <3>3. u[n] \in Nat /\ U[p] + 1 < u[n] /\ lines[U[p] + 1] = Sep /\ U[p] + 1 \in DOMAIN lines
      BY <1>3, <3>2
    <3>4. u[n] \in later
      BY <2>2, <2>3, <2>4, <3>2
    <3>5. \A j \in later : j \in Nat /\ u[n] <= j
      <4>. TAKE j \in later
      <4>1. PICK q \in 1..N : j = u[q] /\ q > p
        BY <2>3, <2>4
      <4>2. q \in Nat /\ u[q] \in Nat /\ (q = n \/ n < q)
        <5>1. q \in Nat /\ u[q] \in Nat
          BY <1>3, <1>4
        <5>. QED  BY <2>2, <3>2, <4>1, <5>1
      <4>. QED  BY <1>8, <3>3, <4>1, <4>2
    <3>6. Min(later) = u[n]
      <4>. HIDE DEF later
      <4>1. later \in SUBSET Int
        BY <3>5
      <4>2. PICK m \in later : m = u[n]
        BY <3>4
      <4>3. \A j \in later : m <= j
        BY <3>5, <4>2
      <4>4. Min(later) = m
        BY ONLY <4>1, <4>3, MinIs
      <4>. QED  BY <4>2, <4>4
    <3>7. U[p] + 1 \in seps
      <4>1. u[p] < U[p] + 1
        BY <2>2
      <4>. QED  BY <3>3, <3>6, <4>1, KindFacts DEF LinesOf
    <3>8. \A j \in seps : j \in Int /\ j <= U[p] + 1
      <4>. TAKE j \in seps
      <4>1. j \in DOMAIN lines /\ lines[j].kind = "sep" /\ j < u[n]
        BY <3>6 DEF LinesOf
      <4>. QED  BY <1>1, <1>6, <3>2, <4>1
    <3>9. Max(seps) = U[p] + 1
      <4>. HIDE DEF seps
      <4>1. seps \in SUBSET Int
        BY <3>8
      <4>2. PICK m \in seps : m = U[p] + 1
        BY <3>7
      <4>3. \A j \in seps : j <= m
        BY <3>8, <4>2
      <4>4. Max(seps) = m
        BY ONLY <4>1, <4>3, MaxIs
      <4>. QED  BY <4>2, <4>4
    <3>. HIDE DEF later, seps
    <3>10. EndOf(lines, u[p]) = Max(seps) - 1
      BY <2>1, <3>4, <3>7
    <3>. QED  BY <2>2, <3>9, <3>10
  <2>7. p = N \/ p < N
    BY <1>4
  <2>. QED  BY <2>5, <2>6, <2>7
<1>13. CASE M = {}
  <2>1. extractByUrlLine(lines, path) = NoSection
    BY <1>9, <1>13 DEF extractByUrlLine
  <2>. QED  BY <1>10, <1>13, <2>1 DEF extractSection, Whole
<1>14. CASE M # {}
  <2>1. PICK p \in 1..N : p = Min(M)
    <3>1. M \in SUBSET Nat /\ M \subseteq 1..N
      BY <1>1 DEF Matching
    <3>. HIDE DEF M
    <3>. QED  BY <1>14, <3>1, LeastIsIn
  <2>2. FirstMatch(lines, "url", path) = u[p] /\ u[p] # 0 /\ U[p - 1] + 1 # 0
    BY <1>1, <1>3, <1>9, <1>14, <2>1
  <2>3. extractByUrlLine(lines, path) = [from |-> U[p - 1] + 1, to |-> U[p]]
    BY <1>11, <1>12, <2>2 DEF extractByUrlLine
  <2>4. extractByUrlLine(lines, path) # NoSection
    BY <2>2, <2>3 DEF NoSection
  <2>. QED  BY <1>14, <2>1, <2>3, <2>4 DEF extractSection, Whole
<1>. QED  BY <1>13, <1>14

(* Pages under linked headings.                                            *)
LEMMA LinkSections ==
    ASSUME NEW doc \in Seq(PageRec), NEW lines, NEW U, Laid(doc, lines, U), NEW path,
           NEW level \in 1..6, \A p \in DOMAIN doc : LinkPage(doc[p], level)
    PROVE  extractSection(lines, path) = Whole(doc, U, path)
<1>. DEFINE N == Len(doc)
            v == [p \in 1..N |-> U[p - 1] + 1]
            M == Matching(doc, path)
<1>1. /\ DOMAIN doc = 1..N /\ N \in Nat /\ DOMAIN lines = 1..U[N]
      /\ \A p \in 1..N : /\ U[p - 1] \in Nat /\ U[p] \in Nat /\ Len(doc[p].lines) \in Nat
                         /\ DOMAIN doc[p].lines = 1..Len(doc[p].lines)
                         /\ U[p] <= U[N] /\ doc[p] \in PageRec
                         /\ U[p] = U[p - 1] + Len(doc[p].lines)
      /\ \A p \in 1..N : \A k \in 1..Len(doc[p].lines) :
            /\ U[p - 1] + k \in DOMAIN lines /\ lines[U[p - 1] + k] = doc[p].lines[k]
            /\ U[p - 1] + k <= U[p] /\ U[p - 1] < U[p - 1] + k
      /\ \A i \in DOMAIN lines : /\ i \in Nat /\ lines[i] \in Line
                                 /\ \E p \in 1..N : \E k \in 1..Len(doc[p].lines) :
                                       i = U[p - 1] + k /\ lines[i] = doc[p].lines[k]
      /\ \A p, q \in 1..N : p < q => U[p] <= U[q - 1]
  BY LaidFacts
<1>2. ASSUME NEW p \in 1..N
      PROVE  /\ 1 \in 1..Len(doc[p].lines) /\ doc[p].lines[1] = HeadingLink(level, doc[p].path)
             /\ \A k \in 1..Len(doc[p].lines) : k # 1 =>
                   /\ doc[p].lines[k].kind \notin {"url", "link"}
                   /\ doc[p].lines[k].kind = "heading" => doc[p].lines[k].level > level
  <2>1. LinkPage(doc[p], level)
    BY <1>1
  <2>2. doc[p].lines # <<>> /\ doc[p].lines[1] = HeadingLink(level, doc[p].path)
    BY <2>1 DEF LinkPage
  <2>3. \A j \in DOMAIN doc[p].lines \ {1} :
          /\ doc[p].lines[j].kind \notin {"url", "link"}
          /\ doc[p].lines[j].kind = "heading" => doc[p].lines[j].level > level
    BY <2>1 DEF LinkPage
  <2>4. doc[p].lines \in Seq(Line)
    BY <1>1 DEF PageRec
  <2>5. Len(doc[p].lines) # 0
    BY <2>2, <2>4
  <2>6. 1 \in 1..Len(doc[p].lines)
    BY <1>1, <2>5
  <2>. QED  BY <1>1, <2>2, <2>3, <2>6
<1>3. ASSUME NEW p \in 1..N
      PROVE  /\ v[p] = U[p - 1] + 1 /\ v[p] \in DOMAIN lines /\ v[p] \in Nat \ {0}
             /\ lines[v[p]] = HeadingLink(level, doc[p].path) /\ v[p] <= U[p]
  <2>1. v[p] = U[p - 1] + 1
    OBVIOUS
  <2>2. U[p - 1] + 1 \in Nat \ {0}
    BY <1>1
  <2>. HIDE DEF v
  <2>. QED  BY <1>1, <1>2, <2>1, <2>2
<1>4. \A p \in 1..N : p \in Nat /\ (p = N \/ (p < N /\ p + 1 \in 1..N /\ (p + 1) - 1 = p /\ p < p + 1))
  <2>1. N \in Nat
    BY <1>1
  <2>. HIDE DEF N
  <2>. QED  BY <2>1
<1>5. v \in [1..N -> Nat \ {0}]
  BY <1>3
<1>. HIDE DEF v
<1>6. ASSUME NEW i \in DOMAIN lines
      PROVE  /\ lines[i].kind # "url"
             /\ lines[i].kind = "link" => \E p \in 1..N : i = v[p]
             /\ lines[i].kind = "heading" => ~(lines[i].level <= level)
  <2>1. PICK p \in 1..N : \E k \in 1..Len(doc[p].lines) : i = U[p - 1] + k /\ lines[i] = doc[p].lines[k]
    BY <1>1
  <2>2. PICK k \in 1..Len(doc[p].lines) : i = U[p - 1] + k /\ lines[i] = doc[p].lines[k]
    BY <2>1
  <2>3. CASE k = 1
    <3>1. i = v[p] /\ lines[i].kind = "link"
      BY <1>2, <1>3, <2>2, <2>3, KindFacts
    <3>. QED  BY <3>1
  <2>4. CASE k # 1
    <3>1. lines[i].kind \notin {"url", "link"} /\ (lines[i].kind = "heading" => lines[i].level > level)
      BY <1>2, <2>2, <2>4
    <3>2. lines[i].kind = "heading" => lines[i].level \in Nat
      BY <1>1, HeadingHasLevel
    <3>. QED  BY <3>1, <3>2
  <2>. QED  BY <2>3, <2>4
<1>7. LinesOf(lines, {"link"}) = {v[p] : p \in 1..N}
  <2>1. \A p \in 1..N : v[p] \in LinesOf(lines, {"link"})
    BY <1>3, KindFacts DEF LinesOf
  <2>2. \A i \in LinesOf(lines, {"link"}) : i \in DOMAIN lines /\ lines[i].kind = "link"
    BY DEF LinesOf
  <2>3. \A i \in LinesOf(lines, {"link"}) : \E p \in 1..N : i = v[p]
    BY <1>6, <2>2
  <2>. QED  BY <2>1, <2>3
<1>8. \A p, q \in 1..N : p < q => v[p] < v[q]
  <2>. TAKE p, q \in 1..N
  <2>1. /\ v[p] \in Nat /\ U[p] \in Nat /\ U[q - 1] \in Nat /\ v[q] \in Nat
        /\ v[p] <= U[p] /\ v[q] = U[q - 1] + 1
    BY <1>1, <1>3
  <2>2. p < q => U[p] <= U[q - 1]
    BY <1>1
  <2>3. \A a, b, c, d \in Nat : a <= b /\ b <= c /\ d = c + 1 => a < d
    OBVIOUS
  <2>. QED  BY <2>1, <2>2, <2>3
<1>9. FirstMatch(lines, "link", path) = IF M = {} THEN 0 ELSE v[Min(M)]
  <2>1. \A p \in 1..N : lines[v[p]].path = doc[p].path
    BY <1>3, KindFacts
  <2>2. PICK kind : kind = "link"
    OBVIOUS
  <2>3. LinesOf(lines, {kind}) = {v[p] : p \in 1..N}
    BY <1>7, <2>2
  <2>4. OneOfEach(doc, lines, v, kind)
    BY <1>5, <1>8, <2>1, <2>3 DEF OneOfEach
  <2>5. FirstMatch(lines, kind, path) =
           IF Matching(doc, path) = {} THEN 0 ELSE v[Min(Matching(doc, path))]
    BY ONLY <2>4, FirstOfPages
  <2>. QED  BY <2>2, <2>5
<1>10. extractByUrlLine(lines, path) = NoSection
  <2>1. LinesOf(lines, {"url"}) = {}
    BY <1>6 DEF LinesOf
  <2>2. FirstMatch(lines, "url", path) = 0
    BY <2>1 DEF FirstMatch
  <2>. QED  BY <2>2 DEF extractByUrlLine
(* A page ends where the next one begins.                                  *)
<1>11. ASSUME NEW p \in 1..N, FirstMatch(lines, "link", path) = v[p]
       PROVE  extractByHeadingLink(lines, path) = [from |-> v[p], to |-> U[p]]
  <2>. DEFINE closing == {j \in LinesOf(lines, {"heading", "link"}) :
                             j > v[p] /\ lines[j].level <= lines[v[p]].level}
  <2>1. v[p] \in Nat /\ v[p] # 0 /\ p \in Nat /\ U[p] \in Nat /\ lines[v[p]].level = level
    BY <1>1, <1>3, KindFacts
  <2>2. extractByHeadingLink(lines, path) =
           [from |-> v[p], to |-> IF closing = {} THEN Len(lines) ELSE Min(closing) - 1]
    BY <1>11, <2>1 DEF extractByHeadingLink
  <2>3. ASSUME NEW j \in closing
        PROVE  \E q \in 1..N : j = v[q] /\ p < q
    <3>1. /\ j \in DOMAIN lines /\ lines[j].kind \in {"heading", "link"} /\ j > v[p]
          /\ lines[j].level <= level
      BY <2>1 DEF LinesOf
    <3>2. PICK q \in 1..N : j = v[q]
      BY <1>6, <3>1
    <3>3. q \in Nat /\ v[q] \in Nat /\ (q < p => v[q] < v[p]) /\ (q = p \/ q < p \/ p < q)
      BY <1>1, <1>3, <1>8, <2>1
    <3>. QED  BY <2>1, <3>1, <3>2, <3>3
  <2>4. ASSUME NEW q \in 1..N, p < q
        PROVE  v[q] \in closing
    <3>1. v[q] \in DOMAIN lines /\ lines[v[q]].kind = "link" /\ lines[v[q]].level = level
      BY <1>3, KindFacts
    <3>2. v[q] > v[p] /\ level <= level
      BY <1>3, <1>8, <2>1, <2>4
    <3>. QED  BY <2>1, <3>1, <3>2 DEF LinesOf
  <2>. HIDE DEF closing
  <2>. p = N \/ p < N
    BY <1>4
  <2>5. CASE p = N
    <3>1. \A q \in 1..N : ~(p < q)
      BY <1>1, <2>5
    <3>2. closing = {} /\ Len(lines) = U[N]
      BY <2>3, <3>1 DEF Laid
    <3>. QED  BY <2>2, <2>5, <3>2
  <2>6. CASE p < N
    <3>1. p + 1 \in 1..N /\ (p + 1) - 1 = p /\ p < p + 1
      BY <1>4, <2>6
    <3>2. PICK n \in 1..N : n = p + 1 /\ n - 1 = p /\ p < n /\ n \in Nat
      BY <2>1, <3>1
    <3>3. v[n] \in closing /\ v[n] = U[p] + 1 /\ v[n] \in Nat
      BY <1>3, <2>4, <3>2
    <3>4. \A j \in closing : j \in Nat /\ v[n] <= j
      <4>. TAKE j \in closing
      <4>1. PICK q \in 1..N : j = v[q] /\ p < q
        BY <2>3
      <4>2. q \in Nat /\ v[q] \in Nat /\ (q = n \/ n < q)
        <5>1. q \in Nat /\ v[q] \in Nat
          BY <1>3, <1>4
        <5>. QED  BY <2>1, <3>2, <4>1, <5>1
      <4>. QED  BY <1>8, <3>3, <4>1, <4>2
    <3>5. Min(closing) = v[n]
      <4>1. closing \in SUBSET Int
        BY <3>4
      <4>2. PICK m \in closing : m = v[n]
        BY <3>3
      <4>3. \A j \in closing : m <= j
        BY <3>4, <4>2
      <4>4. Min(closing) = m
        BY ONLY <4>1, <4>3, MinIs
      <4>. QED  BY <4>2, <4>4
    <3>6. closing # {} /\ Min(closing) - 1 = U[p]
      BY <2>1, <3>3, <3>5
    <3>. QED  BY <2>2, <3>6
  <2>. QED  BY <2>5, <2>6
<1>12. CASE M = {}
  <2>1. extractByHeadingLink(lines, path) = NoSection
    BY <1>9, <1>12 DEF extractByHeadingLink
  <2>. QED  BY <1>10, <1>12, <2>1 DEF extractSection, Whole
<1>13. CASE M # {}
  <2>1. PICK p \in 1..N : p = Min(M)
    <3>1. M \in SUBSET Nat /\ M \subseteq 1..N
      BY <1>1 DEF Matching
    <3>. HIDE DEF M
    <3>. QED  BY <1>13, <3>1, LeastIsIn
  <2>2. FirstMatch(lines, "link", path) = v[p] /\ v[p] = U[p - 1] + 1
    BY <1>3, <1>9, <1>13, <2>1
  <2>3. extractByHeadingLink(lines, path) = [from |-> U[p - 1] + 1, to |-> U[p]]
    BY <1>11, <2>2
  <2>. QED  BY <1>10, <1>13, <2>1, <2>3 DEF extractSection, Whole
<1>. QED  BY <1>12, <1>13

-----------------------------------------------------------------------------
(* What is served of any document.                                         *)
LEMMA Sections ==
    ASSUME NEW doc \in Layouts, NEW path, SectionAssumption
    PROVE  extractSection(FlattenSeq([i \in DOMAIN doc |-> doc[i].lines]), path) =
              LET matching == {p \in DOMAIN doc : pathsMatch(doc[p].path, path)}
                  Upto(q) == Len(FlattenSeq([i \in 1..q |-> doc[i].lines]))
                  p == Min(matching)
              IN IF matching = {} THEN NoSection
                 ELSE [from |-> Upto(p - 1) + 1, to |-> Upto(p)]
<1>. DEFINE lines == FlattenSeq([i \in DOMAIN doc |-> doc[i].lines])
            Upto(q) == Len(FlattenSeq([i \in 1..q |-> doc[i].lines]))
            M == Matching(doc, path)
<1>1. doc \in Seq(PageRec) /\ (\/ \A i \in DOMAIN doc : UrlPage(doc[i])
                               \/ \E level \in 1..6 : \A i \in DOMAIN doc : LinkPage(doc[i], level))
  BY DEF SectionAssumption, PageRec
<1>2. PICK U : Laid(doc, lines, U) /\ \A q \in 0..Len(doc) : U[q] = Upto(q)
  BY <1>1, DocumentIsLaid
<1>. HIDE DEF lines, Upto
<1>3. extractSection(lines, path) = Whole(doc, U, path)
  <2>1. CASE \A i \in DOMAIN doc : UrlPage(doc[i])
    BY <1>1, <1>2, <2>1, UrlSections
  <2>2. CASE \E level \in 1..6 : \A i \in DOMAIN doc : LinkPage(doc[i], level)
    BY <1>1, <1>2, <2>2, LinkSections
  <2>. QED  BY <1>1, <2>1, <2>2
<1>4. ASSUME M # {} PROVE U[Min(M) - 1] = Upto(Min(M) - 1) /\ U[Min(M)] = Upto(Min(M))
  <2>1. DOMAIN doc = 1..Len(doc) /\ Len(doc) \in Nat
    BY <1>1
  <2>2. M \in SUBSET Nat /\ M \subseteq 1..Len(doc)
    BY <2>1 DEF Matching
  <2>. HIDE DEF M
  <2>3. Min(M) \in 1..Len(doc)
    BY <1>4, <2>2, LeastIsIn
  <2>4. PICK p \in 1..Len(doc) : p = Min(M)
    BY <2>3
  <2>5. p \in 0..Len(doc) /\ p - 1 \in 0..Len(doc)
    BY <2>1
  <2>. QED  BY <1>2, <2>4, <2>5
<1>. QED  BY <1>3, <1>4 DEF Whole, Matching, lines, Upto

(* What a request gets is what the document and its path determine.        *)
SectionInv ==
    /\ layout \in Layouts
    /\ section # Unasked =>
          section = IF listed THEN extractSection(content, want) ELSE NoSection

(* What tryLlmsTxtFetch serves of an llms-full.txt is all of one page of   *)
(* it, the first whose path matches, and nothing of another.               *)
THEOREM AlwaysOneWholePage == SectionSpec => []ServesOneWholePage
<1>1. SectionInit => SectionInv
  BY DEF SectionInit, SectionInv
<1>2. SectionInv /\ [tryLlmsTxtFetch]_sectionVars => SectionInv'
  <2>. SUFFICES ASSUME SectionInv, [tryLlmsTxtFetch]_sectionVars
                PROVE  SectionInv'
    OBVIOUS
  <2>1. layout' = layout /\ want' = want /\ listed' = listed
    BY DEF tryLlmsTxtFetch, sectionVars
  <2>2. content' = content
    BY <2>1 DEF content
  <2>3. CASE tryLlmsTxtFetch
    BY <2>1, <2>2, <2>3 DEF tryLlmsTxtFetch, SectionInv
  <2>4. CASE UNCHANGED sectionVars
    BY <2>1, <2>2, <2>4 DEF SectionInv, sectionVars
  <2>. QED  BY <2>3, <2>4
<1>3. SectionInv => ServesOneWholePage
  <2>. SUFFICES ASSUME SectionInv, section # Unasked
                PROVE  ServesOneWholePage
    BY DEF ServesOneWholePage
  <2>. DEFINE matching == {p \in DOMAIN layout : listed /\ pathsMatch(layout[p].path, want)}
              found == {p \in DOMAIN layout : pathsMatch(layout[p].path, want)}
  <2>1. SUFFICES section = IF matching = {} THEN NoSection ELSE PageSpan(Min(matching))
    BY <2>1 DEF ServesOneWholePage
  <2>2. CASE ~listed
    BY <2>2 DEF SectionInv
  <2>3. CASE listed
    <3>1. matching = found /\ section = extractSection(content, want)
      BY <2>3 DEF SectionInv
    <3>2. PICK doc \in Layouts : doc = layout
      BY DEF SectionInv
    <3>3. PICK path : path = want
      OBVIOUS
    <3>4. extractSection(FlattenSeq([i \in DOMAIN doc |-> doc[i].lines]), path) =
             LET match == {p \in DOMAIN doc : pathsMatch(doc[p].path, path)}
                 Upto(q) == Len(FlattenSeq([i \in 1..q |-> doc[i].lines]))
                 p == Min(match)
             IN IF match = {} THEN NoSection
                ELSE [from |-> Upto(p - 1) + 1, to |-> Upto(p)]
      BY SectionAssumption, Sections
    <3>. QED  BY <3>1, <3>2, <3>3, <3>4 DEF content, PageSpan
  <2>. QED  BY <2>2, <2>3
<1>. QED  BY <1>1, <1>2, <1>3, PTL DEF SectionSpec
=============================================================================
