---------------------------- MODULE SearchTools ----------------------------
(***************************************************************************)
(* The three search tools, from the request to the reply: searxSearch with *)
(* its cache and query expansion, the domain filters of domains.json, the  *)
(* reranker, the pages and the summary.  How one query reaches a replica   *)
(* of SearXNG is SearxFailover's subject.                                  *)
(*                                                                         *)
(* Calls meet in the cache alone.  One call at a time is followed here;    *)
(* what others do meanwhile, of this process or of another, is what may    *)
(* happen to the one cache key it is about.                                *)
(***************************************************************************)
EXTENDS Naturals, Sequences, SequencesExt, Filtering

CONSTANTS
    Result,          \* result URLs
    Unparsable,      \* those that new URL() rejects
    Language,
    Wanted,          \* num_results of search, fetch_count of the other two
    OverFetch,       \* 3: how many times what is wanted is asked for, ...
    MaxPool,         \* ... and 20, the most that is
    PoolForFetch,    \* 5: what search_and_fetch wants
    PoolExtra,       \* 2: what search_and_summarize wants beyond its pages
    Floors,          \* values of min_score; 0 stands for none
    relevance_score, \* what the reranker finds: a function on Result
    Recent,          \* results whose date adds RERANK_RECENCY_WEIGHT (1) to their score
    DomainConfigs,   \* contents of domains.json: [block, boost, profileBlock, profileBoost]
    NoEntry

ASSUME SearchAssumption ==
    /\ IsFiniteSet(Result) /\ Unparsable \union Recent \subseteq Result
    /\ {OverFetch, MaxPool, PoolForFetch} \subseteq Nat \ {0} /\ PoolExtra \in Nat
    /\ Wanted \subseteq Nat \ {0} /\ Floors \subseteq Nat /\ {} \notin {Wanted, Floors, Language}
    /\ relevance_score \in [Result -> Nat]
    /\ \A config \in DomainConfigs :
          config.block \union config.boost \union config.profileBlock \union config.profileBoost
              \subseteq Result \ Unparsable

VARIABLES
    searchEntry,    \* the results cached under the key, or NoEntry
    domainConfig,   \* the variable of that name
    seen,           \* the results whose domain record has seen_in_search
    dated,          \* is there a time range in the key?
    toolCall        \* the call: its request, where it is, what it holds

searchVars == <<searchEntry, domainConfig, seen, dated, toolCall>>

Tools == {"search", "search_and_fetch", "search_and_summarize"}

Requests == [tool : Tools, want : Wanted, lang : Language, profile : BOOLEAN,
             expand : BOOLEAN, floor : Floors]

(* Where a result is from: the language of the search that found it, and   *)
(* whether that was for the query itself or for a variant of it.           *)
Found(url, lang, own) == [url |-> url, lang |-> lang, own |-> own]

NoReply == [kind |-> "none", why |-> "none"]

NewCall(asked) == [at |-> "cache", req |-> asked, own |-> <<>>, pool |-> <<>>,
                   list |-> <<>>, got |-> {}, reply |-> NoReply]

Idle(reply) == [NewCall(CHOOSE asked \in Requests : TRUE) EXCEPT !.at = "idle", !.reply = reply]

EmptyConfig == [block |-> {}, boost |-> {}, profileBlock |-> {}, profileBoost |-> {}]

SearchInit ==
    /\ searchEntry = NoEntry
    /\ domainConfig \in DomainConfigs \union {EmptyConfig}
    /\ seen = {} /\ dated \in BOOLEAN
    /\ toolCall = Idle(NoReply)

-----------------------------------------------------------------------------
req == toolCall.req
SearchAt(where) == toolCall.at = where

BeginSearch ==
    /\ SearchAt("idle")
    /\ \E asked \in Requests : toolCall' = NewCall(asked)
    /\ UNCHANGED <<searchEntry, domainConfig, seen, dated>>

(* How many results the tool asks searxSearch for, and how many of them    *)
(* the reranker is to leave.                                               *)
NumResults == CASE req.tool = "search"               -> req.want
                [] req.tool = "search_and_fetch"     -> PoolForFetch
                [] req.tool = "search_and_summarize" -> req.want + PoolExtra
TopN == IF req.tool = "search_and_fetch" THEN PoolForFetch ELSE req.want
fetchCount == Min({NumResults * OverFetch, MaxPool})

(* Fire-and-forget writes, any of which may be dropped.                    *)
recordSearchAppearances(results) ==
    \E marked \in SUBSET ({r.url : r \in Range(results)} \ Unparsable) :
        seen' = seen \union marked

-----------------------------------------------------------------------------
(* domains.json                                                            *)
BlockList == domainConfig.block \union IF req.profile THEN domainConfig.profileBlock ELSE {}
BoostList == domainConfig.boost \union IF req.profile THEN domainConfig.profileBoost ELSE {}

applyDomainFilters(results) ==
    LET filtered == {i \in DOMAIN results : results[i].url \notin BlockList}
        boosted == {i \in filtered : results[i].url \in BoostList}
    IN Filter(results, boosted) \o Filter(results, filtered \ boosted)

(* searxSearch returns: an empty pool ends the two longer tools.           *)
Returned(pool) ==
    toolCall' = [toolCall EXCEPT !.own = <<>>, !.pool = pool,
               !.at = IF pool = <<>> /\ req.tool # "search" THEN "replying" ELSE "ranking",
               !.reply = IF pool = <<>> /\ req.tool # "search"
                         THEN [kind |-> "noresults", why |-> "none"] ELSE NoReply]

Kept == IF searchEntry = NoEntry THEN <<>> ELSE searchEntry

(* Fault: what was cached is taken to have been filtered.                  *)
FaultyCacheHit ==
    /\ SearchAt("cache") /\ searchEntry # NoEntry /\ ~req.expand
    /\ recordSearchAppearances(Kept)
    /\ Returned(Kept)
    /\ UNCHANGED <<searchEntry, domainConfig, dated>>

CacheHit ==
    /\ SearchAt("cache") /\ searchEntry # NoEntry /\ ~req.expand
    /\ recordSearchAppearances(Kept)
    /\ Returned(applyDomainFilters(Kept))
    /\ UNCHANGED <<searchEntry, domainConfig, dated>>

(* No entry, no cache, or an entry that does not parse; a call that is to  *)
(* expand its query reads the entry and leaves it.                         *)
CacheMiss ==
    /\ SearchAt("cache")
    /\ toolCall' = [toolCall EXCEPT !.at = "asking"]
    /\ UNCHANGED <<searchEntry, domainConfig, seen, dated>>

(* What SearXNG answers: at most n results, each URL once.                 *)
SearxAnswers(n, lang, own) ==
    {[i \in DOMAIN urls |-> Found(urls[i], lang, own)] :
        urls \in {list \in SetToAllKPermutations(Result) : Len(list) <= n}}

OriginalAnswered ==
    /\ SearchAt("asking")
    /\ \E own \in SearxAnswers(fetchCount, req.lang, TRUE) :
          toolCall' = [toolCall EXCEPT !.own = own, !.pool = own,
                                       !.at = IF req.expand THEN "variants" ELSE "storing"]
    /\ UNCHANGED <<searchEntry, domainConfig, seen, dated>>

(* No replica answered the query itself: whatever its variants find, the   *)
(* tool call fails.                                                        *)
OriginalFails ==
    /\ SearchAt("asking")
    /\ toolCall' = [toolCall EXCEPT !.at = "replying", !.reply = [kind |-> "error", why |-> "search"]]
    /\ UNCHANGED <<searchEntry, domainConfig, seen, dated>>

(* The variants' results come after the query's own, each URL once.  Those *)
(* of several variants, the ones that were answered, are one sequence.     *)
Merged(own, more) ==
    own \o Filter(more, {k \in DOMAIN more : \A i \in DOMAIN own : own[i].url # more[k].url})

VariantsSettled ==
    /\ SearchAt("variants")
    /\ \E more \in SearxAnswers(fetchCount, req.lang, FALSE) :
          toolCall' = [toolCall EXCEPT !.pool = Merged(toolCall.own, more), !.at = "storing"]
    /\ UNCHANGED <<searchEntry, domainConfig, seen, dated>>

(* Fault: the expanded pool is cached.                                     *)
FaultyToStore == toolCall.pool

ToStore == toolCall.own

(* The SET, which may fail, and then the filters as they are by now.       *)
StoreSearch ==
    /\ SearchAt("storing")
    /\ searchEntry' \in {ToStore, searchEntry}
    /\ recordSearchAppearances(toolCall.pool)
    /\ Returned(applyDomainFilters(toolCall.pool))
    /\ UNCHANGED <<domainConfig, dated>>

-----------------------------------------------------------------------------
(* rerankWithFallback                                                      *)
Score(r) == relevance_score[r.url] + IF ~dated /\ r.url \in Recent THEN 1 ELSE 0
Sorted(results) == \A i, j \in DOMAIN results : i < j => Score(results[i]) >= Score(results[j])
FirstOf(results, n) == SubSeq(results, 1, Min({n, Len(results)}))

(* Fault: the threshold is applied to the score that the order is by.      *)
FaultyQualifies(r) == Score(r) >= req.floor

(* The threshold is one on relevance.                                      *)
Qualifies(r) == relevance_score[r.url] >= req.floor

AfterRanking == IF req.tool = "search" THEN "replying" ELSE "pages"
RankedAs(list) ==
    toolCall' = [toolCall EXCEPT !.pool = <<>>, !.list = list, !.at = AfterRanking,
                   !.reply = IF req.tool = "search" THEN [kind |-> "list", why |-> "none"] ELSE NoReply]

(* Equal scores stay in the order in which the reranker names them.        *)
rerank ==
    /\ SearchAt("ranking")
    /\ \E scored \in SetToSeqs({r \in Range(toolCall.pool) : Qualifies(r)}) :
          Sorted(scored) /\ RankedAs(FirstOf(scored, TopN))
    /\ UNCHANGED <<searchEntry, domainConfig, seen, dated>>

(* There is none, or it does not answer: the order of SearXNG.             *)
NoRerank ==
    /\ SearchAt("ranking")
    /\ RankedAs(FirstOf(toolCall.pool, TopN))
    /\ UNCHANGED <<searchEntry, domainConfig, seen, dated>>

-----------------------------------------------------------------------------
(* The first results' pages are fetched side by side, and all awaited.     *)
FetchPages ==
    /\ SearchAt("pages")
    /\ \E got \in SUBSET (1..Min({req.want, Len(toolCall.list)})) :
          toolCall' = [toolCall EXCEPT !.got = got,
                     !.at = IF req.tool = "search_and_fetch" THEN "replying" ELSE "summarizing",
                     !.reply = IF req.tool = "search_and_fetch"
                               THEN [kind |-> "pages", why |-> "none"] ELSE NoReply]
    /\ UNCHANGED <<searchEntry, domainConfig, seen, dated>>

(* The language model, and what its answer is in the words of the notice.  *)
Says == {"summary", "blank", "garbled", "refused", "timeout"}

classifySummaryFailure(says) ==
    CASE says = "timeout" -> "timeout" [] says = "garbled" -> "parse-error"
      [] says = "blank"   -> "empty-response" [] says = "refused" -> "llm-error"

Summarized(kind, why) ==
    toolCall' = [toolCall EXCEPT !.at = "replying", !.reply = [kind |-> kind, why |-> why]]

IsSynthesis(says) == says = "summary"

summarizePages ==
    /\ SearchAt("summarizing")
    /\ \/ Summarized("notice", "not-configured")
       \/ toolCall.got = {} /\ Summarized("nocontent", "none")
       \/ /\ toolCall.got # {}
          /\ \E says \in Says :
                IF IsSynthesis(says) THEN Summarized("summary", says)
                ELSE Summarized("notice", classifySummaryFailure(says))
    /\ UNCHANGED <<searchEntry, domainConfig, seen, dated>>

(* withSearchEvents builds the event about a call that went well from the  *)
(* results' hostnames, within the same try.                                *)
Reply ==
    /\ SearchAt("replying")
    /\ toolCall' = Idle(IF \E r \in Range(toolCall.list) : r.url \in Unparsable
                        THEN [kind |-> "error", why |-> "event"] ELSE toolCall.reply)
    /\ UNCHANGED <<searchEntry, domainConfig, seen, dated>>

-----------------------------------------------------------------------------
(* The watcher of domains.json.  A file that is gone or malformed leaves   *)
(* the variable as it was.                                                 *)
loadDomainConfig ==
    /\ domainConfig' \in DomainConfigs
    /\ UNCHANGED <<searchEntry, seen, dated, toolCall>>

(* handleClearCache and the TTL.                                           *)
ClearSearches ==
    /\ searchEntry' = NoEntry
    /\ UNCHANGED <<domainConfig, seen, dated, toolCall>>

(* Another call about the same key, for a request of its own.  When it     *)
(* stores matters to this call only as it looks.                           *)
OthersStore ==
    /\ SearchAt("cache")
    /\ \E lang \in Language : searchEntry' \in SearxAnswers(MaxPool, lang, TRUE)
    /\ UNCHANGED <<domainConfig, seen, dated, toolCall>>

SearchNext ==
    \/ BeginSearch \/ CacheHit \/ CacheMiss \/ OriginalAnswered \/ OriginalFails
    \/ VariantsSettled \/ StoreSearch \/ rerank \/ NoRerank \/ FetchPages \/ summarizePages
    \/ Reply \/ loadDomainConfig \/ ClearSearches \/ OthersStore

SearchSpec == SearchInit /\ [][SearchNext]_searchVars
-----------------------------------------------------------------------------
SearchReturns == toolCall.at \in {"cache", "storing"} /\ toolCall'.at \in {"ranking", "replying"}

(* Results are cached before the filters and filtered after every read, so *)
(* that domains.json counts as it is when the search returns: nothing that *)
(* it blocks, for everyone or in the call's profile, is in the pool, from  *)
(* the cache or not, and what it boosts comes first.                       *)
FilteredAsConfigured ==
    [][SearchReturns =>
          LET pool == toolCall'.pool IN
          \A i \in DOMAIN pool :
              /\ pool[i].url \notin BlockList
              /\ \A j \in DOMAIN pool : i < j /\ pool[j].url \in BoostList => pool[i].url \in BoostList
      ]_searchVars

(* The reranker's list is the best there is: of the results that reach     *)
(* min_score on relevance alone, as many as were asked for if there are    *)
(* that many, none of them passed over for one of a lower score.  Or the   *)
(* reranker is out, and the list is SearXNG's, threshold ignored; there is *)
(* nothing in between.                                                     *)
BestOrUnranked ==
    [][SearchAt("ranking") /\ toolCall'.at # "ranking" =>
          LET list == toolCall'.list
              fit == {r \in Range(toolCall.pool) : relevance_score[r.url] >= req.floor}
          IN \/ /\ Range(list) \subseteq fit /\ Sorted(list)
                /\ Len(list) = Min({TopN, Cardinality(fit)}) /\ IsInjective(list)
                /\ \A r \in fit \ Range(list) : \A i \in DOMAIN list : Score(list[i]) >= Score(r)
             \/ list = FirstOf(toolCall.pool, TopN)
      ]_searchVars

(* Query expansion stays with the call that asked for it: what variants    *)
(* found reaches no call without it by way of the cache.                   *)
ExpansionStaysOut ==
    ~req.expand => \A r \in Range(toolCall.pool) \union Range(toolCall.list) : r.own

(* docs/tools.md: a search is for the language that it names.              *)
LanguageHonoured ==
    SearchAt("replying") => \A i \in DOMAIN toolCall.list : toolCall.list[i].lang = req.lang
=============================================================================
