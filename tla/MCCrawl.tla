------------------------------ MODULE MCCrawl ------------------------------
(***************************************************************************)
(* Instances of the crawl tool: the cascade of strategies (SiteCrawl) and  *)
(* two of its phases in detail, which it takes one step for: the sitemaps  *)
(* (SitemapDiscovery) and the breadth-first crawl (BfsCrawl).  They share  *)
(* no state; a behaviour is about the one in focus.                        *)
(***************************************************************************)
EXTENDS SiteCrawl, SitemapDiscovery, BfsCrawl

CONSTANTS
    c1, c2, a, b, d,             \* calls, and pages of their site
    top, index, sub,             \* sitemaps
    home, docs, blog, shop       \* pages

VARIABLE focus

-----------------------------------------------------------------------------
(* No pages; more than are asked for, a disallowed one and one twice among *)
(* them; fewer.                                                            *)
SomeLists == {<<>>, <<d, a, b, b>>, <<b, a>>}

(* Every phase, and the least there can be of each.                        *)
SomeConfigs == {[firecrawl |-> "v2", bfs |-> TRUE], [firecrawl |-> "v1", bfs |-> FALSE],
                [firecrawl |-> "none", bfs |-> FALSE]}

(* Three sitemaps, each with any list of up to two sitemaps or pages, the  *)
(* last with one.                                                          *)
SomeSitemaps == {s \in [Map -> BoundedSeq(Map \union Page, 2)] : Len(s[sub]) <= 1}
SomeNames == {<<>>, <<sub>>}
TwoPlaces == <<top, index>>

WebPages == {home, docs, blog, shop}
OneDisallowed == {WebPages, WebPages \ {blog}}
OneExcluded == {WebPages, WebPages \ {shop}}

-----------------------------------------------------------------------------
NoSitemap ==
    /\ sitemaps = [m \in Map |-> <<>>] /\ candidates = <<>> /\ stack = <<>>
    /\ allUrls = {} /\ tried = <<>> /\ discovery = "running"

NoPages ==
    /\ site = [links |-> [u \in BfsUrl |-> {}], allowed |-> {}, follow |-> {}]
    /\ bound = [pages |-> 0, depth |-> 0]
    /\ visited = {} /\ queue = <<>> /\ pages = {} /\ read = {}
    /\ fetched = [u \in BfsUrl |-> 0]

(* No page links to the first; links back to visited pages there are.      *)
NoWayBack == \A u \in BfsUrl : startUrl \notin site.links[u]

MCInit ==
    /\ focus \in {"crawl", "sitemap", "bfs"}
    /\ IF focus = "crawl" THEN Init
       ELSE /\ config \in Configs /\ config.firecrawl = "none" /\ manifest = None
            /\ crawl = [c \in Crawl |-> Fresh] /\ booked = [c \in Crawl |-> 0]
    /\ IF focus = "sitemap" THEN SitemapInit ELSE NoSitemap
    /\ IF focus = "bfs" THEN BfsInit /\ NoWayBack ELSE NoPages

MCNext ==
    /\ \/ focus = "crawl" /\ Next /\ UNCHANGED <<sitemapVars, bfsVars>>
       \/ focus = "sitemap" /\ SitemapNext /\ UNCHANGED <<vars, bfsVars>>
       \/ focus = "bfs" /\ BfsNext /\ UNCHANGED <<vars, sitemapVars>>
       \/ /\ (focus = "sitemap" /\ discovery = "done") \/ (focus = "bfs" /\ Done)
          /\ UNCHANGED <<vars, sitemapVars, bfsVars>>
    /\ UNCHANGED focus

allVars == <<vars, sitemapVars, bfsVars, focus>>

(* Fairness is SiteCrawl's: time passes, and every await of a crawl ends.  *)
Crawls(A) == focus = "crawl" /\ A /\ UNCHANGED <<config, sitemapVars, bfsVars, focus>>
MCSpec ==
    /\ MCInit /\ [][MCNext]_allVars
    /\ WF_allVars(Crawls(Tick))
    /\ \A c \in Crawl : WF_allVars(Crawls(crawlSite(c)))
=============================================================================
