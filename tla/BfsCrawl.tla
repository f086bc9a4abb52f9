------------------------------ MODULE BfsCrawl ------------------------------
(***************************************************************************)
(* bfsCrawl of src/crawl.ts: the breadth-first phase of crawl_site, over   *)
(* any site.  One step takes one entry off the queue.                      *)
(*                                                                         *)
(* A URL stands for what is left after its fragment is cut off.  The site, *)
(* its robots.txt and the filters on links are drawn once and for all;     *)
(* whether a page can be fetched, and its links read, is free.             *)
(***************************************************************************)
EXTENDS Naturals, Sequences, SequencesExt

CONSTANTS
    BfsUrl,     \* the pages of the web
    startUrl,
    Robots,     \* the sets of pages a robots.txt may allow
    Filters,    \* the sets of pages whose links may pass the filters
    MaxPages,   \* values of maxPages
    MaxDepth    \* values of maxDepth (CRAWL_BFS_MAX_DEPTH)

ASSUME CrawlAssumption ==
    /\ IsFiniteSet(BfsUrl) /\ startUrl \in BfsUrl
    /\ Robots \subseteq SUBSET BfsUrl /\ Filters \subseteq SUBSET BfsUrl
    /\ MaxPages \subseteq Nat \ {0} /\ MaxDepth \subseteq Nat

VARIABLES
    site,      \* [links, allowed, follow]: the pages, robots.txt, the link filters
    bound,     \* the arguments maxPages and maxDepth
    visited,
    queue,     \* of [url, depth]
    pages,     \* the manifest's pages
    read,      \* history: the pages whose links were read
    fetched    \* history: how often each page was fetched

bfsCall == <<site, bound>>
bfsVars == <<bfsCall, visited, queue, pages, read, fetched>>

BfsInit ==
    /\ site \in [links : [BfsUrl -> SUBSET BfsUrl], allowed : Robots, follow : Filters]
    /\ \A u \in BfsUrl : u \notin site.links[u]     \* a page is visited when its links are read
    /\ bound \in [pages : MaxPages, depth : MaxDepth]
    /\ visited = {}
    /\ queue = <<[url |-> startUrl, depth |-> 0]>>
    /\ pages = {}
    /\ read = {}
    /\ fetched = [u \in BfsUrl |-> 0]

-----------------------------------------------------------------------------
Running == queue # <<>> /\ Cardinality(visited) < bound.pages

item == Head(queue)
DropItem == queue' = Tail(queue)

(* Seen already, too deep, or disallowed: a disallowed page costs nothing. *)
Skip ==
    /\ Running
    /\ item.url \in visited \/ item.depth > bound.depth \/ item.url \notin site.allowed
    /\ DropItem
    /\ UNCHANGED <<bfsCall, visited, pages, read, fetched>>

Visits ==
    /\ Running
    /\ item.url \notin visited /\ item.depth <= bound.depth /\ item.url \in site.allowed
    /\ visited' = visited \union {item.url}
    /\ fetched' = [fetched EXCEPT ![item.url] = @ + 1]

(* fetchPage or the raw fetch throws.                                      *)
BfsFetchFails ==
    /\ Visits
    /\ DropItem
    /\ UNCHANGED <<bfsCall, pages, read>>

(* Faults: links of the last level are followed too; links are pushed to   *)
(* the front.                                                              *)
Entries(L, depth) == SetToSeqs({[url |-> u, depth |-> depth] : u \in L})
FaultyExtend(L) == {Tail(queue) \o s : s \in Entries(L, item.depth)}
FaultyPush(L) == {s \o Tail(queue) : s \in Entries(L, item.depth + 1)}

(* The links L are appended, in the order they have on the page.           *)
Push(L) == {Tail(queue) \o s : s \in Entries(L, item.depth + 1)}

Follows == item.depth < bound.depth

(* The page is listed; its HTML may be missing, or break off.              *)
Fetches ==
    /\ Visits
    /\ pages' = pages \union {item.url}
    /\ LET links == IF Follows
                    THEN {u \in site.links[item.url] : u \notin visited' /\ u \in site.follow}
                    ELSE {}
       IN \/ /\ queue' \in Push(links)
             /\ read' = read \union {item.url}
          \/ \E part \in SUBSET links : queue' \in Push(part) /\ UNCHANGED read
    /\ UNCHANGED bfsCall

BfsNext == Skip \/ BfsFetchFails \/ Fetches

BfsSpec == BfsInit /\ [][BfsNext]_bfsVars

-----------------------------------------------------------------------------
Done == ~Running

(* The pages of a site that are within n links of the start, by way of the *)
(* pages R.                                                                *)
Onward(where, R, U) == {u \in where.follow : \E w \in U \intersect R : u \in where.links[w]}
Reach(where, R) ==
    LET W[n \in Nat] == IF n = 0 THEN {startUrl} ELSE W[n - 1] \union Onward(where, R, W[n - 1])
    IN W

Within(R) == Reach(site, R)

(* However many duplicates the queue holds: what maxPages bounds is the    *)
(* pages that are asked for, failures among them, none is fetched twice,   *)
(* and none is further from the start than maxDepth links.                 *)
FetchesWithinBounds ==
    /\ Cardinality(visited) <= bound.pages
    /\ \A u \in BfsUrl : fetched[u] <= 1
    /\ visited \subseteq Within(pages)[bound.depth]

(* The crawl misses nothing: unless the budget ended it, it has visited    *)
(* every page that is allowed and within maxDepth links of the start by    *)
(* way of pages whose links could be read.  A page that is reached by a    *)
(* long way first is still expanded as its shortest way demands.           *)
Complete ==
    (Done /\ Cardinality(visited) < bound.pages)
        => Within(read)[bound.depth] \intersect site.allowed \subseteq visited
=============================================================================
