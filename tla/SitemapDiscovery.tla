-------------------------- MODULE SitemapDiscovery --------------------------
(***************************************************************************)
(* discoverSitemapUrls: the pages that a site's sitemaps list.  Sitemaps   *)
(* that robots.txt names are tried first, then two well-known places; a    *)
(* sitemap may list further sitemaps, which are read depth first.          *)
(***************************************************************************)
EXTENDS Naturals, Sequences, FiniteSets

CONSTANTS
    Map,          \* addresses of sitemaps: URLs that end in ".xml"
    Page,         \* any other URL
    Sites,        \* what the addresses may hold: functions on Map
    Named,        \* what robots.txt may name: sequences of sitemaps
    WellKnown,    \* <<origin/sitemap.xml, origin/sitemap_index.xml>>
    SitemapDepth  \* maxDepth

ASSUME SitemapAssumption ==
    /\ IsFiniteSet(Map) /\ Map \intersect Page = {} /\ SitemapDepth \in Nat
    /\ Sites \subseteq [Map -> Seq(Map \union Page)]
    /\ WellKnown \in Seq(Map) \ {<<>>} /\ Named \subseteq Seq(Map)

VARIABLES
    sitemaps,    \* what each address holds; nothing to list and no answer are the same
    candidates,  \* the sitemaps to try, in order
    stack,       \* processSitemap's calls: what each has still to look at, outermost first
    allUrls,     \* the set of that name
    tried,       \* history: the candidates that were tried
    discovery    \* "running" or "done"

sitemapVars == <<sitemaps, candidates, stack, allUrls, tried, discovery>>

SitemapInit ==
    /\ sitemaps \in Sites
    /\ \E named \in Named : candidates = named \o WellKnown
    /\ stack = <<>> /\ allUrls = {} /\ tried = <<>>
    /\ discovery = "running"

-----------------------------------------------------------------------------
(* fetchSitemapXml and extractSitemapUrls.                                 *)
Enter(map) == stack' = Append(stack, sitemaps[map])

NextCandidate ==
    /\ discovery = "running" /\ stack = <<>> /\ candidates # <<>> /\ allUrls = {}
    /\ Enter(Head(candidates))
    /\ candidates' = Tail(candidates)
    /\ tried' = Append(tried, Head(candidates))
    /\ UNCHANGED <<sitemaps, allUrls, discovery>>

(* The next location of the innermost sitemap.                             *)
Innermost == stack[Len(stack)]
FaultyRest == [stack EXCEPT ![Len(stack)] = <<>>]     \* Fault: one location is enough.
Rest == [stack EXCEPT ![Len(stack)] = Tail(@)]
Looks == discovery = "running" /\ stack # <<>>

ListedPage ==
    /\ Looks /\ Innermost # <<>> /\ Head(Innermost) \in Page
    /\ allUrls' = allUrls \union {Head(Innermost)}
    /\ stack' = Rest
    /\ UNCHANGED <<sitemaps, candidates, tried, discovery>>

TooDeep == Len(stack) > SitemapDepth
Seen(map) == map \in allUrls

(* A child that was seen is passed over; one too deep counts as seen.      *)
ListedSitemap ==
    /\ Looks /\ Innermost # <<>> /\ Head(Innermost) \in Map
    /\ LET child == Head(Innermost) IN
          /\ allUrls' = allUrls \union {child}
          /\ stack' = IF Seen(child) \/ TooDeep THEN Rest ELSE Append(Rest, sitemaps[child])
    /\ UNCHANGED <<sitemaps, candidates, tried, discovery>>

SitemapRead ==
    /\ Looks /\ Innermost = <<>>
    /\ stack' = SubSeq(stack, 1, Len(stack) - 1)
    /\ UNCHANGED <<sitemaps, candidates, allUrls, tried, discovery>>

(* The first candidate that lists anything is the last.                    *)
DiscoveryEnds ==
    /\ discovery = "running" /\ stack = <<>>
    /\ candidates = <<>> \/ allUrls # {}
    /\ discovery' = "done"
    /\ UNCHANGED <<sitemaps, candidates, stack, allUrls, tried>>

SitemapNext ==
    NextCandidate \/ ListedPage \/ ListedSitemap \/ SitemapRead \/ DiscoveryEnds

SitemapSpec == SitemapInit /\ [][SitemapNext]_sitemapVars

discovered == allUrls \ Map

-----------------------------------------------------------------------------
Listed(map) == {sitemaps[map][i] : i \in DOMAIN sitemaps[map]}
Links(maps) == UNION {Listed(m) : m \in maps}

(* The sitemaps that can be reached from one in at most n steps, for any n.*)
ReachedFrom(map) ==
    LET within[n \in Nat] == IF n = 0 THEN {map}
                             ELSE within[n - 1] \union (Links(within[n - 1]) \intersect Map)
    IN within

(* Nothing is listed that the one candidate which won does not lead to, by *)
(* a chain no longer than maxDepth; where no chain can be longer, nothing  *)
(* that it leads to is missed, loops and shared children included (of      *)
(* maxDepth sitemaps, the first of which is read twice if one lists it);   *)
(* and a candidate wins only if those before it list nothing.              *)
Discovers ==
    discovery = "done" =>
        LET winner == tried[Len(tried)]
            all == ReachedFrom(winner)[Cardinality(Map)]
        IN /\ discovered \subseteq Links(ReachedFrom(winner)[SitemapDepth])
           /\ Cardinality(all) <= SitemapDepth => discovered = Links(all) \ Map
           /\ \A i \in 1..Len(tried) - 1 : sitemaps[tried[i]] = <<>>
=============================================================================
