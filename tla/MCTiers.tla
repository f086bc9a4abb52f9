------------------------------ MODULE MCTiers ------------------------------
(***************************************************************************)
(* Instances of what stands around the sources of a page: the routing of   *)
(* the tiers (TierRouting), the requests each source makes (PageSources,   *)
(* Crawl4aiTier) and the permission to ask the site itself (RobotsGate).   *)
(* They share no state; a behaviour is about the one in focus.             *)
(***************************************************************************)
EXTENDS TierRouting, PageSources, Crawl4aiTier, RobotsGate

VARIABLE focus

Tiers13   == {"tier1", "tier3"}
Overrides == {{}, {"tier1", "tier2"}}

Unasked ==
    /\ settings = [version |-> "v1", ignoreRobots |-> FALSE] /\ source = "kiwix"
    /\ asking = "none" /\ answer = "none" /\ outcome = "none" /\ told = FALSE

MCInit ==
    /\ focus \in {"routing", "sources", "crawl4ai", "robots"}
    /\ Init /\ Crawl4aiInit /\ RobotsInit
    /\ IF focus = "sources" THEN SourcesInit ELSE Unasked

(* A source's call that has ended, and a crawl handed to Crawl4AI.         *)
SourceDone == outcome # "none"
CrawlDone == CrawlAt("ended")

MCNext ==
    /\ \/ focus = "routing" /\ Next /\ UNCHANGED <<sourceVars, crawlVars, robotsVars>>
       \/ focus = "sources" /\ SourcesNext /\ UNCHANGED <<vars, crawlVars, robotsVars>>
       \/ focus = "crawl4ai" /\ Crawl4aiNext /\ UNCHANGED <<vars, sourceVars, robotsVars>>
       \/ focus = "robots" /\ RobotsNext /\ UNCHANGED <<vars, sourceVars, crawlVars>>
       \/ /\ (focus = "sources" /\ SourceDone) \/ (focus = "crawl4ai" /\ CrawlDone)
          /\ UNCHANGED <<vars, sourceVars, crawlVars, robotsVars>>
    /\ UNCHANGED focus

allVars == <<vars, sourceVars, crawlVars, robotsVars, focus>>

(* Fairness is TierRouting's: the clock moves.                             *)
MCSpec ==
    /\ MCInit /\ [][MCNext]_allVars
    /\ WF_allVars(focus = "routing" /\ Tick /\ UNCHANGED <<sourceVars, crawlVars, robotsVars, focus>>)
=============================================================================
