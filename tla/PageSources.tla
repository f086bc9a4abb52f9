---------------------------- MODULE PageSources ----------------------------
(***************************************************************************)
(* The sources of pages that fetchPage goes through, each as the requests  *)
(* it makes, one after the other, and what it makes of their answers.      *)
(* What a call ends with is what fetchPage sees: a page ("hit"), null      *)
(* ("miss"), a ChallengeDetectedError ("challenge") or another one         *)
(* ("error").                                                              *)
(*                                                                         *)
(* An answer is known by what tells it apart for the code that reads it;   *)
(* each request names the answers it may get.                              *)
(***************************************************************************)
EXTENDS Naturals, Sequences

CONSTANTS
    ApiVersions,     \* values of FIRECRAWL_API_VERSION
    IgnoreRobots     \* values of YOUTUBE_IGNORE_ROBOTS and REDDIT_IGNORE_ROBOTS

ASSUME SourcesAssumption == ApiVersions \subseteq {"v1", "v2"} /\ IgnoreRobots \subseteq BOOLEAN

VARIABLES
    settings,    \* the environment's: [version, ignoreRobots]
    source,      \* the source the call is about
    asking,      \* the request under way, or "none"
    answer,      \* the last answer
    outcome,     \* "none", then what the call ended with
    told         \* has it been said, in a log line, a counter or an error, that
                 \* the source could not be asked?

sourceVars == <<settings, source, asking, answer, outcome, told>>

Sources == {"tier1_firecrawl", "tier3_rawfetch", "solver_byparr", "tier4_wayback",
            "kiwix", "hister", "youtube", "reddit", "github", "metadata"}

(* No answer: the transport failed, or the timeout ended it.               *)
Silence == {"unreachable", "timeout"}

(* A status that is not 2xx: a redirect, which is not followed, a 403 or   *)
(* 503 of a Cloudflare edge, any other.                                    *)
Refusals == {"redirect", "edge", "refused"}

(* Bodies of a web page: an article, one without a byte, an interstitial,  *)
(* a PDF, a structured document.                                           *)
WebBodies == {"page", "blank", "interstitial", "pdf", "structured"}

(* Bodies of a service: what was asked for; the same with nothing in it;   *)
(* "there is none"; another page's, or a place that must not be asked;     *)
(* an error that the service reports; a page's error page; no JSON, or     *)
(* another protocol.                                                       *)
ServiceBodies == {"page", "blank", "interstitial", "nothing", "elsewhere", "failing",
                  "errorpage", "garbled"}

FromTheWeb == Silence \union Refusals \union WebBodies
FromAService == Silence \union {"refused"} \union ServiceBodies

SourcesInit ==
    /\ settings \in [version : ApiVersions, ignoreRobots : IgnoreRobots]
    /\ source \in Sources
    /\ asking = "none" /\ answer = "none" /\ outcome = "none" /\ told = FALSE

-----------------------------------------------------------------------------
Asks(request) == asking' = request
Answered(request, answers) ==
    asking = request /\ answer' \in answers /\ UNCHANGED <<settings, source>>
Continues(request) == Asks(request) /\ UNCHANGED <<outcome, told>>
Ends(with, tells) == asking' = "none" /\ outcome' = with /\ told' = tells

(* An error rises to runTier, which books its reason.                      *)
Throws == Ends("error", TRUE)
Null == Ends("miss", FALSE)

(* Fault: a bare catch.                                                    *)
FaultyNullAfterWarning == Null

(* catch: warnDependencyFailure speaks of a transport failure only.        *)
NullAfterWarning == Ends("miss", answer' \in Silence)

Starts(s, request) ==
    /\ source = s /\ asking = "none" /\ outcome = "none"
    /\ Asks(request)
    /\ UNCHANGED <<settings, source, answer, outcome, told>>

(* Not configured, switched off, or a URL the source has nothing for.      *)
Declines ==
    /\ source \notin {"tier1_firecrawl", "tier3_rawfetch", "github", "metadata"}
    /\ asking = "none" /\ outcome = "none"
    /\ Null
    /\ UNCHANGED <<settings, source, answer>>

-----------------------------------------------------------------------------
(* rawFetch, of the page itself, of a solved page or of a snapshot; hit    *)
(* and challenge are what the caller makes of them, caught is what it does *)
(* with any other error.                                                   *)
Challenges == {"edge", "interstitial"}

rawFetch(hit, challenge, caught) ==
    \/ answer' \in Challenges /\ challenge
    \/ answer' \in Silence \union {"redirect", "refused", "pdf"} /\ caught
    \/ answer' \notin Challenges \union Silence \union {"redirect", "refused", "pdf"} /\ hit

Hit == Ends("hit", FALSE)
Challenge == Ends("challenge", FALSE)

RawStarts == Starts("tier3_rawfetch", "page")
RawPage == Answered("page", FromTheWeb) /\ rawFetch(Hit, Challenge, Throws)

(* The unrendered page, fetched beside the tiers for its metadata alone.   *)
MetadataStarts == Starts("metadata", "html")

fetchRawHtmlForMetadata ==
    /\ Answered("html", FromTheWeb)
    /\ \/ answer' \in Silence /\ NullAfterWarning
       \/ answer' \in Refusals /\ Null
       \/ answer' \in WebBodies /\ Ends("html", FALSE)

-----------------------------------------------------------------------------
(* Tier 1.  Under v2 the page's own status counts; the tier takes a page   *)
(* without text for none before it looks for a challenge.                  *)
FirecrawlStarts == Starts("tier1_firecrawl", "scrape")

firecrawlScrape ==
    /\ Answered("scrape", FromAService)
    /\ \/ answer' \in Silence \union {"refused", "garbled", "failing", "nothing"} /\ Throws
       \/ answer' = "errorpage" /\ settings.version = "v2" /\ Throws
       \/ answer' = "blank" /\ Null
       \/ answer' = "interstitial" /\ Challenge
       \/ answer' \in {"page", "elsewhere"} /\ Hit
       \/ answer' = "errorpage" /\ settings.version = "v1" /\ Hit

-----------------------------------------------------------------------------
(* The solver's answer says where it ended up, and that must be public;    *)
(* the page is then fetched again with the session it solved.              *)
SolverStarts == Starts("solver_byparr", "solve")

Solve ==
    /\ Answered("solve", FromAService \ {"interstitial", "errorpage"})
    /\ \/ answer' \in Silence /\ NullAfterWarning
       \/ answer' \in {"refused", "garbled", "elsewhere"} /\ Ends("miss", TRUE)
       \/ answer' \in {"nothing", "failing"} /\ Null
       \/ answer' \in {"page", "blank"} /\ Continues("replay")

Replay == Answered("replay", FromTheWeb) /\ rawFetch(Hit, Challenge, NullAfterWarning)

-----------------------------------------------------------------------------
(* The archive's index, and then the snapshot.  A snapshot that is an      *)
(* interstitial is caught like everything else.                            *)
WaybackStarts == Starts("tier4_wayback", "available")

Available ==
    /\ Answered("available", FromAService \ {"interstitial", "errorpage", "failing", "blank"})
    /\ \/ answer' \in Silence \union {"garbled"} /\ NullAfterWarning
       \/ answer' \in {"refused", "nothing", "elsewhere"} /\ Null
       \/ answer' = "page" /\ Continues("snapshot")

Snapshot == Answered("snapshot", FromTheWeb) /\ rawFetch(Hit, Null, NullAfterWarning)

-----------------------------------------------------------------------------
KiwixStarts == Starts("kiwix", "article")

Article ==
    /\ Answered("article", Silence \union {"refused", "page", "blank"})
    /\ \/ answer' \in Silence /\ NullAfterWarning
       \/ answer' \in {"refused", "blank"} /\ Null
       \/ answer' = "page" /\ Hit

(* Hister counts every miss under a reason of its own.                     *)
HisterStarts == Starts("hister", "lookup")

HisterLookup ==
    /\ Answered("lookup", FromAService \ {"interstitial", "errorpage"})
    /\ IF answer' = "page" THEN Hit ELSE Ends("miss", TRUE)

-----------------------------------------------------------------------------
(* YouTube: the watch page, and then the captions it names.  Reddit: the   *)
(* thread as JSON.  Both ask robots.txt first unless told not to.          *)
BehindRobots(s, request) ==
    \/ settings.ignoreRobots /\ Starts(s, request)
    \/ ~settings.ignoreRobots /\ Starts(s, "robots")

YouTubeStarts == BehindRobots("youtube", "watch")
RedditStarts == BehindRobots("reddit", "thread")

Robots ==
    /\ Answered("robots", {"allowed", "disallowed"})
    /\ \/ answer' = "disallowed" /\ Null
       \/ answer' = "allowed" /\ Continues(IF source = "youtube" THEN "watch" ELSE "thread")

Watch ==
    /\ Answered("watch", Silence \union {"refused", "garbled", "nothing", "page"})
    /\ \/ answer' \in Silence \union {"garbled"} /\ NullAfterWarning
       \/ answer' \in {"refused", "nothing"} /\ Null
       \/ answer' = "page" /\ Continues("captions")

Captions ==
    /\ Answered("captions", Silence \union {"refused", "blank", "page"})
    /\ \/ answer' \in Silence /\ NullAfterWarning
       \/ answer' \in {"refused", "blank"} /\ Null
       \/ answer' = "page" /\ Hit

Thread ==
    /\ Answered("thread", Silence \union {"refused", "garbled", "nothing", "page"})
    /\ \/ answer' \in Silence \union {"garbled"} /\ NullAfterWarning
       \/ answer' \in {"refused", "nothing"} /\ Null
       \/ answer' = "page" /\ Hit

-----------------------------------------------------------------------------
(* GitHub: a file, an API document or a repository's README; whatever goes *)
(* wrong is the request's failure.                                         *)
GithubStarts == \E request \in {"file", "api", "readme"} : Starts("github", request)

Github ==
    /\ \/ Answered("file", Silence \union {"redirect", "refused", "page", "blank"})
       \/ Answered("api", Silence \union {"redirect", "refused", "garbled", "page"})
       \/ Answered("readme", Silence \union {"redirect", "refused", "garbled", "page"})
    /\ IF answer' \in {"page", "blank"} THEN Hit ELSE Throws

SourcesNext ==
    \/ Declines \/ RawStarts \/ RawPage \/ MetadataStarts
    \/ fetchRawHtmlForMetadata \/ FirecrawlStarts \/ firecrawlScrape
    \/ SolverStarts \/ Solve \/ Replay \/ WaybackStarts \/ Available \/ Snapshot
    \/ KiwixStarts \/ Article \/ HisterStarts \/ HisterLookup
    \/ YouTubeStarts \/ RedditStarts \/ Robots \/ Watch \/ Captions \/ Thread
    \/ GithubStarts \/ Github

SourcesSpec == SourcesInit /\ [][SourcesNext]_sourceVars

-----------------------------------------------------------------------------
(* vikunja#687: a null that stands for "we could not find out" is told     *)
(* apart from one that stands for "there is none".  Whichever request of   *)
(* whichever source goes unanswered, someone is told.                      *)
OutageIsTold == outcome # "none" /\ answer \in Silence => told
=============================================================================
