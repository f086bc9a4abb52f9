---------------------------- MODULE Tiers_proofs ----------------------------
(***************************************************************************)
(* Where a page comes from: proofs about the routing of a host's tiers,    *)
(* the Crawl4AI tier, the sources and the robots gate, whose modules share *)
(* no name.                                                                *)
(*                                                                         *)
(* Routing: a slot's log is in the order of time and holds nothing that    *)
(* has left the window, so the attempts of a running window are the latest *)
(* ones, and the statistics count exactly those.                           *)
(***************************************************************************)
EXTENDS TierRouting, Crawl4aiTier, PageSources, RobotsGate, DataLemmas

-----------------------------------------------------------------------------
(* Crawl4AI.                                                               *)

(* The variables keep their types, whatever the two clocks are set to.     *)
THEOREM Crawl4aiTypeCorrect == Crawl4aiSpec => []Crawl4aiTypeOK
<1>. USE Crawl4aiAssumption DEF Outages, CallTime
<1>1. Crawl4aiInit => Crawl4aiTypeOK
  BY DEF Crawl4aiInit, Crawl4aiTypeOK
<1>2. Crawl4aiTypeOK /\ [Crawl4aiNext]_crawlVars => Crawl4aiTypeOK'
  <2>. SUFFICES ASSUME Crawl4aiTypeOK, [Crawl4aiNext]_crawlVars
                PROVE  Crawl4aiTypeOK'
    OBVIOUS
  <2>. USE DEF Crawl4aiTypeOK, CrawlAt, CrawlEnds, Aborted, resultToTier
  <2>1. CASE BeginCrawl      BY <2>1 DEF BeginCrawl
  <2>2. CASE Results         BY <2>2 DEF Results
  <2>3. CASE NoResults       BY <2>3 DEF NoResults
  <2>4. CASE Enqueued        BY <2>4 DEF Enqueued
  <2>5. CASE PostFails       BY <2>5 DEF PostFails
  <2>6. CASE PauseOver       BY <2>6 DEF PauseOver
  <2>7. CASE PollRunning     BY <2>7 DEF PollRunning, NextPoll
  <2>8. CASE PollCompleted   BY <2>8 DEF PollCompleted
  <2>9. CASE PollFailed      BY <2>9 DEF PollFailed
  <2>10. CASE PollFails      BY <2>10 DEF PollFails
  <2>11. CASE JobEnds        BY <2>11 DEF JobEnds
  <2>12. CASE CrawlTick      BY <2>12 DEF CrawlTick
  <2>13. CASE UNCHANGED crawlVars BY <2>13 DEF crawlVars
  <2>. QED  BY <2>1, <2>2, <2>3, <2>4, <2>5, <2>6, <2>7, <2>8, <2>9, <2>10, <2>11, <2>12, <2>13
            DEF Crawl4aiNext
<1>. QED  BY <1>1, <1>2, PTL DEF Crawl4aiSpec

(* The tier's null, wherever the call ended with it.                       *)
NullInv ==
    crawl.outcome = "null" => CrawlAt("ended") /\ backend = "blank"

(* An outage of the backend is never taken for an empty page.  A call that *)
(* has ended hears nothing any more, which makes the invariant inductive.  *)
THEOREM UnavailableIsNeverEmpty == Crawl4aiSpec => []UnavailableIsNotEmpty
<1>1. Crawl4aiInit => NullInv
  BY DEF Crawl4aiInit, NullInv
<1>2. Crawl4aiTypeOK /\ NullInv /\ [Crawl4aiNext]_crawlVars => NullInv'
  <2>. SUFFICES ASSUME Crawl4aiTypeOK, NullInv, [Crawl4aiNext]_crawlVars
                PROVE  NullInv'
    OBVIOUS
  <2>. USE DEF Crawl4aiTypeOK, NullInv, CrawlAt, CrawlEnds, resultToTier
  <2>1. CASE BeginCrawl      BY <2>1 DEF BeginCrawl
  <2>2. CASE Results         BY <2>2 DEF Results
  <2>3. CASE NoResults       BY <2>3 DEF NoResults
  <2>4. CASE Enqueued        BY <2>4 DEF Enqueued
  <2>5. CASE PostFails       BY <2>5 DEF PostFails
  <2>6. CASE PauseOver       BY <2>6 DEF PauseOver
  <2>7. CASE PollRunning     BY <2>7 DEF PollRunning, NextPoll
  <2>8. CASE PollCompleted   BY <2>8 DEF PollCompleted
  <2>9. CASE PollFailed      BY <2>9 DEF PollFailed
  <2>10. CASE PollFails      BY <2>10 DEF PollFails
  <2>11. CASE JobEnds        BY <2>11 DEF JobEnds
  <2>12. CASE CrawlTick      BY <2>12 DEF CrawlTick
  <2>13. CASE UNCHANGED crawlVars BY <2>13 DEF crawlVars
  <2>. QED  BY <2>1, <2>2, <2>3, <2>4, <2>5, <2>6, <2>7, <2>8, <2>9, <2>10, <2>11, <2>12, <2>13
            DEF Crawl4aiNext
<1>3. NullInv => UnavailableIsNotEmpty
  BY DEF NullInv, UnavailableIsNotEmpty
<1>. QED  BY <1>1, <1>2, <1>3, Crawl4aiTypeCorrect, PTL DEF Crawl4aiSpec

(* elapsed + pause is when the pause under way ends: it began before the   *)
(* abort and before the deadline.                                          *)
ClockInv ==
    /\ elapsed <= CallTime
    /\ crawl.at \in {"idle", "posting", "polling"} => elapsed <= AbortAfter
    /\ CrawlAt("pausing") => elapsed + pause < CallTime /\ elapsed + pause < deadline + PollPause

(* Every call of the tier is over by its abort and one pause, and no pause *)
(* of its polling reaches further than one past the poll budget, for any   *)
(* durations and whatever the backend does with the job.                   *)
THEOREM PollingAlwaysEnds == Crawl4aiSpec => []PollingEnds
<1>. USE Crawl4aiAssumption DEF CallTime
<1>1. Crawl4aiInit => ClockInv
  BY DEF Crawl4aiInit, ClockInv, CrawlAt
<1>2. Crawl4aiTypeOK /\ ClockInv /\ [Crawl4aiNext]_crawlVars => ClockInv'
  <2>. SUFFICES ASSUME Crawl4aiTypeOK, ClockInv, [Crawl4aiNext]_crawlVars
                PROVE  ClockInv'
    OBVIOUS
  <2>. USE DEF Crawl4aiTypeOK, ClockInv, CrawlAt, CrawlEnds, Aborted, resultToTier
  <2>1. CASE BeginCrawl      BY <2>1 DEF BeginCrawl
  <2>2. CASE Results         BY <2>2 DEF Results
  <2>3. CASE NoResults       BY <2>3 DEF NoResults
  <2>4. CASE Enqueued        BY <2>4 DEF Enqueued
  <2>5. CASE PostFails       BY <2>5 DEF PostFails
  <2>6. CASE PauseOver       BY <2>6 DEF PauseOver
  <2>7. CASE PollRunning     BY <2>7 DEF PollRunning, NextPoll
  <2>8. CASE PollCompleted   BY <2>8 DEF PollCompleted
  <2>9. CASE PollFailed      BY <2>9 DEF PollFailed
  <2>10. CASE PollFails      BY <2>10 DEF PollFails
  <2>11. CASE JobEnds        BY <2>11 DEF JobEnds
  <2>12. CASE CrawlTick      BY <2>12 DEF CrawlTick
  <2>13. CASE UNCHANGED crawlVars BY <2>13 DEF crawlVars
  <2>. QED  BY <2>1, <2>2, <2>3, <2>4, <2>5, <2>6, <2>7, <2>8, <2>9, <2>10, <2>11, <2>12, <2>13
            DEF Crawl4aiNext
<1>3. Crawl4aiTypeOK /\ ClockInv => PollingEnds
  BY DEF Crawl4aiTypeOK, ClockInv, PollingEnds, CrawlAt
<1>. QED  BY <1>1, <1>2, <1>3, Crawl4aiTypeCorrect, PTL DEF Crawl4aiSpec

-----------------------------------------------------------------------------
(* The sources of pages.                                                   *)

(* The last answer is a silence only while the call goes on, or if it has  *)
(* ended and told of it: a request that is under way hears the answer that *)
(* the proof of each action then looks at.                                 *)
SilenceInv ==
    /\ outcome # "none" => asking = "none"
    /\ asking = "none" /\ outcome = "none" => answer = "none"
    /\ outcome # "none" /\ answer \in Silence => told

(* A request that goes unanswered is told of, by every source and at every *)
(* one of its requests, whatever the settings.                             *)
THEOREM OutageIsAlwaysTold == SourcesSpec => []OutageIsTold
<1>1. SourcesInit => SilenceInv
  BY DEF SourcesInit, SilenceInv
<1>2. SilenceInv /\ [SourcesNext]_sourceVars => SilenceInv'
  <2>. SUFFICES ASSUME SilenceInv, [SourcesNext]_sourceVars
                PROVE  SilenceInv'
    OBVIOUS
  <2>. USE DEF SilenceInv, Silence, Starts, Answered, Ends, Asks, Null, Throws, Hit, Challenge,
               Continues, NullAfterWarning
  <2>1. CASE Declines         BY <2>1 DEF Declines
  <2>2. CASE RawStarts        BY <2>2 DEF RawStarts
  <2>3. CASE RawPage          BY <2>3 DEF RawPage, rawFetch, Challenges
  <2>4. CASE MetadataStarts   BY <2>4 DEF MetadataStarts
  <2>5. CASE fetchRawHtmlForMetadata
    BY <2>5 DEF fetchRawHtmlForMetadata, Refusals, WebBodies
  <2>6. CASE FirecrawlStarts  BY <2>6 DEF FirecrawlStarts
  <2>7. CASE firecrawlScrape  BY <2>7 DEF firecrawlScrape
  <2>8. CASE SolverStarts     BY <2>8 DEF SolverStarts
  <2>9. CASE Solve            BY <2>9 DEF Solve
  <2>10. CASE Replay          BY <2>10 DEF Replay, rawFetch, Challenges
  <2>11. CASE WaybackStarts   BY <2>11 DEF WaybackStarts
  <2>12. CASE Available       BY <2>12 DEF Available
  <2>13. CASE Snapshot        BY <2>13 DEF Snapshot, rawFetch, Challenges
  <2>14. CASE KiwixStarts     BY <2>14 DEF KiwixStarts
  <2>15. CASE Article         BY <2>15 DEF Article
  <2>16. CASE HisterStarts    BY <2>16 DEF HisterStarts
  <2>17. CASE HisterLookup    BY <2>17 DEF HisterLookup
  <2>18. CASE YouTubeStarts   BY <2>18 DEF YouTubeStarts, BehindRobots
  <2>19. CASE RedditStarts    BY <2>19 DEF RedditStarts, BehindRobots
  <2>20. CASE Robots          BY <2>20 DEF Robots
  <2>21. CASE Watch           BY <2>21 DEF Watch
  <2>22. CASE Captions        BY <2>22 DEF Captions
  <2>23. CASE Thread          BY <2>23 DEF Thread
  <2>24. CASE GithubStarts    BY <2>24 DEF GithubStarts
  <2>25. CASE Github          BY <2>25 DEF Github
  <2>26. CASE UNCHANGED sourceVars BY <2>26 DEF sourceVars
  <2>. QED
    BY <2>1, <2>2, <2>3, <2>4, <2>5, <2>6, <2>7, <2>8, <2>9, <2>10, <2>11, <2>12, <2>13, <2>14,
       <2>15, <2>16, <2>17, <2>18, <2>19, <2>20, <2>21, <2>22, <2>23, <2>24, <2>25, <2>26
       DEF SourcesNext
<1>3. SilenceInv => OutageIsTold
  BY DEF SilenceInv, OutageIsTold
<1>. QED  BY <1>1, <1>2, <1>3, PTL DEF SourcesSpec

-----------------------------------------------------------------------------
(* The robots gate.                                                        *)

(* What is left of an entry and its age make up the lifetime of its kind.  *)
LifeInv ==
    robotsEntry # NoRobots => robotsEntry.left + robotsEntry.ago = TtlOf(robotsEntry.says)

RobotsInv == RobotsTypeOK /\ LifeInv

(* A verdict leaves the types as they are.                                 *)
LEMMA VerdictTypes ==
    ASSUME RobotsTypeOK, NEW c \in Check, NEW says \in RobotsSays, Judge(c, says)
    PROVE  /\ check' \in [Check -> [at : {"idle", "lookup", "fetching", "storing"},
                                    says : RobotsSays, verdict : Verdicts]]
           /\ robotsFact' \in [present : BOOLEAN, allows : BOOLEAN] \union {NoRobots}
<1>1. \E v \in Verdicts : Verdict(c, v)
  BY DEF Judge, Verdicts, RobotsSays
<1>2. PICK v \in Verdicts : Verdict(c, v)
  BY <1>1
<1>3. [at |-> "idle", says |-> "failed", verdict |-> v]
          \in [at : {"idle", "lookup", "fetching", "storing"}, says : RobotsSays, verdict : Verdicts]
  BY DEF RobotsSays
<1>4. check' \in [Check -> [at : {"idle", "lookup", "fetching", "storing"},
                            says : RobotsSays, verdict : Verdicts]]
  BY <1>2, <1>3 DEF Verdict, RobotsTypeOK
<1>5. robotsFact' \in [present : BOOLEAN, allows : BOOLEAN] \union {NoRobots}
  <2>1. UNCHANGED robotsFact \/ \E p, a \in BOOLEAN : recordRobotsProbe(p, a)
    BY DEF Judge
  <2>2. ASSUME NEW p \in BOOLEAN, NEW a \in BOOLEAN, recordRobotsProbe(p, a)
        PROVE  robotsFact' \in [present : BOOLEAN, allows : BOOLEAN] \union {NoRobots}
    BY <2>2 DEF recordRobotsProbe, RobotsTypeOK
  <2>. QED  BY <2>1, <2>2 DEF RobotsTypeOK
<1>. QED  BY <1>4, <1>5

(* The strengthened invariant holds of every behaviour of the gate.        *)
LEMMA RobotsInvariant == RobotsSpec => []RobotsInv
<1>. USE RobotsAssumption
<1>1. RobotsInit => RobotsInv
  BY DEF RobotsInit, RobotsInv, LifeInv, RobotsTypeOK, RobotsSays, Verdicts
<1>2. RobotsInv /\ [RobotsNext]_robotsVars => RobotsInv'
  <2>. SUFFICES ASSUME RobotsInv, [RobotsNext]_robotsVars
                PROVE  RobotsInv'
    OBVIOUS
  <2>. USE DEF RobotsInv
  <2>1. ASSUME NEW c \in Check, BeginCheck(c)      PROVE RobotsInv'
    BY <2>1 DEF BeginCheck, RobotsTypeOK, LifeInv, TtlOf, Verdicts
  <2>2. ASSUME NEW c \in Check, NotAUrl(c)         PROVE RobotsInv'
    BY <2>2 DEF NotAUrl, RobotsTypeOK, LifeInv, TtlOf, Verdicts
  <2>3. ASSUME NEW c \in Check, RobotsHit(c)       PROVE RobotsInv'
    <3>1. robotsEntry.says \in RobotsSays
      BY <2>3 DEF RobotsHit, RobotsTypeOK
    <3>. QED  BY <2>3, <3>1, VerdictTypes DEF RobotsHit, RobotsTypeOK, LifeInv, TtlOf
  <2>4. ASSUME NEW c \in Check, RobotsMiss(c)      PROVE RobotsInv'
    BY <2>4 DEF RobotsMiss, CheckGoes, RobotsTypeOK, LifeInv, TtlOf
  <2>5. ASSUME NEW c \in Check, fetchRobotsTxt(c)  PROVE RobotsInv'
    <3>1. PICK says \in RobotsSays :
              check' = [check EXCEPT ![c].at = "storing", ![c].says = says]
      BY <2>5 DEF fetchRobotsTxt
    <3>2. UNCHANGED <<robotsEntry, robotsFact>>
      BY <2>5 DEF fetchRobotsTxt
    <3>3. check' \in [Check -> [at : {"idle", "lookup", "fetching", "storing"},
                                says : RobotsSays, verdict : Verdicts]]
      BY <3>1 DEF RobotsTypeOK
    <3>. QED  BY <3>2, <3>3 DEF RobotsTypeOK, LifeInv, TtlOf
  <2>6. ASSUME NEW c \in Check, RobotsStore(c)     PROVE RobotsInv'
    <3>1. check[c].says \in RobotsSays
      BY DEF RobotsTypeOK
    <3>2. /\ check' \in [Check -> [at : {"idle", "lookup", "fetching", "storing"},
                                    says : RobotsSays, verdict : Verdicts]]
          /\ robotsFact' \in [present : BOOLEAN, allows : BOOLEAN] \union {NoRobots}
      BY <2>6, <3>1, VerdictTypes DEF RobotsStore
    <3>. DEFINE stored == [says |-> check[c].says, left |-> TtlOf(check[c].says), ago |-> 0]
    <3>3. /\ stored \in [says : RobotsSays, left : 1..RobotsTtl, ago : 0..RobotsTtl]
          /\ stored.left + stored.ago = TtlOf(stored.says)
      BY <3>1 DEF TtlOf
    <3>4. robotsEntry' \in {stored, robotsEntry}
      BY <2>6 DEF RobotsStore
    <3>. QED  BY <3>2, <3>3, <3>4 DEF RobotsTypeOK, LifeInv, TtlOf
  <2>7. CASE RobotsTick
    <3>1. CASE robotsEntry = NoRobots \/ robotsEntry.left = 1
      BY <2>7, <3>1 DEF RobotsTick, RobotsTypeOK, LifeInv
    <3>2. CASE robotsEntry # NoRobots /\ robotsEntry.left # 1
      <4>. DEFINE older == [robotsEntry EXCEPT !.left = @ - 1, !.ago = @ + 1]
      <4>1. robotsEntry \in [says : RobotsSays, left : 1..RobotsTtl, ago : 0..RobotsTtl]
        BY <3>2 DEF RobotsTypeOK
      <4>2. robotsEntry.left + robotsEntry.ago <= RobotsTtl
        BY <3>2, <4>1 DEF LifeInv, TtlOf
      <4>3. /\ older \in [says : RobotsSays, left : 1..RobotsTtl, ago : 0..RobotsTtl]
            /\ older.left + older.ago = TtlOf(older.says)
        <5>1. robotsEntry.left + robotsEntry.ago = TtlOf(robotsEntry.says)
          BY <3>2 DEF LifeInv
        <5>2. /\ older.says = robotsEntry.says
              /\ older.left = robotsEntry.left - 1 /\ older.ago = robotsEntry.ago + 1
          BY <4>1
        <5>3. older.left \in 1..RobotsTtl /\ older.ago \in 0..RobotsTtl
          BY <3>2, <4>1, <4>2, <5>1, <5>2 DEF TtlOf
        <5>4. older.left + older.ago = TtlOf(older.says)
          BY <4>1, <5>1, <5>2
        <5>. QED  BY <4>1, <5>3, <5>4
      <4>4. robotsEntry' = older /\ UNCHANGED <<check, robotsFact>>
        BY <2>7, <3>2 DEF RobotsTick
      <4>. HIDE DEF older
      <4>. QED  BY <4>3, <4>4 DEF RobotsTypeOK, LifeInv, TtlOf
    <3>. QED  BY <3>1, <3>2
  <2>8. CASE UNCHANGED robotsVars
    BY <2>8 DEF robotsVars, RobotsTypeOK, LifeInv, TtlOf
  <2>. QED  BY <2>1, <2>2, <2>3, <2>4, <2>5, <2>6, <2>7, <2>8 DEF RobotsNext
<1>. QED  BY <1>1, <1>2, PTL DEF RobotsSpec

(* The entry, the calls and the recorded fact keep their types, for any    *)
(* number of calls and any two lifetimes.                                  *)
THEOREM RobotsTypeCorrect == RobotsSpec => []RobotsTypeOK
<1>1. RobotsInv => RobotsTypeOK
  BY DEF RobotsInv
<1>. QED  BY <1>1, RobotsInvariant, PTL

(* What a call makes of a robots.txt rests on what it says.                *)
LEMMA JudgesWell ==
    ASSUME RobotsTypeOK, NEW c \in Check, NEW says \in RobotsSays, Judge(c, says)
    PROVE  /\ says \in Grounds(check'[c].verdict)
           /\ check'[c].verdict = "robots_unreachable" <=> says = "failed"
           /\ check'[c].at = "idle"
           /\ \A d \in Check \ {c} : check'[d] = check[d]
           /\ robotsFact' # robotsFact => says \in FactGrounds(robotsFact') /\ says # "failed"
<1>1. ASSUME NEW v, Verdict(c, v)
      PROVE  /\ check'[c].verdict = v /\ check'[c].at = "idle"
             /\ \A d \in Check \ {c} : check'[d] = check[d]
  BY <1>1 DEF Verdict, RobotsTypeOK
<1>. DEFINE fact(p, a) == [present |-> p, allows |-> a]
<1>2. /\ Grounds("disallowed") = {"denies"} /\ Grounds("allowed") = {"allows"}
      /\ Grounds("no_robots_txt") = {"missing", "empty"}
      /\ Grounds("parse_failed") = {"garbled"} /\ Grounds("robots_unreachable") = {"failed"}
  BY DEF Grounds
<1>3. /\ FactGrounds(fact(FALSE, TRUE)) = {"missing", "empty"}
      /\ FactGrounds(fact(TRUE, TRUE)) = {"allows"}
      /\ FactGrounds(fact(TRUE, FALSE)) = {"denies"}
  BY DEF FactGrounds
<1>4. ASSUME NEW p \in BOOLEAN, NEW a \in BOOLEAN, recordRobotsProbe(p, a)
      PROVE  robotsFact' # robotsFact => robotsFact' = fact(p, a)
  BY <1>4 DEF recordRobotsProbe
<1>. HIDE DEF fact
<1>5. CASE says = "failed" /\ Verdict(c, "robots_unreachable") /\ UNCHANGED robotsFact
  BY <1>1, <1>2, <1>5
<1>6. CASE says \in {"missing", "empty"} /\ Verdict(c, "no_robots_txt") /\ recordRobotsProbe(FALSE, TRUE)
  <2>1. robotsFact' # robotsFact => robotsFact' = fact(FALSE, TRUE)
    BY <1>4, <1>6
  <2>. QED  BY <1>1, <1>2, <1>3, <1>6, <2>1
<1>7. CASE says = "denies" /\ Verdict(c, "disallowed") /\ recordRobotsProbe(TRUE, FALSE)
  <2>1. robotsFact' # robotsFact => robotsFact' = fact(TRUE, FALSE)
    BY <1>4, <1>7
  <2>. QED  BY <1>1, <1>2, <1>3, <1>7, <2>1
<1>8. CASE says = "allows" /\ Verdict(c, "allowed") /\ recordRobotsProbe(TRUE, TRUE)
  <2>1. robotsFact' # robotsFact => robotsFact' = fact(TRUE, TRUE)
    BY <1>4, <1>8
  <2>. QED  BY <1>1, <1>2, <1>3, <1>8, <2>1
<1>9. CASE says = "garbled" /\ Verdict(c, "parse_failed") /\ UNCHANGED robotsFact
  BY <1>1, <1>2, <1>9
<1>. QED  BY <1>5, <1>6, <1>7, <1>8, <1>9 DEF Judge

(* The step of VerdictsAreCurrent.                                         *)
CurrentStep ==
    /\ \A c \in Check :
          Judges(c) /\ check'[c].at = "idle" =>
              /\ Basis(c).says \in Grounds(check'[c].verdict)
              /\ Basis(c).ago < IF check'[c].verdict = "robots_unreachable"
                                THEN RobotsErrorTtl ELSE RobotsTtl
    /\ robotsFact' # robotsFact =>
          \E c \in Check : /\ Judges(c) /\ check'[c].at = "idle"
                           /\ Basis(c).says \in FactGrounds(robotsFact')
                           /\ Basis(c).ago < RobotsTtl

(* A call that does not end in the step, or had nothing at hand to judge,  *)
(* leaves nothing to show.                                                 *)
LEMMA NobodyJudges ==
    ASSUME \A c \in Check : Judges(c) => check'[c].at # "idle", UNCHANGED robotsFact
    PROVE  CurrentStep
BY DEF CurrentStep

(* One check judges: on grounds no older than their lifetime.              *)
LEMMA OneJudges ==
    ASSUME RobotsInv, NEW c \in Check, Judges(c), Basis(c).says \in RobotsSays,
           Basis(c).ago \in Nat, Basis(c).ago < TtlOf(Basis(c).says), Judge(c, Basis(c).says)
    PROVE  CurrentStep
<1>. USE RobotsAssumption
<1>1. /\ Basis(c).says \in Grounds(check'[c].verdict)
      /\ check'[c].verdict = "robots_unreachable" <=> Basis(c).says = "failed"
      /\ check'[c].at = "idle"
      /\ \A d \in Check \ {c} : check'[d] = check[d]
      /\ robotsFact' # robotsFact =>
            Basis(c).says \in FactGrounds(robotsFact') /\ Basis(c).says # "failed"
  BY JudgesWell DEF RobotsInv
<1>2. \A d \in Check \ {c} : Judges(d) => check'[d].at # "idle"
  BY <1>1 DEF Judges, CheckAt
<1>3. Basis(c).ago < IF check'[c].verdict = "robots_unreachable" THEN RobotsErrorTtl ELSE RobotsTtl
  BY <1>1 DEF TtlOf
<1>4. robotsFact' # robotsFact => Basis(c).ago < RobotsTtl
  BY <1>1 DEF TtlOf
<1>. QED  BY <1>1, <1>2, <1>3, <1>4 DEF CurrentStep

(* A verdict rests on what the site said no longer ago than the lifetime   *)
(* of that kind of answer, and so does a fact about the site; for any      *)
(* number of overlapping calls.                                            *)
THEOREM VerdictsAreAlwaysCurrent == RobotsSpec => VerdictsAreCurrent
<1>. USE RobotsAssumption
<1>1. RobotsInv /\ [RobotsNext]_robotsVars => [CurrentStep]_robotsVars
  <2>. SUFFICES ASSUME RobotsInv, RobotsNext
                PROVE  CurrentStep
    OBVIOUS
  <2>1. /\ check \in [Check -> [at : {"idle", "lookup", "fetching", "storing"},
                                says : RobotsSays, verdict : Verdicts]]
        /\ robotsEntry # NoRobots =>
              robotsEntry \in [says : RobotsSays, left : 1..RobotsTtl, ago : 0..RobotsTtl]
    BY DEF RobotsInv, RobotsTypeOK
  <2>2. ASSUME NEW c \in Check, BeginCheck(c) \/ NotAUrl(c) \/ RobotsMiss(c) \/ fetchRobotsTxt(c)
        PROVE  CurrentStep
    <3>1. UNCHANGED robotsFact
      BY <2>2 DEF BeginCheck, NotAUrl, RobotsMiss, fetchRobotsTxt
    <3>2. \A d \in Check \ {c} : check'[d] = check[d]
      BY <2>1, <2>2 DEF BeginCheck, NotAUrl, RobotsMiss, fetchRobotsTxt, CheckGoes
    <3>3. ~Judges(c) \/ check'[c].at = "fetching"
      BY <2>1, <2>2 DEF BeginCheck, NotAUrl, RobotsMiss, fetchRobotsTxt, CheckGoes, CheckAt, Judges
    <3>. QED  BY <3>1, <3>2, <3>3, NobodyJudges DEF Judges, CheckAt
  <2>3. ASSUME NEW c \in Check, RobotsHit(c)
        PROVE  CurrentStep
    <3>1. Judges(c) /\ Basis(c) = robotsEntry /\ Judge(c, Basis(c).says)
      BY <2>3 DEF RobotsHit, Judges, Basis
    <3>2. robotsEntry \in [says : RobotsSays, left : 1..RobotsTtl, ago : 0..RobotsTtl]
      BY <2>1, <2>3 DEF RobotsHit
    <3>3. robotsEntry.left + robotsEntry.ago = TtlOf(robotsEntry.says)
      BY <2>3 DEF RobotsHit, RobotsInv, LifeInv
    <3>4. robotsEntry.ago < TtlOf(robotsEntry.says)
      BY <3>2, <3>3 DEF TtlOf
    <3>. QED  BY <3>1, <3>2, <3>4, OneJudges
  <2>4. ASSUME NEW c \in Check, RobotsStore(c)
        PROVE  CurrentStep
    <3>1. Judges(c) /\ Basis(c) = [says |-> check[c].says, ago |-> 0]
      BY <2>4 DEF RobotsStore, Judges, Basis, CheckAt
    <3>2. check[c].says \in RobotsSays /\ Judge(c, Basis(c).says)
      BY <2>1, <2>4, <3>1 DEF RobotsStore
    <3>3. 0 < TtlOf(check[c].says)
      BY DEF TtlOf
    <3>. QED  BY <3>1, <3>2, <3>3, OneJudges
  <2>5. CASE RobotsTick
    BY <2>5, NobodyJudges DEF RobotsTick, Judges, CheckAt
  <2>. QED  BY <2>2, <2>3, <2>4, <2>5 DEF RobotsNext
<1>. QED  BY <1>1, RobotsInvariant, PTL DEF RobotsSpec, VerdictsAreCurrent, CurrentStep

-----------------------------------------------------------------------------
(* Routing.                                                                *)

Attempt == [age : Nat, hit : BOOLEAN]

RoutingTypeOK ==
    /\ stats # None => stats \in [Slot -> Stat]
    /\ fetch \in [Fetch -> [at : {"idle", "cascade"}, todo : Seq(Slot)]]
    /\ pending \in [Fetch -> Seq([slot : Slot, hit : BOOLEAN])]
    /\ log \in [Slot -> Seq(Attempt)]

(* The positions in a log L of what is no older than w, and of the hits.   *)
NoOlder(L, w) == {k \in DOMAIN L : L[k].age <= w}
HitsAmong(L, K) == {k \in K : L[k].hit}

(* A log is in the order of time, and keeps what is of the window.         *)
LogOK(L) ==
    /\ L \in Seq(Attempt)
    /\ \A i, j \in DOMAIN L : i <= j => L[j].age <= L[i].age
    /\ \A k \in DOMAIN L : L[k].age <= Window

(* What a stat has to do with the log of its slot.                         *)
Counts(L, stat) ==
    /\ stat.window <= Window =>
          /\ stat.attempts = Cardinality(NoOlder(L, stat.window))
          /\ stat.ok = Cardinality(HitsAmong(L, NoOlder(L, stat.window)))
    /\ \A k \in DOMAIN L : L[k].age = 0 => stat.window <= Window

RoutingInv ==
    /\ RoutingTypeOK
    /\ \A s \in Slot : LogOK(log[s])
    /\ stats = None => log = NoLog
    /\ stats # None => \A s \in Slot : Counts(log[s], stats[s])

-----------------------------------------------------------------------------
(* Sets of positions of a log are finite.                                  *)
LEMMA PositionsAreFinite ==
    ASSUME NEW n \in Nat, NEW K \in SUBSET (1..n)
    PROVE  IsFiniteSet(K) /\ Cardinality(K) \in Nat
<1>1. IsFiniteSet(1..n)
  BY FS_Interval
<1>. QED  BY <1>1, FS_Subset, FS_CardinalityType

(* An attempt is booked: it joins those of the window, or begins one.      *)
LEMMA BookCounts ==
    ASSUME NEW L, LogOK(L), NEW stat \in Stat, Counts(L, stat), NEW hit \in BOOLEAN,
           NEW M, M = Append(L, [age |-> 0, hit |-> hit]), NEW new, new = Book(stat, hit)
    PROVE  LogOK(M) /\ new \in Stat /\ Counts(M, new)
<1>. DEFINE n == Len(L)
            base == IF stat.window > Window THEN emptyStat ELSE stat
            K == NoOlder(L, base.window)
            a == [age |-> 0, hit |-> hit]
<1>1. L \in Seq(Attempt) /\ n \in Nat /\ DOMAIN L = 1..n /\ Window \in Nat
  BY RoutingAssumption DEF LogOK
<1>2. a \in Attempt
  BY DEF Attempt
<1>3. /\ M \in Seq(Attempt) /\ DOMAIN M = 1..n + 1 /\ M[n + 1] = a
      /\ \A k \in DOMAIN L : k \in 1..n /\ k \in DOMAIN M /\ M[k] = L[k]
      /\ \A k \in DOMAIN M : k = n + 1 \/ k \in DOMAIN L
  BY <1>1, <1>2
<1>4. a.age = 0 /\ a.hit = hit
  OBVIOUS
<1>5. \A k \in DOMAIN L : L[k].age \in Nat /\ L[k].hit \in BOOLEAN
  <2>1. \A k \in DOMAIN L : L[k] \in Attempt
    BY <1>1
  <2>. QED  BY <2>1 DEF Attempt
<1>. HIDE DEF n, a
<1>6. LogOK(M)
  <2>1. \A k \in DOMAIN M : M[k].age <= Window
    BY <1>1, <1>3, <1>4 DEF LogOK
  <2>2. ASSUME NEW i \in DOMAIN M, NEW j \in DOMAIN M, i <= j
        PROVE  M[j].age <= M[i].age
    <3>1. CASE j = n + 1
      <4>1. M[j].age = 0
        BY <1>3, <1>4, <3>1
      <4>2. M[i].age \in Nat
        BY <1>3, <1>4, <1>5
      <4>. QED  BY <4>1, <4>2
    <3>2. CASE j \in DOMAIN L
      <4>1. i \in DOMAIN L
        BY <1>1, <1>3, <2>2, <3>2
      <4>. QED  BY <1>3, <2>2, <3>2, <4>1 DEF LogOK
    <3>. QED  BY <1>3, <3>1, <3>2
  <2>. QED  BY <1>3, <2>1, <2>2 DEF LogOK
<1>7. /\ base \in Stat /\ base.window <= Window
      /\ base.attempts = Cardinality(K) /\ base.ok = Cardinality(HitsAmong(L, K))
  <2>1. CASE stat.window <= Window
    <3>1. ~(stat.window > Window)
      BY <1>1, <2>1 DEF Stat
    <3>. QED  BY <2>1, <3>1 DEF Counts
  <2>2. CASE stat.window > Window
    <3>1. ~(stat.window <= Window)
      BY <1>1, <2>2 DEF Stat
    <3>2. base = emptyStat /\ base.window = 0 /\ base.attempts = 0 /\ base.ok = 0
      BY <2>2 DEF emptyStat
    <3>3. K = {}
      BY <1>5, <3>1, <3>2 DEF NoOlder, Counts
    <3>4. HitsAmong(L, K) = {}
      BY <3>3 DEF HitsAmong
    <3>5. emptyStat \in Stat
      BY DEF emptyStat, Stat
    <3>6. Cardinality({}) = 0
      BY FS_EmptySet
    <3>. HIDE DEF base, K
    <3>7. base.window <= Window
      BY <1>1, <3>2
    <3>. QED  BY <3>2, <3>3, <3>4, <3>5, <3>6, <3>7
  <2>. QED  BY <1>1, <2>1, <2>2 DEF Stat
<1>8. /\ new = [base EXCEPT !.attempts = @ + 1, !.ok = IF hit THEN @ + 1 ELSE @,
                            !.fail = IF hit THEN @ ELSE @ + 1]
  BY DEF Book, Count
<1>. HIDE DEF base, K
<1>9. /\ new \in Stat /\ new.window = base.window /\ new.attempts = base.attempts + 1
      /\ new.ok = IF hit THEN base.ok + 1 ELSE base.ok
  <2>. DEFINE ok == IF hit THEN base.ok + 1 ELSE base.ok
              fail == IF hit THEN base.fail ELSE base.fail + 1
  <2>1. /\ base.attempts \in Nat /\ base.ok \in Nat /\ base.fail \in Nat /\ base.window \in Nat
        /\ base = [attempts |-> base.attempts, ok |-> base.ok, fail |-> base.fail, window |-> base.window]
    BY <1>7 DEF Stat
  <2>2. new = [attempts |-> base.attempts + 1, ok |-> ok, fail |-> fail, window |-> base.window]
    BY <1>8, <2>1
  <2>3. base.attempts + 1 \in Nat /\ ok \in Nat /\ fail \in Nat
    BY <2>1
  <2>. HIDE DEF ok, fail
  <2>4. new \in Stat /\ new.window = base.window /\ new.attempts = base.attempts + 1 /\ new.ok = ok
    BY <2>1, <2>2, <2>3 DEF Stat
  <2>. QED  BY <2>4 DEF ok
<1>10. K \in SUBSET (1..n) /\ n + 1 \notin K /\ \A k \in K : k \in DOMAIN L
  BY <1>1, <1>3 DEF K, NoOlder
<1>11. NoOlder(M, base.window) = K \union {n + 1}
  <2>1. base.window \in Nat
    BY <1>7 DEF Stat
  <2>2. \A k \in DOMAIN M : M[k].age <= base.window <=> k \in K \/ k = n + 1
    BY <1>3, <1>4, <1>10, <2>1 DEF K, NoOlder
  <2>3. \A k \in K \union {n + 1} : k \in DOMAIN M
    BY <1>1, <1>3, <1>10
  <2>4. NoOlder(M, base.window) = {k \in DOMAIN M : M[k].age <= base.window}
    BY DEF NoOlder
  <2>. QED  BY <2>2, <2>3, <2>4
<1>12. HitsAmong(M, K \union {n + 1}) = IF hit THEN HitsAmong(L, K) \union {n + 1} ELSE HitsAmong(L, K)
  BY <1>3, <1>4, <1>10 DEF HitsAmong
<1>13. /\ IsFiniteSet(K) /\ IsFiniteSet(HitsAmong(L, K)) /\ n + 1 \notin HitsAmong(L, K)
  <2>1. HitsAmong(L, K) \in SUBSET (1..n) /\ n + 1 \notin HitsAmong(L, K)
    BY <1>10 DEF HitsAmong
  <2>. QED  BY <1>1, <1>10, <2>1, PositionsAreFinite
<1>14. /\ Cardinality(K \union {n + 1}) = Cardinality(K) + 1
       /\ Cardinality(HitsAmong(L, K) \union {n + 1}) = Cardinality(HitsAmong(L, K)) + 1
  BY <1>10, <1>13, FS_AddElement
<1>15. new.window <= Window
  BY <1>7, <1>9
<1>16. new.attempts = Cardinality(NoOlder(M, new.window))
  BY <1>7, <1>9, <1>11, <1>14
<1>17. new.ok = Cardinality(HitsAmong(M, NoOlder(M, new.window)))
  BY <1>7, <1>9, <1>11, <1>12, <1>14
<1>. QED  BY <1>6, <1>9, <1>15, <1>16, <1>17 DEF Counts

(* Positions that are shifted by m are as many.                            *)
LEMMA Shifted ==
    ASSUME NEW n \in Nat, NEW m \in 0..n, NEW A \in SUBSET (m + 1..n),
           NEW B, B = {k \in 1..n - m : k + m \in A}
    PROVE  Cardinality(B) = Cardinality(A)
<1>. DEFINE f == [k \in B |-> k + m]
<1>1. IsFiniteSet(B)
  <2>1. B \in SUBSET (1..n - m) /\ n - m \in Nat
    OBVIOUS
  <2>. QED  BY <2>1, PositionsAreFinite
<1>2. \A x \in A : x - m \in B /\ (x - m) + m = x
  <2>1. \A x \in A : x \in m + 1..n
    OBVIOUS
  <2>. QED  BY <2>1
<1>3. \A k \in B : k \in Nat /\ k + m \in A
  OBVIOUS
<1>4. f \in Bijection(B, A)
  <2>1. f \in [B -> A]
    BY <1>3
  <2>2. \A i, j \in B : f[i] = f[j] => i = j
    BY <1>3
  <2>3. \A x \in A : \E k \in B : f[k] = x
    BY <1>2
  <2>. QED  BY <2>1, <2>2, <2>3 DEF Bijection, Injection, Surjection, IsInjective
<1>. HIDE DEF f
<1>. QED  BY <1>1, <1>4, FS_Bijection DEF ExistsBijection

(* Positions that reach down to the first are the first so many.           *)
LEMMA Prefix ==
    ASSUME NEW n \in Nat, NEW K \in SUBSET (1..n),
           \A i, j \in 1..n : i <= j /\ j \in K => i \in K
    PROVE  K = 1..Cardinality(K) /\ Cardinality(K) \in 0..n
<1>. DEFINE S == {i \in 0..n : i + 1 \notin K}
<1>1. n \in S
  OBVIOUS
<1>2. PICK m \in S : \A k \in S : m <= k
  <2>1. S # {}
    BY <1>1
  <2>2. S \in SUBSET Nat
    OBVIOUS
  <2>. HIDE DEF S
  <2>. QED  BY <2>1, <2>2, LeastExists
<1>3. ASSUME NEW i \in 1..n
      PROVE  i \in K <=> i <= m
  <2>1. CASE i <= m
    <3>1. i - 1 \in 0..n /\ ~(m <= i - 1) /\ (i - 1) + 1 = i
      BY <2>1
    <3>2. i - 1 \notin S
      BY <1>2, <3>1
    <3>. QED  BY <2>1, <3>1, <3>2
  <2>2. CASE ~(i <= m)
    <3>1. m + 1 \in 1..n /\ m + 1 <= i /\ m + 1 \notin K
      BY <2>2
    <3>. QED  BY <2>2, <3>1
  <2>. QED  BY <2>1, <2>2
<1>4. m \in 0..n
  OBVIOUS
<1>5. K = 1..m
  <2>1. \A i \in 1..m : i \in 1..n /\ i <= m
    BY <1>4
  <2>2. \A i \in 1..n : i <= m => i \in 1..m
    BY <1>4
  <2>. HIDE DEF S
  <2>. QED  BY <1>3, <2>1, <2>2
<1>6. Cardinality(1..m) = m
  BY <1>4, FS_Interval
<1>. QED  BY <1>4, <1>5, <1>6

(* The clock moves: what leaves the log is what has left the window.       *)
LEMMA TickCounts ==
    ASSUME NEW L, LogOK(L), NEW stat \in Stat, Counts(L, stat),
           NEW M, M = Recent(Aged(L)),
           NEW new, new = [stat EXCEPT !.window = Older(@)]
    PROVE  LogOK(M) /\ new \in Stat /\ Counts(M, new)
<1>. DEFINE n == Len(L)
            A == Aged(L)
            E == {k \in DOMAIN A : A[k].age > Window}
            m == Expired(A)
            w == stat.window
<1>1. /\ L \in Seq(Attempt) /\ n \in Nat /\ DOMAIN L = 1..n /\ Window \in Nat
      /\ \A k \in 1..n : L[k] \in Attempt /\ L[k].age \in Nat /\ L[k].age <= Window
  <2>1. L \in Seq(Attempt) /\ n \in Nat /\ DOMAIN L = 1..n /\ Window \in Nat
    BY RoutingAssumption DEF LogOK
  <2>2. \A k \in 1..n : L[k] \in Attempt /\ L[k].age <= Window
    BY <2>1 DEF LogOK
  <2>. QED  BY <2>1, <2>2 DEF Attempt
<1>2. /\ DOMAIN A = 1..n
      /\ \A k \in 1..n : A[k] = [L[k] EXCEPT !.age = Older(@)]
  BY <1>1 DEF Aged
<1>. HIDE DEF n, A
<1>3. \A k \in 1..n : A[k] \in Attempt /\ A[k].age = L[k].age + 1 /\ A[k].hit = L[k].hit
  BY <1>1, <1>2 DEF Older, Attempt
<1>4. A \in Seq(Attempt) /\ Len(A) = n
  <2>1. A = [k \in 1..n |-> A[k]]
    BY <1>2 DEF A, Aged
  <2>. QED  BY <1>1, <1>3, <2>1
<1>5. E = 1..m /\ m \in 0..n
  <2>1. E \in SUBSET (1..n)
    BY <1>2
  <2>2. \A i, j \in 1..n : i <= j /\ j \in E => i \in E
    <3>. SUFFICES ASSUME NEW i \in 1..n, NEW j \in 1..n, i <= j, j \in E
                  PROVE  i \in E
      OBVIOUS
    <3>1. L[j].age <= L[i].age
      BY <1>1 DEF LogOK
    <3>2. A[j].age > Window
      OBVIOUS
    <3>3. A[i].age > Window
      BY <1>1, <1>3, <3>1, <3>2
    <3>. QED  BY <1>2, <3>3
  <2>3. m = Cardinality(E)
    BY DEF Expired
  <2>. HIDE DEF E, m
  <2>. QED  BY <1>1, <2>1, <2>2, <2>3, Prefix
<1>6. M = SubSeq(A, m + 1, n)
  BY <1>4 DEF Recent, A
<1>7. \A k \in 1..n : k \in 1..m <=> A[k].age > Window
  BY <1>2, <1>5
<1>. HIDE DEF E, m
<1>8. /\ M \in Seq(Attempt) /\ DOMAIN M = 1..n - m
      /\ \A k \in 1..n - m : M[k] = A[k + m] /\ k + m \in 1..n /\ k + m \notin 1..m
  BY <1>1, <1>4, <1>5, <1>6
<1>9. \A k \in 1..n - m : /\ M[k].age = L[k + m].age + 1 /\ M[k].hit = L[k + m].hit
                          /\ M[k].age <= Window /\ M[k].age \in Nat /\ M[k].age # 0
  <2>. TAKE k \in 1..n - m
  <2>1. k + m \in 1..n /\ M[k] = A[k + m] /\ ~(A[k + m].age > Window)
    BY <1>7, <1>8
  <2>. QED  BY <1>1, <1>3, <2>1
<1>10. LogOK(M)
  <2>1. ASSUME NEW i \in 1..n - m, NEW j \in 1..n - m, i <= j
        PROVE  M[j].age <= M[i].age
    <3>1. i + m \in 1..n /\ j + m \in 1..n /\ i + m <= j + m
      BY <1>1, <1>5, <2>1
    <3>2. L[j + m].age <= L[i + m].age
      BY <1>1, <3>1 DEF LogOK
    <3>. QED  BY <1>1, <1>9, <3>1, <3>2
  <2>. QED  BY <1>8, <1>9, <2>1 DEF LogOK
<1>11. /\ new \in Stat /\ w \in Nat /\ new.window = Older(w)
       /\ new.attempts = stat.attempts /\ new.ok = stat.ok
  <2>1. w \in Nat
    BY DEF Stat
  <2>2. Older(w) \in Nat
    BY <2>1 DEF Older
  <2>. QED  BY <2>1, <2>2 DEF Stat
<1>12. ASSUME new.window <= Window
       PROVE  /\ new.attempts = Cardinality(NoOlder(M, new.window))
              /\ new.ok = Cardinality(HitsAmong(M, NoOlder(M, new.window)))
  <2>. DEFINE K == NoOlder(L, w)
              K2 == NoOlder(M, new.window)
  <2>1. w <= Window /\ new.window = w + 1
    BY <1>1, <1>11, <1>12 DEF Older
  <2>2. stat.attempts = Cardinality(K) /\ stat.ok = Cardinality(HitsAmong(L, K))
    BY <2>1 DEF Counts
  <2>3. \A k \in K : k \in m + 1..n
    <3>. SUFFICES ASSUME NEW k \in K PROVE k \notin 1..m
      BY <1>1, <1>5 DEF NoOlder
    <3>1. k \in 1..n /\ L[k].age <= w
      BY <1>1 DEF NoOlder
    <3>2. ~(A[k].age > Window)
      BY <1>1, <1>3, <1>11, <1>12, <2>1, <3>1
    <3>. QED  BY <1>7, <3>1, <3>2
  <2>4. K2 = {k \in 1..n - m : k + m \in K}
    <3>1. \A k \in 1..n - m : M[k].age <= w + 1 <=> L[k + m].age <= w
      BY <1>1, <1>8, <1>9, <1>11
    <3>. QED  BY <1>1, <1>8, <2>1, <3>1 DEF NoOlder
  <2>5. HitsAmong(M, K2) = {k \in 1..n - m : k + m \in HitsAmong(L, K)}
    <3>. HIDE DEF K, K2
    <3>. QED  BY <1>9, <2>4 DEF HitsAmong
  <2>6. K \in SUBSET (m + 1..n) /\ HitsAmong(L, K) \in SUBSET (m + 1..n)
    BY <2>3 DEF HitsAmong
  <2>. HIDE DEF K, K2
  <2>7. Cardinality(K2) = Cardinality(K)
    BY <1>1, <1>5, <2>4, <2>6, Shifted
  <2>8. Cardinality(HitsAmong(M, K2)) = Cardinality(HitsAmong(L, K))
    BY <1>1, <1>5, <2>5, <2>6, Shifted
  <2>. QED  BY <1>11, <2>2, <2>7, <2>8 DEF K2
<1>. QED  BY <1>8, <1>9, <1>10, <1>11, <1>12 DEF Counts
(* An empty record goes with an empty log.                                 *)
LEMMA NewCounts ==
    /\ LogOK(<<>>) /\ emptyStat \in Stat /\ Counts(<<>>, emptyStat)
    /\ NoLog \in [Slot -> Seq(Attempt)] /\ \A s \in Slot : NoLog[s] = <<>>
    /\ newRecord \in [Slot -> Stat] /\ \A s \in Slot : newRecord[s] = emptyStat
    /\ newRecord # None
<1>1. emptyStat \in Stat /\ emptyStat.attempts = 0 /\ emptyStat.ok = 0
  BY DEF emptyStat, Stat
<1>2. <<>> \in Seq(Attempt) /\ DOMAIN (<<>>) = {}
  OBVIOUS
<1>3. LogOK(<<>>)
  BY <1>2 DEF LogOK
<1>4. \A w : NoOlder(<<>>, w) = {} /\ HitsAmong(<<>>, {}) = {}
  BY <1>2 DEF NoOlder, HitsAmong
<1>5. Cardinality({}) = 0
  BY FS_EmptySet
<1>6. Counts(<<>>, emptyStat)
  BY <1>1, <1>2, <1>4, <1>5 DEF Counts
<1>7. newRecord \in [Slot -> Stat] /\ \A s \in Slot : newRecord[s] = emptyStat
  BY <1>1 DEF newRecord
<1>8. newRecord # None
  BY <1>7, ConfigAssumption
<1>9. NoLog \in [Slot -> Seq(Attempt)] /\ \A s \in Slot : NoLog[s] = <<>>
  BY <1>2 DEF NoLog
<1>. QED  BY <1>1, <1>3, <1>6, <1>7, <1>8, <1>9

(* What a fetch will try are slots.                                        *)
LEMMA TiersAreSlots ==
    ASSUME NEW visible \in BOOLEAN, NEW structured \in BOOLEAN
    PROVE  Tiers(visible, structured) \in Seq(Slot)
<1>. DEFINE keep == {k \in DOMAIN ALL_TIERS : computeTierSkips(visible)[ALL_TIERS[k]] = None}
            first == IF structured THEN <<"tier3">> ELSE <<>>
<1>1. ALL_TIERS \in Seq(Slot)
  <2>1. ALL_TIERS \in Seq({"tier1", "tier2", "tier3"})
    BY DEF ALL_TIERS
  <2>2. \A k \in 1..Len(ALL_TIERS) : ALL_TIERS[k] \in Slot
    BY DEF Slot
  <2>3. ALL_TIERS = [k \in 1..Len(ALL_TIERS) |-> ALL_TIERS[k]] /\ Len(ALL_TIERS) \in Nat
    BY <2>1
  <2>. QED  BY <2>2, <2>3
<1>2. first \in Seq(Slot)
  BY ConfigAssumption
<1>3. Tiers(visible, structured) = first \o Filter(ALL_TIERS, keep)
  BY DEF Tiers
<1>4. Filter(ALL_TIERS, keep) \in Seq(Slot)
  <2>1. keep \in SUBSET DOMAIN ALL_TIERS
    OBVIOUS
  <2>. HIDE DEF keep
  <2>. QED  BY <1>1, <2>1, FilterFacts
<1>. HIDE DEF first, keep
<1>. QED  BY <1>2, <1>3, <1>4

-----------------------------------------------------------------------------
(* RoutingInv is inductive.                                                *)
LEMMA RoutingInit == Init => RoutingInv
<1>. SUFFICES ASSUME Init PROVE RoutingInv
  OBVIOUS
<1>1. stats = None /\ log = NoLog
  BY DEF Init
<1>2. fetch \in [Fetch -> [at : {"idle", "cascade"}, todo : Seq(Slot)]]
  <2>1. Idle \in [at : {"idle", "cascade"}, todo : Seq(Slot)]
    BY DEF Idle
  <2>. QED  BY <2>1 DEF Init
<1>3. pending \in [Fetch -> Seq([slot : Slot, hit : BOOLEAN])]
  BY DEF Init
<1>. QED  BY <1>1, <1>2, <1>3, NewCounts DEF RoutingInv, RoutingTypeOK

(* A step that leaves the record and its log alone needs types only.       *)
LEMMA RoutingKept ==
    ASSUME RoutingInv, UNCHANGED <<stats, log>>,
           (fetch \in [Fetch -> [at : {"idle", "cascade"}, todo : Seq(Slot)]])',
           (pending \in [Fetch -> Seq([slot : Slot, hit : BOOLEAN])])'
    PROVE  RoutingInv'
BY DEF RoutingInv, RoutingTypeOK, LogOK, Counts, NoOlder, HitsAmong

(* The steps of a fetch leave the statistics and the log as they are.      *)
LEMMA FetchSteps ==
    ASSUME RoutingInv, NEW f \in Fetch,
           getTiers(f) \/ Answers(f) \/ Drop(f) \/ \E hit \in BOOLEAN : runTier(f, hit)
    PROVE  RoutingInv'
<1>. DEFINE At == [at : {"idle", "cascade"}, todo : Seq(Slot)]
            A == [slot : Slot, hit : BOOLEAN]
<1>1. fetch \in [Fetch -> At] /\ pending \in [Fetch -> Seq(A)]
  BY DEF RoutingInv, RoutingTypeOK
<1>2. UNCHANGED <<stats, log>>
  BY DEF getTiers, Answers, Drop, runTier
<1>3. (fetch \in [Fetch -> At] /\ pending \in [Fetch -> Seq(A)])'
  <2>1. CASE getTiers(f)
    <3>1. PICK visible \in BOOLEAN, structured \in BOOLEAN :
             fetch' = [fetch EXCEPT ![f] = [at |-> "cascade", todo |-> Tiers(visible, structured)]]
      BY <2>1 DEF getTiers
    <3>2. Tiers(visible, structured) \in Seq(Slot) /\ pending' = pending
      BY <2>1, TiersAreSlots DEF getTiers
    <3>. QED  BY <1>1, <3>1, <3>2
  <2>2. CASE Answers(f)
    BY <1>1, <2>2 DEF Answers, Idle
  <2>3. CASE Drop(f)
    <3>1. pending[f] \in Seq(A) /\ pending[f] # <<>>
      BY <1>1, <2>3 DEF Drop
    <3>2. Tail(pending[f]) \in Seq(A)
      BY <3>1
    <3>. QED  BY <1>1, <2>3, <3>2 DEF Drop
  <2>4. CASE \E hit \in BOOLEAN : runTier(f, hit)
    <3>1. PICK hit \in BOOLEAN : runTier(f, hit)
      BY <2>4
    <3>. DEFINE todo == fetch[f].todo
                a == [slot |-> Head(todo), hit |-> hit]
    <3>2. todo \in Seq(Slot) /\ todo # <<>> /\ pending[f] \in Seq(A)
      BY <1>1, <3>1 DEF runTier
    <3>3. a \in A /\ Tail(todo) \in Seq(Slot)
      BY <3>2
    <3>4. pending' = [pending EXCEPT ![f] = Append(@, a)]
      BY <3>1 DEF runTier
    <3>5. fetch' = [fetch EXCEPT ![f] = [fetch[f] EXCEPT !.todo = IF hit THEN <<>> ELSE Tail(todo)]]
      BY <1>1, <3>1 DEF runTier
    <3>. HIDE DEF a, A
    <3>6. Append(pending[f], a) \in Seq(A)
      BY <3>2, <3>3
    <3>7. [fetch[f] EXCEPT !.todo = IF hit THEN <<>> ELSE Tail(todo)] \in At
      <4>1. fetch[f] \in At /\ (IF hit THEN <<>> ELSE Tail(todo)) \in Seq(Slot)
        BY <1>1, <3>3
      <4>. DEFINE left == IF hit THEN <<>> ELSE Tail(todo)
      <4>2. left \in Seq(Slot)
        BY <4>1
      <4>. HIDE DEF left
      <4>. QED  BY <4>1, <4>2
    <3>. QED  BY <1>1, <3>4, <3>5, <3>6, <3>7
  <2>. QED  BY <2>1, <2>2, <2>3, <2>4
<1>. QED  BY <1>2, <1>3, RoutingKept

(* An attempt that is recorded is the newest of its slot's log.            *)
LEMMA AttemptStep ==
    ASSUME RoutingInv, NEW f \in Fetch, recordTierAttempt(f)
    PROVE  RoutingInv'
<1>. DEFINE A == [slot : Slot, hit : BOOLEAN]
            a == Head(pending[f])
            record == IF stats = None THEN newRecord ELSE stats
            b == a.slot
            L == log[b]
            M == Append(L, [age |-> 0, hit |-> a.hit])
            new == Book(record[b], a.hit)
<1>1. /\ fetch \in [Fetch -> [at : {"idle", "cascade"}, todo : Seq(Slot)]]
      /\ pending \in [Fetch -> Seq(A)] /\ log \in [Slot -> Seq(Attempt)]
  BY DEF RoutingInv, RoutingTypeOK
<1>2. pending[f] \in Seq(A) /\ pending[f] # <<>>
  BY <1>1 DEF recordTierAttempt
<1>3. a \in A /\ Tail(pending[f]) \in Seq(A)
  <2>. HIDE DEF A
  <2>. QED  BY <1>2
<1>4. b \in Slot /\ a.hit \in BOOLEAN
  BY <1>3
<1>5. /\ record \in [Slot -> Stat]
      /\ \A s \in Slot : LogOK(log[s]) /\ Counts(log[s], record[s])
  <2>1. CASE stats = None
    BY <2>1, NewCounts DEF RoutingInv
  <2>2. CASE stats # None
    BY <2>2 DEF RoutingInv, RoutingTypeOK
  <2>. QED  BY <2>1, <2>2
<1>6. /\ stats' = [record EXCEPT ![b] = new] /\ log' = [log EXCEPT ![b] = M]
      /\ pending' = [pending EXCEPT ![f] = Tail(pending[f])] /\ fetch' = fetch
  <2>1. /\ stats' = [record EXCEPT ![b] = new] /\ pending' = [pending EXCEPT ![f] = Tail(@)]
        /\ fetch' = fetch /\ log' = [log EXCEPT ![b] = Append(@, [age |-> 0, hit |-> a.hit])]
    BY DEF recordTierAttempt
  <2>. QED  BY <1>1, <2>1
<1>. HIDE DEF record, a
<1>7. record[b] \in Stat /\ LogOK(L) /\ Counts(L, record[b])
  BY <1>4, <1>5
<1>8. LogOK(M) /\ new \in Stat /\ Counts(M, new)
  <2>1. M = Append(L, [age |-> 0, hit |-> a.hit]) /\ new = Book(record[b], a.hit)
    OBVIOUS
  <2>. HIDE DEF M, new, L, b
  <2>2. PICK hit \in BOOLEAN : hit = a.hit
    BY <1>4
  <2>3. PICK stat \in Stat : stat = record[b]
    BY <1>7
  <2>4. M = Append(L, [age |-> 0, hit |-> hit]) /\ new = Book(stat, hit)
    BY <2>1, <2>2, <2>3
  <2>5. LogOK(L) /\ Counts(L, stat)
    BY <1>7, <2>3
  <2>. QED  BY ONLY <2>4, <2>5, BookCounts
<1>. HIDE DEF M, new, b
<1>9. /\ stats' \in [Slot -> Stat]
      /\ \A s \in Slot : stats'[s] = IF s = b THEN new ELSE record[s]
      /\ \A s \in Slot : log'[s] = IF s = b THEN M ELSE log[s]
      /\ DOMAIN log' = Slot /\ log' = [s \in Slot |-> log'[s]]
  BY <1>1, <1>4, <1>5, <1>6, <1>8
<1>10. \A s \in Slot : LogOK(log'[s]) /\ Counts(log'[s], stats'[s])
  BY <1>5, <1>8, <1>9
<1>11. log' \in [Slot -> Seq(Attempt)]
  BY <1>9, <1>10 DEF LogOK
<1>12. stats' # None
  BY <1>9, ConfigAssumption
<1>13. pending' \in [Fetch -> Seq(A)]
  BY <1>1, <1>3, <1>6
<1>14. RoutingTypeOK'
  BY <1>1, <1>6, <1>9, <1>11, <1>13 DEF RoutingTypeOK
<1>. QED  BY <1>10, <1>12, <1>14 DEF RoutingInv, LogOK, Counts, NoOlder, HitsAmong

(* A record that is replaced or vanishes takes the log with it.            *)
LEMMA RecordSteps ==
    ASSUME RoutingInv, updateRecord \/ Vanish
    PROVE  RoutingInv'
<1>1. log' = NoLog /\ (stats' = None \/ stats' = newRecord) /\ UNCHANGED <<fetch, pending>>
  BY DEF RoutingInv, updateRecord, Vanish
<1>2. RoutingTypeOK'
  BY <1>1, NewCounts DEF RoutingInv, RoutingTypeOK
<1>3. \A s \in Slot : LogOK(log'[s])
  BY <1>1, NewCounts
<1>4. stats' # None => \A s \in Slot : Counts(log'[s], stats'[s])
  BY <1>1, NewCounts
<1>. QED  BY <1>1, <1>2, <1>3, <1>4 DEF RoutingInv, LogOK, Counts, NoOlder, HitsAmong, NoLog

(* A tick ages what is counted and what is logged alike.                   *)
LEMMA TickStep ==
    ASSUME RoutingInv, Tick
    PROVE  RoutingInv'
<1>1. /\ stats' = IF stats = None THEN None
                  ELSE [s \in Slot |-> [stats[s] EXCEPT !.window = Older(@)]]
      /\ log' = [s \in Slot |-> Recent(Aged(log[s]))] /\ UNCHANGED <<fetch, pending>>
  BY DEF Tick
<1>2. CASE stats = None
  <2>1. log = NoLog /\ stats' = None
    BY <1>1, <1>2 DEF RoutingInv
  <2>2. Recent(Aged(<<>>)) = <<>>
    <3>1. Aged(<<>>) = <<>> /\ DOMAIN <<>> = {}
      BY DEF Aged
    <3>2. Expired(<<>>) = 0
      BY <3>1, FS_EmptySet DEF Expired
    <3>3. SubSeq(<<>>, 1, 0) = <<>>
      OBVIOUS
    <3>4. Expired(<<>>) + 1 = 1 /\ Len(<<>>) = 0
      BY <3>2
    <3>. QED  BY <3>1, <3>3, <3>4 DEF Recent
  <2>3. log' = NoLog
    BY <1>1, <2>1, <2>2, NewCounts DEF NoLog
  <2>4. RoutingTypeOK'
    BY <1>1, <2>1, <2>3, NewCounts DEF RoutingInv, RoutingTypeOK
  <2>5. \A s \in Slot : LogOK(log'[s])
    BY <2>3, NewCounts
  <2>. QED  BY <2>1, <2>3, <2>4, <2>5 DEF RoutingInv, LogOK, NoLog
<1>3. CASE stats # None
  <2>1. stats \in [Slot -> Stat] /\ \A s \in Slot : LogOK(log[s]) /\ Counts(log[s], stats[s])
    BY <1>3 DEF RoutingInv, RoutingTypeOK
  <2>2. \A s \in Slot : LogOK(log'[s]) /\ stats'[s] \in Stat /\ Counts(log'[s], stats'[s])
    <3>. TAKE s \in Slot
    <3>1. log'[s] = Recent(Aged(log[s])) /\ stats'[s] = [stats[s] EXCEPT !.window = Older(@)]
      BY <1>1, <1>3
    <3>2. stats[s] \in Stat /\ LogOK(log[s]) /\ Counts(log[s], stats[s])
      BY <2>1
    <3>. QED  BY <3>1, <3>2, TickCounts
  <2>3. stats' \in [Slot -> Stat]
    BY <1>1, <1>3, <2>2
  <2>4. log' \in [Slot -> Seq(Attempt)]
    BY <1>1, <2>2 DEF LogOK
  <2>5. stats' # None
    BY <2>3, ConfigAssumption
  <2>6. RoutingTypeOK'
    BY <1>1, <2>3, <2>4 DEF RoutingInv, RoutingTypeOK
  <2>. QED  BY <2>2, <2>5, <2>6 DEF RoutingInv, LogOK, Counts, NoOlder, HitsAmong
<1>. QED  BY <1>2, <1>3

(* The inductive invariant of the routing.                                 *)
LEMMA RoutingInvariant == Spec => []RoutingInv
<1>1. ASSUME RoutingInv, [Next]_vars
      PROVE  RoutingInv'
  <2>1. CASE \E f \in Fetch : getTiers(f) \/ Answers(f) \/ Drop(f) \/ \E hit \in BOOLEAN : runTier(f, hit)
    BY <1>1, <2>1, FetchSteps
  <2>2. CASE \E f \in Fetch : recordTierAttempt(f)
    BY <1>1, <2>2, AttemptStep
  <2>3. CASE updateRecord \/ Vanish
    BY <1>1, <2>3, RecordSteps
  <2>4. CASE Tick
    BY <1>1, <2>4, TickStep
  <2>5. CASE \E set \in Override : loadDomainConfig(set)
    <3>1. UNCHANGED <<stats, fetch, pending, log>>
      BY <2>5 DEF loadDomainConfig
    <3>. QED  BY <1>1, <3>1, RoutingKept DEF RoutingInv, RoutingTypeOK
  <2>6. CASE UNCHANGED vars
    BY <1>1, <2>6, RoutingKept DEF RoutingInv, RoutingTypeOK, vars
  <2>. QED  BY <1>1, <2>1, <2>2, <2>3, <2>4, <2>5, <2>6 DEF Next
<1>. QED  BY <1>1, RoutingInit, PTL DEF Spec

(* The statistics of a record are those of its window: CountsItsWindow, of *)
(* recordTierAttempt and currentWindowStat, for any number of fetches,     *)
(* attempts and ticks.                                                     *)
THEOREM StatisticsCountTheirWindow == Spec => []CountsItsWindow
<1>1. ASSUME RoutingInv PROVE CountsItsWindow
  <2>. SUFFICES ASSUME stats # None, NEW s \in Slot
                PROVE  /\ stats[s].window <= Window =>
                             /\ stats[s].attempts = Cardinality(InWindow(s))
                             /\ stats[s].ok = Hits(s, InWindow(s))
                       /\ \A k \in 1..Len(log[s]) : log[s][k].age = 0 => stats[s].window <= Window
    BY DEF CountsItsWindow
  <2>1. LogOK(log[s]) /\ Counts(log[s], stats[s])
    BY <1>1 DEF RoutingInv
  <2>2. InWindow(s) = NoOlder(log[s], stats[s].window)
    BY DEF InWindow, NoOlder
  <2>3. Hits(s, InWindow(s)) = Cardinality(HitsAmong(log[s], InWindow(s)))
    BY DEF Hits, HitsAmong
  <2>4. DOMAIN log[s] = 1..Len(log[s])
    BY <2>1 DEF LogOK
  <2>. QED  BY <2>1, <2>2, <2>3, <2>4 DEF Counts
<1>. QED  BY <1>1, RoutingInvariant, PTL

(* The attempts of a window are the latest ones.                           *)
LEMMA WindowIsLatest ==
    ASSUME NEW L, LogOK(L), NEW w \in Nat
    PROVE  /\ Cardinality(NoOlder(L, w)) \in 0..Len(L)
           /\ NoOlder(L, w) = Len(L) - Cardinality(NoOlder(L, w)) + 1..Len(L)
<1>. DEFINE n == Len(L)
            K == {k \in 1..n : ~(L[k].age <= w)}
            c == Cardinality(K)
<1>1. /\ n \in Nat /\ DOMAIN L = 1..n /\ \A k \in 1..n : L[k] \in Attempt
  BY DEF LogOK
<1>2. \A k \in 1..n : L[k].age \in Nat
  BY <1>1 DEF Attempt
<1>3. \A i, j \in 1..n : i <= j => L[j].age <= L[i].age
  BY <1>1 DEF LogOK
<1>. HIDE DEF n
<1>4. K = 1..c /\ c \in 0..n
  <2>1. \A i, j \in 1..n : i <= j /\ j \in K => i \in K
    BY <1>2, <1>3
  <2>2. K \in SUBSET (1..n)
    OBVIOUS
  <2>. HIDE DEF K
  <2>. QED  BY <1>1, <2>1, <2>2, Prefix
<1>5. NoOlder(L, w) = {k \in 1..n : k \notin K}
  BY <1>1 DEF NoOlder
<1>. HIDE DEF K, c
<1>6. NoOlder(L, w) = c + 1..n
  BY <1>1, <1>4, <1>5
<1>7. Cardinality(c + 1..n) = n - c
  <2>1. c \in Int /\ c + 1 \in Int /\ n \in Int
    BY <1>1, <1>4
  <2>2. Cardinality(c + 1..n) = IF c + 1 > n THEN 0 ELSE n - (c + 1) + 1
    BY <2>1, FS_Interval
  <2>. QED  BY <1>1, <1>4, <2>2
<1>8. n - c \in 0..n /\ n - (n - c) = c
  BY <1>1, <1>4
<1>. QED  BY <1>6, <1>7, <1>8 DEF n

(* No tier is skipped without evidence: SkipsOnEvidence, of                *)
(* computeTierSkips, for any number of fetches, attempts and ticks.        *)
THEOREM SkipsHaveEvidence == Spec => []SkipsOnEvidence
<1>1. ASSUME RoutingInv PROVE SkipsOnEvidence
  <2>. SUFFICES ASSUME NEW s \in Slot, low_success_rate(s)
                PROVE  \E n \in MinAttempts..Len(log[s]) :
                          Hits(s, Latest(s, n)) * LowDen < n * LowNum
    BY DEF SkipsOnEvidence
  <2>. DEFINE stat == stats[s]
              L == log[s]
              n == Cardinality(NoOlder(L, stat.window))
  <2>1. /\ stats # None /\ currentWindowStat(stat).attempts >= MinAttempts
        /\ currentWindowStat(stat).ok * LowDen < currentWindowStat(stat).attempts * LowNum
    BY DEF low_success_rate
  <2>2. stat \in Stat /\ LogOK(L) /\ Counts(L, stat)
    BY <1>1, <2>1 DEF RoutingInv, RoutingTypeOK
  <2>3. stat.window <= Window /\ stat.window \in Nat
    <3>1. MinAttempts \in Nat \ {0}
      BY RoutingAssumption
    <3>2. CASE ~(stat.window <= Window)
      <4>1. currentWindowStat(stat).attempts = 0
        BY <2>2, <3>2 DEF currentWindowStat, Stat
      <4>. QED  BY <2>1, <3>1, <4>1
    <3>3. stat.window \in Nat
      BY <2>2 DEF Stat
    <3>. QED  BY <3>2, <3>3
  <2>4. currentWindowStat(stat) = stat
    BY <2>3 DEF currentWindowStat
  <2>5. /\ n \in 0..Len(L) /\ Len(L) \in Nat
        /\ NoOlder(L, stat.window) = Latest(s, n)
    <3>1. /\ n \in 0..Len(L) /\ NoOlder(L, stat.window) = Len(L) - n + 1..Len(L)
      BY <2>2, <2>3, WindowIsLatest
    <3>2. Len(L) \in Nat
      BY <2>2 DEF LogOK
    <3>. QED  BY <3>1, <3>2 DEF Latest
  <2>6. stat.attempts = n /\ stat.ok = Cardinality(HitsAmong(L, Latest(s, n)))
    BY <2>2, <2>3, <2>5 DEF Counts
  <2>7. Hits(s, Latest(s, n)) = Cardinality(HitsAmong(L, Latest(s, n)))
    BY DEF Hits, HitsAmong
  <2>8. n >= MinAttempts /\ Hits(s, Latest(s, n)) * LowDen < n * LowNum
    BY <2>1, <2>4, <2>6, <2>7
  <2>9. n \in MinAttempts..Len(L)
    <3>1. MinAttempts \in Nat
      BY RoutingAssumption
    <3>. HIDE DEF n
    <3>. QED  BY <2>5, <2>8, <3>1
  <2>. QED  BY <2>8, <2>9
<1>. QED  BY <1>1, RoutingInvariant, PTL
=============================================================================
