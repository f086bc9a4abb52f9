---------------------------- MODULE Crawl4aiTier ----------------------------
(***************************************************************************)
(* crawl4aiFetch: one crawl handed to the Crawl4AI backend, which answers  *)
(* with its result or with the id of a job that pollCrawl4aiTask asks for  *)
(* until it is done, has failed, or the time is up.                        *)
(*                                                                         *)
(* Two clocks bound a call: the 45 s timer that aborts its requests, armed *)
(* before the first of them, and the 40 s of polling, which start later    *)
(* and are looked at between two polls only.                               *)
(***************************************************************************)
EXTENDS Naturals

CONSTANTS
    AbortAfter,    \* the AbortController's timer, in ticks
    PollBudget,    \* how long after the job's id came in polls may begin
    PollPause      \* the pause before each poll

ASSUME Crawl4aiAssumption ==
    {AbortAfter, PollBudget, PollPause} \subseteq Nat \ {0} /\ PollBudget < AbortAfter

VARIABLES
    crawl,       \* the call: where it is, what it ended with
    elapsed,     \* ticks since the call began, up to CallTime + 1
    deadline,    \* the value of elapsed at which polling stops
    pause,       \* what is left of the pause
    job,         \* the backend's job: "none", "running", "done", "failed"
    backend      \* history: the last thing the backend said

crawlVars == <<crawl, elapsed, deadline, pause, job, backend>>

(* The longest a call may take: an abort that falls into a pause is seen   *)
(* at its end.                                                             *)
CallTime == AbortAfter + PollPause

(* A result is a page, or blank: no text was found in it, whatever its     *)
(* shape.  refused is a status that is not 2xx, garbled a body that is no  *)
(* JSON, unknown one with neither results nor a job, silence no answer.    *)
Outages == {"refused", "garbled", "unknown", "silence"}

Crawl4aiInit ==
    /\ crawl = [at |-> "idle", outcome |-> "none"]
    /\ elapsed = 0 /\ deadline = 0 /\ pause = 0
    /\ job = "none" /\ backend = "nothing"

-----------------------------------------------------------------------------
CrawlAt(where) == crawl.at = where
CrawlEnds(outcome) == crawl' = [at |-> "ended", outcome |-> outcome]

Aborted == elapsed >= AbortAfter

(* resultToTier, crawl.outcome being null, a page, or the error thrown.    *)
resultToTier(result) == CrawlEnds(IF result = "page" THEN "page" ELSE "null")

BeginCrawl ==
    /\ CrawlAt("idle")
    /\ \/ crawl' = [crawl EXCEPT !.at = "posting"]
       \/ CrawlEnds("unconfigured")
    /\ UNCHANGED <<elapsed, deadline, pause, job, backend>>

(* POST /crawl                                                             *)
Results ==
    /\ CrawlAt("posting") /\ ~Aborted
    /\ \E result \in {"page", "blank"} : backend' = result /\ resultToTier(result)
    /\ UNCHANGED <<elapsed, deadline, pause, job>>

NoResults ==
    /\ CrawlAt("posting") /\ ~Aborted
    /\ backend' = "blank" /\ CrawlEnds("null")
    /\ UNCHANGED <<elapsed, deadline, pause, job>>

Enqueued ==
    /\ CrawlAt("posting") /\ ~Aborted
    /\ backend' = "job" /\ job' = "running"
    /\ crawl' = [crawl EXCEPT !.at = "pausing"]
    /\ deadline' = elapsed + PollBudget /\ pause' = PollPause
    /\ UNCHANGED elapsed

(* A job id that may not go into a path is an outage as well.              *)
PostFails ==
    /\ CrawlAt("posting")
    /\ \E what \in Outages :
          /\ Aborted => what = "silence"
          /\ backend' = what
    /\ CrawlEnds("error")
    /\ UNCHANGED <<elapsed, deadline, pause, job>>

-----------------------------------------------------------------------------
(* pollCrawl4aiTask                                                        *)
PauseOver ==
    /\ CrawlAt("pausing") /\ pause = 0
    /\ IF Aborted THEN CrawlEnds("error") ELSE crawl' = [crawl EXCEPT !.at = "polling"]
    /\ UNCHANGED <<elapsed, deadline, pause, job, backend>>

(* Fault: the pause is made, and the loop goes on, whatever the time.      *)
FaultyNextPoll ==
    /\ crawl' = [crawl EXCEPT !.at = "pausing"] /\ pause' = PollPause

(* The loop's condition.                                                   *)
NextPoll ==
    IF elapsed < deadline
    THEN crawl' = [crawl EXCEPT !.at = "pausing"] /\ pause' = PollPause
    ELSE CrawlEnds("error") /\ UNCHANGED pause

(* Any status but the two that end the job keeps the loop going.           *)
PollRunning ==
    /\ CrawlAt("polling") /\ ~Aborted
    /\ backend' \in (IF job = "running" THEN {"job"} ELSE {}) \union {"unknown"}
    /\ NextPoll
    /\ UNCHANGED <<elapsed, deadline, job>>

(* Nested one level deeper or not, the result is the same.                 *)
PollCompleted ==
    /\ CrawlAt("polling") /\ ~Aborted /\ job = "done"
    /\ \E result \in {"page", "blank"} : backend' = result /\ resultToTier(result)
    /\ UNCHANGED <<elapsed, deadline, pause, job>>

PollFailed ==
    /\ CrawlAt("polling") /\ ~Aborted /\ job = "failed"
    /\ backend' = "failed" /\ CrawlEnds("error")
    /\ UNCHANGED <<elapsed, deadline, pause, job>>

(* Fault: a poll that is refused is an ordinary miss.                      *)
FaultyPollFails ==
    /\ CrawlAt("polling")
    /\ backend' \in IF Aborted THEN {"silence"} ELSE Outages \ {"unknown"}
    /\ CrawlEnds(IF backend' = "refused" THEN "null" ELSE "error")
    /\ UNCHANGED <<elapsed, deadline, pause, job>>

(* Nothing is retried: the first poll that goes wrong ends the call.       *)
PollFails ==
    /\ CrawlAt("polling")
    /\ \E what \in Outages \ {"unknown"} :
          /\ Aborted => what = "silence"
          /\ backend' = what
    /\ CrawlEnds("error")
    /\ UNCHANGED <<elapsed, deadline, pause, job>>

-----------------------------------------------------------------------------
JobEnds ==
    /\ job = "running"
    /\ job' \in {"done", "failed"}
    /\ UNCHANGED <<crawl, elapsed, deadline, pause, backend>>

(* The timer fires in time: what it aborts does not outlive the tick.      *)
CrawlTick ==
    /\ ~CrawlAt("idle") /\ ~CrawlAt("ended")
    /\ CrawlAt("pausing") => pause > 0
    /\ Aborted => CrawlAt("pausing")
    /\ elapsed <= CallTime       \* the bound of the clock
    /\ elapsed' = elapsed + 1
    /\ pause' = IF CrawlAt("pausing") THEN pause - 1 ELSE pause
    /\ UNCHANGED <<crawl, deadline, job, backend>>

Crawl4aiNext ==
    \/ BeginCrawl \/ Results \/ NoResults \/ Enqueued \/ PostFails
    \/ PauseOver \/ PollRunning \/ PollCompleted \/ PollFailed \/ PollFails
    \/ JobEnds \/ CrawlTick

Crawl4aiSpec == Crawl4aiInit /\ [][Crawl4aiNext]_crawlVars

-----------------------------------------------------------------------------
Crawl4aiTypeOK ==
    /\ crawl \in [at : {"idle", "posting", "pausing", "polling", "ended"},
                  outcome : {"none", "unconfigured", "page", "null", "error"}]
    /\ elapsed \in 0..CallTime + 1 /\ deadline \in Nat /\ pause \in 0..PollPause
    /\ job \in {"none", "running", "done", "failed"}
    /\ backend \in Outages \union {"nothing", "page", "blank", "job", "failed"}

(* The outage of vikunja#690 and #684: a backend that refuses, fails, is   *)
(* silent or speaks another protocol is never taken for an empty page, at  *)
(* the first request or at the last poll.  Null means it answered with a   *)
(* result, and there was no text in it.                                    *)
UnavailableIsNotEmpty == crawl.outcome = "null" => backend = "blank"

(* The two clocks together: whatever the backend does with the job, a call *)
(* is over by the abort and one pause, and its polling loop pauses until   *)
(* at most one pause past the poll budget.  The poll that may begin then   *)
(* is bounded by the abort alone.                                          *)
PollingEnds ==
    elapsed <= CallTime /\ (CrawlAt("pausing") => elapsed < deadline + PollPause)
=============================================================================
