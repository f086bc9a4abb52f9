----------------------------- MODULE RobotsGate -----------------------------
(***************************************************************************)
(* checkRobots for the pages of one origin: the robots.txt that            *)
(* getRobotsForOrigin keeps in the cache, for a day if it is an answer and *)
(* for minutes if it is not, and the fact that recordRobotsProbe writes    *)
(* into the domain database.                                               *)
(*                                                                         *)
(* Calls of all processes share the entry.  A cache command takes less     *)
(* than a tick; the fetch may take any time up to its own timeout.         *)
(***************************************************************************)
EXTENDS Naturals

CONSTANTS
    Check,             \* the calls of checkRobots
    RobotsTtl,         \* ROBOTS_TTL_SECONDS, in ticks
    RobotsErrorTtl,    \* ROBOTS_ERROR_TTL_SECONDS, in ticks
    NoRobots

ASSUME RobotsAssumption ==
    /\ {RobotsTtl, RobotsErrorTtl} \subseteq Nat \ {0}
    /\ RobotsErrorTtl < RobotsTtl

VARIABLES
    robotsEntry,   \* the cached robots.txt, or NoRobots; ago is a history: its age
    check,         \* [Check -> the call's local state]
    robotsFact     \* capabilities.robots_txt, or NoRobots

robotsVars == <<robotsEntry, check, robotsFact>>

(* missing is a 404; empty a file without a byte; denies, allows and       *)
(* garbled what robots-parser makes of a file for the page in question;    *)
(* failed stands for every other status, for no body and for no answer.    *)
RobotsSays == {"missing", "empty", "denies", "allows", "garbled", "failed"}

Verdicts == {"none", "allowed", "disallowed", "no_robots_txt", "parse_failed", "robots_unreachable"}

RobotsInit ==
    /\ robotsEntry = NoRobots
    /\ check = [c \in Check |-> [at |-> "idle", says |-> "failed", verdict |-> "none"]]
    /\ robotsFact = NoRobots

-----------------------------------------------------------------------------
CheckAt(c, where) == check[c].at = where
CheckGoes(c, where) == check' = [check EXCEPT ![c].at = where]

BeginCheck(c) ==
    /\ CheckAt(c, "idle")
    /\ check' = [check EXCEPT ![c].at = "lookup", ![c].verdict = "none"]
    /\ UNCHANGED <<robotsEntry, robotsFact>>

(* Not a URL: there is nothing to ask, or to be refused.                   *)
NotAUrl(c) ==
    /\ CheckAt(c, "idle")
    /\ check' = [check EXCEPT ![c].verdict = "allowed"]
    /\ UNCHANGED <<robotsEntry, robotsFact>>

(* The fire-and-forget update of the domain record, which may be dropped.  *)
recordRobotsProbe(present, allowsUs) ==
    \/ robotsFact' = [present |-> present, allows |-> allowsUs]
    \/ UNCHANGED robotsFact

Verdict(c, v) == check' = [check EXCEPT ![c] = [at |-> "idle", says |-> "failed", verdict |-> v]]

(* What checkRobots makes of it.  A file of no bytes counts as none.       *)
Judge(c, says) ==
    \/ /\ says = "failed"
       /\ Verdict(c, "robots_unreachable")
       /\ UNCHANGED robotsFact
    \/ /\ says \in {"missing", "empty"}
       /\ Verdict(c, "no_robots_txt")
       /\ recordRobotsProbe(FALSE, TRUE)
    \/ /\ says = "denies"
       /\ Verdict(c, "disallowed")
       /\ recordRobotsProbe(TRUE, FALSE)
    \/ /\ says = "allows"
       /\ Verdict(c, "allowed")
       /\ recordRobotsProbe(TRUE, TRUE)
    \/ /\ says = "garbled"
       /\ Verdict(c, "parse_failed")
       /\ UNCHANGED robotsFact

(* getRobotsForOrigin: the GET, which a cache that is down answers with a  *)
(* miss, the request, and the SET, which it drops.                         *)
RobotsHit(c) ==
    /\ CheckAt(c, "lookup") /\ robotsEntry # NoRobots
    /\ Judge(c, robotsEntry.says)
    /\ UNCHANGED robotsEntry

RobotsMiss(c) ==
    /\ CheckAt(c, "lookup")
    /\ CheckGoes(c, "fetching")
    /\ UNCHANGED <<robotsEntry, robotsFact>>

fetchRobotsTxt(c) ==
    /\ CheckAt(c, "fetching")
    /\ \E says \in RobotsSays :
          check' = [check EXCEPT ![c].at = "storing", ![c].says = says]
    /\ UNCHANGED <<robotsEntry, robotsFact>>

(* Fault: what could not be read is kept like an answer.                   *)
FaultyTtlOf(says) == RobotsTtl

TtlOf(says) == IF says = "failed" THEN RobotsErrorTtl ELSE RobotsTtl

RobotsStore(c) ==
    /\ CheckAt(c, "storing")
    /\ \/ robotsEntry' = [says |-> check[c].says, left |-> TtlOf(check[c].says), ago |-> 0]
       \/ UNCHANGED robotsEntry
    /\ Judge(c, check[c].says)

RobotsTick ==
    /\ \A c \in Check : ~CheckAt(c, "storing")
    /\ robotsEntry' = IF robotsEntry = NoRobots \/ robotsEntry.left = 1 THEN NoRobots
                      ELSE [robotsEntry EXCEPT !.left = @ - 1, !.ago = @ + 1]
    /\ UNCHANGED <<check, robotsFact>>

RobotsNext ==
    \/ \E c \in Check : \/ BeginCheck(c) \/ NotAUrl(c) \/ RobotsHit(c) \/ RobotsMiss(c)
                        \/ fetchRobotsTxt(c) \/ RobotsStore(c)
    \/ RobotsTick

RobotsSpec == RobotsInit /\ [][RobotsNext]_robotsVars

-----------------------------------------------------------------------------
RobotsTypeOK ==
    /\ robotsEntry \in [says : RobotsSays, left : 1..RobotsTtl, ago : 0..RobotsTtl]
                          \union {NoRobots}
    /\ check \in [Check -> [at : {"idle", "lookup", "fetching", "storing"},
                            says : RobotsSays, verdict : Verdicts]]
    /\ robotsFact \in [present : BOOLEAN, allows : BOOLEAN] \union {NoRobots}

(* What the site must have said for a verdict, and for a fact.             *)
Grounds(v) == CASE v = "disallowed"         -> {"denies"}
                [] v = "allowed"            -> {"allows"}
                [] v = "no_robots_txt"      -> {"missing", "empty"}
                [] v = "parse_failed"       -> {"garbled"}
                [] v = "robots_unreachable" -> {"failed"}

FactGrounds(f) == CASE ~f.present            -> {"missing", "empty"}
                    [] f.present /\ f.allows -> {"allows"}
                    [] OTHER                 -> {"denies"}

(* What call c has at hand, and how old it is.                             *)
Basis(c) == IF CheckAt(c, "lookup") THEN robotsEntry ELSE [says |-> check[c].says, ago |-> 0]

Judges(c) == CheckAt(c, "storing") \/ (CheckAt(c, "lookup") /\ robotsEntry # NoRobots)

(* However lookups, requests and stores of several calls interleave, a     *)
(* verdict rests on what the site said, or failed to say, no longer ago    *)
(* than the TTL of that kind of answer: a robots.txt that could not be     *)
(* read never lets a crawler in for longer than minutes.  And what goes    *)
(* into the domain database was said by the site within the last day: no   *)
(* timeout, no 5xx and no unreadable file is recorded as there being no    *)
(* rules.                                                                  *)
VerdictsAreCurrent ==
    [][/\ \A c \in Check :
             Judges(c) /\ check'[c].at = "idle" =>
                 /\ Basis(c).says \in Grounds(check'[c].verdict)
                 /\ Basis(c).ago < IF check'[c].verdict = "robots_unreachable"
                                   THEN RobotsErrorTtl ELSE RobotsTtl
       /\ robotsFact' # robotsFact =>
             \E c \in Check : /\ Judges(c) /\ check'[c].at = "idle"
                              /\ Basis(c).says \in FactGrounds(robotsFact')
                              /\ Basis(c).ago < RobotsTtl
      ]_robotsVars
=============================================================================
