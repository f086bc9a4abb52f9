--------------------------- MODULE SearxFailover ---------------------------
(***************************************************************************)
(* searxSearchSingle over several SearXNG replicas: the order of the       *)
(* candidates (getSearxCandidates), the loop that falls through to the     *)
(* next one inside one time budget, and the health markers that calls of   *)
(* all processes share through the cache (markUnhealthy, markHealthy).     *)
(*                                                                         *)
(* Time passes in ticks, during cache commands too.  The cache is fail-    *)
(* soft: while it is down a GET answers null and a SET does nothing.       *)
(***************************************************************************)
EXTENDS Naturals, Sequences, FiniteSets, Filtering

CONSTANTS
    Call,            \* the calls under way, of one process or of several
    Instances,       \* SEARXNG_URLS, in the configured order
    TotalTimeout,    \* SEARXNG_TOTAL_TIMEOUT_MS, in ticks
    AttemptTimeout,  \* SEARXNG_ATTEMPT_TIMEOUT_MS, in ticks
    UnhealthyTtl     \* SEARXNG_UNHEALTHY_TTL_SECONDS, in ticks

N == Len(Instances)
Instance == {Instances[k] : k \in 1..N}

ASSUME SearxAssumption ==
    /\ {TotalTimeout, AttemptTimeout, UnhealthyTtl} \subseteq Nat \ {0}
    /\ Instances \in Seq(Instance) /\ N \in Nat \ {0} /\ Cardinality(Instance) = N

VARIABLES
    state,      \* [Instance -> how it answers now]
    cacheUp,    \* whether the cache answers
    marker,     \* [Instance -> ticks the unhealthy marker has left]
    call,       \* [Call -> the call's local state]
    failed,     \* history: [Call -> instances that failed during the call]
    spent       \* history: [Call -> ticks since the call's first request]

hist == <<failed, spent>>
vars == <<state, cacheUp, marker, call, hist>>

(* left is what the request under way may still take, budget what the call *)
(* may; the lookup comes before the budget.                                *)
Fresh == [at |-> "idle", marked |-> {}, candidates |-> <<>>, attempt |-> 1,
          budget |-> TotalTimeout, left |-> 0]

At(c, where) == call[c].at = where
Base(c) == call[c].candidates[call[c].attempt]
Multi(c) == Len(call[c].candidates) > 1
Lesser(a, b) == IF a < b THEN a ELSE b

Init ==
    /\ state \in [Instance -> {"up", "down"}]
    /\ cacheUp = TRUE
    /\ marker = [i \in Instance |-> 0]
    /\ call = [c \in Call |-> Fresh]
    /\ failed = [c \in Call |-> {}]
    /\ spent = [c \in Call |-> 0]

-----------------------------------------------------------------------------
(* getSearxCandidates.                                                     *)

(* Healthy first, then the marked ones, each in configured order; the      *)
(* configured order when all are marked.                                   *)
Ordered(marked) ==
    IF marked = Instance
    THEN Instances
    ELSE LET last == {k \in 1..N : Instances[k] \in marked}
         IN Filter(Instances, (1..N) \ last) \o Filter(Instances, last)

Tries(c, k, seq, budget) ==
    IF k > Len(seq) \/ budget = 0
    THEN call' = [call EXCEPT ![c] = [@ EXCEPT !.at = "failed", !.candidates = <<>>, !.attempt = 1,
                                           !.budget = budget, !.left = 0]]
    ELSE call' = [call EXCEPT ![c] =
             [@ EXCEPT !.at = "fetching", !.candidates = seq, !.attempt = k,
                       !.budget = budget, !.left = Lesser(AttemptTimeout, budget)]]

(* A single instance takes no lookup.                                      *)
Start(c) ==
    /\ At(c, "idle")
    /\ IF N = 1 THEN Tries(c, 1, Instances, TotalTimeout)
                ELSE call' = [call EXCEPT ![c].at = "lookup"]
    /\ UNCHANGED <<state, cacheUp, marker, hist>>

(* One GET per instance, in configured order.                              *)
Lookup(c) ==
    /\ At(c, "lookup")
    /\ LET k == call[c].attempt
           marked == IF cacheUp /\ marker[Instances[k]] > 0
                     THEN call[c].marked \union {Instances[k]} ELSE call[c].marked
       IN IF k < N
          THEN call' = [call EXCEPT ![c].marked = marked, ![c].attempt = k + 1]
          ELSE call' = [call EXCEPT ![c] =
                   [@ EXCEPT !.at = "fetching", !.marked = marked, !.candidates = Ordered(marked),
                             !.attempt = 1, !.left = Lesser(AttemptTimeout, TotalTimeout)]]
    /\ UNCHANGED <<state, cacheUp, marker, hist>>

-----------------------------------------------------------------------------
(* The loop of searxSearchSingle.                                          *)

Set(i, ttl) == marker' = IF cacheUp THEN [marker EXCEPT ![i] = ttl] ELSE marker

Ends(c, how) ==
    call' = [call EXCEPT ![c] = [@ EXCEPT !.at = how, !.candidates = <<>>, !.attempt = 1, !.left = 0]]

(* The replica answers with usable results.                                *)
Answers(c) ==
    /\ At(c, "fetching") /\ state[Base(c)] = "up"
    /\ IF Multi(c) /\ call[c].attempt > 1
       THEN call' = [call EXCEPT ![c].at = "recovered"]
       ELSE Ends(c, "answered")
    /\ UNCHANGED <<state, cacheUp, marker, hist>>

(* Fault: the request is sent without a timeout signal.                    *)
FaultyFails(c) ==
    /\ At(c, "fetching") /\ state[Base(c)] = "down" /\ call[c].left > 0
    /\ failed' = [failed EXCEPT ![c] = @ \union {Base(c)}]
    /\ IF Multi(c) THEN call' = [call EXCEPT ![c].at = "marking"]
                   ELSE Ends(c, "failed")
    /\ UNCHANGED <<state, cacheUp, marker, spent>>

(* Refused, an HTTP error, an unusable body, or the attempt's timeout; a   *)
(* replica that is up may still be too slow.                               *)
Fails(c) ==
    /\ At(c, "fetching")
    /\ state[Base(c)] = "down" \/ call[c].left = 0
    /\ failed' = [failed EXCEPT ![c] = @ \union {Base(c)}]
    /\ IF Multi(c) THEN call' = [call EXCEPT ![c].at = "marking"]
                   ELSE Ends(c, "failed")
    /\ UNCHANGED <<state, cacheUp, marker, spent>>

(* Fault: the first error ends the call.                                   *)
FaultyMarkUnhealthy(c) ==
    /\ At(c, "marking")
    /\ Set(Base(c), UnhealthyTtl)
    /\ Ends(c, "failed")
    /\ UNCHANGED <<state, cacheUp, hist>>

(* Fault: every attempt has a budget of its own.                           *)
FaultyBudget(c) ==
    /\ At(c, "marking")
    /\ Set(Base(c), UnhealthyTtl)
    /\ Tries(c, call[c].attempt + 1, call[c].candidates, TotalTimeout)
    /\ UNCHANGED <<state, cacheUp, hist>>

(* markUnhealthy's SET, and the head of the next turn of the loop.         *)
markUnhealthy(c) ==
    /\ At(c, "marking")
    /\ Set(Base(c), UnhealthyTtl)
    /\ Tries(c, call[c].attempt + 1, call[c].candidates, call[c].budget)
    /\ UNCHANGED <<state, cacheUp, hist>>

(* markHealthy: a GET...                                                   *)
markHealthy(c) ==
    /\ At(c, "recovered")
    /\ IF cacheUp /\ marker[Base(c)] > 0 THEN call' = [call EXCEPT ![c].at = "clearing"]
                                         ELSE Ends(c, "answered")
    /\ UNCHANGED <<state, cacheUp, marker, hist>>

(* ... and a SET that lets the marker live for one more second.            *)
Clear(c) ==
    /\ At(c, "clearing")
    /\ Set(Base(c), 1)
    /\ Ends(c, "answered")
    /\ UNCHANGED <<state, cacheUp, hist>>

(* The caller has its answer; the slot can serve another call.             *)
Reset(c) ==
    /\ call[c].at \in {"answered", "failed"}
    /\ call' = [call EXCEPT ![c] = Fresh]
    /\ failed' = [failed EXCEPT ![c] = {}]
    /\ spent' = [spent EXCEPT ![c] = 0]
    /\ UNCHANGED <<state, cacheUp, marker>>

-----------------------------------------------------------------------------
(* The environment.                                                        *)

Timed(c) == call[c].at \in {"fetching", "marking"}
Pred(n) == IF n = 0 THEN 0 ELSE n - 1

(* Time cannot pass an attempt's timeout.  The budget runs through the     *)
(* requests and the cache commands between them.                           *)
Tick ==
    /\ \A c \in Call : At(c, "fetching") => call[c].left > 0
    /\ marker' = [i \in Instance |-> Pred(marker[i])]
    /\ call' = [c \in Call |-> IF Timed(c) THEN [call[c] EXCEPT !.left = Pred(@), !.budget = Pred(@)]
                                            ELSE call[c]]
    /\ spent' = [c \in Call |-> IF Timed(c) /\ spent[c] <= TotalTimeout THEN spent[c] + 1 ELSE spent[c]]
    /\ UNCHANGED <<state, cacheUp, failed>>

Change(i) ==
    /\ state' = [state EXCEPT ![i] = IF @ = "up" THEN "down" ELSE "up"]
    /\ UNCHANGED <<cacheUp, marker, call, hist>>

CacheGoes == cacheUp' = ~cacheUp /\ UNCHANGED <<state, marker, call, hist>>

Step(c) ==
    \/ Start(c) \/ Lookup(c) \/ Answers(c) \/ Fails(c)
    \/ markUnhealthy(c) \/ markHealthy(c) \/ Clear(c)

Next ==
    \/ \E c \in Call : Step(c) \/ Reset(c)
    \/ \E i \in Instance : Change(i)
    \/ Tick
    \/ CacheGoes

Spec == Init /\ [][Next]_vars

(* The process runs its handlers and timers, and the cache's commands      *)
(* answer or time out; nothing obliges a replica to answer.                *)
Fairness ==
    /\ WF_vars(Tick)
    /\ \A c \in Call : /\ WF_vars(Fails(c)) /\ WF_vars(Lookup(c))
                       /\ WF_vars(markUnhealthy(c)) /\ WF_vars(markHealthy(c)) /\ WF_vars(Clear(c))

FairSpec == Spec /\ Fairness

-----------------------------------------------------------------------------
(* One budget for the whole call: however the attempts and the cache       *)
(* commands between them spend it, no request is given more than what the  *)
(* requests before it left.                                                *)
OneBudget ==
    \A c \in Call : At(c, "fetching") => spent[c] + call[c].left <= TotalTimeout

(* A call fails only when every replica failed it or its budget is gone:   *)
(* while there is budget, a failing replica, a failing cache or a mark     *)
(* another call has just set never hides a replica that works.             *)
FailsOnlyWhenExhausted ==
    \A c \in Call : At(c, "failed") => failed[c] = Instance \/ call[c].budget = 0

(* Every call is answered or fails, whatever the replicas do.              *)
EveryCallEnds == \A c \in Call : At(c, "lookup") ~> call[c].at \in {"answered", "failed"}
=============================================================================
