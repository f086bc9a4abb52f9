---------------------------- MODULE Search_proofs ----------------------------
(***************************************************************************)
(* Theorems about SearxFailover, for any calls, replicas and timeouts, and *)
(* about SearchTools, for any results, scores and configurations.          *)
(*                                                                         *)
(* The arguments.  What a call has spent and what it has left never exceed *)
(* one budget while a request of it is under way; between two requests the *)
(* budget may run out, and then no request follows (BudgetInv).  The       *)
(* candidates of a call are all the replicas, and those before the one it  *)
(* is at have failed it (TriedInv).  And what the search of a call without *)
(* expansion is handed from the cache was found for a query itself, as is  *)
(* all that a call stores (ToolInv).                                       *)
(***************************************************************************)
EXTENDS SearxFailover, SearchTools, DataLemmas


Where == {"idle", "lookup", "fetching", "marking", "recovered", "clearing", "answered", "failed"}

CallRec == [at : Where, marked : SUBSET Instance,
            candidates : {<<>>, Instances} \union {Ordered(m) : m \in SUBSET Instance},
            attempt : Nat, budget : Nat, left : Nat]

CallTypes ==
    /\ call \in [Call -> CallRec]
    /\ spent \in [Call -> Nat]

BudgetInv ==
    \A c \in Call :
        /\ call[c].at \in {"idle", "lookup"} =>
              spent[c] = 0 /\ call[c].budget = TotalTimeout /\ call[c].attempt \in 1..N
        /\ call[c].at = "fetching" =>
              call[c].left <= call[c].budget /\ spent[c] + call[c].budget <= TotalTimeout
        /\ call[c].at = "marking" =>
              call[c].budget = 0 \/ spent[c] + call[c].budget <= TotalTimeout

IInv == CallTypes /\ BudgetInv

-----------------------------------------------------------------------------
(* The lesser of two times is a time, and no more than the second.         *)
LEMMA LesserFacts ==
    ASSUME NEW a \in Nat, NEW b \in Nat
    PROVE  Lesser(a, b) \in Nat /\ Lesser(a, b) <= b
BY DEF Lesser

(* No call has begun.                                                      *)
LEMMA InitIInv == Init => IInv
<1>. SUFFICES ASSUME Init PROVE IInv
  OBVIOUS
<1>1. Fresh \in CallRec
  BY SearxAssumption DEF Fresh, Where, CallRec
<1>. QED  BY <1>1, SearxAssumption DEF Init, IInv, CallTypes, BudgetInv, Fresh

(* A step that changes one call and no clock: what it has to leave.        *)
LEMMA OneCall ==
    ASSUME IInv, NEW c \in Call, UNCHANGED spent,
           NEW q \in CallRec, call' = [call EXCEPT ![c] = q],
           q.at \in {"idle", "lookup"} =>
               spent[c] = 0 /\ q.budget = TotalTimeout /\ q.attempt \in 1..N,
           q.at = "fetching" => q.left <= q.budget /\ spent[c] + q.budget <= TotalTimeout,
           q.at = "marking" => q.budget = 0 \/ spent[c] + q.budget <= TotalTimeout
    PROVE  IInv'
<1>1. CallTypes'
  BY DEF IInv, CallTypes
<1>2. call'[c] = q /\ \A d \in Call \ {c} : call'[d] = call[d]
  BY DEF IInv, CallTypes
<1>3. BudgetInv'
  BY <1>2 DEF IInv, BudgetInv
<1>. QED  BY <1>1, <1>3 DEF IInv

(* The head of the loop, for a call whose budget is what it has not spent. *)
LEMMA TriesStep ==
    ASSUME IInv, NEW c \in Call, UNCHANGED spent, NEW k \in Nat,
           NEW seq \in {<<>>, Instances} \union {Ordered(m) : m \in SUBSET Instance},
           NEW budget \in Nat, budget = 0 \/ spent[c] + budget <= TotalTimeout,
           Tries(c, k, seq, budget)
    PROVE  IInv'
<1>1. call[c] \in CallRec
  BY DEF IInv, CallTypes
<1>2. CASE k > Len(seq) \/ budget = 0
  <2>. DEFINE q == [call[c] EXCEPT !.at = "failed", !.candidates = <<>>, !.attempt = 1,
                                   !.budget = budget, !.left = 0]
  <2>1. call' = [call EXCEPT ![c] = q]
    BY <1>2 DEF Tries
  <2>2. q \in CallRec /\ q.at = "failed"
    BY <1>1 DEF CallRec, Where
  <2>. HIDE DEF q
  <2>. QED  BY <2>1, <2>2, OneCall
<1>3. CASE ~(k > Len(seq) \/ budget = 0)
  <2>. DEFINE left == Lesser(AttemptTimeout, budget)
              q == [call[c] EXCEPT !.at = "fetching", !.candidates = seq, !.attempt = k,
                                   !.budget = budget, !.left = left]
  <2>1. call' = [call EXCEPT ![c] = q]
    BY <1>3 DEF Tries
  <2>2. left \in Nat /\ left <= budget
    BY SearxAssumption, LesserFacts
  <2>. HIDE DEF left
  <2>3. q \in CallRec /\ q.at = "fetching" /\ q.left = left /\ q.budget = budget
    BY <1>1, <2>2 DEF CallRec, Where
  <2>. HIDE DEF q
  <2>. QED  BY <1>3, <2>1, <2>2, <2>3, OneCall
<1>. QED  BY <1>2, <1>3

(* A call begins with the whole budget, and looks up its markers.          *)
LEMMA StartLookupStep ==
    ASSUME IInv, NEW c \in Call, Start(c) \/ Lookup(c)
    PROVE  IInv'
<1>. DEFINE r == call[c]
<1>1. /\ UNCHANGED spent /\ spent[c] = 0 /\ r.budget = TotalTimeout
      /\ r.attempt \in 1..N
  BY DEF Start, Lookup, At, hist, IInv, BudgetInv
<1>2. r \in CallRec /\ TotalTimeout \in Nat /\ N \in Nat
  BY SearxAssumption DEF IInv, CallTypes
<1>3. spent[c] + TotalTimeout <= TotalTimeout
  BY <1>1, <1>2
<1>4. CASE Start(c) /\ N = 1
  <2>1. Tries(c, 1, Instances, TotalTimeout)
    BY <1>4 DEF Start
  <2>. QED  BY <1>1, <1>2, <1>3, <2>1, TriesStep
<1>5. CASE Start(c) /\ N # 1
  <2>. DEFINE q == [r EXCEPT !.at = "lookup"]
  <2>1. call' = [call EXCEPT ![c] = q]
    BY <1>5 DEF Start
  <2>2. q \in CallRec /\ q.at = "lookup" /\ q.budget = r.budget /\ q.attempt = r.attempt
    BY <1>2 DEF CallRec, Where
  <2>. HIDE DEF q
  <2>. QED  BY <1>1, <2>1, <2>2, OneCall
<1>6. CASE Lookup(c)
  <2>. DEFINE k == r.attempt
              marked == IF cacheUp /\ marker[Instances[k]] > 0
                        THEN r.marked \union {Instances[k]} ELSE r.marked
              left == Lesser(AttemptTimeout, TotalTimeout)
  <2>1. marked \in SUBSET Instance
    BY <1>1, <1>2 DEF Instance, CallRec
  <2>2. left \in Nat /\ left <= TotalTimeout
    BY LesserFacts, SearxAssumption
  <2>3. CASE k < N
    <3>. DEFINE q == [r EXCEPT !.marked = marked, !.attempt = k + 1]
    <3>1. call' = [call EXCEPT ![c].marked = marked, ![c].attempt = k + 1]
      BY <1>6, <2>3 DEF Lookup
    <3>. HIDE DEF marked
    <3>2. call' = [call EXCEPT ![c] = q]
      BY <1>2, <3>1 DEF IInv, CallTypes
    <3>3. r.at = "lookup" /\ k + 1 \in Nat
      BY <1>1, <1>2, <1>6 DEF Lookup, At
    <3>4. /\ q \in CallRec /\ q.at = r.at /\ q.budget = r.budget /\ q.attempt = k + 1
      BY <1>2, <2>1, <3>3 DEF CallRec
    <3>5. k + 1 \in 1..N
      BY <1>1, <1>2, <2>3
    <3>. HIDE DEF q, r, k
    <3>. QED  BY <1>1, <3>2, <3>3, <3>5, <3>4, OneCall
  <2>4. CASE ~(k < N)
    <3>. DEFINE q == [r EXCEPT !.at = "fetching", !.marked = marked, !.candidates = Ordered(marked),
                               !.attempt = 1, !.left = left]
    <3>1. call' = [call EXCEPT ![c] = q]
      BY <1>6, <2>4 DEF Lookup
    <3>. HIDE DEF marked, left
    <3>2. q \in CallRec /\ q.at = "fetching" /\ q.budget = r.budget /\ q.left = left
      BY <1>2, <2>1, <2>2 DEF CallRec, Where
    <3>. HIDE DEF q, r
    <3>. QED  BY <1>1, <1>3, <2>2, <3>1, <3>2, OneCall
  <2>. QED  BY <2>3, <2>4
<1>. QED  BY <1>4, <1>5, <1>6

(* An answer, a failure, the end of the loop, and the two cache commands   *)
(* after them: the call gets no time that it did not have.                 *)
LEMMA LoopStep ==
    ASSUME IInv, NEW c \in Call,
           Answers(c) \/ Fails(c) \/ markUnhealthy(c) \/ markHealthy(c) \/ Clear(c)
    PROVE  IInv'
<1>. DEFINE r == call[c]
<1>1. UNCHANGED spent
  BY DEF Answers, Fails, markUnhealthy, markHealthy, Clear, hist
<1>2. r \in CallRec
  BY DEF IInv, CallTypes
<1>3. r.at \in {"fetching", "marking"} => r.budget = 0 \/ spent[c] + r.budget <= TotalTimeout
  BY DEF IInv, BudgetInv
<1>4. CASE markUnhealthy(c)
  <2>1. Tries(c, r.attempt + 1, r.candidates, r.budget)
    BY <1>4 DEF markUnhealthy
  <2>2. /\ r.attempt + 1 \in Nat /\ r.budget \in Nat
        /\ r.candidates \in {<<>>, Instances} \union {Ordered(m) : m \in SUBSET Instance}
    BY <1>2 DEF CallRec
  <2>3. r.budget = 0 \/ spent[c] + r.budget <= TotalTimeout
    BY <1>3, <1>4 DEF markUnhealthy, At
  <2>. HIDE DEF r
  <2>. QED  BY <1>1, <2>1, <2>2, <2>3, TriesStep
<1>5. CASE ~markUnhealthy(c)
  <2>1. \/ \E how \in {"answered", "failed"} : Ends(c, how)
        \/ \E at \in {"recovered", "marking", "clearing"} :
              /\ call' = [call EXCEPT ![c].at = at]
              /\ at = "marking" => r.at = "fetching"
    BY <1>5 DEF Answers, Fails, markHealthy, Clear, At
  <2>2. ASSUME NEW how \in {"answered", "failed"}, Ends(c, how)
        PROVE  IInv'
    <3>. DEFINE q == [r EXCEPT !.at = how, !.candidates = <<>>, !.attempt = 1, !.left = 0]
    <3>1. call' = [call EXCEPT ![c] = q]
      BY <2>2 DEF Ends
    <3>2. q \in CallRec /\ q.at \in {"answered", "failed"}
      BY <1>2, <2>2 DEF CallRec, Where
    <3>. HIDE DEF q
    <3>. QED  BY <1>1, <3>1, <3>2, OneCall
  <2>3. ASSUME NEW at \in {"recovered", "marking", "clearing"},
               call' = [call EXCEPT ![c].at = at], at = "marking" => r.at = "fetching"
        PROVE  IInv'
    <3>. DEFINE q == [r EXCEPT !.at = at]
    <3>1. call' = [call EXCEPT ![c] = q]
      BY <2>3
    <3>2. q \in CallRec /\ q.at = at /\ q.budget = r.budget
      BY <1>2, <2>3 DEF CallRec, Where
    <3>. HIDE DEF q, r
    <3>. QED  BY <1>1, <1>3, <2>3, <3>1, <3>2, OneCall
  <2>. QED  BY <2>1, <2>2, <2>3
<1>. QED  BY <1>4, <1>5

(* A call is forgotten.                                                    *)
LEMMA ResetStep ==
    ASSUME IInv, NEW c \in Call, Reset(c)
    PROVE  IInv'
<1>1. /\ call' = [call EXCEPT ![c] = Fresh] /\ spent' = [spent EXCEPT ![c] = 0]
  BY DEF Reset
<1>2. /\ Fresh \in CallRec
      /\ Fresh.at = "idle" /\ Fresh.budget = TotalTimeout /\ Fresh.attempt \in 1..N
  BY SearxAssumption DEF Fresh, Where, CallRec
<1>3. CallTypes'
  BY <1>1, <1>2 DEF IInv, CallTypes
<1>4. BudgetInv'
  BY <1>1, <1>2 DEF IInv, CallTypes, BudgetInv
<1>. QED  BY <1>3, <1>4 DEF IInv

(* Time passes: a request under way has some left, and so has its budget.  *)
LEMMA TickStep ==
    ASSUME IInv, Tick
    PROVE  IInv'
<1>1. \A c \in Call :
        /\ call'[c] = IF Timed(c) THEN [call[c] EXCEPT !.left = Pred(@), !.budget = Pred(@)]
                      ELSE call[c]
        /\ spent'[c] \in Nat
        /\ spent'[c] = IF Timed(c) /\ spent[c] <= TotalTimeout THEN spent[c] + 1 ELSE spent[c]
        /\ call[c].at = "fetching" => call[c].left > 0
  <2>1. call' = [c \in Call |-> IF Timed(c) THEN [call[c] EXCEPT !.left = Pred(@), !.budget = Pred(@)]
                                ELSE call[c]]
    BY DEF Tick
  <2>2. spent' = [c \in Call |-> IF Timed(c) /\ spent[c] <= TotalTimeout THEN spent[c] + 1 ELSE spent[c]]
    BY DEF Tick
  <2>3. \A c \in Call : call[c].at = "fetching" => call[c].left > 0
    BY DEF Tick, At
  <2>4. \A c \in Call : spent[c] \in Nat
    BY DEF IInv, CallTypes
  <2>5. \A c \in Call : spent'[c] = IF Timed(c) /\ spent[c] <= TotalTimeout THEN spent[c] + 1 ELSE spent[c]
    BY <2>2
  <2>6. \A c \in Call : spent'[c] \in Nat
    BY <2>4, <2>5
  <2>7. \A c \in Call : call'[c] = IF Timed(c) THEN [call[c] EXCEPT !.left = Pred(@), !.budget = Pred(@)]
                                ELSE call[c]
    BY <2>1
  <2>. QED  BY <2>3, <2>5, <2>6, <2>7
<1>2. \A n \in Nat : Pred(n) \in Nat /\ (n > 0 => Pred(n) = n - 1) /\ (n = 0 => Pred(n) = 0)
  BY DEF Pred
<1>3. \A c \in Call :
        /\ call[c].left \in Nat /\ call[c].budget \in Nat /\ spent[c] \in Nat
        /\ call'[c] \in CallRec
  BY <1>1, <1>2 DEF IInv, CallTypes, CallRec
<1>4. CallTypes'
  BY <1>1, <1>3 DEF Tick, CallTypes, IInv
<1>5. ASSUME NEW c \in Call
      PROVE  /\ call'[c].at = call[c].at /\ call'[c].attempt = call[c].attempt
             /\ call'[c].budget = IF Timed(c) THEN Pred(call[c].budget) ELSE call[c].budget
             /\ call'[c].left = IF Timed(c) THEN Pred(call[c].left) ELSE call[c].left
  BY <1>1 DEF IInv, CallTypes, CallRec
<1>6. BudgetInv'
  <2>. SUFFICES ASSUME NEW c \in Call
       PROVE  /\ call'[c].at \in {"idle", "lookup"} =>
                    spent'[c] = 0 /\ call'[c].budget = TotalTimeout /\ call'[c].attempt \in 1..N
              /\ call'[c].at = "fetching" =>
                    call'[c].left <= call'[c].budget /\ spent'[c] + call'[c].budget <= TotalTimeout
              /\ call'[c].at = "marking" =>
                    call'[c].budget = 0 \/ spent'[c] + call'[c].budget <= TotalTimeout
    BY DEF BudgetInv
  <2>1. CASE call[c].at \in {"idle", "lookup"}
    BY <1>1, <1>5, <2>1 DEF Timed, IInv, BudgetInv
  <2>2. /\ call[c].left \in Nat /\ call[c].budget \in Nat /\ spent[c] \in Nat
        /\ TotalTimeout \in Nat
    BY <1>3, SearxAssumption
  <2>3. CASE call[c].at = "fetching"
    <3>1. /\ call'[c].left = Pred(call[c].left) /\ call'[c].budget = Pred(call[c].budget)
          /\ spent'[c] \in {spent[c], spent[c] + 1} /\ call[c].left > 0
      BY <1>1, <1>5, <2>3 DEF Timed
    <3>2. call[c].left <= call[c].budget /\ spent[c] + call[c].budget <= TotalTimeout
      BY <2>3 DEF IInv, BudgetInv
    <3>3. call'[c].left = call[c].left - 1 /\ call'[c].budget = call[c].budget - 1
      BY <1>2, <2>2, <3>1, <3>2
    <3>4. call'[c].left <= call'[c].budget /\ spent'[c] + call'[c].budget <= TotalTimeout
      BY <2>2, <3>1, <3>2, <3>3
    <3>. QED  BY <1>5, <2>3, <3>4
  <2>4. CASE call[c].at = "marking"
    <3>1. /\ call'[c].budget = Pred(call[c].budget) /\ spent'[c] \in {spent[c], spent[c] + 1}
      BY <1>1, <1>5, <2>4 DEF Timed
    <3>2. call[c].budget = 0 \/ spent[c] + call[c].budget <= TotalTimeout
      BY <2>4 DEF IInv, BudgetInv
    <3>3. call'[c].budget = 0 \/ spent'[c] + call'[c].budget <= TotalTimeout
      BY <1>2, <2>2, <3>1, <3>2
    <3>. QED  BY <1>5, <2>4, <3>3
  <2>. QED  BY <1>5, <2>1, <2>3, <2>4
<1>. QED  BY <1>4, <1>6 DEF IInv

(* All the steps together.                                                 *)
LEMMA NextIInv ==
    ASSUME IInv, [Next]_vars
    PROVE  IInv'
<1>1. ASSUME NEW c \in Call, Step(c) \/ Reset(c) PROVE IInv'
  BY <1>1, StartLookupStep, LoopStep, ResetStep DEF Step
<1>2. CASE Tick
  BY <1>2, TickStep
<1>3. CASE (\E i \in Instance : Change(i)) \/ CacheGoes \/ UNCHANGED vars
  <2>1. UNCHANGED <<call, spent>>
    BY <1>3 DEF Change, CacheGoes, vars, hist
  <2>. QED  BY <2>1 DEF IInv, CallTypes, BudgetInv
<1>. QED  BY <1>1, <1>2, <1>3 DEF Next

(* One budget for the whole call, whatever the replicas and the cache do:  *)
(* no request is given more than what the requests before it left.         *)
THEOREM BudgetIsAlwaysOne == Spec => []OneBudget
<1>1. IInv /\ [Next]_vars => IInv'
  BY NextIInv
<1>2. IInv => OneBudget
  <2>. SUFFICES ASSUME IInv, NEW c \in Call, call[c].at = "fetching"
                PROVE  spent[c] + call[c].left <= TotalTimeout
    BY DEF OneBudget, At
  <2>1. /\ call[c].left \in Nat /\ call[c].budget \in Nat /\ spent[c] \in Nat
        /\ call[c].left <= call[c].budget /\ spent[c] + call[c].budget <= TotalTimeout
    BY DEF IInv, CallTypes, CallRec, BudgetInv
  <2>. QED  BY <2>1, SearxAssumption
<1>. QED  BY InitIInv, <1>1, <1>2, PTL DEF Spec

-----------------------------------------------------------------------------
Looping == {"fetching", "marking", "recovered", "clearing"}

Covers(seq) == \A i \in Instance : \E k \in DOMAIN seq : seq[k] = i

(* What the state q of a call has to do with the replicas f that failed it:*)
(* the candidates are all the replicas, and those already tried failed.    *)
Tried(q, f) ==
    /\ f \subseteq Instance
    /\ q.at \in Looping =>
          /\ q.attempt \in DOMAIN q.candidates /\ Covers(q.candidates)
          /\ \A k \in DOMAIN q.candidates : k < q.attempt => q.candidates[k] \in f
    /\ q.at = "marking" => q.candidates[q.attempt] \in f
    /\ q.at = "failed" => f = Instance \/ q.budget = 0

TriedInv == failed \in [Call -> SUBSET Instance] /\ \A c \in Call : Tried(call[c], failed[c])

(* The candidates are all the replicas, whichever of them are marked.      *)
LEMMA OrderedFacts ==
    ASSUME NEW marked \in SUBSET Instance
    PROVE  /\ Ordered(marked) \in Seq(Instance) /\ Covers(Ordered(marked))
           /\ 1 \in DOMAIN Ordered(marked)
<1>1. Instances \in Seq(Instance) /\ DOMAIN Instances = 1..N /\ N \in Nat \ {0}
  BY SearxAssumption DEF N
<1>2. Covers(Instances)
  BY <1>1 DEF Covers, Instance
<1>3. CASE marked = Instance
  BY <1>1, <1>2, <1>3 DEF Ordered
<1>4. CASE marked # Instance
  <2>. DEFINE last == {k \in 1..N : Instances[k] \in marked}
              first == (1..N) \ last
              A == Filter(Instances, first)
              B == Filter(Instances, last)
  <2>1. first \in SUBSET DOMAIN Instances /\ last \in SUBSET DOMAIN Instances
    BY <1>1
  <2>2. Ordered(marked) = A \o B
    BY <1>4 DEF Ordered
  <2>3. \A k \in 1..N : k \in first \/ k \in last
    OBVIOUS
  <2>. HIDE DEF first, last
  <2>4. /\ A \in Seq(Instance) /\ \A i \in first : \E k \in DOMAIN A : A[k] = Instances[i]
        /\ B \in Seq(Instance) /\ \A i \in last : \E k \in DOMAIN B : B[k] = Instances[i]
    BY <1>1, <2>1, FilterFacts
  <2>. HIDE DEF A, B
  <2>5. /\ A \o B \in Seq(Instance)
        /\ \A k \in DOMAIN A : k \in DOMAIN (A \o B) /\ (A \o B)[k] = A[k]
        /\ \A k \in DOMAIN B : Len(A) + k \in DOMAIN (A \o B) /\ (A \o B)[Len(A) + k] = B[k]
    BY <2>4
  <2>6. Covers(A \o B)
    <3>. SUFFICES ASSUME NEW i \in Instance PROVE \E k \in DOMAIN (A \o B) : (A \o B)[k] = i
      BY DEF Covers
    <3>1. PICK j \in 1..N : Instances[j] = i
      BY DEF Instance
    <3>2. CASE j \in first
      <4>1. PICK k \in DOMAIN A : A[k] = Instances[j]
        BY <2>4, <3>2
      <4>. QED  BY <2>5, <3>1, <4>1
    <3>3. CASE j \in last
      <4>1. PICK k \in DOMAIN B : B[k] = Instances[j]
        BY <2>4, <3>3
      <4>. QED  BY <2>5, <3>1, <4>1
    <3>. QED  BY <2>3, <3>2, <3>3
  <2>7. Instances[1] \in Instance
    BY <1>1
  <2>8. \E k : k \in DOMAIN (A \o B)
    BY <2>6, <2>7 DEF Covers
  <2>9. 1 \in DOMAIN (A \o B)
    <3>. DEFINE F == A \o B
    <3>1. F \in Seq(Instance) /\ \E k : k \in DOMAIN F
      BY <2>5, <2>8
    <3>. HIDE DEF F
    <3>2. 1 \in DOMAIN F
      BY <3>1
    <3>. QED  BY <3>2 DEF F
  <2>. QED  BY <2>2, <2>5, <2>6, <2>9
<1>. QED  BY <1>3, <1>4

(* A step of one call keeps TriedInv if it does for that call.             *)
LEMMA OneTry ==
    ASSUME IInv, TriedInv, NEW c \in Call, NEW q, call' = [call EXCEPT ![c] = q],
           NEW f, failed' = [failed EXCEPT ![c] = f], Tried(q, f)
    PROVE  TriedInv'
<1>1. /\ call'[c] = q /\ failed'[c] = f /\ failed' \in [Call -> SUBSET Instance]
      /\ \A d \in Call \ {c} : call'[d] = call[d] /\ failed'[d] = failed[d]
  BY DEF IInv, CallTypes, TriedInv, Tried
<1>. QED  BY <1>1 DEF TriedInv

(* TriedInv at the start.                                                  *)
LEMMA InitTried == Init => TriedInv
BY SearxAssumption DEF Init, TriedInv, Tried, Fresh, Looping

(* A call starts, or orders its candidates.                                *)
LEMMA StartTried ==
    ASSUME IInv, TriedInv, NEW c \in Call, Start(c) \/ Lookup(c)
    PROVE  TriedInv'
<1>. DEFINE r == call[c]
            f == failed[c]
<1>1. failed' = failed /\ failed' = [failed EXCEPT ![c] = f] /\ f \subseteq Instance
  BY DEF Start, Lookup, hist, TriedInv, Tried
<1>2. r \in CallRec /\ r.at \in {"idle", "lookup"} /\ r.attempt \in 1..N /\ N \in Nat
  BY SearxAssumption DEF IInv, CallTypes, BudgetInv, Start, Lookup, At, N
<1>3. CASE Start(c) /\ N = 1
  <2>1. Tries(c, 1, Instances, TotalTimeout)
    BY <1>3 DEF Start
  <2>2. TotalTimeout # 0 /\ ~(1 > Len(Instances))
    BY <1>3, SearxAssumption DEF N
  <2>. DEFINE q == [r EXCEPT !.at = "fetching", !.candidates = Instances, !.attempt = 1,
                             !.budget = TotalTimeout,
                             !.left = Lesser(AttemptTimeout, TotalTimeout)]
  <2>3. call' = [call EXCEPT ![c] = q]
    BY <2>1, <2>2 DEF Tries
  <2>4. q.at = "fetching" /\ q.candidates = Instances /\ q.attempt = 1
    BY <1>2 DEF CallRec
  <2>5. 1 \in DOMAIN Instances /\ Covers(Instances) /\ \A k \in DOMAIN Instances : ~(k < 1)
    BY <1>3, SearxAssumption DEF N, Covers, Instance
  <2>. HIDE DEF q
  <2>6. Tried(q, f)
    BY <1>1, <2>4, <2>5 DEF Tried
  <2>. QED  BY <1>1, <2>3, <2>6, OneTry
<1>4. CASE Start(c) /\ N # 1
  <2>. DEFINE q == [r EXCEPT !.at = "lookup"]
  <2>1. call' = [call EXCEPT ![c] = q]
    BY <1>4 DEF Start
  <2>2. q.at = "lookup"
    BY <1>2 DEF CallRec
  <2>. HIDE DEF q
  <2>3. Tried(q, f)
    BY <1>1, <2>2 DEF Tried, Looping
  <2>. QED  BY <1>1, <2>1, <2>3, OneTry
<1>5. CASE Lookup(c)
  <2>. DEFINE k == r.attempt
              marked == IF cacheUp /\ marker[Instances[k]] > 0
                        THEN r.marked \union {Instances[k]} ELSE r.marked
  <2>1. marked \in SUBSET Instance
    BY <1>2 DEF Instance, CallRec
  <2>2. CASE k < N
    <3>. DEFINE q == [r EXCEPT !.marked = marked, !.attempt = k + 1]
    <3>1. call' = [call EXCEPT ![c].marked = marked, ![c].attempt = k + 1]
      BY <1>5, <2>2 DEF Lookup
    <3>. HIDE DEF marked
    <3>2. call' = [call EXCEPT ![c] = q]
      BY <1>2, <3>1 DEF IInv, CallTypes
    <3>3. q.at = r.at
      BY <1>2 DEF CallRec
    <3>. HIDE DEF q
    <3>4. Tried(q, f)
      BY <1>1, <1>2, <3>3 DEF Tried, Looping
    <3>. QED  BY <1>1, <3>2, <3>4, OneTry
  <2>3. CASE ~(k < N)
    <3>. DEFINE q == [r EXCEPT !.at = "fetching", !.marked = marked, !.candidates = Ordered(marked),
                               !.attempt = 1, !.left = Lesser(AttemptTimeout, TotalTimeout)]
    <3>1. call' = [call EXCEPT ![c] = q]
      BY <1>5, <2>3 DEF Lookup
    <3>. HIDE DEF marked
    <3>2. q.at = "fetching" /\ q.candidates = Ordered(marked) /\ q.attempt = 1
      BY <1>2 DEF CallRec
    <3>3. /\ 1 \in DOMAIN Ordered(marked) /\ Covers(Ordered(marked))
          /\ Ordered(marked) \in Seq(Instance)
      BY <2>1, OrderedFacts
    <3>4. \A i \in DOMAIN Ordered(marked) : ~(i < 1)
      BY <3>3
    <3>. HIDE DEF q
    <3>5. Tried(q, f)
      BY <1>1, <3>2, <3>3, <3>4 DEF Tried
    <3>. QED  BY <1>1, <3>1, <3>5, OneTry
  <2>. QED  BY <2>2, <2>3
<1>. QED  BY <1>3, <1>4, <1>5

(* A call ends.                                                            *)
LEMMA EndsTried ==
    ASSUME IInv, TriedInv, NEW c \in Call, NEW how \in {"answered", "failed"}, Ends(c, how),
           NEW f \in SUBSET Instance, failed' = [failed EXCEPT ![c] = f],
           how = "failed" => f = Instance
    PROVE  TriedInv'
<1>. DEFINE q == [call[c] EXCEPT !.at = how, !.candidates = <<>>, !.attempt = 1, !.left = 0]
<1>1. call' = [call EXCEPT ![c] = q]
  BY DEF Ends
<1>2. q.at = how
  BY DEF IInv, CallTypes, CallRec
<1>. HIDE DEF q
<1>3. Tried(q, f)
  BY <1>2 DEF Tried, Looping
<1>. QED  BY <1>1, <1>3, OneTry

(* A replica answers.                                                      *)
LEMMA AnswerTried ==
    ASSUME IInv, TriedInv, NEW c \in Call, Answers(c) \/ markHealthy(c) \/ Clear(c)
    PROVE  TriedInv'
<1>. DEFINE r == call[c]
            f == failed[c]
<1>1. failed' = [failed EXCEPT ![c] = f] /\ f \in SUBSET Instance
  BY DEF Answers, markHealthy, Clear, hist, TriedInv
<1>2. \/ Ends(c, "answered")
      \/ /\ r.at \in Looping
         /\ \E at \in {"recovered", "clearing"} : call' = [call EXCEPT ![c] = [r EXCEPT !.at = at]]
  BY DEF Answers, markHealthy, Clear, At, Looping
<1>3. CASE Ends(c, "answered")
  BY <1>1, <1>3, EndsTried
<1>4. ASSUME NEW at \in {"recovered", "clearing"}, r.at \in Looping,
             call' = [call EXCEPT ![c] = [r EXCEPT !.at = at]]
      PROVE  TriedInv'
  <2>. DEFINE q == [r EXCEPT !.at = at]
  <2>1. q.at = at /\ q.attempt = r.attempt /\ q.candidates = r.candidates
    BY DEF IInv, CallTypes, CallRec
  <2>2. Tried(r, f)
    BY DEF TriedInv
  <2>. HIDE DEF q, r, f
  <2>3. Tried(q, f)
    BY <1>4, <2>1, <2>2 DEF Tried
  <2>. QED  BY <1>1, <1>4, <2>3, OneTry DEF q
<1>. QED  BY <1>2, <1>3, <1>4

(* A replica fails the call; the only one ends it.                         *)
LEMMA FailsTried ==
    ASSUME IInv, TriedInv, NEW c \in Call, Fails(c)
    PROVE  TriedInv'
<1>. DEFINE r == call[c]
            f == failed[c] \union {Base(c)}
<1>1. /\ r \in CallRec /\ r.at = "fetching" /\ Tried(r, failed[c])
      /\ failed' = [failed EXCEPT ![c] = f] /\ Base(c) = r.candidates[r.attempt]
  BY DEF Fails, At, Base, TriedInv, IInv, CallTypes
<1>2. /\ r.attempt \in DOMAIN r.candidates /\ Covers(r.candidates)
      /\ \A k \in DOMAIN r.candidates : k < r.attempt => r.candidates[k] \in failed[c]
      /\ failed[c] \subseteq Instance
  BY <1>1 DEF Tried, Looping
<1>3. r.candidates \in Seq(Instance)
  <2>1. Instances \in Seq(Instance) /\ <<>> \in Seq(Instance)
    BY SearxAssumption
  <2>2. \A m \in SUBSET Instance : Ordered(m) \in Seq(Instance)
    BY OrderedFacts
  <2>. QED  BY <1>1, <2>1, <2>2 DEF CallRec
<1>4. f \in SUBSET Instance
  <2>. HIDE DEF r
  <2>1. r.candidates[r.attempt] \in Instance
    BY <1>2, <1>3
  <2>. QED  BY <1>1, <1>2, <2>1
<1>5. CASE Multi(c)
  <2>. DEFINE q == [r EXCEPT !.at = "marking"]
  <2>1. call' = [call EXCEPT ![c] = q]
    BY <1>5 DEF Fails
  <2>2. q.at = "marking" /\ q.attempt = r.attempt /\ q.candidates = r.candidates
    BY <1>1 DEF CallRec
  <2>. HIDE DEF q, r
  <2>3. Tried(q, f)
    BY <1>1, <1>2, <1>4, <2>2 DEF Tried
  <2>. QED  BY <1>1, <2>1, <2>3, OneTry
<1>6. CASE ~Multi(c)
  <2>1. Ends(c, "failed")
    BY <1>6 DEF Fails
  <2>2. ~(Len(r.candidates) > 1)
    BY <1>6 DEF Multi
  <2>3. Instance \subseteq f
    <3>. SUFFICES ASSUME NEW i \in Instance PROVE i \in f
      OBVIOUS
    <3>. HIDE DEF r
    <3>1. PICK k \in DOMAIN r.candidates : r.candidates[k] = i
      BY <1>2 DEF Covers
    <3>2. k = r.attempt
      BY <1>2, <1>3, <2>2
    <3>. QED  BY <1>1, <3>1, <3>2
  <2>4. f = Instance
    BY <1>4, <2>3
  <2>. HIDE DEF f, r
  <2>. QED  BY <1>1, <1>4, <2>1, <2>4, EndsTried
<1>. QED  BY <1>5, <1>6

(* The loop goes on to the next candidate; past the last, all have failed. *)
LEMMA MarkTried ==
    ASSUME IInv, TriedInv, NEW c \in Call, markUnhealthy(c)
    PROVE  TriedInv'
<1>. DEFINE r == call[c]
            f == failed[c]
            k == r.attempt + 1
<1>1. /\ r \in CallRec /\ r.at = "marking" /\ Tried(r, f)
      /\ failed' = [failed EXCEPT ![c] = f]
      /\ Tries(c, k, r.candidates, r.budget)
  BY DEF markUnhealthy, At, TriedInv, IInv, CallTypes, hist
<1>2. /\ r.attempt \in DOMAIN r.candidates /\ Covers(r.candidates)
      /\ \A i \in DOMAIN r.candidates : i < r.attempt => r.candidates[i] \in f
      /\ r.candidates[r.attempt] \in f /\ f \subseteq Instance
  BY <1>1 DEF Tried, Looping
<1>3. r.candidates \in Seq(Instance)
  <2>1. Instances \in Seq(Instance) /\ <<>> \in Seq(Instance)
    BY SearxAssumption
  <2>2. \A m \in SUBSET Instance : Ordered(m) \in Seq(Instance)
    BY OrderedFacts
  <2>. QED  BY <1>1, <2>1, <2>2 DEF CallRec
<1>4. DOMAIN r.candidates = 1..Len(r.candidates) /\ Len(r.candidates) \in Nat
  BY <1>3
<1>5. \A i \in DOMAIN r.candidates : i < k => r.candidates[i] \in f
  <2>. SUFFICES ASSUME NEW i \in DOMAIN r.candidates, i < k PROVE r.candidates[i] \in f
    OBVIOUS
  <2>. HIDE DEF r, f
  <2>1. i < r.attempt \/ i = r.attempt
    BY <1>2, <1>4
  <2>. QED  BY <1>2, <2>1
<1>6. CASE k > Len(r.candidates) \/ r.budget = 0
  <2>. DEFINE q == [r EXCEPT !.at = "failed", !.candidates = <<>>, !.attempt = 1,
                             !.budget = r.budget, !.left = 0]
  <2>1. call' = [call EXCEPT ![c] = q]
    BY <1>1, <1>6 DEF Tries
  <2>2. q.at = "failed" /\ q.budget = r.budget
    BY <1>1 DEF CallRec
  <2>. HIDE DEF q
  <2>3. f = Instance \/ q.budget = 0
    <3>1. CASE k > Len(r.candidates)
      <4>. HIDE DEF r, f
      <4>1. \A i \in DOMAIN r.candidates : i < k
        BY <1>2, <1>4, <3>1
      <4>. HIDE DEF k
      <4>2. \A i \in DOMAIN r.candidates : r.candidates[i] \in f
        BY <1>5, <4>1
      <4>. QED  BY <1>2, <4>2 DEF Covers
    <3>. QED  BY <1>6, <2>2, <3>1
  <2>4. Tried(q, f)
    BY <1>2, <2>2, <2>3 DEF Tried, Looping
  <2>. QED  BY <1>1, <2>1, <2>4, OneTry
<1>7. CASE ~(k > Len(r.candidates) \/ r.budget = 0)
  <2>. DEFINE q == [r EXCEPT !.at = "fetching", !.candidates = r.candidates, !.attempt = k,
                             !.budget = r.budget, !.left = Lesser(AttemptTimeout, r.budget)]
  <2>1. call' = [call EXCEPT ![c] = q]
    BY <1>1, <1>7 DEF Tries
  <2>2. q.at = "fetching" /\ q.attempt = k /\ q.candidates = r.candidates
    BY <1>1 DEF CallRec
  <2>3. k \in DOMAIN r.candidates
    <3>. HIDE DEF r
    <3>. QED  BY <1>2, <1>4, <1>7
  <2>. HIDE DEF q, k
  <2>4. Tried(q, f)
    BY <1>2, <1>5, <2>2, <2>3 DEF Tried
  <2>. QED  BY <1>1, <2>1, <2>4, OneTry
<1>. QED  BY <1>6, <1>7

(* A call is forgotten.                                                    *)
LEMMA ResetTried ==
    ASSUME IInv, TriedInv, NEW c \in Call, Reset(c)
    PROVE  TriedInv'
<1>1. Fresh.at = "idle"
  BY DEF Fresh
<1>2. Tried(Fresh, {})
  BY <1>1 DEF Tried, Looping
<1>. QED  BY <1>2, OneTry DEF Reset

(* Time takes from a budget, and nothing from what was tried.              *)
LEMMA TickTried ==
    ASSUME IInv, TriedInv, Tick
    PROVE  TriedInv'
<1>. SUFFICES ASSUME NEW c \in Call PROVE Tried(call'[c], failed[c])
  BY DEF Tick, TriedInv
<1>1. /\ call'[c] = IF Timed(c) THEN [call[c] EXCEPT !.left = Pred(@), !.budget = Pred(@)] ELSE call[c]
      /\ call[c] \in CallRec /\ Tried(call[c], failed[c])
  BY DEF Tick, IInv, CallTypes, TriedInv
<1>2. CASE Timed(c)
  <2>1. /\ call'[c].at = call[c].at /\ call'[c].attempt = call[c].attempt
        /\ call'[c].candidates = call[c].candidates
    BY <1>1, <1>2 DEF CallRec
  <2>. QED  BY <1>1, <1>2, <2>1 DEF Tried, Timed
<1>. QED  BY <1>1, <1>2

(* A call that fails with budget left was failed by every replica; one     *)
(* whose budget is gone may have replicas it never tried.                  *)
THEOREM FailureIsExhaustion == Spec => []FailsOnlyWhenExhausted
<1>. DEFINE Inv == IInv /\ TriedInv
<1>1. Init => Inv
  BY InitIInv, InitTried
<1>2. Inv /\ [Next]_vars => Inv'
  <2>. SUFFICES ASSUME IInv, TriedInv, [Next]_vars PROVE TriedInv'
    BY NextIInv
  <2>1. ASSUME NEW c \in Call, Step(c) \/ Reset(c) PROVE TriedInv'
    BY <2>1, StartTried, AnswerTried, FailsTried, MarkTried, ResetTried DEF Step
  <2>2. CASE Tick
    BY <2>2, TickTried
  <2>3. CASE (\E i \in Instance : Change(i)) \/ CacheGoes \/ UNCHANGED vars
    <3>1. UNCHANGED <<call, failed>>
      BY <2>3 DEF Change, CacheGoes, vars, hist
    <3>. QED  BY <3>1 DEF TriedInv
  <2>. QED  BY <2>1, <2>2, <2>3 DEF Next
<1>3. Inv => FailsOnlyWhenExhausted
  BY DEF TriedInv, Tried, FailsOnlyWhenExhausted, At
<1>. QED  BY <1>1, <1>2, <1>3, PTL DEF Spec

-----------------------------------------------------------------------------
(* The search tools.                                                       *)

Hit == [url : Result, lang : Language, own : BOOLEAN]

AllOwn(s) == s \in Seq(Hit) /\ \A i \in DOMAIN s : s[i].own

CallFields == {"at", "req", "own", "pool", "list", "got", "reply"}

ToolInv ==
    /\ DOMAIN toolCall = CallFields /\ req \in Requests
    /\ searchEntry # NoEntry => AllOwn(searchEntry)
    /\ AllOwn(toolCall.own)
    /\ toolCall.pool \in Seq(Hit) /\ toolCall.list \in Seq(Hit)
    /\ ~req.expand => AllOwn(toolCall.pool) /\ AllOwn(toolCall.list) /\ toolCall.at # "variants"

-----------------------------------------------------------------------------
(* What the filters leave: nothing that is blocked, what is boosted first. *)
LEMMA FilteredFacts ==
    ASSUME NEW s \in Seq(Hit), NEW t, t = applyDomainFilters(s)
    PROVE  /\ t \in Seq(Hit)
           /\ \A k \in DOMAIN t : \E i \in DOMAIN s : t[k] = s[i]
           /\ \A k \in DOMAIN t : t[k].url \notin BlockList
           /\ \A i, j \in DOMAIN t : i < j /\ t[j].url \in BoostList => t[i].url \in BoostList
<1>. DEFINE filtered == {i \in DOMAIN s : s[i].url \notin BlockList}
            boosted == {i \in filtered : s[i].url \in BoostList}
            rest == filtered \ boosted
            A == Filter(s, boosted)
            B == Filter(s, rest)
<1>1. t = A \o B
  BY DEF applyDomainFilters
<1>2. boosted \in SUBSET DOMAIN s /\ rest \in SUBSET DOMAIN s
  OBVIOUS
<1>3. \A i \in boosted : s[i].url \in BoostList /\ s[i].url \notin BlockList
  OBVIOUS
<1>4. \A i \in rest : s[i].url \notin BoostList /\ s[i].url \notin BlockList
  OBVIOUS
<1>. HIDE DEF boosted, rest
<1>5. /\ A \in Seq(Hit) /\ \A k \in DOMAIN A : \E i \in boosted : A[k] = s[i]
      /\ B \in Seq(Hit) /\ \A k \in DOMAIN B : \E i \in rest : B[k] = s[i]
  BY <1>2, FilterFacts
<1>6. \A k \in DOMAIN A : /\ A[k].url \in BoostList /\ A[k].url \notin BlockList
                          /\ \E i \in DOMAIN s : A[k] = s[i]
  BY <1>2, <1>3, <1>5
<1>7. \A k \in DOMAIN B : /\ B[k].url \notin BoostList /\ B[k].url \notin BlockList
                          /\ \E i \in DOMAIN s : B[k] = s[i]
  BY <1>2, <1>4, <1>5
<1>. HIDE DEF A, B
<1>8. /\ t \in Seq(Hit) /\ DOMAIN t \subseteq Nat
      /\ \A k \in DOMAIN t : \/ k \in DOMAIN A /\ t[k] = A[k]
                             \/ k > Len(A) /\ k - Len(A) \in DOMAIN B /\ t[k] = B[k - Len(A)]
      /\ \A k \in DOMAIN A : k \in Nat /\ k <= Len(A)
      /\ \A i \in DOMAIN t : i <= Len(A) => i \in DOMAIN A /\ t[i] = A[i]
      /\ Len(A) \in Nat
  BY <1>1, <1>5
<1>9. \A k \in DOMAIN t : t[k].url \notin BlockList /\ \E i \in DOMAIN s : t[k] = s[i]
  BY <1>6, <1>7, <1>8
<1>10. ASSUME NEW i \in DOMAIN t, NEW j \in DOMAIN t, i < j, t[j].url \in BoostList
       PROVE  t[i].url \in BoostList
  <2>1. j \in DOMAIN A
    BY <1>7, <1>8, <1>10
  <2>2. i \in Nat /\ j \in Nat /\ i <= Len(A)
    BY <1>8, <1>10, <2>1
  <2>3. i \in DOMAIN A /\ t[i] = A[i]
    BY <1>8, <2>2
  <2>. QED  BY <1>6, <2>3
<1>. QED  BY <1>8, <1>9, <1>10

(* A merge of two lists is a list.                                         *)
LEMMA MergedFacts ==
    ASSUME NEW own \in Seq(Hit), NEW more \in Seq(Hit)
    PROVE  Merged(own, more) \in Seq(Hit)
<1>. DEFINE keep == {k \in DOMAIN more : \A i \in DOMAIN own : own[i].url # more[k].url}
<1>1. keep \in SUBSET DOMAIN more /\ Merged(own, more) = own \o Filter(more, keep)
  BY DEF Merged
<1>. HIDE DEF keep
<1>2. Filter(more, keep) \in Seq(Hit)
  BY <1>1, FilterFacts
<1>. QED  BY <1>1, <1>2

(* What SearXNG answers is a list, marked as it was asked for.             *)
LEMMA AnswersFacts ==
    ASSUME NEW n, NEW lang \in Language, NEW own \in BOOLEAN, NEW s \in SearxAnswers(n, lang, own)
    PROVE  s \in Seq(Hit) /\ \A i \in DOMAIN s : s[i].own = own
<1>1. PICK urls \in SetToAllKPermutations(Result) :
         s = [i \in DOMAIN urls |-> Found(urls[i], lang, own)]
  BY DEF SearxAnswers
<1>2. PICK E \in SUBSET Result : urls \in SetToSeqs(E)
  BY <1>1 DEF SetToAllKPermutations
<1>3. IsFiniteSet(E)
  BY SearchAssumption, FS_Subset
<1>4. urls \in Seq(Result)
  <2>1. urls \in Seq(E)
    BY <1>2, <1>3, OrderFacts
  <2>. QED  BY <2>1
<1>5. \A i \in DOMAIN urls : Found(urls[i], lang, own) \in Hit /\ Found(urls[i], lang, own).own = own
  <2>1. \A i \in DOMAIN urls : urls[i] \in Result
    BY <1>4
  <2>. QED  BY <2>1 DEF Found, Hit
<1>6. s \in Seq(Hit)
  <2>1. DOMAIN urls = 1..Len(urls) /\ Len(urls) \in Nat
    BY <1>4
  <2>. QED  BY <1>1, <1>5, <2>1
<1>. QED  BY <1>1, <1>5, <1>6

(* The lesser of two numbers.                                              *)
LEMMA MinFacts ==
    ASSUME NEW m \in Nat, NEW n \in Nat
    PROVE  Min({m, n}) = IF m <= n THEN m ELSE n
BY DEF Min

(* The first n of a list.                                                  *)
LEMMA FirstFacts ==
    ASSUME NEW S, NEW s \in Seq(S), NEW n \in Nat
    PROVE  /\ FirstOf(s, n) \in Seq(S)
           /\ Len(FirstOf(s, n)) = Min({n, Len(s)})
           /\ \A i \in DOMAIN FirstOf(s, n) : i \in DOMAIN s /\ FirstOf(s, n)[i] = s[i]
<1>. DEFINE m == Min({n, Len(s)})
<1>1. Len(s) \in Nat /\ m = IF n <= Len(s) THEN n ELSE Len(s)
  BY MinFacts
<1>2. m \in Nat /\ m <= Len(s)
  BY <1>1
<1>3. FirstOf(s, n) = SubSeq(s, 1, m)
  BY DEF FirstOf
<1>. HIDE DEF m
<1>4. /\ SubSeq(s, 1, m) \in Seq(S) /\ Len(SubSeq(s, 1, m)) = m
      /\ DOMAIN SubSeq(s, 1, m) = 1..m
      /\ \A i \in 1..m : i \in DOMAIN s /\ SubSeq(s, 1, m)[i] = s[i]
  BY <1>1, <1>2
<1>. QED  BY <1>3, <1>4 DEF m

(* topN is a number.                                                       *)
LEMMA TopNIsNat ==
    ASSUME req \in Requests
    PROVE  TopN \in Nat
<1>1. req.want \in Nat
  BY SearchAssumption DEF Requests
<1>. QED  BY <1>1, SearchAssumption DEF TopN

(* The list of the reranker, or of SearXNG, is made of the pool.           *)
LEMMA RankingTakesFromThePool ==
    ASSUME ToolInv, rerank \/ NoRerank
    PROVE  \E list \in Seq(Hit) :
              RankedAs(list) /\ \A i \in DOMAIN list : list[i] \in Range(toolCall.pool)
<1>1. TopN \in Nat /\ toolCall.pool \in Seq(Hit)
  BY TopNIsNat DEF ToolInv
<1>2. IsFiniteSet(Range(toolCall.pool)) /\ Range(toolCall.pool) \subseteq Hit
  BY <1>1, RangeIsFinite
<1>3. CASE rerank
  <2>. DEFINE fit == {r \in Range(toolCall.pool) : Qualifies(r)}
  <2>1. PICK scored \in SetToSeqs(fit) : RankedAs(FirstOf(scored, TopN))
    BY <1>3 DEF rerank
  <2>2. IsFiniteSet(fit) /\ fit \subseteq Range(toolCall.pool)
    BY <1>2, FS_Subset
  <2>. HIDE DEF fit
  <2>3. scored \in Seq(fit)
    BY <2>1, <2>2, OrderFacts
  <2>4. FirstOf(scored, TopN) \in Seq(fit)
    BY <1>1, <2>3, FirstFacts
  <2>. DEFINE list == FirstOf(scored, TopN)
  <2>5. list \in Seq(Hit) /\ \A i \in DOMAIN list : list[i] \in Range(toolCall.pool)
    <3>1. list \in Seq(fit)
      BY <2>4
    <3>. HIDE DEF list
    <3>. QED  BY <1>2, <2>2, <3>1
  <2>. QED  BY <2>1, <2>5
<1>4. CASE NoRerank
  <2>. DEFINE list == FirstOf(toolCall.pool, TopN)
  <2>1. RankedAs(list)
    BY <1>4 DEF NoRerank
  <2>2. list \in Seq(Hit) /\ \A i \in DOMAIN list : i \in DOMAIN toolCall.pool /\ list[i] = toolCall.pool[i]
    BY <1>1, FirstFacts
  <2>. HIDE DEF list
  <2>3. \A i \in DOMAIN list : list[i] \in Range(toolCall.pool)
    BY <2>2 DEF Range
  <2>. QED  BY <2>1, <2>2, <2>3
<1>. QED  BY <1>3, <1>4

(* A step that returns from the search, or cuts off a list, passes on what *)
(* it was given.                                                           *)
LEMMA ReturnsOwn ==
    ASSUME ToolInv, CacheHit \/ StoreSearch
    PROVE  /\ \E s \in Seq(Hit) :
                 /\ Returned(applyDomainFilters(s))
                 /\ ~req.expand => AllOwn(s)
           /\ searchEntry' \in {toolCall.own, searchEntry}
           /\ UNCHANGED domainConfig
<1>1. CASE CacheHit
  <2>1. Returned(applyDomainFilters(searchEntry)) /\ AllOwn(searchEntry)
    BY <1>1 DEF CacheHit, Kept, ToolInv
  <2>. QED  BY <1>1, <2>1 DEF CacheHit, AllOwn
<1>2. CASE StoreSearch
  BY <1>2 DEF StoreSearch, ToStore, ToolInv
<1>. QED  BY <1>1, <1>2

(* A search that returns.                                                  *)
LEMMA ReturnKeeps ==
    ASSUME ToolInv, CacheHit \/ StoreSearch
    PROVE  ToolInv'
<1>1. PICK s \in Seq(Hit) : /\ Returned(applyDomainFilters(s))
                            /\ ~req.expand => AllOwn(s)
  BY ReturnsOwn
<1>2. searchEntry' \in {toolCall.own, searchEntry}
  BY ReturnsOwn
<1>. DEFINE pool == applyDomainFilters(s)
<1>3. /\ DOMAIN toolCall' = CallFields /\ toolCall'.req = req /\ toolCall'.own = <<>>
      /\ toolCall'.pool = pool /\ toolCall'.list = toolCall.list
      /\ toolCall'.at \in {"replying", "ranking"}
  BY <1>1 DEF Returned, ToolInv, CallFields, req
<1>4. pool \in Seq(Hit) /\ \A k \in DOMAIN pool : \E i \in DOMAIN s : pool[k] = s[i]
  BY FilteredFacts
<1>. HIDE DEF pool
<1>5. ~req.expand => AllOwn(pool)
  BY <1>1, <1>4 DEF AllOwn
<1>6. AllOwn(<<>>)
  BY DEF AllOwn
<1>7. searchEntry' # NoEntry => AllOwn(searchEntry')
  BY <1>2 DEF ToolInv
<1>8. req' = req
  BY <1>3 DEF req
<1>. QED  BY <1>3, <1>4, <1>5, <1>6, <1>7, <1>8 DEF ToolInv

(* Every step keeps the invariant.                                         *)
LEMMA ToolStep ==
    ASSUME ToolInv, [SearchNext]_searchVars
    PROVE  ToolInv'
<1>1. AllOwn(<<>>) /\ <<>> \in Seq(Hit)
  BY DEF AllOwn
<1>2. CASE BeginSearch
  <2>1. PICK asked \in Requests : toolCall' = NewCall(asked)
    BY <1>2 DEF BeginSearch
  <2>2. /\ DOMAIN toolCall' = CallFields /\ toolCall'.req = asked /\ toolCall'.own = <<>>
        /\ toolCall'.pool = <<>> /\ toolCall'.list = <<>> /\ toolCall'.at = "cache"
    BY <2>1 DEF NewCall, CallFields
  <2>3. searchEntry' = searchEntry
    BY <1>2 DEF BeginSearch
  <2>. QED  BY <1>1, <2>2, <2>3 DEF ToolInv, req
<1>3. CASE CacheHit \/ StoreSearch
  BY <1>3, ReturnKeeps
<1>4. CASE CacheMiss \/ OriginalFails \/ FetchPages \/ summarizePages
  <2>1. /\ DOMAIN toolCall' = CallFields /\ toolCall'.req = req /\ toolCall'.own = toolCall.own
        /\ toolCall'.pool = toolCall.pool /\ toolCall'.list = toolCall.list
        /\ toolCall'.at # "variants"
    BY <1>4 DEF CacheMiss, OriginalFails, FetchPages, summarizePages, Summarized, ToolInv, CallFields, req
  <2>2. searchEntry' = searchEntry
    BY <1>4 DEF CacheMiss, OriginalFails, FetchPages, summarizePages
  <2>. QED  BY <2>1, <2>2 DEF ToolInv, req
<1>5. CASE OriginalAnswered
  <2>1. PICK own \in SearxAnswers(fetchCount, req.lang, TRUE) :
          toolCall' = [toolCall EXCEPT !.own = own, !.pool = own,
                                       !.at = IF req.expand THEN "variants" ELSE "storing"]
    BY <1>5 DEF OriginalAnswered
  <2>2. /\ DOMAIN toolCall' = CallFields /\ toolCall'.req = req /\ toolCall'.own = own
        /\ toolCall'.pool = own /\ toolCall'.list = toolCall.list
        /\ ~req.expand => toolCall'.at # "variants"
    BY <2>1 DEF ToolInv, CallFields, req
  <2>3. req.lang \in Language
    BY DEF ToolInv, Requests
  <2>4. AllOwn(own) /\ own \in Seq(Hit)
    BY <2>1, <2>3, AnswersFacts DEF AllOwn
  <2>5. searchEntry' = searchEntry
    BY <1>5 DEF OriginalAnswered
  <2>. QED  BY <2>2, <2>4, <2>5 DEF ToolInv, req
<1>6. CASE VariantsSettled
  <2>1. PICK more \in SearxAnswers(fetchCount, req.lang, FALSE) :
          toolCall' = [toolCall EXCEPT !.pool = Merged(toolCall.own, more), !.at = "storing"]
    BY <1>6 DEF VariantsSettled
  <2>2. /\ DOMAIN toolCall' = CallFields /\ toolCall'.req = req /\ toolCall'.own = toolCall.own
        /\ toolCall'.pool = Merged(toolCall.own, more) /\ toolCall'.list = toolCall.list
    BY <2>1 DEF ToolInv, CallFields, req
  <2>3. req.lang \in Language /\ req.expand
    BY <1>6 DEF ToolInv, Requests, VariantsSettled, SearchAt
  <2>4. more \in Seq(Hit)
    BY <2>3, AnswersFacts
  <2>5. Merged(toolCall.own, more) \in Seq(Hit)
    BY <2>4, MergedFacts DEF ToolInv, AllOwn
  <2>6. searchEntry' = searchEntry
    BY <1>6 DEF VariantsSettled
  <2>. QED  BY <2>2, <2>3, <2>5, <2>6 DEF ToolInv, req
<1>7. CASE rerank \/ NoRerank
  <2>1. PICK list \in Seq(Hit) :
           RankedAs(list) /\ \A i \in DOMAIN list : list[i] \in Range(toolCall.pool)
    BY <1>7, RankingTakesFromThePool
  <2>2. /\ DOMAIN toolCall' = CallFields /\ toolCall'.req = req /\ toolCall'.own = toolCall.own
        /\ toolCall'.pool = <<>> /\ toolCall'.list = list
        /\ toolCall'.at # "variants"
    BY <2>1 DEF RankedAs, AfterRanking, ToolInv, CallFields, req
  <2>3. ~req.expand => AllOwn(list)
    BY <2>1 DEF ToolInv, AllOwn, Range
  <2>4. searchEntry' = searchEntry
    BY <1>7 DEF rerank, NoRerank
  <2>. QED  BY <1>1, <2>1, <2>2, <2>3, <2>4 DEF ToolInv, req
<1>8. CASE Reply
  <2>1. PICK reply : toolCall' = Idle(reply)
    BY <1>8 DEF Reply
  <2>. DEFINE asked == CHOOSE asked \in Requests : TRUE
  <2>2. asked \in Requests
    BY DEF ToolInv
  <2>. HIDE DEF asked
  <2>3. /\ DOMAIN toolCall' = CallFields /\ toolCall'.req = asked /\ toolCall'.own = <<>>
        /\ toolCall'.pool = <<>> /\ toolCall'.list = <<>> /\ toolCall'.at = "idle"
    BY <2>1 DEF Idle, NewCall, CallFields, asked
  <2>4. searchEntry' = searchEntry
    BY <1>8 DEF Reply
  <2>. QED  BY <1>1, <2>2, <2>3, <2>4 DEF ToolInv, req
<1>9. CASE OthersStore
  <2>1. PICK lang \in Language : searchEntry' \in SearxAnswers(MaxPool, lang, TRUE)
    BY <1>9 DEF OthersStore
  <2>2. AllOwn(searchEntry')
    BY <2>1, AnswersFacts DEF AllOwn
  <2>3. toolCall' = toolCall
    BY <1>9 DEF OthersStore
  <2>. QED  BY <2>2, <2>3 DEF ToolInv, req
<1>10. CASE loadDomainConfig \/ ClearSearches \/ UNCHANGED searchVars
  <2>1. toolCall' = toolCall /\ searchEntry' \in {searchEntry, NoEntry}
    BY <1>10 DEF loadDomainConfig, ClearSearches, searchVars
  <2>. QED  BY <2>1 DEF ToolInv, req
<1>. QED  BY <1>2, <1>3, <1>4, <1>5, <1>6, <1>7, <1>8, <1>9, <1>10 DEF SearchNext

(* The invariant at the start.                                             *)
LEMMA ToolInit == SearchInit => ToolInv
<1>. SUFFICES ASSUME SearchInit PROVE ToolInv
  OBVIOUS
<1>. DEFINE asked == CHOOSE asked \in Requests : TRUE
<1>1. asked \in Requests
  <2>1. PICK w \in Wanted, l \in Language, f \in Floors : TRUE
    BY SearchAssumption
  <2>2. [tool |-> "search", want |-> w, lang |-> l, profile |-> TRUE, expand |-> TRUE, floor |-> f]
           \in Requests
    BY DEF Requests, Tools
  <2>. QED  BY <2>2
<1>. HIDE DEF asked
<1>2. /\ DOMAIN toolCall = CallFields /\ req = asked /\ toolCall.own = <<>>
      /\ toolCall.pool = <<>> /\ toolCall.list = <<>> /\ toolCall.at = "idle"
  BY DEF SearchInit, Idle, NewCall, CallFields, asked, req
<1>3. AllOwn(<<>>) /\ <<>> \in Seq(Hit)
  BY DEF AllOwn
<1>. QED  BY <1>1, <1>2, <1>3 DEF SearchInit, ToolInv

(* The inductive invariant of the search tools.                            *)
LEMMA ToolInvariant == SearchSpec => []ToolInv
BY ToolInit, ToolStep, PTL DEF SearchSpec

-----------------------------------------------------------------------------
(* What the variants of a query found reaches no call that did not ask for *)
(* them, by way of the cache or otherwise.                                 *)
THEOREM ExpansionNeverLeaks == SearchSpec => []ExpansionStaysOut
<1>1. ToolInv => ExpansionStaysOut
  BY DEF ToolInv, ExpansionStaysOut, AllOwn, Range
<1>. QED  BY <1>1, ToolInvariant, PTL

(* Whatever is returned, from the cache or not, was filtered by the        *)
(* configuration as it is at that moment.                                  *)
THEOREM PoolsAreFiltered == SearchSpec => FilteredAsConfigured
<1>. DEFINE Filtered ==
        SearchReturns =>
          LET pool == toolCall'.pool IN
          \A i \in DOMAIN pool :
              /\ pool[i].url \notin BlockList
              /\ \A j \in DOMAIN pool : i < j /\ pool[j].url \in BoostList => pool[i].url \in BoostList
<1>1. ToolInv /\ [SearchNext]_searchVars => [Filtered]_searchVars
  <2>. SUFFICES ASSUME ToolInv, SearchNext, SearchReturns
                PROVE  Filtered
    OBVIOUS
  <2>1. CacheHit \/ StoreSearch
    BY DEF SearchNext, SearchReturns, BeginSearch, CacheMiss, OriginalAnswered, OriginalFails,
           VariantsSettled, rerank, NoRerank, FetchPages, summarizePages, Reply, loadDomainConfig,
           ClearSearches, OthersStore, SearchAt, ToolInv, CallFields
  <2>2. PICK s \in Seq(Hit) : Returned(applyDomainFilters(s))
    BY <2>1, ReturnsOwn
  <2>. DEFINE pool == applyDomainFilters(s)
  <2>3. toolCall'.pool = pool
    BY <2>2 DEF Returned, ToolInv, CallFields
  <2>4. /\ \A k \in DOMAIN pool : pool[k].url \notin BlockList
        /\ \A i, j \in DOMAIN pool : i < j /\ pool[j].url \in BoostList => pool[i].url \in BoostList
    BY FilteredFacts
  <2>. HIDE DEF pool
  <2>. QED  BY <2>3, <2>4
<1>. QED  BY <1>1, ToolInvariant, PTL DEF SearchSpec, FilteredAsConfigured

(* The first n of what is sorted: no shorter than it need be, and no score *)
(* is passed over for a lower one.                                         *)
LEMMA FirstAreBest ==
    ASSUME NEW fit \in SUBSET Hit, IsFiniteSet(fit), NEW s \in SetToSeqs(fit), Sorted(s),
           NEW n \in Nat, NEW list, list = FirstOf(s, n)
    PROVE  /\ Range(list) \subseteq fit /\ Sorted(list)
           /\ Len(list) = Min({n, Cardinality(fit)}) /\ IsInjective(list)
           /\ \A r \in fit \ Range(list) : \A i \in DOMAIN list : Score(list[i]) >= Score(r)
<1>1. /\ s \in Seq(fit) /\ Len(s) = Cardinality(fit)
      /\ \A i, j \in DOMAIN s : s[i] = s[j] => i = j
      /\ \A e \in fit : \E k \in DOMAIN s : s[k] = e
  BY OrderFacts
<1>2. /\ list \in Seq(fit) /\ Len(list) = Min({n, Cardinality(fit)})
      /\ \A i \in DOMAIN list : i \in DOMAIN s /\ list[i] = s[i]
  BY <1>1, FirstFacts
<1>3. Sorted(list)
  BY <1>2 DEF Sorted
<1>4. IsInjective(list)
  BY <1>1, <1>2 DEF IsInjective
<1>5. ASSUME NEW r \in fit \ Range(list), NEW i \in DOMAIN list
      PROVE  Score(list[i]) >= Score(r)
  <2>1. PICK j \in DOMAIN s : s[j] = r
    BY <1>1
  <2>2. j \notin DOMAIN list
    BY <1>2, <1>5, <2>1 DEF Range
  <2>3. i < j
    BY <1>1, <1>2, <2>2
  <2>4. i \in DOMAIN s /\ list[i] = s[i]
    BY <1>2
  <2>. QED  BY <2>1, <2>3, <2>4 DEF Sorted
<1>6. Range(list) \subseteq fit
  BY <1>2 DEF Range
<1>. QED  BY <1>2, <1>3, <1>4, <1>5, <1>6

(* A list is the best the pool has, or the reranker is out and it is       *)
(* SearXNG's.                                                              *)
THEOREM ListsAreBest == SearchSpec => BestOrUnranked
<1>. DEFINE Best ==
        SearchAt("ranking") /\ toolCall'.at # "ranking" =>
          LET list == toolCall'.list
              fit == {r \in Range(toolCall.pool) : relevance_score[r.url] >= req.floor}
          IN \/ /\ Range(list) \subseteq fit /\ Sorted(list)
                /\ Len(list) = Min({TopN, Cardinality(fit)}) /\ IsInjective(list)
                /\ \A r \in fit \ Range(list) : \A i \in DOMAIN list : Score(list[i]) >= Score(r)
             \/ list = FirstOf(toolCall.pool, TopN)
<1>1. ToolInv /\ [SearchNext]_searchVars => [Best]_searchVars
  <2>. SUFFICES ASSUME ToolInv, SearchNext, SearchAt("ranking"), toolCall'.at # "ranking"
                PROVE  Best
    OBVIOUS
  <2>1. rerank \/ NoRerank
    BY DEF SearchNext, BeginSearch, CacheHit, CacheMiss, OriginalAnswered, OriginalFails,
           VariantsSettled, StoreSearch, FetchPages, summarizePages, Reply, loadDomainConfig,
           ClearSearches, OthersStore, SearchAt
  <2>2. \A s : RankedAs(s) => toolCall'.list = s
    BY DEF RankedAs, ToolInv, CallFields
  <2>3. CASE NoRerank
    BY <2>2, <2>3 DEF NoRerank
  <2>4. CASE rerank
    <3>. DEFINE fit == {r \in Range(toolCall.pool) : Qualifies(r)}
    <3>1. PICK s \in SetToSeqs(fit) : Sorted(s) /\ RankedAs(FirstOf(s, TopN))
      BY <2>4 DEF rerank
    <3>2. TopN \in Nat /\ toolCall.pool \in Seq(Hit)
      BY TopNIsNat DEF ToolInv
    <3>3. IsFiniteSet(Range(toolCall.pool)) /\ Range(toolCall.pool) \subseteq Hit
      BY <3>2, RangeIsFinite
    <3>4. IsFiniteSet(fit) /\ fit \in SUBSET Hit
      BY <3>3, FS_Subset
    <3>. DEFINE list == FirstOf(s, TopN)
    <3>5. toolCall'.list = list
      BY <2>2, <3>1
    <3>6. fit = {r \in Range(toolCall.pool) : relevance_score[r.url] >= req.floor}
      BY DEF Qualifies
    <3>. HIDE DEF fit
    <3>7. /\ Range(list) \subseteq fit /\ Sorted(list)
          /\ Len(list) = Min({TopN, Cardinality(fit)}) /\ IsInjective(list)
          /\ \A r \in fit \ Range(list) : \A i \in DOMAIN list : Score(list[i]) >= Score(r)
      BY <3>1, <3>2, <3>4, FirstAreBest
    <3>. HIDE DEF list
    <3>. QED  BY <3>5, <3>6, <3>7
  <2>. QED  BY <2>1, <2>3, <2>4
<1>. QED  BY <1>1, ToolInvariant, PTL DEF SearchSpec, BestOrUnranked
=============================================================================
