------------------------ MODULE HttpSessions_proofs ------------------------
(***************************************************************************)
(* Theorems about HttpSessions, for any sessions, requests, cap and idle   *)
(* timeout.                                                                *)
(*                                                                         *)
(* The argument: the count of a session never exceeds its pending handlers *)
(* (CountInv), a session that is not born yet has none (BornInv), and a    *)
(* stamp is always as old as the quiet it measures (QuietInv); with the    *)
(* bookkeeping itself these are inductive.  What eviction, the sweep and   *)
(* the cap may do then follows from what they read.                        *)
(***************************************************************************)
EXTENDS HttpSessions, FiniteSetTheorems, TLAPS

StateTypes ==
    /\ transports \in [Sid -> {"unborn", "open", "closing", "closed"}]
    /\ lastActivity \in [Sid -> Age \union {None}]
    /\ inFlight \in [Sid -> Nat \union {None}]
    /\ request \in [Req -> Request]
    /\ quiet \in [Sid -> Age]

BornInv ==
    \A r \in Req : request[r].at = "handling" =>
        request[r].sid \in Sid /\ transports[request[r].sid] # "unborn"

CountInv == \A s \in Sid : inFlight[s] # None => inFlight[s] <= Cardinality(Handling(s))

QuietInv == \A s \in Sid : lastActivity[s] # None => quiet[s] = lastActivity[s]

IInv == StateTypes /\ BornInv /\ CountInv /\ QuietInv /\ BookkeepingFollowsMap

-----------------------------------------------------------------------------
(* The pending handlers of a session.                                      *)
LEMMA HandlingFinite ==
    ASSUME NEW s
    PROVE  /\ IsFiniteSet(Handling(s)) /\ Cardinality(Handling(s)) \in Nat
           /\ Cardinality(Handling(s)) <= Cardinality(Req)
           /\ Cardinality(Handling(s)) = 0 <=> Handling(s) = {}
<1>1. Handling(s) \subseteq Req /\ IsFiniteSet(Req)
  BY SessionsAssumption DEF Handling
<1>. QED  BY <1>1, FS_Subset, FS_CardinalityType, FS_EmptySet

(* Requests that are not at a session's handler, before and after, leave   *)
(* every session its handlers.                                             *)
LEMMA HandlingKept ==
    ASSUME NEW r \in Req, NEW next, request \in [Req -> Request], request[r].at # "handling",
           next.at # "handling", request' = [request EXCEPT ![r] = next]
    PROVE  \A s : Handling(s)' = Handling(s)
BY DEF Handling, Request

(* A handler that begins is one more for its session.                      *)
LEMMA HandlingBegins ==
    ASSUME NEW r \in Req, NEW s \in Sid, request \in [Req -> Request], request[r].at # "handling",
           request' = [request EXCEPT ![r] = [at |-> "handling", sid |-> s]]
    PROVE  /\ Cardinality(Handling(s)') = Cardinality(Handling(s)) + 1
           /\ \A t : t # s => Handling(t)' = Handling(t)
<1>1. Handling(s)' = Handling(s) \union {r} /\ r \notin Handling(s)
  BY DEF Handling
<1>2. \A t : t # s => Handling(t)' = Handling(t)
  BY DEF Handling
<1>. QED  BY <1>1, <1>2, HandlingFinite, FS_AddElement

(* A handler that ends is one fewer for its session.                       *)
LEMMA HandlingEnds ==
    ASSUME NEW r \in Req, NEW s \in Sid, request \in [Req -> Request], request[r].at = "handling",
           request[r].sid = s, request' = [request EXCEPT ![r] = Idle]
    PROVE  /\ Cardinality(Handling(s)') = Cardinality(Handling(s)) - 1
           /\ Cardinality(Handling(s)) > 0
           /\ \A t : t # s => Handling(t)' = Handling(t)
<1>1. Handling(s)' = Handling(s) \ {r} /\ r \in Handling(s)
  BY DEF Handling, Idle, Request
<1>2. \A t : t # s => Handling(t)' = Handling(t)
  BY DEF Handling, Idle
<1>3. Cardinality(Handling(s)') = Cardinality(Handling(s)) - 1
  <2>1. IsFiniteSet(Handling(s))
    BY HandlingFinite
  <2>2. Cardinality(Handling(s) \ {r}) = Cardinality(Handling(s)) - 1
    BY <1>1, <2>1, FS_RemoveElement
  <2>. QED  BY <1>1, <2>2
<1>4. Cardinality(Handling(s)) > 0
  BY <1>1, HandlingFinite
<1>. QED  BY <1>2, <1>3, <1>4

-----------------------------------------------------------------------------
(* A step that leaves the handlers alone: what the invariant still asks.   *)
LEMMA SameHandlers ==
    ASSUME IInv, StateTypes', BornInv', \A s : Handling(s)' = Handling(s),
           \A s \in Sid : inFlight'[s] \in {inFlight[s], None},
           \A s \in Sid : transports'[s] = "open" =>
               /\ lastActivity'[s] # None /\ inFlight'[s] = inFlight[s]
               /\ transports[s] = "open" \/ Handling(s) = {},
           \A s \in Sid : lastActivity'[s] # None =>
               transports'[s] \in {"open", "closing"} /\ quiet'[s] = lastActivity'[s],
           \A s \in Sid : transports'[s] \notin {"open", "closing"} =>
               transports[s] \notin {"open", "closing"} \/ inFlight'[s] = None
    PROVE  IInv'
<1>1. CountInv'
  BY DEF IInv, CountInv
<1>2. QuietInv'
  BY DEF QuietInv
<1>3. ASSUME NEW s \in Sid, transports'[s] = "open"
      PROVE  Cardinality(Handling(s)') = IF inFlight'[s] = None THEN 0 ELSE inFlight'[s]
  <2>1. CASE transports[s] = "open"
    BY <1>3, <2>1 DEF IInv, BookkeepingFollowsMap
  <2>2. CASE Handling(s) = {}
    <3>1. Cardinality(Handling(s)) = 0
      BY <2>2, HandlingFinite
    <3>2. inFlight[s] # None => inFlight[s] \in Nat /\ inFlight[s] <= 0
      BY <3>1 DEF IInv, CountInv, StateTypes
    <3>3. inFlight[s] # None => inFlight[s] = 0
      BY <3>2
    <3>. QED  BY <1>3, <3>1, <3>3
  <2>. QED  BY <1>3, <2>1, <2>2
<1>4. ASSUME NEW s \in Sid, transports'[s] \notin {"open", "closing"}
      PROVE  inFlight'[s] \in {None, 0}
  <2>1. CASE transports[s] \notin {"open", "closing"}
    <3>1. inFlight[s] \in {None, 0}
      BY <2>1 DEF IInv, BookkeepingFollowsMap, InMap
    <3>. QED  BY <3>1
  <2>2. CASE inFlight'[s] = None
    BY <2>2
  <2>. QED  BY <1>4, <2>1, <2>2
<1>5. BookkeepingFollowsMap'
  BY <1>3, <1>4 DEF BookkeepingFollowsMap, InMap
<1>. QED  BY <1>1, <1>2, <1>5 DEF IInv

(* An empty table satisfies it.                                            *)
LEMMA InitIInv == Init => IInv
<1>. SUFFICES ASSUME Init PROVE IInv
  OBVIOUS
<1>1. StateTypes
  BY SessionsAssumption DEF Init, StateTypes, Age, Request, Idle
<1>2. \A s : Handling(s) = {}
  BY DEF Init, Handling, Idle
<1>3. BornInv /\ CountInv /\ QuietInv /\ BookkeepingFollowsMap
  BY DEF Init, BornInv, CountInv, QuietInv, BookkeepingFollowsMap, Idle
<1>. QED  BY <1>1, <1>3 DEF IInv

(* Requests that come and go without a session.                            *)
LEMMA RequestOnly ==
    ASSUME IInv, NEW r \in Req, Connect(r) \/ Refuse(r) \/ Initialized(r)
    PROVE  IInv'
<1>. DEFINE next == IF Connect(r) THEN [request[r] EXCEPT !.at = "connecting"] ELSE Idle
<1>1. /\ request[r].at # "handling" /\ next.at # "handling"
      /\ request' = [request EXCEPT ![r] = next] /\ next \in Request
  BY DEF Connect, Refuse, Initialized, Idle, Request, IInv, StateTypes
<1>2. UNCHANGED <<transports, lastActivity, inFlight, quiet>>
  BY DEF Connect, Refuse, Initialized
<1>. HIDE DEF next
<1>3. \A s : Handling(s)' = Handling(s)
  BY <1>1, HandlingKept DEF IInv, StateTypes
<1>4. StateTypes'
  BY <1>1, <1>2 DEF IInv, StateTypes
<1>5. BornInv'
  BY <1>1, <1>2 DEF IInv, BornInv, StateTypes
<1>6. \A s \in Sid : lastActivity[s] # None =>
        transports[s] \in {"open", "closing"} /\ quiet[s] = lastActivity[s]
  BY DEF IInv, BookkeepingFollowsMap, QuietInv, InMap
<1>7. \A s \in Sid : transports[s] = "open" => lastActivity[s] # None
  BY DEF IInv, BookkeepingFollowsMap
<1>. QED  BY <1>2, <1>3, <1>4, <1>5, <1>6, <1>7, SameHandlers

(* A new session, and an idle one that makes room for it or none.          *)
LEMMA RegisterStep ==
    ASSUME IInv, NEW r \in Req, NEW s \in Sid, request[r].at = "connecting",
           transports[s] = "unborn", NEW V \in SUBSET (Sid \ {s}), Register(r, s, V)
    PROVE  IInv'
<1>. DEFINE next == [at |-> "initializing", sid |-> s]
<1>1. /\ request' = [request EXCEPT ![r] = next] /\ next \in Request
      /\ request[r].at # "handling" /\ next.at # "handling"
  BY DEF Register, Request
<1>2. \A t : Handling(t)' = Handling(t)
  BY <1>1, HandlingKept DEF IInv, StateTypes
<1>3. /\ transports'[s] = "open" /\ lastActivity'[s] = 0 /\ quiet'[s] = 0
      /\ inFlight'[s] = inFlight[s]
  BY DEF Register, Evicted, Forgotten, IInv, StateTypes
<1>4. \A t \in Sid \ {s} :
        /\ transports'[t] = IF t \in V \intersect InMap THEN "closing" ELSE transports[t]
        /\ lastActivity'[t] = IF t \in V THEN None ELSE lastActivity[t]
        /\ inFlight'[t] = IF t \in V THEN None ELSE inFlight[t]
        /\ quiet'[t] = quiet[t]
  BY DEF Register, Evicted, Forgotten, IInv, StateTypes
<1>5. StateTypes'
  BY <1>1, SessionsAssumption DEF Register, Evicted, Forgotten, IInv, StateTypes, Age
<1>6. BornInv'
  BY <1>1, <1>3, <1>4 DEF IInv, BornInv, StateTypes
<1>7. Handling(s) = {}
  BY DEF IInv, BornInv, Handling
<1>8. \A t \in Sid : lastActivity[t] # None =>
        transports[t] \in {"open", "closing"} /\ quiet[t] = lastActivity[t]
  BY DEF IInv, BookkeepingFollowsMap, QuietInv, InMap
<1>9. \A t \in Sid : transports[t] = "open" => lastActivity[t] # None /\ t \in InMap
  BY DEF IInv, BookkeepingFollowsMap, InMap
<1>10. 0 # None
  BY SessionsAssumption
<1>11. \A t \in Sid : inFlight'[t] \in {inFlight[t], None}
  BY <1>3, <1>4
<1>12. \A t \in Sid : transports'[t] = "open" =>
          /\ lastActivity'[t] # None /\ inFlight'[t] = inFlight[t]
          /\ transports[t] = "open" \/ Handling(t) = {}
  BY <1>3, <1>4, <1>7, <1>9, <1>10
<1>13. \A t \in Sid : lastActivity'[t] # None =>
          transports'[t] \in {"open", "closing"} /\ quiet'[t] = lastActivity'[t]
  BY <1>3, <1>4, <1>8
<1>14. \A t \in Sid : transports'[t] \notin {"open", "closing"} => transports[t] \notin {"open", "closing"}
  BY <1>3, <1>4
<1>. QED  BY <1>2, <1>5, <1>6, <1>11, <1>12, <1>13, <1>14, SameHandlers

(* A session is added, and one is evicted where the cap demands.           *)
LEMMA AddSessionStep ==
    ASSUME IInv, NEW r \in Req, NEW s \in Sid, SessionInitialized(r, s)
    PROVE  IInv'
<1>1. request[r].at = "connecting" /\ transports[s] = "unborn"
  BY DEF SessionInitialized, AddSession
<1>2. PICK V \in SUBSET (Sid \ {s}) : Register(r, s, V)
  BY DEF SessionInitialized, AddSession, LeastRecent, Evictable, Stamped
<1>. QED  BY <1>1, <1>2, RegisterStep

-----------------------------------------------------------------------------
(* A step of one handler of session s: what the invariant still asks.      *)
LEMMA OneHandler ==
    ASSUME IInv, StateTypes', NEW s \in Sid, UNCHANGED transports,
           \A t \in Sid \ {s} : /\ Handling(t)' = Handling(t) /\ inFlight'[t] = inFlight[t]
                                /\ lastActivity'[t] = lastActivity[t] /\ quiet'[t] = quiet[t],
           BornInv',
           inFlight'[s] <= Cardinality(Handling(s)'), inFlight'[s] \in Nat,
           transports[s] = "open" => inFlight'[s] = Cardinality(Handling(s)'),
           quiet'[s] = 0, lastActivity'[s] \in {0, None},
           lastActivity'[s] = 0 <=> s \in InMap,
           s \notin InMap => inFlight'[s] = 0
    PROVE  IInv'
<1>1. CountInv'
  BY DEF IInv, CountInv
<1>2. QuietInv'
  BY DEF IInv, QuietInv
<1>3. BookkeepingFollowsMap'
  <2>. SUFFICES ASSUME NEW t \in Sid
                PROVE  /\ transports'[t] = "open" =>
                             /\ lastActivity'[t] # None
                             /\ Cardinality(Handling(t)') = IF inFlight'[t] = None THEN 0 ELSE inFlight'[t]
                       /\ lastActivity'[t] # None => t \in InMap'
                       /\ t \notin InMap' => inFlight'[t] \in {None, 0}
    BY DEF BookkeepingFollowsMap
  <2>1. InMap' = InMap /\ (transports[t] = "open" => t \in InMap)
    BY DEF InMap
  <2>2. CASE t = s
    BY <2>1, <2>2, SessionsAssumption
  <2>3. CASE t # s
    BY <2>1, <2>3 DEF IInv, BookkeepingFollowsMap
  <2>. QED  BY <2>2, <2>3
<1>. QED  BY <1>1, <1>2, <1>3 DEF IInv

(* A handler begins: its session is busy, and no longer quiet.             *)
LEMMA BeginStep ==
    ASSUME IInv, NEW r \in Req, NEW s \in Sid, Begin(r, s)
    PROVE  IInv'
<1>1. /\ request[r].at # "handling" /\ request[r] = Idle /\ s \in InMap
      /\ request' = [request EXCEPT ![r] = [at |-> "handling", sid |-> s]]
      /\ request \in [Req -> Request]
  BY DEF Begin, Idle, IInv, StateTypes
<1>2. /\ Cardinality(Handling(s)') = Cardinality(Handling(s)) + 1
      /\ \A t : t # s => Handling(t)' = Handling(t)
  BY <1>1, HandlingBegins
<1>3. StateTypes'
  BY <1>1, SessionsAssumption DEF Begin, IInv, StateTypes, Age, Request
<1>4. /\ UNCHANGED transports /\ quiet'[s] = 0 /\ lastActivity'[s] = 0
      /\ inFlight'[s] = IF inFlight[s] = None THEN 1 ELSE inFlight[s] + 1
      /\ \A t \in Sid \ {s} : /\ inFlight'[t] = inFlight[t] /\ quiet'[t] = quiet[t]
                              /\ lastActivity'[t] = lastActivity[t]
  BY DEF Begin, IInv, StateTypes
<1>5. BornInv'
  <2>1. s \in Sid /\ transports[s] # "unborn"
    BY <1>1 DEF InMap
  <2>. QED  BY <1>1, <1>4, <2>1 DEF IInv, BornInv
<1>6. Cardinality(Handling(s)) \in Nat
  BY HandlingFinite
<1>7. inFlight[s] # None => inFlight[s] \in Nat /\ inFlight[s] <= Cardinality(Handling(s))
  BY DEF IInv, CountInv, StateTypes
<1>8. inFlight'[s] <= Cardinality(Handling(s)') /\ inFlight'[s] \in Nat
  BY <1>2, <1>4, <1>6, <1>7
<1>9. transports[s] = "open" => inFlight'[s] = Cardinality(Handling(s)')
  BY <1>2, <1>4, <1>6, <1>7 DEF IInv, BookkeepingFollowsMap
<1>. QED  BY <1>1, <1>2, <1>3, <1>4, <1>5, <1>8, <1>9, OneHandler

(* A handler ends, or fails.                                               *)
LEMMA EndStep ==
    ASSUME IInv, NEW r \in Req, NEW s, s = request[r].sid, End(r)
    PROVE  IInv'
<1>1. /\ request[r].at = "handling" /\ request' = [request EXCEPT ![r] = Idle]
      /\ request \in [Req -> Request] /\ s \in Sid
  BY DEF End, EndWith, IInv, StateTypes, BornInv
<1>2. /\ Cardinality(Handling(s)') = Cardinality(Handling(s)) - 1
      /\ Cardinality(Handling(s)) > 0
      /\ \A t : t # s => Handling(t)' = Handling(t)
  BY <1>1, HandlingEnds
<1>3. /\ UNCHANGED transports /\ quiet'[s] = 0
      /\ lastActivity'[s] = IF s \in InMap THEN 0 ELSE lastActivity[s]
      /\ inFlight'[s] = OneLess(inFlight[s])
      /\ \A t \in Sid \ {s} : /\ inFlight'[t] = inFlight[t] /\ quiet'[t] = quiet[t]
                              /\ lastActivity'[t] = lastActivity[t]
  BY <1>1 DEF End, EndWith, IInv, StateTypes
<1>4. OneLess(inFlight[s]) \in Nat
  BY <1>1 DEF OneLess, IInv, StateTypes
<1>5. StateTypes'
  <2>1. inFlight' \in [Sid -> Nat \union {None}]
    BY <1>1, <1>4 DEF End, EndWith, IInv, StateTypes
  <2>2. lastActivity' \in [Sid -> Age \union {None}] /\ quiet' \in [Sid -> Age]
    BY <1>1, SessionsAssumption DEF End, EndWith, IInv, StateTypes, Age
  <2>3. request' \in [Req -> Request]
    BY <1>1 DEF Idle, Request
  <2>. QED  BY <1>3, <2>1, <2>2, <2>3 DEF IInv, StateTypes
<1>6. BornInv'
  BY <1>1, <1>3 DEF IInv, BornInv, Idle
<1>7. Cardinality(Handling(s)) \in Nat
  BY HandlingFinite
<1>8. inFlight[s] # None => inFlight[s] \in Nat /\ inFlight[s] <= Cardinality(Handling(s))
  BY <1>1 DEF IInv, CountInv, StateTypes
<1>9. inFlight'[s] <= Cardinality(Handling(s)') /\ inFlight'[s] \in Nat
  BY <1>2, <1>3, <1>4, <1>7, <1>8 DEF OneLess
<1>10. transports[s] = "open" => inFlight'[s] = Cardinality(Handling(s)')
  <2>1. transports[s] = "open" => Cardinality(Handling(s)) = IF inFlight[s] = None THEN 0 ELSE inFlight[s]
    BY <1>1 DEF IInv, BookkeepingFollowsMap
  <2>. QED  BY <1>2, <1>3, <1>7, <2>1 DEF OneLess
<1>11. lastActivity'[s] \in {0, None} /\ (lastActivity'[s] = 0 <=> s \in InMap)
  <2>1. s \notin InMap => lastActivity[s] = None
    BY <1>1 DEF IInv, BookkeepingFollowsMap
  <2>. QED  BY <1>3, <2>1, SessionsAssumption
<1>12. s \notin InMap => inFlight'[s] = 0
  <2>1. s \notin InMap => inFlight[s] \in {None, 0}
    BY <1>1 DEF IInv, BookkeepingFollowsMap
  <2>. QED  BY <1>3, <2>1 DEF OneLess
<1>. QED  BY <1>1, <1>2, <1>3, <1>5, <1>6, <1>9, <1>10, <1>11, <1>12, OneHandler

-----------------------------------------------------------------------------
(* A session is closed: by its client, by its transport, by the sweep.     *)
LEMMA CloseStep ==
    ASSUME IInv, (\E r \in Req : Delete(r)) \/ (\E s \in Sid : onclose(s)) \/ sweep
    PROVE  IInv'
<1>1. UNCHANGED <<request, quiet>>
  BY DEF Delete, onclose, sweep, Evict
<1>2. \A s : Handling(s)' = Handling(s)
  BY <1>1 DEF Handling
<1>3. /\ transports' \in [Sid -> {"unborn", "open", "closing", "closed"}]
      /\ \A s \in Sid : transports'[s] = "open" => transports[s] = "open"
      /\ \A s \in Sid : transports'[s] = "unborn" => transports[s] = "unborn"
  BY DEF Delete, onclose, sweep, Evict, Evicted, IInv, StateTypes
<1>4. /\ lastActivity' \in [Sid -> Age \union {None}] /\ inFlight' \in [Sid -> Nat \union {None}]
      /\ \A s \in Sid : /\ lastActivity'[s] \in {lastActivity[s], None}
                        /\ inFlight'[s] \in {inFlight[s], None}
  BY DEF Delete, onclose, sweep, Evict, Forgotten, IInv, StateTypes
<1>5. StateTypes'
  BY <1>1, <1>3, <1>4 DEF IInv, StateTypes
<1>6. BornInv'
  BY <1>1, <1>3 DEF IInv, BornInv
<1>7. \A s \in Sid : (lastActivity'[s] # lastActivity[s] \/ inFlight'[s] # inFlight[s])
                        => transports'[s] # "open"
  BY DEF Delete, onclose, sweep, Evict, Evicted, Forgotten, InMap, IInv, StateTypes
<1>8. \A s \in Sid : (lastActivity'[s] # None /\ transports[s] \in {"open", "closing"})
                        => transports'[s] \in {"open", "closing"}
  BY DEF Delete, onclose, sweep, Evict, Evicted, Forgotten, InMap, IInv, StateTypes
<1>9. \A s \in Sid : lastActivity[s] # None =>
        transports[s] \in {"open", "closing"} /\ quiet[s] = lastActivity[s]
  BY DEF IInv, BookkeepingFollowsMap, QuietInv, InMap
<1>10. \A s \in Sid : transports[s] = "open" => lastActivity[s] # None
  BY DEF IInv, BookkeepingFollowsMap
<1>11. \A s \in Sid : transports'[s] = "open" =>
           /\ lastActivity'[s] # None /\ inFlight'[s] = inFlight[s]
           /\ transports[s] = "open" \/ Handling(s) = {}
  BY <1>3, <1>7, <1>10
<1>12. \A s \in Sid : lastActivity'[s] # None =>
           transports'[s] \in {"open", "closing"} /\ quiet'[s] = lastActivity'[s]
  BY <1>1, <1>4, <1>8, <1>9
<1>13. \A s \in Sid : transports'[s] \notin {"open", "closing"} =>
           transports[s] \notin {"open", "closing"} \/ inFlight'[s] = None
  BY DEF Delete, onclose, sweep, Evict, Evicted, Forgotten, InMap, IInv, StateTypes
<1>. QED  BY <1>2, <1>4, <1>5, <1>6, <1>11, <1>12, <1>13, SameHandlers

(* Time passes for the stamps and for the quiet they measure alike.        *)
LEMMA TickStep ==
    ASSUME IInv, Tick
    PROVE  IInv'
<1>1. /\ UNCHANGED <<transports, inFlight, request>>
      /\ \A s \in Sid : lastActivity'[s] = Older(lastActivity[s])
      /\ \A s \in Sid : transports[s] # "unborn" => quiet'[s] = Older(quiet[s])
  BY DEF Tick
<1>2. /\ \A n \in Age : Older(n) \in Age
      /\ \A n \in Age \union {None} : Older(n) = None <=> n = None
  BY SessionsAssumption DEF Older, Age
<1>3. \A s : Handling(s)' = Handling(s)
  BY <1>1 DEF Handling
<1>4. StateTypes'
  <2>0. 0 \in Age /\ Older(None) = None
    BY SessionsAssumption DEF Age, Older
  <2>1. lastActivity' \in [Sid -> Age \union {None}] /\ quiet' \in [Sid -> Age]
    BY <1>2, <2>0 DEF Tick, IInv, StateTypes
  <2>. QED  BY <1>1, <2>1 DEF IInv, StateTypes
<1>5. BornInv'
  BY <1>1 DEF IInv, BornInv
<1>6. \A s \in Sid : lastActivity'[s] = None <=> lastActivity[s] = None
  BY <1>1, <1>2 DEF IInv, StateTypes
<1>7. \A s \in Sid : lastActivity[s] # None =>
        transports[s] \in {"open", "closing"} /\ quiet[s] = lastActivity[s]
  BY DEF IInv, BookkeepingFollowsMap, QuietInv, InMap
<1>8. \A s \in Sid : transports[s] = "open" => lastActivity[s] # None
  BY DEF IInv, BookkeepingFollowsMap
<1>9. \A s \in Sid : lastActivity'[s] # None =>
           transports'[s] \in {"open", "closing"} /\ quiet'[s] = lastActivity'[s]
  BY <1>1, <1>6, <1>7
<1>. QED  BY <1>1, <1>3, <1>4, <1>5, <1>6, <1>8, <1>9, SameHandlers

(* Nothing changes.                                                        *)
LEMMA StutterStep ==
    ASSUME IInv, UNCHANGED vars
    PROVE  IInv'
<1>1. \A s : Handling(s)' = Handling(s)
  BY DEF vars, Handling
<1>. QED  BY <1>1 DEF vars, IInv, StateTypes, BornInv, CountInv, QuietInv, BookkeepingFollowsMap, InMap

(* The strengthened invariant holds of every behaviour of the table.       *)
THEOREM SessionsInvariant == Spec => []IInv
<1>1. IInv /\ [Next]_vars => IInv'
  <2>. SUFFICES ASSUME IInv, [Next]_vars PROVE IInv'
    OBVIOUS
  <2>1. ASSUME NEW r \in Req, Connect(r) \/ Refuse(r) \/ Initialized(r) PROVE IInv'
    BY <2>1, RequestOnly
  <2>2. ASSUME NEW r \in Req, NEW s \in Sid, SessionInitialized(r, s) PROVE IInv'
    BY <2>2, AddSessionStep
  <2>3. ASSUME NEW r \in Req, NEW s \in Sid, Begin(r, s) PROVE IInv'
    BY <2>3, BeginStep
  <2>4. ASSUME NEW r \in Req, End(r) PROVE IInv'
    BY <2>4, EndStep
  <2>5. ASSUME (\E r \in Req : Delete(r)) \/ (\E s \in Sid : onclose(s)) \/ sweep PROVE IInv'
    BY <2>5, CloseStep
  <2>6. CASE Tick
    BY <2>6, TickStep
  <2>7. CASE UNCHANGED vars
    BY <2>7, StutterStep
  <2>. QED  BY <2>1, <2>2, <2>3, <2>4, <2>5, <2>6, <2>7 DEF Next
<1>. QED  BY InitIInv, <1>1, PTL DEF Spec

-----------------------------------------------------------------------------
(* Every variable keeps its type, and no session counts more handlers than *)
(* there are requests.                                                     *)
THEOREM SessionsTypeCorrect == Spec => []TypeOK
<1>1. IInv => TypeOK
  <2>. SUFFICES ASSUME IInv PROVE TypeOK
    OBVIOUS
  <2>1. \A s \in Sid : inFlight[s] # None => inFlight[s] \in Nat /\ inFlight[s] <= Cardinality(Handling(s))
    BY DEF IInv, CountInv, StateTypes
  <2>2. Cardinality(Req) \in Nat
    BY SessionsAssumption, FS_CardinalityType
  <2>3. \A s \in Sid : inFlight[s] # None => inFlight[s] \in 0..Cardinality(Req)
    BY <2>1, <2>2, HandlingFinite
  <2>. QED  BY <2>3 DEF IInv, StateTypes, TypeOK
<1>. QED  BY SessionsInvariant, <1>1, PTL

(* The sweep and the cap see the sessions as they are: see                 *)
(* BookkeepingFollowsMap.                                                  *)
THEOREM BookkeepingAlwaysFollows == Spec => []BookkeepingFollowsMap
<1>1. IInv => BookkeepingFollowsMap
  BY DEF IInv
<1>. QED  BY SessionsInvariant, <1>1, PTL

-----------------------------------------------------------------------------
(* A session that is forgotten while it is in the map was evicted: it was  *)
(* not busy, and the sweep takes it only when its stamp is stale.          *)
LEMMA OnlyTheIdleAreEvicted ==
    ASSUME IInv, [Next]_vars, NEW s \in Sid, transports[s] = "open",
           transports'[s] = "closing", lastActivity'[s] = None
    PROVE  /\ Handling(s) = {}
           /\ request' = request => quiet[s] = IdleTimeout + 1
<1>1. lastActivity[s] # None
  BY DEF IInv, BookkeepingFollowsMap
<1>2. ~isBusy(s) => Handling(s) = {}
  BY HandlingFinite DEF isBusy, IInv, BookkeepingFollowsMap
<1>3. quiet[s] = lastActivity[s]
  BY <1>1 DEF IInv, QuietInv
<1>4. ASSUME NEW r \in Req, NEW t \in Sid, SessionInitialized(r, t)
      PROVE  ~isBusy(s) /\ request' # request
  <2>1. PICK V \in SUBSET Evictable(t) : Register(r, t, V)
    BY <1>4 DEF SessionInitialized, AddSession, LeastRecent
  <2>2. s # t /\ s \in V
    BY <1>1, <2>1 DEF Register, Evicted, Forgotten, IInv, StateTypes
  <2>3. request[r].at = "connecting" /\ request'[r].at = "initializing"
    BY <1>4, <2>1 DEF SessionInitialized, AddSession, Register, IInv, StateTypes
  <2>. QED  BY <2>2, <2>3 DEF Evictable
<1>5. CASE sweep
  <2>1. s \in Stale /\ ~isBusy(s)
    BY <1>1, <1>5 DEF sweep, Evict, Evicted, Forgotten
  <2>. QED  BY <1>2, <1>3, <2>1 DEF Stale
<1>6. ASSUME NEW r \in Req, Connect(r) \/ Refuse(r) \/ Initialized(r) \/ End(r) \/ Delete(r)
      PROVE  FALSE
  <2>1. lastActivity'[s] = lastActivity[s] \/ lastActivity'[s] = 0
    BY <1>6 DEF Connect, Refuse, Initialized, End, EndWith, Delete, IInv, StateTypes
  <2>. QED  BY <1>1, <2>1, SessionsAssumption
<1>7. ASSUME NEW r \in Req, NEW t \in Sid, Begin(r, t) PROVE FALSE
  BY <1>7 DEF Begin
<1>8. ASSUME NEW t \in Sid, onclose(t) PROVE FALSE
  BY <1>8 DEF onclose, IInv, StateTypes
<1>9. CASE Tick \/ UNCHANGED vars
  BY <1>9 DEF Tick, vars
<1>. QED  BY <1>2, <1>4, <1>5, <1>6, <1>7, <1>8, <1>9 DEF Next

(* No eviction closes a session while one of its handlers is pending.      *)
THEOREM EvictionAlwaysSpares == Spec => EvictionSparesHandlers
<1>1. IInv /\ [Next]_vars =>
        [\A s \in Sid : (transports[s] = "open" /\ transports'[s] = "closing" /\ lastActivity'[s] = None)
                            => Handling(s) = {}]_vars
  BY OnlyTheIdleAreEvicted
<1>. QED  BY SessionsInvariant, <1>1, PTL DEF Spec, EvictionSparesHandlers

(* The sweep evicts a session only after a whole quiet timeout.            *)
THEOREM SweepAlwaysWaits == Spec => SweepsOnlyTheQuiet
<1>1. IInv /\ [Next]_vars =>
        [(request' = request) =>
            \A s \in Sid : (transports[s] = "open" /\ transports'[s] = "closing" /\ lastActivity'[s] = None)
                               => quiet[s] = IdleTimeout + 1]_vars
  BY OnlyTheIdleAreEvicted
<1>. QED  BY SessionsInvariant, <1>1, PTL DEF Spec, SweepsOnlyTheQuiet

(* A new session takes the map further past its cap only when every other  *)
(* session is busy or already on its way out.                              *)
THEOREM GrowthIsForced == Spec => GrowsOnlyWhenBusy
<1>1. ASSUME IInv, [Next]_vars, NEW s \in Sid, transports[s] = "unborn",
             transports'[s] = "open", Cardinality(InMap) >= MaxSessions
      PROVE  \/ \E v \in Sid : lastActivity[v] # None /\ lastActivity'[v] = None
             \/ \A v \in InMap : isBusy(v) \/ transports[v] = "closing"
  <2>1. PICK r \in Req : SessionInitialized(r, s)
    <3>1. \A r \in Req, t \in Sid : SessionInitialized(r, t) => s = t
      BY <1>1 DEF SessionInitialized, AddSession, Register, Evicted, IInv, StateTypes
    <3>2. \A r \in Req : ~(Connect(r) \/ Refuse(r) \/ Initialized(r) \/ End(r))
      BY <1>1 DEF Connect, Refuse, Initialized, End, EndWith
    <3>3. /\ \A r \in Req : ~Delete(r) /\ \A t \in Sid : ~Begin(r, t)
          /\ \A t \in Sid : ~onclose(t)
      BY <1>1 DEF Begin, Delete, onclose, IInv, StateTypes
    <3>4. ~sweep /\ ~Tick /\ ~UNCHANGED vars
      BY <1>1 DEF sweep, Evict, Evicted, Tick, vars
    <3>5. Next
      BY <1>1, <3>4
    <3>6. \E r \in Req, t \in Sid : SessionInitialized(r, t)
      BY <3>2, <3>3, <3>4, <3>5 DEF Next
    <3>. QED  BY <3>1, <3>6
  <2>2. Cardinality(InMap) + 1 > MaxSessions
    BY <1>1, SessionsAssumption, FS_Subset, FS_CardinalityType DEF InMap
  <2>3. CASE Evictable(s) = {}
    <3>1. \A v \in InMap : v # s /\ (transports[v] = "open" => lastActivity[v] # None)
      BY <1>1 DEF InMap, IInv, BookkeepingFollowsMap
    <3>2. \A v \in InMap : lastActivity[v] # None => isBusy(v)
      BY <2>3, <3>1 DEF Evictable, Stamped, InMap
    <3>. QED  BY <3>1, <3>2 DEF InMap
  <2>4. CASE Evictable(s) # {}
    <3>1. PICK v \in LeastRecent(Evictable(s)) : Register(r, s, {v})
      BY <2>1, <2>2, <2>4 DEF SessionInitialized, AddSession
    <3>2. v \in Sid \ {s} /\ lastActivity[v] # None
      BY DEF LeastRecent, Evictable, Stamped
    <3>3. lastActivity'[v] = None
      BY <3>1, <3>2 DEF Register, Forgotten
    <3>. QED  BY <3>2, <3>3
  <2>. QED  BY <2>3, <2>4
<1>2. IInv /\ [Next]_vars =>
        [\A s \in Sid :
            (transports[s] = "unborn" /\ transports'[s] = "open" /\ Cardinality(InMap) >= MaxSessions)
               => \/ \E v \in Sid : lastActivity[v] # None /\ lastActivity'[v] = None
                  \/ \A v \in InMap : isBusy(v) \/ transports[v] = "closing"]_vars
  BY <1>1
<1>. QED  BY SessionsInvariant, <1>2, PTL DEF Spec, GrowsOnlyWhenBusy
=============================================================================
