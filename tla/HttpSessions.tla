---------------------------- MODULE HttpSessions ----------------------------
(***************************************************************************)
(* The session table of the HTTP transport (createHttpRequestListener):    *)
(* three maps keyed by the Mcp-Session-Id, changed by request handlers     *)
(* that interleave at their awaits, by the idle sweep's timer and by the   *)
(* onclose callbacks of the SDK's transports.                              *)
(*                                                                         *)
(* The SDK is external: handleRequest stays pending while its request is   *)
(* served or its stream is open, and close() fires onclose some time later. *)
(* A time stamp is modelled by its age, which saturates once it is past    *)
(* the idle timeout.  Ids are random UUIDs, never used twice.              *)
(***************************************************************************)
EXTENDS Naturals, FiniteSets

CONSTANTS
    Sid,           \* session ids
    Req,           \* HTTP requests that can be under way at once
    MaxSessions,   \* HTTP_MAX_SESSIONS
    IdleTimeout,   \* HTTP_SESSION_IDLE_TIMEOUT_MS, in ticks
    None           \* a missing map entry

ASSUME SessionsAssumption ==
    /\ IsFiniteSet(Sid) /\ IsFiniteSet(Req)
    /\ {MaxSessions, IdleTimeout} \subseteq Nat \ {0}
    /\ None \notin Nat

VARIABLES
    transports,    \* [Sid -> "unborn", then "open", "closing" (both in the map), "closed"]
    lastActivity,  \* [Sid -> age of the stamp, or None]
    inFlight,      \* [Sid -> count, or None]
    request,       \* [Req -> what the handler awaits, and for which session]
    quiet          \* history: ticks since a handler last began or ended on the session

vars == <<transports, lastActivity, inFlight, request, quiet>>

Age == 0..(IdleTimeout + 1)
Idle == [at |-> "idle", sid |-> None]
Request == [at : {"idle", "connecting", "initializing", "handling"}, sid : Sid \union {None}]

InMap == {s \in Sid : transports[s] \in {"open", "closing"}}
Handling(s) == {r \in Req : request[r] = [at |-> "handling", sid |-> s]}
Serving(s)  == {r \in Req : request[r].sid = s}

Init ==
    /\ transports = [s \in Sid |-> "unborn"]
    /\ lastActivity = [s \in Sid |-> None]
    /\ inFlight = [s \in Sid |-> None]
    /\ request = [r \in Req |-> Idle]
    /\ quiet = [s \in Sid |-> 0]

-----------------------------------------------------------------------------
isBusy(s) == inFlight[s] \notin {None, 0}

(* evict and forget, for a set of sessions; onclose comes later.           *)
Evicted(V) == [s \in Sid |-> IF s \in V \intersect InMap THEN "closing" ELSE transports[s]]
Forgotten(map, V) == [s \in Sid |-> IF s \in V THEN None ELSE map[s]]

(* The sessions of lastActivity, a new one aside, and the idle ones.       *)
Stamped(s) == {v \in Sid \ {s} : lastActivity[v] # None}
Evictable(s) == {v \in Stamped(s) : ~isBusy(v)}

LeastRecent(C) == {v \in C : \A w \in C : lastActivity[v] >= lastActivity[w]}

-----------------------------------------------------------------------------
(* A POST without a session id whose body is an initialize request.        *)
Connect(r) ==
    /\ request[r] = Idle
    /\ request' = [request EXCEPT ![r].at = "connecting"]
    /\ UNCHANGED <<transports, lastActivity, inFlight, quiet>>

(* The SDK refuses the initialize request, or connect throws.              *)
Refuse(r) ==
    /\ request[r].at = "connecting"
    /\ request' = [request EXCEPT ![r] = Idle]
    /\ UNCHANGED <<transports, lastActivity, inFlight, quiet>>

Register(r, s, V) ==
    /\ transports' = [Evicted(V) EXCEPT ![s] = "open"]
    /\ lastActivity' = [Forgotten(lastActivity, V) EXCEPT ![s] = 0]
    /\ inFlight' = Forgotten(inFlight, V)
    /\ request' = [request EXCEPT ![r] = [at |-> "initializing", sid |-> s]]
    /\ quiet' = [quiet EXCEPT ![s] = 0]

(* With a map of this size, one of the candidates C makes room.            *)
AddSession(r, s, size, C) ==
    /\ request[r].at = "connecting" /\ transports[s] = "unborn"
    /\ IF size > MaxSessions /\ C # {}
       THEN \E v \in LeastRecent(C) : Register(r, s, {v})
       ELSE Register(r, s, {})

(* Faults: the new session is not counted; a busy session makes room.      *)
FaultyCount(r, s)    == AddSession(r, s, Cardinality(InMap), Evictable(s))
FaultyEviction(r, s) == AddSession(r, s, Cardinality(InMap) + 1, Stamped(s))

(* onsessioninitialized: at most one idle session makes room.              *)
SessionInitialized(r, s) == AddSession(r, s, Cardinality(InMap) + 1, Evictable(s))

(* The initialize request is answered; nothing counted it as in flight.    *)
Initialized(r) ==
    /\ request[r].at = "initializing"
    /\ request' = [request EXCEPT ![r] = Idle]
    /\ UNCHANGED <<transports, lastActivity, inFlight, quiet>>

(* A request that names a session of the map.                              *)
Begin(r, s) ==
    /\ request[r] = Idle /\ s \in InMap
    /\ lastActivity' = [lastActivity EXCEPT ![s] = 0]
    /\ inFlight' = [inFlight EXCEPT ![s] = IF @ = None THEN 1 ELSE @ + 1]
    /\ request' = [request EXCEPT ![r] = [at |-> "handling", sid |-> s]]
    /\ quiet' = [quiet EXCEPT ![s] = 0]
    /\ UNCHANGED transports

OneLess(n) == IF n \in {None, 0} THEN 0 ELSE n - 1

EndWith(r, count, stamped) ==
    /\ request[r].at = "handling"
    /\ LET s == request[r].sid IN
          /\ inFlight' = [inFlight EXCEPT ![s] = count]
          /\ lastActivity' = [lastActivity EXCEPT ![s] = IF s \in stamped THEN 0 ELSE @]
          /\ quiet' = [quiet EXCEPT ![s] = 0]
    /\ request' = [request EXCEPT ![r] = Idle]
    /\ UNCHANGED transports

(* Faults: the stamp is the request's start; a session that is gone is     *)
(* stamped all the same.                                                   *)
FaultyNoRestamp(r) == EndWith(r, OneLess(inFlight[request[r].sid]), {})
FaultyRestamp(r)   == EndWith(r, OneLess(inFlight[request[r].sid]), Sid)

(* The finally of a request: answered, failed, or its socket closed.       *)
End(r) == EndWith(r, OneLess(inFlight[request[r].sid]), InMap)

(* A DELETE is being handled: the SDK closes the transport itself.         *)
Delete(r) ==
    /\ request[r].at = "handling" /\ transports[request[r].sid] = "open"
    /\ transports' = [transports EXCEPT ![request[r].sid] = "closing"]
    /\ UNCHANGED <<lastActivity, inFlight, request, quiet>>

onclose(s) ==
    /\ transports[s] = "closing"
    /\ transports' = [transports EXCEPT ![s] = "closed"]
    /\ lastActivity' = Forgotten(lastActivity, {s})
    /\ inFlight' = Forgotten(inFlight, {s})
    /\ UNCHANGED <<request, quiet>>

Stale == {s \in Sid : lastActivity[s] = IdleTimeout + 1}

Evict(V) ==
    /\ V # {}
    /\ transports' = Evicted(V)
    /\ lastActivity' = Forgotten(lastActivity, V)
    /\ inFlight' = Forgotten(inFlight, V)
    /\ UNCHANGED <<request, quiet>>

(* Fault: the sweep works only when the map is past its cap.               *)
FaultySweep == Cardinality(InMap) > MaxSessions /\ Evict({s \in Stale : ~isBusy(s)})

(* The interval timer: every session that is idle for too long.            *)
sweep == Evict({s \in Stale : ~isBusy(s)})

Older(n) == IF n \in 0..IdleTimeout THEN n + 1 ELSE n

Tick ==
    /\ lastActivity' = [s \in Sid |-> Older(lastActivity[s])]
    /\ quiet' = [s \in Sid |-> IF transports[s] = "unborn" THEN 0 ELSE Older(quiet[s])]
    /\ UNCHANGED <<transports, inFlight, request>>

Next ==
    \/ \E r \in Req : \/ Connect(r) \/ Refuse(r) \/ Initialized(r) \/ End(r) \/ Delete(r)
                      \/ \E s \in Sid : SessionInitialized(r, s) \/ Begin(r, s)
    \/ \E s \in Sid : onclose(s)
    \/ sweep
    \/ Tick

Spec == Init /\ [][Next]_vars

(* Time passes, the interval timer fires, close() gets to onclose.  Nothing *)
(* obliges a client to end a request.                                      *)
Fairness ==
    /\ WF_vars(Tick)
    /\ WF_vars(sweep)
    /\ \A s \in Sid : WF_vars(onclose(s))

FairSpec == Spec /\ Fairness

-----------------------------------------------------------------------------
TypeOK ==
    /\ transports \in [Sid -> {"unborn", "open", "closing", "closed"}]
    /\ lastActivity \in [Sid -> Age \union {None}]
    /\ inFlight \in [Sid -> 0..Cardinality(Req) \union {None}]
    /\ request \in [Req -> Request]
    /\ quiet \in [Sid -> Age]

(* The sweep and the cap see the sessions as they are, however handlers,   *)
(* eviction and onclose interleave: an open session has a time stamp, and  *)
(* is counted as busy with exactly its pending handlers; a stamp belongs   *)
(* to a session of the map, open or closing; a session that is gone counts *)
(* no handler, though a handler that ends after onclose leaves its zero.   *)
BookkeepingFollowsMap ==
    \A s \in Sid :
        /\ transports[s] = "open" =>
              /\ lastActivity[s] # None
              /\ Cardinality(Handling(s)) = IF inFlight[s] = None THEN 0 ELSE inFlight[s]
        /\ lastActivity[s] # None => s \in InMap
        /\ s \notin InMap => inFlight[s] \in {None, 0}

(* No eviction, by the sweep or by the cap, closes a session while one of  *)
(* its handlers is pending; only a handler closes its own session.         *)
EvictionSparesHandlers ==
    [][\A s \in Sid : (transports[s] = "open" /\ transports'[s] = "closing" /\ lastActivity'[s] = None)
                          => Handling(s) = {}]_vars

(* The sweep evicts a session only after a whole timeout in which no       *)
(* request of it began or ended: idle is measured from the end of the last *)
(* request, not from its start.                                            *)
SweepsOnlyTheQuiet ==
    [][(request' = request) =>
          \A s \in Sid : (transports[s] = "open" /\ transports'[s] = "closing" /\ lastActivity'[s] = None)
                             => quiet[s] = IdleTimeout + 1]_vars

(* A new session takes the map further past its cap only when every other  *)
(* session is busy or already on its way out.                              *)
GrowsOnlyWhenBusy ==
    [][\A s \in Sid :
          (transports[s] = "unborn" /\ transports'[s] = "open" /\ Cardinality(InMap) >= MaxSessions)
             => \/ \E v \in Sid : lastActivity[v] # None /\ lastActivity'[v] = None
                \/ \A v \in InMap : isBusy(v) \/ transports[v] = "closing"]_vars

(* A session whose client is gone for good is closed in the end, though    *)
(* its onclose never fires by itself.                                      *)
AbandonedSessionCloses ==
    \A s \in Sid : <>[](Serving(s) = {}) => []<>(transports[s] \notin {"open", "closing"})
=============================================================================
