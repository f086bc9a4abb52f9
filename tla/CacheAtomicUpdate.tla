------------------------- MODULE CacheAtomicUpdate -------------------------
(***************************************************************************)
(* cacheAtomicUpdate and casUpdate of src/cache.ts, for one key.           *)
(*                                                                         *)
(* Several server processes share one Valkey key.  Inside a process the    *)
(* updates of the key are chained on a promise kept in inflightUpdates;    *)
(* between processes the Lua script casSet arbitrates: it writes only if   *)
(* the key still holds what the caller read.                               *)
(*                                                                         *)
(* The stored JSON is abstracted to the sequence of the updates it         *)
(* reflects: a mutate function applied to raw yields Append(raw, u).       *)
(* Keys share nothing but the connection, so one key is enough.            *)
(***************************************************************************)
EXTENDS Naturals, Sequences

CONSTANTS
    Proc,         \* server processes sharing the Valkey
    Upd,          \* updates callers ask for, one per call of cacheAtomicUpdate
    Owner,        \* Owner[u]: the process in which update u is asked for
    MaxRetries,   \* the parameter maxRetries
    NoValue,      \* what GET answers for a missing key
    NoUpd         \* no promise: an absent map entry, a resolved predecessor

ASSUME OwnerAssumption == Owner \in [Upd -> Proc]
ASSUME MaxRetriesAssumption == MaxRetries \in Nat \ {0}
ASSUME NoUpdAssumption == NoUpd \notin Upd
ASSUME NoValueAssumption == NoValue \notin Seq(Upd)

VARIABLES
    value,            \* the key in Valkey
    late,             \* casSet commands whose caller gave up, still to be executed
    inflightUpdates,  \* [Proc -> Upd \union {NoUpd}]: the map's entry, its tail
    previous,         \* the promise an update was chained on
    pc,               \* where each update's casUpdate stands
    raw,              \* what its last GET answered
    attempt,          \* its loop counter
    ticket,           \* history: order of the calls inside a process
    calls,            \* history: calls made in each process
    applied,          \* history: updates whose casSet ever wrote
    clash,            \* history: changes of the key by others while its loop ran
    excused           \* history: updates that met a failing backend or a crash

store == <<value, late>>
map   == <<inflightUpdates, previous, ticket, calls>>
loop  == <<pc, raw, attempt>>
hist  == <<applied, clash, excused>>
vars  == <<store, map, loop, hist>>

Values == Seq(Upd) \union {NoValue}
Base(v) == IF v = NoValue THEN <<>> ELSE v

(* mutateFn: re-run on every attempt, against what that attempt read.      *)
mutate(u, v) == Append(Base(v), u)

Steps == {"idle", "queued", "get", "cas", "resolved", "settled"}

Running(u) == pc[u] \in {"get", "cas"}
Begun(u)   == pc[u] \notin {"idle", "queued"}
Mine(p)    == {u \in Upd : Owner[u] = p}

Goto(u, step) == pc' = [pc EXCEPT ![u] = step]
Excuse(u)     == excused' = excused \union {u}

(* The key changes under the updates of W that are in the middle of a loop.*)
Hit(W) == clash' = [w \in Upd |-> IF w \in W /\ Running(w) THEN clash[w] + 1
                                                            ELSE clash[w]]

-----------------------------------------------------------------------------
Init ==
    /\ value \in {NoValue, <<>>}
    /\ late = {}
    /\ inflightUpdates = [p \in Proc |-> NoUpd]
    /\ previous = [u \in Upd |-> NoUpd]
    /\ pc = [u \in Upd |-> "idle"]
    /\ raw = [u \in Upd |-> NoValue]
    /\ attempt = [u \in Upd |-> 0]
    /\ ticket = [u \in Upd |-> 0]
    /\ calls = [p \in Proc |-> 0]
    /\ applied = {}
    /\ clash = [u \in Upd |-> 0]
    /\ excused = {}

(* Fault: the update starts without waiting for the map's entry.           *)
FaultyUnchained(u) ==
    LET p == Owner[u] IN
    /\ pc[u] = "idle"
    /\ inflightUpdates' = [inflightUpdates EXCEPT ![p] = u]
    /\ calls' = [calls EXCEPT ![p] = @ + 1]
    /\ ticket' = [ticket EXCEPT ![u] = calls[p] + 1]
    /\ Goto(u, "queued")
    /\ UNCHANGED <<store, previous, raw, attempt, hist>>

(* cacheAtomicUpdate: chain on the map's entry and become it.              *)
cacheAtomicUpdate(u) ==
    LET p == Owner[u] IN
    /\ pc[u] = "idle"
    /\ previous' = [previous EXCEPT ![u] = inflightUpdates[p]]
    /\ inflightUpdates' = [inflightUpdates EXCEPT ![p] = u]
    /\ calls' = [calls EXCEPT ![p] = @ + 1]
    /\ ticket' = [ticket EXCEPT ![u] = calls[p] + 1]
    /\ Goto(u, "queued")
    /\ UNCHANGED <<store, raw, attempt, hist>>

(* Fault: a failed link rejects, and every later link with it.             *)
FaultyPoisonedChain(u) ==
    /\ pc[u] = "queued"
    /\ previous[u] # NoUpd => pc[previous[u]] = "settled" /\ previous[u] \in applied

(* previous.then(...): the predecessor's own finally ran first, it was     *)
(* registered first on the same promise.                                   *)
MayBegin(u) ==
    /\ pc[u] = "queued"
    /\ previous[u] # NoUpd => pc[previous[u]] = "settled"

Begin(u) ==
    /\ MayBegin(u)
    /\ Goto(u, "get")
    /\ UNCHANGED <<store, map, raw, attempt, hist>>

(* getValkey answered null: nothing is written, nothing is thrown.         *)
BeginWithoutClient(u) ==
    /\ MayBegin(u)
    /\ Goto(u, "resolved")
    /\ Excuse(u)
    /\ UNCHANGED <<store, map, raw, attempt, applied, clash>>

Get(u) ==
    /\ pc[u] = "get"
    /\ raw' = [raw EXCEPT ![u] = value]
    /\ Goto(u, "cas")
    /\ UNCHANGED <<store, map, attempt, hist>>

GetFails(u) ==
    /\ pc[u] = "get"
    /\ Goto(u, "resolved")
    /\ Excuse(u)
    /\ UNCHANGED <<store, map, raw, attempt, applied, clash>>

(* Fault: a plain SET, whatever the key holds by now.                      *)
FaultyBlindWrite(u) ==
    /\ value' = mutate(u, raw[u])
    /\ applied' = applied \union {u}

(* CAS_SET_SCRIPT found the value the caller read, and wrote.              *)
Write(u) ==
    /\ value = raw[u]
    /\ value' = mutate(u, raw[u])
    /\ applied' = applied \union {u}

CasCommits(u) ==
    /\ pc[u] = "cas"
    /\ Write(u)
    /\ Hit(Upd \ Mine(Owner[u]))
    /\ Goto(u, "resolved")
    /\ UNCHANGED <<late, map, raw, attempt, excused>>

(* The script wrote, but the answer missed commandTimeout: an exception,   *)
(* and the loop is left without another attempt.                           *)
CasCommitsUnanswered(u) ==
    /\ pc[u] = "cas"
    /\ Write(u)
    /\ Hit(Upd \ Mine(Owner[u]))
    /\ Goto(u, "resolved")
    /\ Excuse(u)
    /\ UNCHANGED <<late, map, raw, attempt>>

(* Fault: one attempt too few.                                             *)
FaultyMissingAttempt(u) ==
    /\ pc[u] = "cas"
    /\ value # raw[u]
    /\ attempt' = [attempt EXCEPT ![u] = @ + 1]
    /\ Goto(u, IF attempt[u] + 2 < MaxRetries THEN "get" ELSE "resolved")
    /\ UNCHANGED <<store, map, raw, hist>>

(* The script answered 0: read again, or give up when the budget is spent. *)
CasConflicts(u) ==
    /\ pc[u] = "cas"
    /\ value # raw[u]
    /\ attempt' = [attempt EXCEPT ![u] = @ + 1]
    /\ Goto(u, IF attempt[u] + 1 < MaxRetries THEN "get" ELSE "resolved")
    /\ UNCHANGED <<store, map, raw, hist>>

(* The command failed before it was executed; the server may still hold    *)
(* it and execute it at any later time, on a connection nobody reads.      *)
CasFails(u) ==
    /\ pc[u] = "cas"
    /\ Goto(u, "resolved")
    /\ late' \in {late, late \union {u}}
    /\ Excuse(u)
    /\ UNCHANGED <<value, map, raw, attempt, applied, clash>>

LateCommits(u) ==
    /\ u \in late
    /\ Write(u)
    /\ Hit(Upd)
    /\ late' = late \ {u}
    /\ UNCHANGED <<map, loop, excused>>

LateConflicts(u) ==
    /\ u \in late
    /\ value # raw[u]
    /\ late' = late \ {u}
    /\ UNCHANGED <<value, map, loop, hist>>

(* Fault: any link clears the entry.                                       *)
FaultyEagerClear(u) ==
    LET p == Owner[u] IN
    /\ pc[u] = "resolved"
    /\ inflightUpdates' = [inflightUpdates EXCEPT ![p] = NoUpd]
    /\ Goto(u, "settled")
    /\ UNCHANGED <<store, previous, ticket, calls, raw, attempt, hist>>

(* current.finally: only the tail clears the map's entry.                  *)
Finally(u) ==
    LET p == Owner[u] IN
    /\ pc[u] = "resolved"
    /\ inflightUpdates' =
          [inflightUpdates EXCEPT ![p] = IF @ = u THEN NoUpd ELSE @]
    /\ Goto(u, "settled")
    /\ UNCHANGED <<store, previous, ticket, calls, raw, attempt, hist>>

(* The process dies and is restarted: its map and its loops are gone, a    *)
(* command it had sent may still be executed.                              *)
Crash(p) ==
    LET lost == {u \in Mine(p) : pc[u] \notin {"idle", "settled"}} IN
    /\ lost # {}
    /\ pc' = [u \in Upd |-> IF u \in lost THEN "settled" ELSE pc[u]]
    /\ late' \in {late, late \union {u \in lost : pc[u] = "cas"}}
    /\ inflightUpdates' = [inflightUpdates EXCEPT ![p] = NoUpd]
    /\ excused' = excused \union lost
    /\ UNCHANGED <<value, previous, ticket, calls, raw, attempt, applied, clash>>

(* TTL expiry, the reaper's DEL, a flush.                                  *)
Disappear ==
    /\ value # NoValue
    /\ value' = NoValue
    /\ Hit(Upd)
    /\ UNCHANGED <<late, map, loop, applied, excused>>

-----------------------------------------------------------------------------
(* What the event loop always gets to: every await is bounded by           *)
(* connectTimeout or commandTimeout, so each of them answers or rejects.   *)
casUpdate(u) ==
    \/ Begin(u) \/ BeginWithoutClient(u)
    \/ Get(u) \/ GetFails(u)
    \/ CasCommits(u) \/ CasCommitsUnanswered(u) \/ CasConflicts(u) \/ CasFails(u)
    \/ Finally(u)

Next ==
    \/ \E u \in Upd : cacheAtomicUpdate(u) \/ casUpdate(u)
    \/ \E u \in Upd : LateCommits(u) \/ LateConflicts(u)
    \/ \E p \in Proc : Crash(p)
    \/ Disappear

Spec == Init /\ [][Next]_vars
FairSpec == Spec /\ \A u \in Upd : WF_vars(casUpdate(u))

-----------------------------------------------------------------------------
(* Every variable stays in its domain; a value is a record or a miss.      *)
TypeOK ==
    /\ value \in Values
    /\ late \subseteq Upd
    /\ inflightUpdates \in [Proc -> Upd \union {NoUpd}]
    /\ previous \in [Upd -> Upd \union {NoUpd}]
    /\ pc \in [Upd -> Steps]
    /\ raw \in [Upd -> Values]
    /\ attempt \in [Upd -> 0..MaxRetries]
    /\ ticket \in [Upd -> Nat]
    /\ calls \in [Proc -> Nat]
    /\ applied \subseteq Upd
    /\ clash \in [Upd -> Nat]
    /\ excused \subseteq Upd

(* inflightUpdates serializes a key inside a process: two updates of one   *)
(* process are never between their first GET and their answer together,    *)
(* whatever order they were asked for in and however they end.             *)
Serialized ==
    \A u, v \in Upd :
        (Owner[u] = Owner[v] /\ Running(u) /\ Running(v)) => u = v

(* The map cannot grow or forget: a process has an entry for the key       *)
(* exactly while one of its updates is not settled, and that entry is the  *)
(* most recent call.                                                       *)
EntryIsTail ==
    \A p \in Proc :
        LET open == {u \in Mine(p) : pc[u] \notin {"idle", "settled"}} IN
        IF open = {} THEN inflightUpdates[p] = NoUpd
        ELSE /\ inflightUpdates[p] \in open
             /\ \A u \in open : ticket[u] <= ticket[inflightUpdates[p]]

InCallOrder(s) ==
    \A i, j \in 1..Len(s) :
        (i < j /\ Owner[s[i]] = Owner[s[j]]) => ticket[s[i]] < ticket[s[j]]

(* The updates of one process are reflected in the record in the order of  *)
(* the calls, even when one of them was written long after its caller had  *)
(* given up: last_fail_reason and preferred_strategy are last-writer-wins. *)
RecordInCallOrder == value # NoValue => InCallOrder(value)

(* An update is dropped only for a reason: the backend failed it, its      *)
(* process died, or at least MaxRetries changes made by others hit it.  In *)
(* particular the updates of one process never exhaust each other.         *)
NoSilentDrop ==
    \A u \in Upd :
        (pc[u] \in {"resolved", "settled"} /\ u \notin applied)
            => u \in excused \/ clash[u] >= MaxRetries

(* A call that was queued ends, whatever the backend and the others do:    *)
(* nobody waits for ever behind a lost or failing update.                  *)
EveryCallEnds ==
    \A u \in Upd : (pc[u] = "queued") ~> (pc[u] = "settled")

(* The whole protocol is an atomic record: no stale commit, no lost or     *)
(* repeated update.                                                        *)
Atomic == INSTANCE AtomicRecord WITH record <- value
ImplementsAtomicRecord == Atomic!ASpec
=============================================================================
