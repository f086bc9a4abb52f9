---------------------------- MODULE LlmsFullTxt ----------------------------
(***************************************************************************)
(* getLlmsFullTxt: the llms-full.txt of an origin, from the cache of this  *)
(* process (L1), from Valkey, or from the site, and what is kept of it:    *)
(* the probe flag, the body, the L1 entry and the domain fact.             *)
(*                                                                         *)
(* Lookups of one process interleave at every await.  A cache command      *)
(* takes less than a tick; a fetch may take any time up to its timeout.    *)
(***************************************************************************)
EXTENDS Naturals, Sequences, FiniteSets, Filtering

CONSTANTS
    Lookup,                   \* the calls of getLlmsFullTxt
    Origin,
    DocSize,                  \* sizes a document may have, in bytes
    MinSize, MaxSize,         \* MIN_SIZE_BYTES, MAX_SIZE_BYTES
    PresentTtl, AbsentTtl,    \* PROBE_PRESENT_TTL_*, PROBE_ABSENT_TTL_SECONDS
    BodyTtl,                  \* FETCH_CACHE_TTL_SECONDS
    NoLlms

ASSUME LlmsAssumption ==
    /\ {MinSize, MaxSize, PresentTtl, AbsentTtl, BodyTtl} \subseteq Nat \ {0}
    /\ MinSize <= MaxSize /\ DocSize \subseteq Nat

VARIABLES
    flag,        \* [Origin -> llms:<origin>:full, or NoLlms]
    bodyKept,    \* [Origin -> llms:<origin>:body, or NoLlms]
    bodyCache,   \* the L1 cache, in the Map's insertion order
    totalBytes,  \* bodyCacheTotalBytes
    lookup,      \* [Lookup -> the call's local state]
    llmsFact     \* [Origin -> capabilities.llms_full_txt, or NoLlms]

llmsVars == <<flag, bodyKept, bodyCache, totalBytes, lookup, llmsFact>>

OldestAge == BodyTtl + PresentTtl + 1     \* the bound of the ages
Older(n) == IF n < OldestAge THEN n + 1 ELSE n

(* The document a call holds: its bytes, and how long ago the site sent it *)
NoDocument == [size |-> 0, age |-> 0]

IdleLookup(answer, doc) ==
    [at |-> "idle", origin |-> NoLlms, answer |-> answer, doc |-> doc]

LlmsInit ==
    /\ flag = [o \in Origin |-> NoLlms]
    /\ bodyKept = [o \in Origin |-> NoLlms]
    /\ bodyCache = <<>> /\ totalBytes = 0
    /\ lookup = [c \in Lookup |-> IdleLookup("none", NoDocument)]
    /\ llmsFact = [o \in Origin |-> NoLlms]

-----------------------------------------------------------------------------
(* l1Set                                                                   *)
L1Max == MaxSize               \* L1_MAX_BYTES

(* The bytes that some entries hold, each known by its entry and its place *)
(* in it; and how many they are.                                           *)
BytesOf(entries) == UNION {{i} \X (1..entries[i].doc.size) : i \in DOMAIN entries}
Bytes(entries) == Cardinality(BytesOf(entries))

Of(o) == Filter(bodyCache, {i \in DOMAIN bodyCache : bodyCache[i].origin = o})
OthersOf(o) == Filter(bodyCache, {i \in DOMAIN bodyCache : bodyCache[i].origin # o})

(* Fault: the bytes of a replaced entry stay counted.                      *)
FaultyWithout(o) == totalBytes

Without(o) == totalBytes - Bytes(Of(o))

(* The fewest of the oldest entries that make room, or all of them.        *)
Evictions(entries, total, size) ==
    CHOOSE n \in 0..Len(entries) :
        LET Enough(k) == total - Bytes(SubSeq(entries, 1, k)) + size <= L1Max \/ k = Len(entries)
        IN Enough(n) /\ \A k \in 0..n - 1 : ~Enough(k)

l1Set(o, doc) ==
    IF doc.size > L1Max THEN UNCHANGED <<bodyCache, totalBytes>>
    ELSE LET others == OthersOf(o)
             n == Evictions(others, Without(o), doc.size)
             left == Without(o) - Bytes(SubSeq(others, 1, n))
             rest == SubSeq(others, n + 1, Len(others))
         IN IF left + doc.size <= L1Max
            THEN /\ bodyCache' = Append(rest, [origin |-> o, doc |-> doc, left |-> PresentTtl])
                 /\ totalBytes' = left + doc.size
            ELSE bodyCache' = rest /\ totalBytes' = left

-----------------------------------------------------------------------------
LookupAt(c, where) == lookup[c].at = where
Mine(c) == lookup[c].origin
LookupGoes(c, where) == lookup' = [lookup EXCEPT ![c].at = where]
LookupEnds(c, answer, doc) == lookup' = [lookup EXCEPT ![c] = IdleLookup(answer, doc)]

(* Fault: an entry is good however old it is.                              *)
FaultyL1Entry(o) == Of(o)

L1Entry(o) == IF Of(o) # <<>> /\ Of(o)[1].left > 0 THEN Of(o) ELSE <<>>

BeginLookup(c) ==
    /\ LookupAt(c, "idle")
    /\ \E o \in Origin :
          IF L1Entry(o) # <<>> THEN LookupEnds(c, "present", L1Entry(o)[1].doc)
          ELSE lookup' = [lookup EXCEPT ![c] = [IdleLookup("none", NoDocument) EXCEPT
                                                   !.at = "body", !.origin = o]]
    /\ UNCHANGED <<flag, bodyKept, bodyCache, totalBytes, llmsFact>>

BodyHit(c) ==
    /\ LookupAt(c, "body") /\ bodyKept[Mine(c)] # NoLlms
    /\ l1Set(Mine(c), bodyKept[Mine(c)].doc)
    /\ LookupEnds(c, "present", bodyKept[Mine(c)].doc)
    /\ UNCHANGED <<flag, bodyKept, llmsFact>>

(* No body, or no cache: every GET may come back empty-handed.             *)
BodyMiss(c) ==
    /\ LookupAt(c, "body")
    /\ LookupGoes(c, "flag")
    /\ UNCHANGED <<flag, bodyKept, bodyCache, totalBytes, llmsFact>>

KnownAbsent(c) ==
    /\ LookupAt(c, "flag") /\ flag[Mine(c)] # NoLlms
    /\ flag[Mine(c)].status = "absent"
    /\ LookupEnds(c, "absent", NoDocument)
    /\ UNCHANGED <<flag, bodyKept, bodyCache, totalBytes, llmsFact>>

FlagMiss(c) ==
    /\ LookupAt(c, "flag")
    /\ LookupGoes(c, "fetching")
    /\ UNCHANGED <<flag, bodyKept, bodyCache, totalBytes, llmsFact>>

(* The request: whatever is not an acceptable document is "absent", a      *)
(* status that is not 2xx and a failure of the transport included.         *)
Accepted(size) == size >= MinSize /\ size <= MaxSize

fetchLlmsFullTxt(c) ==
    /\ LookupAt(c, "fetching")
    /\ \/ lookup' = [lookup EXCEPT ![c].at = "setflag", ![c].answer = "absent"]
       \/ \E size \in DocSize :
             lookup' = [lookup EXCEPT ![c].at = "setflag",
                          ![c].answer = IF Accepted(size) THEN "present" ELSE "absent",
                          ![c].doc = IF Accepted(size) THEN [size |-> size, age |-> 0]
                                                       ELSE NoDocument]
    /\ UNCHANGED <<flag, bodyKept, bodyCache, totalBytes, llmsFact>>

recordLlmsFullProbe(c) ==
    \/ llmsFact' = [llmsFact EXCEPT ![Mine(c)] = lookup[c].answer]
    \/ UNCHANGED llmsFact

(* The two SETs, which a cache that is down drops, the L1 entry, and the   *)
(* update of the domain record, which may be dropped too.                  *)
SetFlag(c) ==
    /\ LookupAt(c, "setflag")
    /\ \/ flag' = [flag EXCEPT ![Mine(c)] =
                     [status |-> lookup[c].answer,
                      left |-> IF lookup[c].answer = "present" THEN PresentTtl ELSE AbsentTtl]]
       \/ UNCHANGED flag
    /\ \/ lookup[c].answer = "present" /\ LookupGoes(c, "setbody") /\ UNCHANGED llmsFact
       \/ lookup[c].answer = "absent" /\ LookupEnds(c, "absent", NoDocument) /\ recordLlmsFullProbe(c)
    /\ UNCHANGED <<bodyKept, bodyCache, totalBytes>>

SetBody(c) ==
    /\ LookupAt(c, "setbody")
    /\ \/ bodyKept' = [bodyKept EXCEPT ![Mine(c)] = [doc |-> lookup[c].doc, left |-> BodyTtl]]
       \/ UNCHANGED bodyKept
    /\ l1Set(Mine(c), lookup[c].doc)
    /\ recordLlmsFullProbe(c)
    /\ LookupEnds(c, "present", lookup[c].doc)
    /\ UNCHANGED flag

Faded(entry) == IF entry = NoLlms \/ entry.left = 1 THEN NoLlms
                ELSE [entry EXCEPT !.left = @ - 1]

LlmsTick ==
    /\ \A c \in Lookup : lookup[c].at \in {"idle", "fetching"}
    /\ flag' = [o \in Origin |-> Faded(flag[o])]
    /\ bodyKept' = [o \in Origin |->
                      LET entry == Faded(bodyKept[o]) IN
                      IF entry = NoLlms THEN NoLlms ELSE [entry EXCEPT !.doc.age = Older(@)]]
    /\ bodyCache' = [i \in DOMAIN bodyCache |->
                      [bodyCache[i] EXCEPT !.doc.age = Older(@),
                                           !.left = IF @ = 0 THEN 0 ELSE @ - 1]]
    /\ UNCHANGED <<totalBytes, lookup, llmsFact>>

LlmsNext ==
    \/ \E c \in Lookup : \/ BeginLookup(c) \/ BodyHit(c) \/ BodyMiss(c) \/ KnownAbsent(c)
                         \/ FlagMiss(c) \/ fetchLlmsFullTxt(c) \/ SetFlag(c) \/ SetBody(c)
    \/ LlmsTick

LlmsSpec == LlmsInit /\ [][LlmsNext]_llmsVars

-----------------------------------------------------------------------------
(* The eviction in bytes of l1Set: through every interleaving of hits,     *)
(* replacements and evictions the counter is the sum of what is held, no   *)
(* origin is held twice, and the sum stays within L1_MAX_BYTES.            *)
BytesAddUp ==
    /\ totalBytes = Bytes(bodyCache) /\ totalBytes <= L1Max
    /\ \A i, j \in DOMAIN bodyCache : bodyCache[i].origin = bodyCache[j].origin => i = j

(* The chain of TTLs: L1 may be warmed by a body that Valkey was about to  *)
(* forget, so a served document is at most FETCH_CACHE_TTL_SECONDS plus a  *)
(* day old, and never older.                                               *)
FreshEnough ==
    \A c \in Lookup : lookup[c].answer = "present" =>
        lookup[c].doc.age < BodyTtl + PresentTtl
=============================================================================
