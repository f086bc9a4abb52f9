---------------------------- MODULE TierRouting ----------------------------
(***************************************************************************)
(* Data-driven tier routing for one host: fetches read the tier statistics *)
(* of the host's domain record (getTiers), run the tiers that are left,    *)
(* and book every attempt (recordTierAttempt) by fire-and-forget updates   *)
(* that commit later, each one atomically (AtomicRecord).                  *)
(*                                                                         *)
(* A time stamp is modelled by its age, which saturates once the window    *)
(* is over.                                                                *)
(***************************************************************************)
EXTENDS Naturals, Sequences, FiniteSets, Filtering

CONSTANTS
    Fetch,        \* fetches of pages of the host that can be under way at once
    Configured,   \* the slots for which tierConfigured holds
    Override,     \* the tier_skip sets the operator may write for the host
    MinAttempts,  \* MIN_ATTEMPTS_FOR_DECISION
    LowNum,       \* LOW_SUCCESS_THRESHOLD is LowNum / LowDen
    LowDen,
    Window,       \* TIER_STATS_WINDOW_MS, in ticks
    MaxPending,   \* bound on the uncommitted attempts of one fetch
    MaxLog,       \* bound on the attempts one record is followed for
    None

ASSUME RoutingAssumption ==
    /\ {MinAttempts, LowNum, LowDen, Window, MaxPending, MaxLog} \subseteq Nat \ {0}
    /\ LowNum <= LowDen

VARIABLES
    stats,     \* tier_stats_30d of the host's record, or None
    operator,  \* getOperatorTierSkips for the host: domains.json is hot-reloaded
    fetch,     \* [Fetch -> where it is, and the tiers left]
    pending,   \* [Fetch -> its attempts that are still to be committed, in order]
    log        \* history: [Slot -> the attempts committed since the record was made]

vars == <<stats, operator, fetch, pending, log>>

ALL_TIERS == <<"tier1", "tier2", "tier3">>
Slot == {ALL_TIERS[k] : k \in 1..Len(ALL_TIERS)}
Stat == [attempts : Nat, ok : Nat, fail : Nat, window : Nat]
ASSUME ConfigAssumption ==
    /\ Configured \subseteq Slot /\ "tier3" \in Configured
    /\ Override \subseteq SUBSET Slot /\ {} \in Override
    /\ None \notin [Slot -> Stat]

Age == 0..(Window + 1)
Older(n) == IF n <= Window THEN n + 1 ELSE n
Idle == [at |-> "idle", todo |-> <<>>]

emptyStat == [attempts |-> 0, ok |-> 0, fail |-> 0, window |-> 0]
newRecord == [s \in Slot |-> emptyStat]
NoLog == [s \in Slot |-> <<>>]

Init ==
    /\ stats = None
    /\ operator = {}
    /\ fetch = [f \in Fetch |-> Idle]
    /\ pending = [f \in Fetch |-> <<>>]
    /\ log = NoLog

-----------------------------------------------------------------------------
(* Fault: the window is left to the next write.                            *)
FaultyCurrentWindowStat(stat) == stat

(* A stat whose window has elapsed reads as empty.                         *)
currentWindowStat(stat) ==
    IF stat.window <= Window THEN stat ELSE [stat EXCEPT !.attempts = 0, !.ok = 0, !.fail = 0]

(* Fault: the threshold applies from the first attempt on.                 *)
FaultyLow(s) ==
    /\ stats # None
    /\ LET stat == currentWindowStat(stats[s]) IN
          stat.attempts > 0 /\ stat.ok * LowDen < stat.attempts * LowNum

low_success_rate(s) ==
    /\ stats # None
    /\ LET stat == currentWindowStat(stats[s]) IN
          stat.attempts >= MinAttempts /\ stat.ok * LowDen < stat.attempts * LowNum

(* computeTierSkips: what the record says counts only if the cache answers.*)
computeTierSkips(visible) ==
    [s \in Slot |-> IF s \notin Configured THEN "not_configured"
                    ELSE IF s \in operator THEN "operator_override"
                    ELSE IF visible /\ low_success_rate(s) THEN "low_success_rate"
                    ELSE None]

(* The tiers a fetch will try: those that are not skipped, after tier 3    *)
(* for what looks like a structured document, skipped or not.              *)
Tiers(visible, structured) ==
    LET skipped == computeTierSkips(visible) IN
    (IF structured THEN <<"tier3">> ELSE <<>>)
        \o Filter(ALL_TIERS, {k \in DOMAIN ALL_TIERS : skipped[ALL_TIERS[k]] = None})

(* getTiers, before the cascade; a slot of Fetch is used again once the    *)
(* attempts of its last fetch are settled.                                 *)
getTiers(f) ==
    /\ fetch[f].at = "idle" /\ pending[f] = <<>>
    /\ \E visible, structured \in BOOLEAN :
          fetch' = [fetch EXCEPT ![f] = [at |-> "cascade", todo |-> Tiers(visible, structured)]]
    /\ UNCHANGED <<stats, operator, pending, log>>

(* runTier, for the next tier: a hit ends the cascade.                     *)
runTier(f, hit) ==
    /\ fetch[f].at = "cascade" /\ fetch[f].todo # <<>> /\ Len(pending[f]) < MaxPending
    /\ pending' = [pending EXCEPT ![f] = Append(@, [slot |-> Head(fetch[f].todo), hit |-> hit])]
    /\ fetch' = [fetch EXCEPT ![f].todo = IF hit THEN <<>> ELSE Tail(@)]
    /\ UNCHANGED <<stats, operator, log>>

Answers(f) ==
    /\ fetch[f].at = "cascade" /\ fetch[f].todo = <<>>
    /\ fetch' = [fetch EXCEPT ![f] = Idle]
    /\ UNCHANGED <<stats, operator, pending, log>>

-----------------------------------------------------------------------------
(* recordTierAttempt's mutate, for a stat and one attempt.                 *)

Count(stat, hit) ==
    [stat EXCEPT !.attempts = @ + 1, !.ok = IF hit THEN @ + 1 ELSE @,
                 !.fail = IF hit THEN @ ELSE @ + 1]

(* Fault: the window is never renewed.                                     *)
FaultyBook(stat, hit) == Count(stat, hit)

Book(stat, hit) == Count(IF stat.window > Window THEN emptyStat ELSE stat, hit)

Logged == Cardinality({at \in Slot \X (1..MaxLog) : at[2] <= Len(log[at[1]])})

(* The update commits: a record that is missing, corrupt or stale is made  *)
(* anew first.                                                             *)
recordTierAttempt(f) ==
    /\ pending[f] # <<>>
    /\ LET a == Head(pending[f])
           rebuilt == stats = None
           record == IF rebuilt THEN newRecord ELSE stats
       IN /\ Logged < MaxLog
          /\ stats' = [record EXCEPT ![a.slot] = Book(@, a.hit)]
          /\ log' = [log EXCEPT ![a.slot] = Append(@, [age |-> 0, hit |-> a.hit])]
    /\ pending' = [pending EXCEPT ![f] = Tail(@)]
    /\ UNCHANGED <<operator, fetch>>

(* The update is dropped: no cache, an error, an exhausted retry budget.   *)
Drop(f) ==
    /\ pending[f] # <<>>
    /\ pending' = [pending EXCEPT ![f] = Tail(@)]
    /\ UNCHANGED <<stats, operator, fetch, log>>

(* Another update of the host makes the record: a search appearance, a     *)
(* robots or llms.txt probe.                                               *)
updateRecord ==
    /\ stats = None
    /\ stats' = newRecord
    /\ UNCHANGED <<operator, fetch, pending, log>>

(* The record's TTL runs out, or the cache is flushed.                     *)
Vanish ==
    /\ stats # None
    /\ stats' = None /\ log' = NoLog
    /\ UNCHANGED <<operator, fetch, pending>>

(* loadDomainConfig, when domains.json has changed.                        *)
loadDomainConfig(set) ==
    /\ operator' = set
    /\ UNCHANGED <<stats, fetch, pending, log>>

Aged(seq) == [k \in DOMAIN seq |-> [seq[k] EXCEPT !.age = Older(@)]]

(* The oldest come first: those that fall out of the window are a prefix.  *)
Expired(seq) == Cardinality({k \in DOMAIN seq : seq[k].age > Window})
Recent(seq) == SubSeq(seq, Expired(seq) + 1, Len(seq))

Tick ==
    /\ stats' = IF stats = None THEN None
                ELSE [s \in Slot |-> [stats[s] EXCEPT !.window = Older(@)]]
    /\ log' = [s \in Slot |-> Recent(Aged(log[s]))]
    /\ UNCHANGED <<operator, fetch, pending>>

Next ==
    \/ \E f \in Fetch : \/ getTiers(f) \/ Answers(f) \/ recordTierAttempt(f) \/ Drop(f)
                        \/ \E hit \in BOOLEAN : runTier(f, hit)
    \/ updateRecord \/ Vanish \/ Tick
    \/ \E set \in Override : loadDomainConfig(set)

Spec == Init /\ [][Next]_vars

(* Only the clock is bound to move: no fetch has to come by.               *)
FairSpec == Spec /\ WF_vars(Tick)

-----------------------------------------------------------------------------
(* Attempts of a slot, by their positions in the log.                      *)
InWindow(s) == {k \in DOMAIN log[s] : log[s][k].age <= stats[s].window}
Latest(s, n) == Len(log[s]) - n + 1..Len(log[s])
Hits(s, attempts) == Cardinality({k \in attempts : log[s][k].hit})

(* A tier is skipped for its success rate only on evidence of the window:  *)
(* its latest attempts, at least MinAttempts of them and none older than   *)
(* the window, succeeded too rarely.  No attempt is counted twice, kept    *)
(* across a renewal, or forgotten, in whatever order they commit.          *)
SkipsOnEvidence ==
    \A s \in Slot : low_success_rate(s) =>
        \E n \in MinAttempts..Len(log[s]) :
            Hits(s, Latest(s, n)) * LowDen < n * LowNum

(* The statistics are those of the window: what a running window counts is *)
(* exactly what was committed since it began, and an attempt that has just *)
(* been committed is in a running window.                                  *)
CountsItsWindow ==
    stats # None => \A s \in Slot :
        /\ stats[s].window <= Window =>
              /\ stats[s].attempts = Cardinality(InWindow(s))
              /\ stats[s].ok = Hits(s, InWindow(s))
        /\ \A k \in 1..Len(log[s]) : log[s][k].age = 0 => stats[s].window <= Window

(* A skipped tier comes back, even on a host that nobody fetches and whose *)
(* record nobody writes: no host loses a tier for good.                    *)
SkippedTierComesBack == \A s \in Slot : []<>~low_success_rate(s)
=============================================================================
