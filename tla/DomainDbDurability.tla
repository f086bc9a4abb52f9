------------------------- MODULE DomainDbDurability -------------------------
(***************************************************************************)
(* The durable side of the domain capability database: the maintenance     *)
(* job (enumerateDomains, writeSnapshot, pruneSnapshots, reapStaleKeys)    *)
(* and the restore CLI (loadLatestSnapshot, applyRestore), running against *)
(* a Valkey that the servers keep writing.                                 *)
(*                                                                         *)
(* A server's update is one atomic step (AtomicRecord); a record keeps     *)
(* only its schema generation and last_fetch.  Each command of the jobs    *)
(* (SCAN, MGET, DEL, GET, SET, rename, unlink) is a step of its own, and   *)
(* a job may die between any two of them.                                  *)
(***************************************************************************)
EXTENDS Naturals, FiniteSets

CONSTANTS
    Domain,      \* hostnames
    MaxTime,     \* bound on the clock
    MaxKeys,     \* the values of maxKeys, the bound of one scan
    Retention,   \* DOMAIN_DB_SNAPSHOT_RETENTION
    Batch,       \* BATCH of reapStaleKeys
    NoRec        \* a missing key

ASSUME BoundsAssumption ==
    /\ IsFiniteSet(Domain)
    /\ {MaxTime, Retention} \subseteq Nat
    /\ MaxKeys \union {Batch} \subseteq Nat \ {0}

VARIABLES
    db,         \* [Domain -> Record \union {NoRec}]
    now,        \* the clock of the hosts
    snaps,      \* the snapshot directory: creation time -> contents
    job,        \* the maintenance run in progress
    restore,    \* the restore run in progress
    sinceConfirm, \* history: domains written since the reaper confirmed a batch
    sinceGet      \* history: domains written since the restore read a key

hist == <<sinceConfirm, sinceGet>>
vars == <<db, now, snaps, job, restore, hist>>

Time == 0..MaxTime
(* "current" is SCHEMA_VERSION, "stale" any other number, "corrupt" a      *)
(* value that does not parse.                                              *)
Record == [schema: {"current", "stale"}, last_fetch: Time]
              \union [schema: {"corrupt"}, last_fetch: {0}]
Saved == [domain: Domain, last_fetch: Time]
Snapshot == [records: SUBSET Saved, whole: BOOLEAN, corpusEmpty: BOOLEAN]

NoJob == [step |-> "idle", keys |-> {}, records |-> {}, stale |-> {},
          confirmed |-> {}, corpusEmpty |-> FALSE, created |-> 0]
NoRestore == [step |-> "idle", todo |-> {}, cur |-> NoRec, live |-> NoRec]

Present   == {d \in Domain : db[d] # NoRec}
IsCurrent(d) == db[d] # NoRec /\ db[d].schema = "current"
Newest == CHOOSE t \in DOMAIN snaps : \A s \in DOMAIN snaps : s <= t

Init ==
    /\ db \in [Domain -> {NoRec, [schema |-> "stale", last_fetch |-> 0],
                                 [schema |-> "corrupt", last_fetch |-> 0]}]
    /\ now = 0
    /\ snaps = [t \in {} |-> {}]
    /\ job = NoJob
    /\ restore = NoRestore
    /\ sinceConfirm = {}
    /\ sinceGet = {}

-----------------------------------------------------------------------------
(* The servers and the environment.                                        *)

(* updateRecord: a missing, corrupt or stale record is rebuilt; last_fetch *)
(* is the time the update was asked for, which may lie before the commit.  *)
updateRecord(d) ==
    /\ \E asked \in {now, IF now = 0 THEN 0 ELSE now - 1} :
           db' = [db EXCEPT ![d] = [schema |-> "current", last_fetch |-> asked]]
    /\ sinceConfirm' = IF job.step = "confirmed" THEN sinceConfirm \union {d} ELSE {}
    /\ sinceGet' = IF restore.step = "got" THEN sinceGet \union {d} ELSE {}
    /\ UNCHANGED <<now, snaps, job, restore>>

(* A TTL runs out, or the cache is flushed.                                *)
Vanish(D) ==
    /\ D # {}
    /\ db' = [d \in Domain |-> IF d \in D THEN NoRec ELSE db[d]]
    /\ UNCHANGED <<now, snaps, job, restore, hist>>

Tick ==
    /\ now < MaxTime
    /\ now' = now + 1
    /\ UNCHANGED <<db, snaps, job, restore, hist>>

-----------------------------------------------------------------------------
(* The maintenance job.                                                    *)

(* enumerateDomains: the SCAN loop collects at most n keys...              *)
Scan(n) ==
    /\ job.step = "idle"
    /\ \E K \in SUBSET Present :
          /\ K = Present \/ Cardinality(K) = n
          /\ Cardinality(K) <= n
          /\ job' = [NoJob EXCEPT !.step = "scanned", !.keys = K]
    /\ UNCHANGED <<db, now, snaps, restore, hist>>

(* ... and one MGET reads them.                                            *)
Read ==
    /\ job.step = "scanned"
    /\ LET current == {d \in job.keys : IsCurrent(d)} IN
       job' = [NoJob EXCEPT
                 !.step = "read",
                 !.records = {[domain |-> d, last_fetch |-> db[d].last_fetch] : d \in current},
                 !.corpusEmpty = (current = {}),
                 !.stale = {d \in job.keys : db[d] # NoRec /\ db[d].schema = "stale"}]
    /\ UNCHANGED <<db, now, snaps, restore, hist>>

(* Fault: a corpus that could not be read is taken for an empty one.       *)
FaultyUnavailable ==
    /\ job.step \in {"idle", "scanned"}
    /\ job' = [NoJob EXCEPT !.step = "read"]
    /\ UNCHANGED <<db, now, snaps, restore, hist>>

(* A failure of getValkey, SCAN or MGET: nothing is written or pruned.     *)
Unavailable ==
    /\ job.step \in {"idle", "scanned"}
    /\ job' = NoJob
    /\ UNCHANGED <<db, now, snaps, restore, hist>>

(* Fault: the snapshot is written under its final name.                    *)
FaultyWriteInPlace ==
    /\ job.step = "read"
    /\ job' = [job EXCEPT !.step = "writing", !.created = now]
    /\ snaps' = [t \in DOMAIN snaps \union {now} |->
                    IF t = now THEN [records |-> {}, whole |-> FALSE,
                                     corpusEmpty |-> job.corpusEmpty]
                    ELSE snaps[t]]
    /\ UNCHANGED <<db, now, restore, hist>>

(* writeSnapshot: the temporary file is no snapshot (SNAPSHOT_FILE_RE)...  *)
WriteTemp ==
    /\ job.step = "read"
    /\ job' = [job EXCEPT !.step = "writing", !.created = now]
    /\ UNCHANGED <<db, now, snaps, restore, hist>>

(* ... until it is whole and renamed to the name of its creation time.     *)
Rename ==
    /\ job.step = "writing"
    /\ snaps' = [t \in DOMAIN snaps \union {job.created} |->
                    IF t = job.created
                    THEN [records |-> job.records, whole |-> TRUE,
                          corpusEmpty |-> job.corpusEmpty]
                    ELSE snaps[t]]
    /\ job' = [NoJob EXCEPT !.step = "renamed", !.stale = job.stale]
    /\ UNCHANGED <<db, now, restore, hist>>

Keep == IF Retention < 1 THEN 1 ELSE Retention

Excess == {t \in DOMAIN snaps : Cardinality({s \in DOMAIN snaps : s > t}) >= Keep}

(* pruneSnapshots: one unlink per file beyond the newest Keep, oldest first. *)
Prune ==
    /\ job.step = "renamed"
    /\ IF Excess = {}
       THEN job' = [job EXCEPT !.step = "pruned"] /\ UNCHANGED snaps
       ELSE /\ \E oldest \in Excess :
                  /\ \A t \in Excess : oldest <= t
                  /\ snaps' = [t \in DOMAIN snaps \ {oldest} |-> snaps[t]]
            /\ UNCHANGED job
    /\ UNCHANGED <<db, now, restore, hist>>

(* The next batch of reapStaleKeys.                                        *)
NextBatch(B) ==
    /\ B # {} /\ Cardinality(B) <= Batch
    /\ B = job.stale \/ Cardinality(B) = Batch

StillStale(B) == {d \in B : db[d] # NoRec /\ db[d].schema = "stale"}

(* Fault: the keys of the scan are deleted without another look.           *)
FaultyConfirm(B) ==
    /\ job.step = "pruned"
    /\ NextBatch(B)
    /\ job' = [job EXCEPT !.step = "confirmed", !.stale = @ \ B, !.confirmed = B]
    /\ sinceConfirm' = {}
    /\ UNCHANGED <<db, now, snaps, restore, sinceGet>>

(* reapStaleKeys: MGET the batch again and keep what still has a           *)
(* superseded schema...                                                    *)
Confirm(B) ==
    /\ job.step = "pruned"
    /\ NextBatch(B)
    /\ job' = [job EXCEPT !.step = "confirmed", !.stale = @ \ B,
                          !.confirmed = StillStale(B)]
    /\ sinceConfirm' = {}
    /\ UNCHANGED <<db, now, snaps, restore, sinceGet>>

(* ... then DEL that.                                                      *)
Reap ==
    /\ job.step = "confirmed"
    /\ db' = [d \in Domain |-> IF d \in job.confirmed THEN NoRec ELSE db[d]]
    /\ job' = [job EXCEPT !.step = "pruned", !.confirmed = {}]
    /\ sinceConfirm' = {}
    /\ UNCHANGED <<now, snaps, restore, sinceGet>>

(* The job is done, dies, or ends with the first error of the writing, the *)
(* unlinking or the reaping.                                               *)
JobEnds ==
    /\ job.step # "idle"
    /\ job' = NoJob
    /\ sinceConfirm' = {}
    /\ UNCHANGED <<db, now, snaps, restore, sinceGet>>

-----------------------------------------------------------------------------
(* The restore CLI.                                                        *)

loadLatestSnapshot ==
    /\ restore.step = "idle"
    /\ DOMAIN snaps # {}
    /\ restore' = [NoRestore EXCEPT
                     !.step = "next",
                     !.todo = IF snaps[Newest].whole THEN snaps[Newest].records ELSE {}]
    /\ UNCHANGED <<db, now, snaps, job, hist>>

(* applyRestore: GET the key of the next record...                         *)
RestoreGet(r) ==
    /\ restore.step = "next"
    /\ restore' = [restore EXCEPT !.step = "got", !.cur = r, !.live = db[r.domain]]
    /\ sinceGet' = {}
    /\ UNCHANGED <<db, now, snaps, job, sinceConfirm>>

(* A live record that parses counts, whatever its schema.                  *)
FresherOrEqual(live, r) ==
    live # NoRec /\ live.schema # "corrupt" /\ live.last_fetch >= r.last_fetch

Advance(r) == [NoRestore EXCEPT !.step = "next", !.todo = restore.todo \ {r}]

RestoreSkip ==
    /\ restore.step = "got"
    /\ FresherOrEqual(restore.live, restore.cur)
    /\ restore' = Advance(restore.cur)
    /\ sinceGet' = {}
    /\ UNCHANGED <<db, now, snaps, job, sinceConfirm>>

(* A GET or a SET that fails, but not for want of a connection, is a skip, *)
(* and so is a record that is not structurally valid.                      *)
RestoreFails(r) ==
    /\ restore.step = "next" \/ (restore.step = "got" /\ restore.cur = r)
    /\ restore' = Advance(r)
    /\ sinceGet' = {}
    /\ UNCHANGED <<db, now, snaps, job, sinceConfirm>>

WriteBack(r) ==
    /\ db' = [db EXCEPT ![r.domain] = [schema |-> "current", last_fetch |-> r.last_fetch]]
    /\ sinceConfirm' = IF job.step = "confirmed" THEN sinceConfirm \union {r.domain} ELSE {}
    /\ sinceGet' = {}
    /\ restore' = Advance(r)
    /\ UNCHANGED <<now, snaps, job>>

(* Fault: every record of the snapshot is written back.                    *)
FaultyRestoreSet ==
    /\ restore.step = "got"
    /\ WriteBack(restore.cur)

(* ... and a plain SET when that answer was missing, corrupt or staler.    *)
RestoreSet ==
    /\ restore.step = "got"
    /\ ~FresherOrEqual(restore.live, restore.cur)
    /\ WriteBack(restore.cur)

(* The list is done, the connection is gone, or the CLI dies.              *)
RestoreEnds ==
    /\ restore.step # "idle"
    /\ restore' = NoRestore
    /\ sinceGet' = {}
    /\ UNCHANGED <<db, now, snaps, job, sinceConfirm>>

-----------------------------------------------------------------------------
Maintenance ==
    \/ \E n \in MaxKeys : Scan(n)
    \/ Read \/ Unavailable \/ WriteTemp \/ Rename \/ Prune
    \/ \E B \in SUBSET job.stale : Confirm(B)
    \/ Reap \/ JobEnds

applyRestore ==
    \/ loadLatestSnapshot \/ RestoreEnds
    \/ RestoreSkip \/ RestoreSet
    \/ \E r \in restore.todo : RestoreGet(r) \/ RestoreFails(r)

Next ==
    \/ \E d \in Domain : updateRecord(d) \/ Vanish({d})
    \/ Vanish(Domain)
    \/ Tick
    \/ Maintenance
    \/ applyRestore

Spec == Init /\ [][Next]_vars

-----------------------------------------------------------------------------
Job == [step : {"idle", "scanned", "read", "writing", "renamed", "pruned", "confirmed"},
        keys : SUBSET Domain, records : SUBSET Saved, stale : SUBSET Domain,
        confirmed : SUBSET Domain, corpusEmpty : BOOLEAN, created : Time]

Restore == [step : {"idle", "next", "got"}, todo : SUBSET Saved,
            cur : Saved \union {NoRec}, live : Record \union {NoRec}]

TypeOK ==
    /\ db \in [Domain -> Record \union {NoRec}]
    /\ now \in Time
    /\ DOMAIN snaps \subseteq Time
    /\ snaps \in [DOMAIN snaps -> Snapshot]
    /\ job \in Job /\ restore \in Restore

(* Wherever the job dies, the newest file of the directory is a whole      *)
(* snapshot: loadLatestSnapshot never falls on a torn one (FW-01).         *)
RestorePointWhole == DOMAIN snaps # {} => snaps[Newest].whole

(* An outage never becomes an empty restore point: a snapshot without      *)
(* records says that the scan really met no current record (vikunja#688).  *)
NoFalseEmptySnapshot ==
    \A t \in DOMAIN snaps : snaps[t].records = {} => snaps[t].corpusEmpty

(* What the re-check of reapStaleKeys does achieve: a live record it       *)
(* destroys was written after the re-check, never between scan and         *)
(* re-check.                                                               *)
ReapSparesTheConfirmed ==
    [][\A d \in job.confirmed :
          (job' # job /\ IsCurrent(d) /\ db'[d] = NoRec) => d \in sinceConfirm]_vars

(* What the comparison of applyRestore does achieve: a record that is      *)
(* fresher than the snapshot's is overwritten only if it was written after *)
(* the restore read the key.                                               *)
RestoreSparesTheRead ==
    [][(restore.step = "got" /\ db' # db /\ restore'.step = "next"
          /\ FresherOrEqual(db[restore.cur.domain], restore.cur))
          => restore.cur.domain \in sinceGet]_vars

(* As the head of restore-domain-db has it: the restore never overwrites a *)
(* live record that is fresher than, or as fresh as, the snapshot's.       *)
RestoreNeverClobbers ==
    [][(restore.step = "got" /\ restore'.step = "next" /\ db' # db)
          => ~FresherOrEqual(db[restore.cur.domain], restore.cur)]_vars
=============================================================================
