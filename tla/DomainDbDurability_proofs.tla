---------------------- MODULE DomainDbDurability_proofs ----------------------
(***************************************************************************)
(* Theorems about DomainDbDurability, for any domains, retention, batch    *)
(* and clock.                                                              *)
(*                                                                         *)
(* The argument: every snapshot was renamed into place whole (SnapsInv),   *)
(* by a job whose records are empty only if the corpus was (JobInv).  A    *)
(* confirmed key is live only if it was written since (ConfirmInv), and    *)
(* what the restore compared is out of date only if the key was written    *)
(* since (RestoreInv).                                                     *)
(***************************************************************************)
EXTENDS DomainDbDurability, FiniteSetTheorems, WellFoundedInduction, TLAPS

SnapsInv ==
    \A t \in DOMAIN snaps :
        snaps[t].whole /\ (snaps[t].records = {} => snaps[t].corpusEmpty)

JobInv == job.step \in {"read", "writing"} /\ job.records = {} => job.corpusEmpty

ConfirmInv ==
    \A d \in job.confirmed :
        job.step = "confirmed" /\ (IsCurrent(d) => d \in sinceConfirm)

RestoreInv ==
    restore.step = "got" =>
        /\ restore.cur \in Saved
        /\ FresherOrEqual(db[restore.cur.domain], restore.cur) =>
              \/ FresherOrEqual(restore.live, restore.cur)
              \/ restore.cur.domain \in sinceGet

IInv == TypeOK /\ SnapsInv /\ JobInv /\ ConfirmInv /\ RestoreInv

-----------------------------------------------------------------------------
(* A directory that is not empty has a newest file.                        *)
LEMMA NewestExists ==
    ASSUME NEW D \in SUBSET Time, D # {}
    PROVE  \E t \in D : \A s \in D : s <= t
<1>. DEFINE Later(t) == {s \in D : s > t}
            T == {Later(t) : t \in D}
            R == StrictSubsetOrdering(Time)
<1>1. IsFiniteSet(Time) /\ Time \subseteq Nat
  BY BoundsAssumption, FS_Interval DEF Time
<1>2. T \subseteq FiniteSubsetsOf(Time) /\ T # {}
  <2>1. \A t \in D : Later(t) \in SUBSET Time
    OBVIOUS
  <2>2. \A t \in D : IsFiniteSet(Later(t))
    BY <1>1, <2>1, FS_Subset
  <2>. HIDE DEF Later
  <2>. QED  BY <2>1, <2>2 DEF FiniteSubsetsOf
<1>3. PICK x \in T : \A y \in T : ~(<<y, x>> \in R)
  <2>. HIDE DEF T, R
  <2>. QED  BY <1>2, FS_StrictSubsetOrderingWellFounded, WFMin DEF R
<1>4. PICK t \in D : x = Later(t)
  OBVIOUS
<1>5. ASSUME NEW s \in D, s > t
      PROVE  FALSE
  <2>1. Later(s) \subseteq Later(t) /\ Later(s) # Later(t)
    <3>1. s \in Later(t) /\ s \notin Later(s)
      BY <1>1, <1>5
    <3>2. \A u \in D : u > s => u > t
      BY <1>1, <1>5
    <3>. QED  BY <3>1, <3>2
  <2>2. <<Later(s), x>> \in R
    BY <1>4, <2>1 DEF StrictSubsetOrdering
  <2>. QED  BY <1>3, <2>2
<1>. QED  BY <1>1, <1>5

(* An empty directory and an idle job satisfy it.                          *)
LEMMA InitIInv == Init => IInv
<1>. SUFFICES ASSUME Init PROVE IInv
  OBVIOUS
<1>1. 0 \in Time
  BY BoundsAssumption DEF Time
<1>2. TypeOK
  BY <1>1 DEF Init, TypeOK, Record, NoJob, NoRestore, Job, Restore, Time
<1>3. SnapsInv /\ JobInv /\ ConfirmInv /\ RestoreInv
  BY DEF Init, SnapsInv, JobInv, ConfirmInv, RestoreInv, NoJob, NoRestore
<1>. QED  BY <1>2, <1>3 DEF IInv

(* The servers, and the environment: the job and the restore stand still.  *)
LEMMA ServerStep ==
    ASSUME IInv, (\E d \in Domain : updateRecord(d)) \/ (\E D \in SUBSET Domain : Vanish(D)) \/ Tick
    PROVE  IInv'
<1>1. UNCHANGED <<snaps, job, restore>>
  BY DEF updateRecord, Vanish, Tick
<1>2. now' \in Time /\ db' \in [Domain -> Record \union {NoRec}]
  <2>1. CASE \E d \in Domain : updateRecord(d)
    BY <2>1, BoundsAssumption DEF updateRecord, IInv, TypeOK, Record, Time
  <2>2. CASE \E D \in SUBSET Domain : Vanish(D)
    BY <2>2 DEF Vanish, IInv, TypeOK
  <2>3. CASE Tick
    BY <2>3, BoundsAssumption DEF Tick, IInv, TypeOK, Time
  <2>. QED  BY <2>1, <2>2, <2>3
<1>3. TypeOK'
  BY <1>1, <1>2 DEF IInv, TypeOK
<1>4. SnapsInv' /\ JobInv'
  BY <1>1 DEF IInv, SnapsInv, JobInv
<1>5. /\ \A e \in Domain : job.step = "confirmed" /\ db'[e] # db[e] =>
             db'[e] = NoRec \/ e \in sinceConfirm'
      /\ job.step = "confirmed" => sinceConfirm \subseteq sinceConfirm'
      /\ \A e \in Domain : restore.step = "got" /\ db'[e] # db[e] =>
             db'[e] = NoRec \/ e \in sinceGet'
      /\ restore.step = "got" => sinceGet \subseteq sinceGet'
  BY DEF updateRecord, Vanish, Tick, hist, IInv, TypeOK
<1>6. ConfirmInv'
  BY <1>1, <1>5 DEF IInv, ConfirmInv, IsCurrent, TypeOK, Job
<1>7. RestoreInv'
  BY <1>1, <1>5 DEF IInv, RestoreInv, FresherOrEqual, TypeOK, Saved
<1>. QED  BY <1>3, <1>4, <1>6, <1>7 DEF IInv

(* A step of the job that leaves records alone.                            *)
LEMMA JobStep ==
    ASSUME IInv, UNCHANGED <<db, restore, sinceGet>>, TypeOK', SnapsInv', JobInv', ConfirmInv'
    PROVE  IInv'
BY DEF IInv, RestoreInv, FresherOrEqual

(* A job's fields, one by one.                                              *)
Fields(step, keys, records, stale, confirmed, corpusEmpty, created) ==
    [step |-> step, keys |-> keys, records |-> records, stale |-> stale,
     confirmed |-> confirmed, corpusEmpty |-> corpusEmpty, created |-> created]

(* A step of the job up to the writing: it has confirmed nothing.          *)
LEMMA EarlyStep ==
    ASSUME IInv, UNCHANGED <<db, now, snaps, restore, hist>>, job' \in Job,
           job'.confirmed = {}, JobInv'
    PROVE  IInv'
<1>1. TypeOK' /\ SnapsInv' /\ ConfirmInv'
  BY DEF IInv, TypeOK, SnapsInv, ConfirmInv
<1>. QED  BY <1>1, JobStep DEF hist

(* Reading the corpus and writing the temporary file change the job alone. *)
LEMMA ScanReadStep ==
    ASSUME IInv, (\E n \in MaxKeys : Scan(n)) \/ Read \/ Unavailable \/ WriteTemp
    PROVE  IInv'
<1>1. UNCHANGED <<db, now, snaps, restore, hist>>
  BY DEF Scan, Read, Unavailable, WriteTemp
<1>2. 0 \in Time
  BY BoundsAssumption DEF Time
<1>3. ASSUME NEW n \in MaxKeys, Scan(n)
      PROVE  job' \in Job /\ job'.confirmed = {} /\ JobInv'
  <2>1. PICK K \in SUBSET Present : job' = Fields("scanned", K, {}, {}, {}, FALSE, 0)
    BY <1>3 DEF Scan, NoJob, Fields
  <2>2. K \in SUBSET Domain
    BY DEF Present
  <2>. QED  BY <1>2, <2>1, <2>2 DEF Fields, Job, JobInv
<1>4. ASSUME Read
      PROVE  job' \in Job /\ job'.confirmed = {} /\ JobInv'
  <2>. DEFINE current == {d \in job.keys : IsCurrent(d)}
              records == {[domain |-> d, last_fetch |-> db[d].last_fetch] : d \in current}
              stale   == {d \in job.keys : db[d] # NoRec /\ db[d].schema = "stale"}
  <2>1. job' = Fields("read", {}, records, stale, {}, (current = {}), 0)
    BY <1>4 DEF Read, NoJob, Fields
  <2>2. stale \subseteq Domain /\ current \subseteq Domain
    BY DEF IInv, TypeOK, Job
  <2>3. \A d \in current : db[d].last_fetch \in Time
    BY <1>2, <2>2 DEF IInv, TypeOK, IsCurrent, Record
  <2>4. records \subseteq Saved
    BY <2>2, <2>3 DEF Saved
  <2>5. (records = {} => current = {}) /\ (current = {}) \in BOOLEAN
    OBVIOUS
  <2>. HIDE DEF current, records, stale
  <2>. QED  BY <1>2, <2>1, <2>2, <2>4, <2>5 DEF Fields, Job, JobInv
<1>5. ASSUME Unavailable
      PROVE  job' \in Job /\ job'.confirmed = {} /\ JobInv'
  BY <1>2, <1>5 DEF Unavailable, NoJob, Job, JobInv
<1>6. ASSUME WriteTemp
      PROVE  job' \in Job /\ job'.confirmed = {} /\ JobInv'
  <2>1. job' = Fields("writing", job.keys, job.records, job.stale, job.confirmed, job.corpusEmpty, now)
    BY <1>6 DEF WriteTemp, Fields, IInv, TypeOK, Job
  <2>2. job.step = "read" /\ job.confirmed = {} /\ (job.records = {} => job.corpusEmpty)
    BY <1>6 DEF WriteTemp, IInv, ConfirmInv, JobInv
  <2>. QED  BY <2>1, <2>2 DEF Fields, Job, JobInv, IInv, TypeOK
<1>. QED  BY <1>1, <1>3, <1>4, <1>5, <1>6, EarlyStep

(* The rename adds a whole file; pruning keeps the newest.                 *)
LEMMA RenamePruneStep ==
    ASSUME IInv, Rename \/ Prune
    PROVE  IInv'
<1>1. UNCHANGED <<db, now, restore, hist>>
  BY DEF Rename, Prune
<1>2. job \in Job /\ DOMAIN snaps \subseteq Time /\ snaps \in [DOMAIN snaps -> Snapshot]
  BY DEF IInv, TypeOK
<1>3. CASE Rename
  <2>1. job' = Fields("renamed", {}, {}, job.stale, {}, FALSE, 0)
    BY <1>3 DEF Rename, NoJob, Fields
  <2>2. job.step = "writing" /\ job.created \in Time /\ job.stale \subseteq Domain
    BY <1>2, <1>3 DEF Rename, Job
  <2>3. /\ DOMAIN snaps' = DOMAIN snaps \union {job.created}
        /\ snaps' = [t \in DOMAIN snaps' |-> snaps'[t]]
        /\ snaps'[job.created] = [records |-> job.records, whole |-> TRUE,
                                  corpusEmpty |-> job.corpusEmpty]
        /\ \A t \in DOMAIN snaps \ {job.created} : snaps'[t] = snaps[t]
    BY <1>3 DEF Rename
  <2>4. snaps'[job.created] \in Snapshot
    BY <1>2, <2>3 DEF Snapshot, Job
  <2>5. \A t \in DOMAIN snaps' : snaps'[t] \in Snapshot
    BY <1>2, <2>3, <2>4
  <2>6. job' \in Job
    BY <2>1, <2>2, BoundsAssumption DEF Fields, Job, Time
  <2>7. TypeOK'
    BY <1>1, <1>2, <2>2, <2>3, <2>5, <2>6 DEF IInv, TypeOK
  <2>8. SnapsInv'
    BY <2>2, <2>3 DEF IInv, SnapsInv, JobInv
  <2>9. JobInv' /\ ConfirmInv'
    BY <2>1 DEF Fields, JobInv, ConfirmInv
  <2>. QED  BY <1>1, <2>7, <2>8, <2>9, JobStep DEF hist
<1>4. CASE Prune
  <2>1. job.step = "renamed" /\ (UNCHANGED job \/ job' = [job EXCEPT !.step = "pruned"])
    BY <1>4 DEF Prune
  <2>2. /\ DOMAIN snaps' \subseteq DOMAIN snaps
        /\ \A t \in DOMAIN snaps' : snaps'[t] = snaps[t]
        /\ snaps' = [t \in DOMAIN snaps' |-> snaps'[t]]
    <3>1. CASE UNCHANGED snaps
      BY <1>2, <3>1
    <3>2. CASE \E oldest \in Excess : snaps' = [t \in DOMAIN snaps \ {oldest} |-> snaps[t]]
      BY <3>2
    <3>. QED  BY <1>4, <3>1, <3>2 DEF Prune
  <2>3. job' \in Job
    BY <1>2, <2>1 DEF Job
  <2>4. TypeOK'
    BY <1>1, <1>2, <2>2, <2>3 DEF IInv, TypeOK
  <2>5. SnapsInv'
    BY <2>2 DEF IInv, SnapsInv
  <2>6. job'.step \in {"renamed", "pruned"} /\ job.confirmed = {} /\ job'.confirmed = {}
    BY <1>2, <2>1 DEF IInv, ConfirmInv, Job
  <2>7. JobInv' /\ ConfirmInv'
    BY <2>6 DEF JobInv, ConfirmInv
  <2>. QED  BY <1>1, <2>4, <2>5, <2>7, JobStep DEF hist
<1>. QED  BY <1>3, <1>4

(* Reaping deletes, and so writes no key that a restore has read.          *)
LEMMA ReapStep ==
    ASSUME IInv, (\E B \in SUBSET job.stale : Confirm(B)) \/ Reap \/ JobEnds
    PROVE  IInv'
<1>1. /\ UNCHANGED <<now, snaps, restore, sinceGet>>
      /\ \A d \in Domain : db'[d] \in {db[d], NoRec}
      /\ db' \in [Domain -> Record \union {NoRec}]
  BY DEF Confirm, Reap, JobEnds, IInv, TypeOK
<1>2. job \in Job /\ 0 \in Time
  BY BoundsAssumption DEF IInv, TypeOK, Time
<1>3. job' \in Job /\ job'.step \notin {"read", "writing"} /\ ConfirmInv'
  <2>1. ASSUME NEW B \in SUBSET job.stale, Confirm(B)
        PROVE  job' \in Job /\ job'.step \notin {"read", "writing"} /\ ConfirmInv'
    <3>1. /\ UNCHANGED db
          /\ job' = Fields("confirmed", job.keys, job.records, job.stale \ B, StillStale(B),
                           job.corpusEmpty, job.created)
      BY <1>2, <2>1 DEF Confirm, Fields, Job
    <3>2. /\ StillStale(B) \subseteq Domain
          /\ \A d \in StillStale(B) : db[d] # NoRec /\ db[d].schema = "stale"
      BY <1>2 DEF StillStale, Job
    <3>. QED  BY <1>2, <3>1, <3>2 DEF Fields, Job, ConfirmInv, IsCurrent
  <2>2. CASE Reap
    <3>1. job' = Fields("pruned", job.keys, job.records, job.stale, {}, job.corpusEmpty, job.created)
      BY <1>2, <2>2 DEF Reap, Fields, Job
    <3>. QED  BY <1>2, <3>1 DEF Fields, Job, ConfirmInv
  <2>3. CASE JobEnds
    BY <1>2, <2>3 DEF JobEnds, NoJob, Job, ConfirmInv
  <2>. QED  BY <2>1, <2>2, <2>3
<1>4. TypeOK' /\ SnapsInv'
  BY <1>1, <1>3 DEF IInv, TypeOK, SnapsInv
<1>5. RestoreInv'
  BY <1>1 DEF IInv, RestoreInv, FresherOrEqual, Saved
<1>. QED  BY <1>3, <1>4, <1>5 DEF IInv, JobInv

(* A restore writes what it read, where nothing was.                       *)
LEMMA RestoreStep ==
    ASSUME IInv, applyRestore
    PROVE  IInv'
<1>1. UNCHANGED <<now, snaps, job>>
  BY DEF applyRestore, loadLatestSnapshot, RestoreEnds, RestoreSkip, RestoreSet, WriteBack,
     RestoreGet, RestoreFails
<1>2. restore \in Restore /\ (restore.step = "got" => restore.cur \in Saved)
  BY DEF IInv, RestoreInv, TypeOK
<1>3. CASE RestoreSet
  <2>. DEFINE r == restore.cur
  <2>1. r \in Saved /\ r.domain \in Domain /\ r.last_fetch \in Time
    BY <1>2, <1>3 DEF RestoreSet, Saved
  <2>2. /\ db' = [db EXCEPT ![r.domain] = [schema |-> "current", last_fetch |-> r.last_fetch]]
        /\ restore' = [step |-> "next", todo |-> restore.todo \ {r}, cur |-> NoRec, live |-> NoRec]
        /\ job.step = "confirmed" => sinceConfirm' = sinceConfirm \union {r.domain}
    BY <1>3 DEF RestoreSet, WriteBack, Advance, NoRestore
  <2>3. db' \in [Domain -> Record \union {NoRec}]
    BY <2>1, <2>2 DEF IInv, TypeOK, Record
  <2>4. restore' \in Restore
    BY <1>2, <2>2 DEF Restore
  <2>5. TypeOK'
    BY <1>1, <2>3, <2>4 DEF IInv, TypeOK
  <2>6. ConfirmInv'
    BY <1>1, <2>1, <2>2 DEF IInv, ConfirmInv, IsCurrent, TypeOK, Job
  <2>7. RestoreInv'
    BY <2>2 DEF RestoreInv
  <2>. QED  BY <1>1, <2>5, <2>6, <2>7 DEF IInv, SnapsInv, JobInv
<1>4. ASSUME UNCHANGED <<db, sinceConfirm>>, restore' \in Restore, RestoreInv'
      PROVE  IInv'
  BY <1>1, <1>4 DEF IInv, TypeOK, SnapsInv, JobInv, ConfirmInv, IsCurrent
<1>5. ASSUME NEW r \in restore.todo, RestoreGet(r)
      PROVE  restore' \in Restore /\ RestoreInv'
  <2>1. /\ restore' = [step |-> "got", todo |-> restore.todo, cur |-> r, live |-> db[r.domain]]
        /\ UNCHANGED db
    BY <1>2, <1>5 DEF RestoreGet, Restore
  <2>2. r \in Saved /\ db[r.domain] \in Record \union {NoRec}
    BY <1>2 DEF IInv, TypeOK, Saved, Restore
  <2>. QED  BY <1>2, <2>1, <2>2 DEF Restore, RestoreInv
<1>6. ASSUME loadLatestSnapshot
      PROVE  restore' \in Restore /\ RestoreInv'
  <2>1. Newest \in DOMAIN snaps
    BY <1>6, NewestExists DEF loadLatestSnapshot, Newest, IInv, TypeOK
  <2>2. snaps[Newest].records \subseteq Saved
    BY <2>1 DEF IInv, TypeOK, Snapshot
  <2>3. PICK todo \in SUBSET Saved :
          restore' = [step |-> "next", todo |-> todo, cur |-> NoRec, live |-> NoRec]
    BY <1>6, <2>2 DEF loadLatestSnapshot, NoRestore
  <2>. QED  BY <2>3 DEF Restore, RestoreInv
<1>7. ASSUME NEW r \in Saved, restore' \in {NoRestore, Advance(r)}
      PROVE  restore' \in Restore /\ RestoreInv'
  <2>1. PICK todo \in SUBSET Saved, step \in {"idle", "next"} :
          restore' = [step |-> step, todo |-> todo, cur |-> NoRec, live |-> NoRec]
    BY <1>2, <1>7 DEF NoRestore, Advance, Restore
  <2>. QED  BY <2>1 DEF Restore, RestoreInv
<1>8. CASE RestoreEnds
  BY <1>2, <1>4, <1>8 DEF RestoreEnds, NoRestore, Restore, RestoreInv
<1>9. CASE RestoreSkip
  BY <1>2, <1>4, <1>7, <1>9 DEF RestoreSkip
<1>10. CASE \E r \in restore.todo : RestoreFails(r)
  BY <1>2, <1>4, <1>7, <1>10 DEF RestoreFails, Restore
<1>11. CASE loadLatestSnapshot
  BY <1>4, <1>6, <1>11 DEF loadLatestSnapshot, hist
<1>12. CASE \E r \in restore.todo : RestoreGet(r)
  BY <1>4, <1>5, <1>12 DEF RestoreGet
<1>. QED  BY <1>3, <1>8, <1>9, <1>10, <1>11, <1>12 DEF applyRestore

(* Nothing changes.                                                        *)
LEMMA StutterStep ==
    ASSUME IInv, UNCHANGED vars
    PROVE  IInv'
BY DEF vars, hist, IInv, TypeOK, SnapsInv, JobInv, ConfirmInv, RestoreInv, IsCurrent, FresherOrEqual

(* The strengthened invariant holds of every behaviour of job and restore. *)
THEOREM DurabilityInvariant == Spec => []IInv
<1>1. IInv /\ [Next]_vars => IInv'
  <2>. SUFFICES ASSUME IInv, [Next]_vars PROVE IInv'
    OBVIOUS
  <2>1. CASE (\E d \in Domain : updateRecord(d) \/ Vanish({d})) \/ Vanish(Domain) \/ Tick
    <3>1. (\E d \in Domain : updateRecord(d)) \/ (\E D \in SUBSET Domain : Vanish(D)) \/ Tick
      BY <2>1
    <3>. QED  BY <3>1, ServerStep
  <2>2. CASE Maintenance
    BY <2>2, ScanReadStep, RenamePruneStep, ReapStep DEF Maintenance
  <2>3. CASE applyRestore
    BY <2>3, RestoreStep
  <2>4. CASE UNCHANGED vars
    BY <2>4, StutterStep
  <2>. QED  BY <2>1, <2>2, <2>3, <2>4 DEF Next
<1>. QED  BY InitIInv, <1>1, PTL DEF Spec

-----------------------------------------------------------------------------
(* Every variable keeps its type: see TypeOK.                              *)
THEOREM DurabilityTypeCorrect == Spec => []TypeOK
<1>1. IInv => TypeOK
  BY DEF IInv
<1>. QED  BY DurabilityInvariant, <1>1, PTL

(* Wherever the job dies, the newest file is a whole snapshot.             *)
THEOREM RestorePointAlwaysWhole == Spec => []RestorePointWhole
<1>1. IInv => RestorePointWhole
  BY NewestExists DEF IInv, TypeOK, SnapsInv, RestorePointWhole, Newest
<1>. QED  BY DurabilityInvariant, <1>1, PTL

(* No outage becomes an empty snapshot.                                    *)
THEOREM EmptyIsNeverFalse == Spec => []NoFalseEmptySnapshot
<1>1. IInv => NoFalseEmptySnapshot
  BY DEF IInv, SnapsInv, NoFalseEmptySnapshot
<1>. QED  BY DurabilityInvariant, <1>1, PTL

-----------------------------------------------------------------------------
(* A live record that the reaper destroys was written after its re-check.  *)
THEOREM ReapAlwaysSpares == Spec => ReapSparesTheConfirmed
<1>1. IInv /\ [Next]_vars =>
        [\A d \in job.confirmed :
            (job' # job /\ IsCurrent(d) /\ db'[d] = NoRec) => d \in sinceConfirm]_vars
  BY DEF IInv, ConfirmInv
<1>. QED  BY DurabilityInvariant, <1>1, PTL DEF Spec, ReapSparesTheConfirmed

(* A fresher record that the restore overwrites was written after the      *)
(* restore read the key.                                                   *)
THEOREM RestoreAlwaysSpares == Spec => RestoreSparesTheRead
<1>1. ASSUME IInv, Next, restore.step = "got", db' # db, restore'.step = "next",
             FresherOrEqual(db[restore.cur.domain], restore.cur)
      PROVE  restore.cur.domain \in sinceGet
  <2>1. ~FresherOrEqual(restore.live, restore.cur)
    <3>1. CASE applyRestore
      BY <1>1, <3>1 DEF applyRestore, loadLatestSnapshot, RestoreEnds, RestoreSkip, RestoreSet,
         RestoreGet, RestoreFails, hist
    <3>2. CASE ~applyRestore
      BY <1>1, <3>2 DEF Next, updateRecord, Vanish, Tick, Maintenance, Scan, Read, Unavailable,
         WriteTemp, Rename, Prune, Confirm, Reap, JobEnds
    <3>. QED  BY <3>1, <3>2
  <2>. QED  BY <1>1, <2>1 DEF IInv, RestoreInv
<1>2. IInv /\ [Next]_vars =>
        [(restore.step = "got" /\ db' # db /\ restore'.step = "next"
            /\ FresherOrEqual(db[restore.cur.domain], restore.cur))
            => restore.cur.domain \in sinceGet]_vars
  BY <1>1
<1>. QED  BY DurabilityInvariant, <1>2, PTL DEF Spec, RestoreSparesTheRead
=============================================================================
