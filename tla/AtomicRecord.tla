---------------------------- MODULE AtomicRecord ----------------------------
(***************************************************************************)
(* What cacheAtomicUpdate promises its callers (src/cache.ts): a record    *)
(* that is only ever changed by whole read-modify-write updates, each of   *)
(* them applied at most once and on top of everything applied before it,   *)
(* and that may disappear as a whole (TTL, DEL, flush).                    *)
(*                                                                         *)
(* The record is the sequence of the updates that made it, so an update    *)
(* that overwrites another one, or is applied twice, is visible.           *)
(***************************************************************************)
EXTENDS Sequences

CONSTANTS
    Upd,        \* the updates callers may ask for, one per call
    NoValue     \* what GET answers for a missing key

VARIABLES
    record,     \* NoValue or the sequence of updates the stored value reflects
    applied     \* every update ever applied, whatever became of the record

avars == <<record, applied>>

(* A mutate function starts from an empty record when there is none.       *)
Base(v) == IF v = NoValue THEN <<>> ELSE v

AInit ==
    /\ record \in {NoValue, <<>>}
    /\ applied = {}

Apply(u) ==
    /\ u \notin applied
    /\ record' = Append(Base(record), u)
    /\ applied' = applied \union {u}

Disappear ==
    /\ record # NoValue
    /\ record' = NoValue
    /\ UNCHANGED applied

ANext == Disappear \/ \E u \in Upd : Apply(u)

ASpec == AInit /\ [][ANext]_avars
=============================================================================
