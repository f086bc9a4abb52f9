------------------------------ MODULE Filtering ------------------------------
(***************************************************************************)
(* Array.prototype.filter, by the positions that are kept.  (Of SelectSeq, *)
(* whose definition is recursive, TLAPS knows nothing.)                    *)
(***************************************************************************)
EXTENDS Naturals, Sequences, FiniteSets

(* The k-th of a set of positions. *)
Nth(keep, k) == CHOOSE i \in keep : Cardinality({j \in keep : j <= i}) = k

(* What s has at the positions keep, in the order of s. *)
Filter(s, keep) == [k \in 1..Cardinality(keep) |-> s[Nth(keep, k)]]
=============================================================================
