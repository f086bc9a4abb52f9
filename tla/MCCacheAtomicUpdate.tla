------------------------ MODULE MCCacheAtomicUpdate ------------------------
(***************************************************************************)
(* Instances of CacheAtomicUpdate for TLC.                                 *)
(***************************************************************************)
EXTENDS CacheAtomicUpdate, TLC

CONSTANTS p1, p2, u1, u2, u3

(* Two calls in one process contend with one call of another.              *)
TwoAndOne == (u1 :> p1) @@ (u2 :> p1) @@ (u3 :> p2)
(* One process on its own, as the shared container is deployed.            *)
TwoAlone == (u1 :> p1) @@ (u2 :> p1)
=============================================================================
