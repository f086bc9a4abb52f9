-------------------------- MODULE MCSearxFailover --------------------------
(***************************************************************************)
(* Instances of SearxFailover for TLC.                                     *)
(***************************************************************************)
EXTENDS SearxFailover

CONSTANTS i1, i2, c1, c2

Two == <<i1, i2>>
=============================================================================
