--------------------------- MODULE MCHttpSessions ---------------------------
(***************************************************************************)
(* Instances of HttpSessions for TLC.                                      *)
(***************************************************************************)
EXTENDS HttpSessions

CONSTANTS s1, s2, s3, r1, r2
=============================================================================
