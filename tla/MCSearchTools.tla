--------------------------- MODULE MCSearchTools ---------------------------
(***************************************************************************)
(* Instances of SearchTools for TLC.                                       *)
(***************************************************************************)
EXTENDS SearchTools

CONSTANTS a, b, x, en, de

(* b is boosted for everyone, but not for the profile that blocks it.      *)
OneProfile == {[block |-> {a}, boost |-> {b}, profileBlock |-> {b}, profileBoost |-> {}]}

(* b passes a threshold of 2 by its date, but not by its relevance.        *)
Scores == [r \in {a, b, x} |-> CASE r = a -> 2 [] r = b -> 1 [] r = x -> 0]
=============================================================================
