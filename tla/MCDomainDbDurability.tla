----------------------- MODULE MCDomainDbDurability -----------------------
(***************************************************************************)
(* Instances of DomainDbDurability for TLC.                                *)
(***************************************************************************)
EXTENDS DomainDbDurability, TLC

CONSTANTS d1, d2

Hosts == Permutations(Domain)
=============================================================================
