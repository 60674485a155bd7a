--------------------------- MODULE MCAccountPolicy ---------------------------
(***************************************************************************)
(* TLC instances of AccountPolicy: three months of two instants, an expiry *)
(* in the middle of the second month, a quota of two bytes.                *)
(***************************************************************************)
EXTENDS AccountPolicy

MCQuotas == {0, 2}
MCExpiries == {0, 3}
==============================================================================
