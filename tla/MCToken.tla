------------------------------- MODULE MCToken ------------------------------
(***************************************************************************)
(* Instances of Token for TLC: four ids, so that a creation, its failure   *)
(* and its replacement can overlap with a token issued by hand; a          *)
(* generation with a rotation and one without.                             *)
(***************************************************************************)
EXTENDS Token

CONSTANTS t1, t2, t3, t4, g1

MCIds == {t1, t2, t3, t4}
MCGenerations == {g1, Unset}
=============================================================================
