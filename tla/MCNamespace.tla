----------------------------- MODULE MCNamespace ----------------------------
(***************************************************************************)
(* An instance of Namespace for TLC: the hub's default name and another,   *)
(* and as many token ids as the faults can use up.                         *)
(***************************************************************************)
EXTENDS Namespace

CONSTANTS n1, n2, t1, t2, t3

MCNotes == {n1, n2}
MCTokenIds == {t1, t2, t3}

Blocks(agent, others) == [agent |-> agent, grant |-> others, token |-> others]

MCConfigs == {Blocks(Null, FALSE), Blocks(n2, TRUE),
              Blocks(Omitted, TRUE), Blocks(n2, FALSE)}
=============================================================================
