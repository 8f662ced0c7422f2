------------------------------- MODULE MCGrant ------------------------------
(***************************************************************************)
(* Instances of Grant for TLC: two addresses for the pair, a role in each  *)
(* mode, the built-in role, and an inline item whose pattern may end in    *)
(* the wire's suffix.                                                      *)
(***************************************************************************)
EXTENDS Grant

CONSTANTS x1, x2, reader, writer, tool

Role(r) == [base |-> r, suffix |-> 0]

MCAddresses == {x1, x2}
MCNames == {reader, writer}
MCInline == {tool}
MCConfigs ==
  {[allow |-> {Role(reader)}, approval |-> {Role(writer)}],
   [allow |-> {Role(All)}, approval |-> {}],
   [allow |-> {[base |-> tool, suffix |-> 1]}, approval |-> {}]}
=============================================================================
