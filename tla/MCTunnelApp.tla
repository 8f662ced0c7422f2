----------------------------- MODULE MCTunnelApp ----------------------------
(***************************************************************************)
(* Instances of TunnelApp for TLC: roles managed or not, set or cleared,   *)
(* with a family given, left out or emptied, beside the other attributes   *)
(* managed or not.                                                         *)
(***************************************************************************)
EXTENDS TunnelApp

CONSTANTS reader, p, r1, r2, a1

MCRoleNames == {reader}
MCPatterns == {p}
MCPlain == {r1, r2}
MCAliases == {a1}

Reader(family) == [r \in {reader} |-> family]

Block(plain, aliases, roles, archived) ==
  [common |-> [plain |-> plain, aliases |-> aliases], roles |-> roles,
   archived |-> archived]

MCConfigs ==
  {Block(r, Null, m, Null) : r \in {Null, r2},
                             m \in {Null, NoRoles, Reader(p), Reader(Null)}}
  \cup {Block(r, Null, Null, TRUE) : r \in {Null, r2}}
  \cup {Block(r2, a1, Reader(p), FALSE),
        Block(Null, Null, Reader(EmptyList), Null),
        Block(Null, EmptyList, Null, Null)}

\* Without the empty list and map, for what goes wrong all the same.
MCNotEmpty == {c \in MCConfigs : ~AsksForEmpty(c)}
=============================================================================
