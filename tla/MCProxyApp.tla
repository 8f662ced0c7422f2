----------------------------- MODULE MCProxyApp -----------------------------
(***************************************************************************)
(* Instances of ProxyApp for TLC: which configurations the operator may    *)
(* write.                                                                  *)
(***************************************************************************)
EXTENDS ProxyApp

CONSTANTS v1, v2, r1, r2, a1, reader, p

MCVersions == {v1, v2}
MCPlain == {r1, r2}
MCAliases == {a1}
MCRoleNames == {reader}
MCPatterns == {p}

Reader(family) == [r \in {reader} |-> family]

Block(auth, plain, aliases, roles, archived, version) ==
  [auth |-> auth, common |-> [plain |-> plain, aliases |-> aliases],
   roles |-> roles, archived |-> archived, version |-> version]

\* Every mode of auth, with the pair changed and removed, over an app left
\* otherwise unmanaged.
CredentialConfigs ==
  {c \in {Block(a, Null, Null, Null, Null, v) : a \in Auth \cup {Null},
                                                v \in MCVersions \cup {Null}} :
     ValidConfig(c) /\ (c.auth = Null => c.version # v2)}

\* Configurations that manage everything, or roles and archived to clear them,
\* or that ask for what the wire cannot say.
ManagingConfigs ==
  {Block("headers", r2, a1, Reader(p), TRUE, v1),
   Block("oauth", Null, Null, NoRoles, FALSE, Null),
   Block(Null, Null, EmptyList, Reader(EmptyList), Null, v1)}

MCConfigs == CredentialConfigs \cup ManagingConfigs
=============================================================================
