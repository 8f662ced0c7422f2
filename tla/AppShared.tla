------------------------------ MODULE AppShared -----------------------------
(***************************************************************************)
(* What the two app resources share (internal/provider/app_shared.go): how *)
(* the attributes that app_update patches are planned, put on the wire and *)
(* read back.  Operators only; ProxyApp and TunnelApp are the state.       *)
(*                                                                         *)
(* What comes back for a value that was sent is what the two resources     *)
(* depend on, and there are three answers:                                 *)
(*   plain    what was sent (name, description, redact, log_bodies;        *)
(*            endpoint and forward_identity of a proxied app);             *)
(*   aliases  what was sent; but absence is null, a null is not sent, and  *)
(*            a hub that is sent nothing keeps what it has (the children   *)
(*            of typescript_aliases, capabilities).  An empty `tools' is   *)
(*            dropped from the request as well;                            *)
(*   roles    a map that a write replaces whole, whose roles have lists    *)
(*            that are not sent when empty.                                *)
(* A role is one of its three families, the others given.                  *)
(***************************************************************************)
CONSTANTS
  Plain,         \* values of the plain attributes, taken as one
  DefaultPlain,  \* what the hub resolves them to when app_create omits them
  Aliases,       \* values of the aliases that are not empty
  RoleNames,     \* names of roles
  Patterns,      \* pattern lists that are not empty
  EmptyList,     \* an empty list or map
  Null,          \* the null value, and an object that does not exist
  Unknown        \* the plan's unknown value

\* commonAppModel as a row or the state has it, as the operator may write it,
\* and in the plan of a creation and of an update.
Common == [plain: Plain, aliases: Aliases \cup {Null}]
CommonWritten ==
  [plain: Plain \cup {Null}, aliases: Aliases \cup {EmptyList, Null}]
CommonCreated ==
  [plain: Plain \cup {Unknown}, aliases: Aliases \cup {EmptyList, Unknown}]
CommonUpdated == [plain: Plain, aliases: Aliases \cup {EmptyList, Null}]

\* rolesAttribute: a map of roles, each with a family left out, emptied or
\* given.
RoleMaps(Families) == UNION {[S -> Families] : S \in SUBSET RoleNames}
NoRoles == [r \in {} |-> Null]
Stored == RoleMaps(Patterns \cup {Null})
Written == RoleMaps(Patterns \cup {EmptyList, Null})
RolesCreated == RoleMaps(Patterns \cup {EmptyList, Unknown}) \cup {Unknown}

ASSUME DefaultAssumption == DefaultPlain \in Plain

ASSUME ValuesAssumption ==
  /\ {Null, Unknown} \cap Plain = {} /\ Null # Unknown
  /\ {EmptyList, Null, Unknown} \cap (Aliases \cup Patterns) = {}
  /\ EmptyList \notin {Null, Unknown}
  /\ {Null, Unknown} \cap (Written \cup
       RoleMaps(Patterns \cup {EmptyList, Unknown})) = {}

-----------------------------------------------------------------------------
(* Planning                                                                *)

\* Mutant: no plan modifier, so an omitted attribute is planned as null.
KeptNothing(configured, prior) == configured

\* UseStateForUnknown: an omitted optional+computed attribute keeps its value.
Kept(configured, prior) == IF configured = Null THEN prior ELSE configured

KeptCommon(c, s) ==
  [plain |-> Kept(c.plain, s.plain), aliases |-> Kept(c.aliases, s.aliases)]

Family(m, r) == IF m # Null /\ r \in DOMAIN m THEN m[r] ELSE Null

\* A family left out of a role keeps what the prior state has for it.
KeptRoles(configured, prior) ==
  IF configured = Null THEN prior
  ELSE [r \in DOMAIN configured |-> Kept(configured[r], Family(prior, r))]

\* In the plan of a creation what is left out is for the hub to resolve.
Resolvable(v) == IF v = Null THEN Unknown ELSE v

ResolvableCommon(c) ==
  [plain |-> Resolvable(c.plain), aliases |-> Resolvable(c.aliases)]

ResolvableRoles(configured) ==
  IF configured = Null THEN Unknown
  ELSE [r \in DOMAIN configured |-> Resolvable(configured[r])]

-----------------------------------------------------------------------------
(* The wire                                                                *)

\* appendCommonArgs: what a request makes of a value the hub has.
Sent(planned, established) ==
  IF planned \in Aliases THEN planned ELSE established

\* rolesToArgs, and RoleFamilies' omitempty: an empty list is not sent, and
\* patternList reads the family that the row lacks as null.
ToWire(m) == [r \in DOMAIN m |-> IF m[r] \in Patterns THEN m[r] ELSE Null]

CommonOfCreated(p) ==
  [plain |-> IF p.plain = Unknown THEN DefaultPlain ELSE p.plain,
   aliases |-> Sent(p.aliases, Null)]

RolesOfCreated(p) == IF p = Unknown THEN NoRoles ELSE ToWire(p)

CommonPatched(h, p) ==
  [plain |-> p.plain, aliases |-> Sent(p.aliases, h.aliases)]

\* What another client can turn them into; aliases have no unset.
CommonDrifted(h) ==
  [plain: Plain, aliases: {h.aliases}] \cup [plain: {h.plain}, aliases: Aliases]

-----------------------------------------------------------------------------
(* OpenTofu's comparison of what a handler returned with what was planned: *)
(* every value the plan showed as known has to come back.                  *)

EchoesCommon(p, m) ==
  p.plain \in {m.plain, Unknown} /\ p.aliases \in {m.aliases, Unknown}

EchoesRoles(p, m) ==
  \/ p \in {m, Unknown}
  \/ /\ p # Null /\ m # Null /\ DOMAIN p = DOMAIN m
     /\ \A r \in DOMAIN p : p[r] \in {m[r], Unknown}

\* A configuration asks for what cannot come back: an empty family, or aliases
\* with an empty map.
HasEmptyFamily(m) == m # Null /\ \E r \in DOMAIN m : m[r] = EmptyList

AsksForEmpty(c) ==
  c # Null /\ (c.common.aliases = EmptyList \/ HasEmptyFamily(c.roles))

\* A map shows what is configured, empty lists included.
Shows(configured, m) ==
  /\ m # Null /\ DOMAIN configured = DOMAIN m
  /\ \A r \in DOMAIN m : configured[r] \in {m[r], Null}
=============================================================================
