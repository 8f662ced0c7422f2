------------------------------ MODULE Coverage ------------------------------
(***************************************************************************)
(* The parity oracle (internal/coverage, cmd/coverage-check) and the two   *)
(* repositories it gates.                                                  *)
(*                                                                         *)
(* The hub keeps a contract fixture, the operations and input fields it    *)
(* declares.  The provider keeps a pinned copy of it, and staged.json, the *)
(* operations and fields it supports ahead of the hub.  A commit of the    *)
(* provider is checked against the pin with the expiry rule (-strict); a   *)
(* commit of the hub is checked by the provider's main against the hub's   *)
(* new fixture, without it.  So each repository can refuse the other's     *)
(* half of a change, and each looks at a copy of the other that may be     *)
(* old.                                                                    *)
(*                                                                         *)
(* The scenarios that drive the provider are drivers.go's, in full; the    *)
(* contract is a set of targets, an operation or one of its fields.  A     *)
(* commit is atomic: what is on a main branch has passed its gate.         *)
(* Authors, reviewers and the hub's repository are external.               *)
(***************************************************************************)
EXTENDS Naturals, Sequences

CONSTANTS
  Whole,       \* the field slot of a target that is an operation
  Scenarios,   \* the resources that are driven, a part of allDrivers or all of it
  Home,        \* the resource whose Update first calls a new operation
  Schema,      \* the fields each operation has when it is first declared
  Required,    \* the targets that a call may not leave out once declared
  Pinned,      \* the fixture both repositories start from
  Features,    \* targets that may be added or taken away again
  Excusable,   \* operations that may get an `unmanaged' row
  MaxCommits   \* bound: commits other than shipping, landing and bumping

Target(op, field) == [op |-> op, field |-> field]
Operation(op) == Target(op, Whole)
IsOp(t) == t.field = Whole

ASSUME ConstantsAssumption ==
  /\ \A t \in Pinned \cup Features \cup Required : t = Target(t.op, t.field)
  /\ \A t \in Pinned : Operation(t.op) \in Pinned
  /\ MaxCommits \in Nat

(***************************************************************************)
(* What the scenarios make the provider call, by resource and path: the    *)
(* operation and the names of the arguments.                               *)
(***************************************************************************)
Call(op, args) == [op |-> op, args |-> args]

driveAgent ==
  [Create |-> <<Call("agent_create", {"slug", "name", "description"})>>,
   Read   |-> <<Call("agent_list", {})>>,
   Update |-> <<Call("agent_update", {"slug", "name", "description"})>>,
   Delete |-> <<Call("agent_delete", {"slug"})>>]

Common == {"slug", "name", "description", "log_bodies", "redact", "redact_results"}

driveTunnelApp ==
  [Create |-> <<Call("app_create", Common \cup {"kind", "owner_roles"}),
                Call("app_archive", {"slug"})>>,
   Read   |-> <<Call("app_get", {"slug"})>>,
   Update |-> <<Call("app_update", Common \cup {"owner_roles"}),
                Call("app_unarchive", {"slug"})>>,
   Delete |-> <<Call("app_delete", {"slug"})>>]

Proxied == Common \cup {"endpoint", "auth", "forward_identity", "roles",
                        "capabilities", "typescript_aliases"}

driveProxyApp ==
  [Create |-> <<Call("app_create", Proxied \cup {"kind"}),
                Call("app_set_upstream_auth", {"slug", "headers"})>>,
   Read   |-> <<Call("app_get", {"slug"})>>,
   Update |-> <<Call("app_update", Proxied),
                Call("app_set_upstream_auth", {"slug", "headers"})>>,
   Delete |-> <<Call("app_delete", {"slug"})>>]

driveGrant ==
  LET Set == <<Call("app_get", {"slug"}), Call("grant_set", {"agent", "app", "roles"})>>
  IN  [Create |-> Set,
       Read   |-> <<Call("agent_list", {})>>,
       Update |-> Set,
       Delete |-> <<Call("grant_set", {"agent", "app", "roles"})>>]

driveToken ==
  [Create |-> <<Call("token_issue", {"kind", "slug", "expires_in"}),
                Call("token_list", {})>>,
   Read   |-> <<Call("token_list", {})>>,
   Update |-> <<>>,
   Delete |-> <<Call("token_revoke", {"id"})>>]

driveHubSettings ==
  LET Write == <<Call("hub_settings_update", {"default_timeout_ms", "max_timeout_ms"})>>
  IN  [Create |-> Write, Read |-> <<Call("hub_settings_get", {})>>,
       Update |-> Write, Delete |-> Write]

driveAppDataSource == [Read |-> <<Call("app_get", {"slug"})>>]
driveAgentDataSource == [Read |-> <<Call("agent_list", {})>>]
driveTokensDataSource == [Read |-> <<Call("token_list", {})>>]

allDrivers ==
  [pmcp_agent |-> driveAgent, pmcp_tunnel_app |-> driveTunnelApp,
   pmcp_proxy_app |-> driveProxyApp, pmcp_grant |-> driveGrant,
   pmcp_token |-> driveToken, pmcp_hub_settings |-> driveHubSettings,
   data_pmcp_app |-> driveAppDataSource, data_pmcp_agent |-> driveAgentDataSource,
   data_pmcp_tokens |-> driveTokensDataSource]

unmanagedReasons ==
  {"admin_token_issue", "admin_token_list", "admin_token_revoke",
   "approval_list", "approval_decide", "connection_list", "connection_revoke",
   "app_disconnect", "audit_query", "app_list"}

\* The scenarios' expectations: the operations of each path, in order.
OpsOf(cs) ==
  [r \in DOMAIN cs |->
    [p \in DOMAIN cs[r] |-> [i \in DOMAIN cs[r][p] |-> cs[r][p][i].op]]]

VARIABLES
  calls,      \* provider's main: what its scenarios make it call
  want,       \* provider's main: the expectations the scenarios declare
  unmanaged,  \* provider's main: the operations with an `unmanaged' row
  staged,     \* provider's main: coverage/staged.json
  pin,        \* provider's main: its copy of the fixture
  fixture,    \* hub's main: the contract
  commits     \* the budget used

provider == <<calls, want, unmanaged, staged, pin>>
vars == <<calls, want, unmanaged, staged, pin, fixture, commits>>

TypeOK ==
  /\ DOMAIN calls = DOMAIN want
  /\ unmanaged \subseteq unmanagedReasons \cup Excusable
  /\ staged \subseteq Features
  /\ \A t \in pin \cup fixture : t = Target(t.op, t.field)
  /\ \A t \in pin : Operation(t.op) \in pin
  /\ \A t \in fixture : Operation(t.op) \in fixture
  /\ commits \in 0 .. MaxCommits
-----------------------------------------------------------------------------
(* Check. *)

Recorded(cs) ==
  UNION {UNION {{cs[r][p][i] : i \in DOMAIN cs[r][p]} : p \in DOMAIN cs[r]} :
           r \in DOMAIN cs}

ReachedOps(cs) == {c.op : c \in Recorded(cs)}

\* The union of the arguments of an operation's recorded calls.
Sent(cs) == UNION {{Target(c.op, f) : f \in c.args} : c \in Recorded(cs)}

\* Mutant: the fake accepts any argument the contract does not know.
UnknownsPass(contract, stg, c) ==
  \A t \in Required :
    t.op = c.op /\ t \in contract => t.field \in c.args \/ t \in stg

\* Mutant: a required field is demanded although its entry says it is to come.
RequiredAtOnce(contract, stg, c) ==
  /\ \A t \in Required :
       t.op = c.op /\ t \in contract => t.field \in c.args
  /\ \A f \in c.args : Target(c.op, f) \in contract \/ Target(c.op, f) \in stg

validateArgs(contract, stg, c) ==
  /\ \A t \in Required :
       t.op = c.op /\ t \in contract => t.field \in c.args \/ t \in stg
  /\ \A f \in c.args : Target(c.op, f) \in contract \/ Target(c.op, f) \in stg

validate(contract, stg, c) ==
  IF Operation(c.op) \in contract
  THEN validateArgs(contract, stg, c)
  ELSE Operation(c.op) \in stg

\* Mutant: an entry for one field excuses every field of its operation.
EntryExcusesAll(contract, reached, sent, unm, stg) ==
  \A t \in contract :
    \/ IsOp(t) \/ t \in sent \/ \E u \in stg : u.op = t.op
    \/ t.op \notin reached \/ t.op \in unm

FieldCoverage(contract, reached, sent, unm, stg) ==
  \A t \in contract :
    \/ IsOp(t) \/ t \in sent \/ t \in stg
    \/ t.op \notin reached \/ t.op \in unm \/ Operation(t.op) \in stg

Totality(contract, reached, unm, stg) ==
  \A t \in contract :
    IsOp(t) => t.op \in reached \/ t.op \in unm \/ t \in stg

expiryViolations(contract, stg) == stg \cap contract

Check(contract, cs, exp, unm, stg, strict) ==
  /\ strict => expiryViolations(contract, stg) = {}
  /\ OpsOf(cs) = exp
  /\ \A c \in Recorded(cs) : validate(contract, stg, c)
  /\ LET reached == ReachedOps(cs)
         sent    == Sent(cs)
     IN  /\ FieldCoverage(contract, reached, sent, unm, stg)
         /\ Totality(contract, reached, unm, stg)

\* Mutant: the hub's invocation runs the expiry rule too.
StrictBoth == Check(fixture, calls, want, unmanaged, staged, TRUE)

\* The two invocations: this repository's CI, and the hub's.
ProviderGreen == Check(pin, calls, want, unmanaged, staged, TRUE)
HubGreen == Check(fixture, calls, want, unmanaged, staged, FALSE)
-----------------------------------------------------------------------------
(* Commits. *)

Supports(t) ==
  IF IsOp(t) THEN t.op \in ReachedOps(calls) ELSE t \in Sent(calls)

\* Append, which this is of a sequence.
Extended(s, e) ==
  [i \in DOMAIN s \cup {Len(s) + 1} |-> IF i \in DOMAIN s THEN s[i] ELSE e]

\* A new operation is first called at the end of a resource's Update; a new
\* field goes into every call of its operation.
WithSupport(t) ==
  IF IsOp(t)
  THEN [calls EXCEPT ![Home]["Update"] = Extended(@, Call(t.op, Schema[t.op]))]
  ELSE [r \in DOMAIN calls |-> [p \in DOMAIN calls[r] |->
         [i \in DOMAIN calls[r][p] |->
            IF calls[r][p][i].op = t.op
            THEN Call(t.op, calls[r][p][i].args \cup {t.field})
            ELSE calls[r][p][i]]]]

WithoutSupport(t) ==
  [r \in DOMAIN calls |-> [p \in DOMAIN calls[r] |->
    IF IsOp(t)
    THEN SelectSeq(calls[r][p], LAMBDA c : c.op # t.op)
    ELSE [i \in DOMAIN calls[r][p] |->
            IF calls[r][p][i].op = t.op
            THEN Call(t.op, calls[r][p][i].args \ {t.field})
            ELSE calls[r][p][i]]]]

\* What the hub may declare at once: a field, or an operation with the fields
\* it needs and any of those that may be added to it.
Bundles(t) ==
  IF IsOp(t)
  THEN {{Operation(t.op)} \cup {Target(t.op, f) : f \in Schema[t.op]} \cup more :
          more \in SUBSET {u \in Features : u.op = t.op /\ ~IsOp(u)}}
  ELSE {{t}}

Init ==
  /\ calls = Scenarios /\ want = OpsOf(Scenarios)
  /\ unmanaged = unmanagedReasons /\ staged = {}
  /\ pin = Pinned /\ fixture = Pinned /\ commits = 0
  /\ ProviderGreen

Spend == commits < MaxCommits /\ commits' = commits + 1

\* Mutant: what is checked is the tree before the commit.
ChecksOldTree == UNCHANGED fixture /\ ProviderGreen

\* The gate of this repository: its own pin, with the expiry rule.
ProviderCommit == UNCHANGED fixture /\ ProviderGreen'

\* The provider ships support for t, with an entry in staged.json where its
\* pin does not have t yet.  The author may leave out the entry or the new
\* expectation; the gate says when that is an error.
Ship(t) ==
  /\ ~Supports(t)
  /\ IsOp(t) \/ t.op \in ReachedOps(calls)
  /\ calls' = WithSupport(t)
  /\ want' \in {want, OpsOf(calls')}
  /\ staged' \in {staged, staged \cup {t}}
  /\ UNCHANGED <<unmanaged, pin, commits>>
  /\ ProviderCommit

\* An entry whose support is not written yet, or never will be.
StageAhead(t) ==
  /\ staged' = staged \cup {t} /\ staged' # staged
  /\ Spend /\ UNCHANGED <<calls, want, unmanaged, pin>>
  /\ ProviderCommit

\* Support and entry are taken back.
Withdraw(t) ==
  /\ Supports(t)
  /\ calls' = WithoutSupport(t) /\ want' = OpsOf(calls')
  /\ staged' = staged \ {t}
  /\ Spend /\ UNCHANGED <<unmanaged, pin>>
  /\ ProviderCommit

\* A row is added to the unmanaged table, or removed from it.
Excuse(op) ==
  /\ unmanaged' = IF op \in unmanaged THEN unmanaged \ {op} ELSE unmanaged \cup {op}
  /\ Spend /\ UNCHANGED <<calls, want, staged, pin>>
  /\ ProviderCommit

\* The pin is brought up to the hub's main and the entries it has caught up
\* with are dropped, in one commit.
Bump ==
  /\ pin # fixture
  /\ pin' = fixture /\ staged' = staged \ fixture
  /\ UNCHANGED <<calls, want, unmanaged, commits>>
  /\ ProviderCommit

\* The gate of the hub's repository: the provider's main, without expiry.
HubCommit == UNCHANGED provider /\ HubGreen'

Land(t) ==
  /\ t \notin fixture
  /\ IsOp(t) \/ Operation(t.op) \in fixture
  /\ \E new \in Bundles(t) : fixture' = fixture \cup new
  /\ HubCommit
  /\ UNCHANGED commits

Retire(t) ==
  /\ t \in fixture
  /\ fixture' = IF IsOp(t) THEN {u \in fixture : u.op # t.op}
                                       ELSE fixture \ {t}
  /\ HubCommit /\ Spend

Next ==
  \/ \E t \in Features : \/ Ship(t) \/ StageAhead(t) \/ Withdraw(t)
                         \/ Land(t) \/ Retire(t)
  \/ \E op \in Excusable : Excuse(op)
  \/ Bump

Spec == Init /\ [][Next]_vars

\* The landing order of staged.json: what is staged gets its support, the hub
\* lands it, and the pin follows.
Handoff == Bump \/ \E t \in staged : Ship(t) \/ Land(t)

FairSpec == Spec /\ WF_vars(Handoff)
-----------------------------------------------------------------------------
(* Properties. *)

\* Nothing that a contract declares rests on a staged entry: every managed
\* operation is called, with every field, and every call has what is required.
Covered(contract) ==
  /\ \A t \in contract : t.op \notin unmanaged => Supports(t)
  /\ \A c \in Recorded(calls), t \in Required \cap contract :
       t.op = c.op => t.field \in c.args

\* What the pin declares is covered on the provider's main.  Three rules that
\* each exempt something have to fit together for that: the whole-operation
\* exemption of field coverage, the exemption of a missing required field,
\* and expiry.
PinCovered == Covered(pin)

\* Support for what is staged passes this repository's gate, at any time.
ShipPasses ==
  \A t \in staged :
    ~Supports(t) /\ (IsOp(t) \/ t.op \in ReachedOps(calls)) =>
      Check(pin, WithSupport(t), OpsOf(WithSupport(t)), unmanaged, staged, TRUE)

\* What is staged may land on a hub that is green: a field in any case, an
\* operation if the calls already made fit the fields it lands with.
LandPasses ==
  \A t \in staged \ fixture : HubGreen =>
    \A new \in Bundles(t) :
      /\ IsOp(t) \/ Operation(t.op) \in fixture
      /\ \A c \in Recorded(calls) :
           IsOp(t) /\ c.op = t.op => validateArgs(fixture \cup new, staged, c)
      => Check(fixture \cup new, calls, want, unmanaged, staged, FALSE)

\* The pin may follow a green hub exactly when what the hub declares by now is
\* covered without the entries that go with the bump.
BumpPasses ==
  Check(fixture, calls, want, unmanaged, staged \ fixture, TRUE)
    <=> HubGreen /\ Covered(fixture)

\* At no point of a handoff does each gate wait for the other repository: the
\* provider may always ship what it staged, a green hub may land it, and the
\* pin may follow once it is covered.  (The landing order of staged.json.)
NoLockout == ShipPasses /\ LandPasses /\ BumpPasses

\* The hub cannot drop what the provider's pin still declares for a managed
\* operation, whatever is staged: the call that covers it would no longer
\* validate, and no entry may excuse it while it is pinned.
PinnedStays ==
  [][\A t \in fixture \cap pin : t.op \notin unmanaged => t \in fixture']_vars

Declared(contract, op) == {t \in contract : t.op = op}

\* What the provider's main says about one operation.
Answer(op) ==
  [calls     |-> {c \in Recorded(calls) : c.op = op},
   staged    |-> {t \in staged : t.op = op},
   unmanaged |-> op \in unmanaged]

\* A commit of the provider breaks the hub's main only over an operation on
\* which its pin is out of date: what the hub has landed since is no longer
\* supported or excused, what it has retired since is sent again, or -- behind
\* an entry for the whole operation, which lets any field pass here -- a field
\* is sent that the landed operation does not have.
HubBrokenByStalePin ==
  [][HubGreen /\ ~HubGreen' =>
       \E op \in {t.op : t \in fixture \cup pin'} :
         Declared(pin', op) # Declared(fixture, op) /\ Answer(op)' # Answer(op)]_vars

\* The two gates do not lock each other out: what the provider supports and
\* has staged is in the end pinned, unless it is taken back or a broken hub
\* stops the handoff.
Lands ==
  \A t \in Features :
    t \in staged /\ Supports(t) ~>
      t \in pin \/ ~Supports(t) \/ ~HubGreen
=============================================================================
