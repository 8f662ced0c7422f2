# A verification project for terraform-provider-pmcp

This directory holds TLA+ models of the OpenTofu provider for the pmcp hub, the TLC
configurations that check them on small instances, and TLAPS proofs, for every
instance, of every safety and action property those runs check, of both refinements,
and of bounds on the findings. It is kept beside the code; definitions carry the names of the functions they translate, and
`PROJECT.json` (`map`) gives the lines of each.

    tlc -config ProxyApp.cfg MCProxyApp     # one run
    tlapm ProxyAppProofs.tla               # the proofs

Contents: [the system](#the-system) · [hazards](#what-is-hard-here) ·
[the modules](#the-modules) · [the runs](#the-runs) · [bounds](#the-bounds) ·
[fairness](#fairness) · [the proofs](#the-proofs) · [findings](#findings) ·
[what is left out](#what-is-not-modelled) · [the plan](#the-plan)

## The system

The provider is a plugin process. OpenTofu plans a configuration against a
recorded state, and calls the provider's handlers: `ModifyPlan` while planning,
`Create`, `Update`, `Delete` while applying, `Read` while refreshing. Every
handler talks to one hub through one client, one admin operation per HTTP
request. There are three copies of the truth -- the hub's row, the object in the
state, the configuration -- and no transaction across them. Nothing is cached in
the plugin between calls: all it remembers is what it returns for the state.

| component | state | operations | interacts with |
|---|---|---|---|
| admin client (`internal/pmcp`) | a namespace resolved once, a request counter | `New`, `Admin`, one method per admin operation, `IsNotFound` | every handler; at most one attempt, 30 s, no idempotency key |
| `pmcp_proxy_app` | the row; `headers_version`, `headers_applied_version` (the witness) | Create (create, set headers, archive), Read, ModifyPlan, Update (patch, headers, archive), Delete, import | the hub's sealed headers, which no read returns; other clients of the hub |
| `pmcp_tunnel_app` | the row, with `owner_roles` | as above without headers | edits from the web UI; the app's own roles |
| `pmcp_agent` | name, description | create, update, delete | its deletion cascades to grants and tokens |
| `pmcp_grant` | `allow`, `approval` of a pair | Create = Update = check roles, then `grant_set`; Delete = `grant_set []`; Read; import | the app's roles; agent and app cascades; another address for the pair |
| `pmcp_token` | id, the only copy of the plaintext, dates | Create (issue, then list), Read, Delete (revoke), import; everything replaces | OpenTofu's two replacement orders; the consumer; tokens issued by hand |
| `pmcp_hub_settings` | two timeouts, a singleton | write, read, Delete = write the defaults | any other writer |
| data sources | none | one read each | |
| coverage oracle (`internal/coverage`) | the scenarios' calls and their expectations, staged and unmanaged entries, the pinned contract | `Check`, the expiry rule | the hub's repository, which runs the same check against its own contract |
| terranix module, flake, smoke hub | none | rendering, packaging, an end-to-end drive | |

What makes each correct:

* **proxy app** -- the witness is honest: it never names headers the hub did not
  accept, and while nobody touched the credential it names the ones sealed
  there; a plan without changes means the app works; a half-done apply loses
  nothing it did; repeated runs settle.
* **token** -- no working credential drops out of the state, the plaintext is
  never lost, a rotation never retires what the consumer uses, generations do
  not overlap unless asked to.
* **grant** -- the state says what the hub enforces, what was applied is what is
  read back, an undeclared role does not slip through, a pair wiped by another
  address heals.
* **tunnel app** -- an apply that does not manage `owner_roles` never writes it, one
  that does makes it what is configured, one that succeeds leaves no diff, and one
  that contradicts its plan has a reason outside the provider.
* **agent** -- what its deletion takes along is noticed, and only that; a run that
  reports success has done what it says; repeated runs get there.
* **hub settings** -- a plan that is shown is not refused at apply; a Delete that
  undoes another address's write is seen and healed.
* **client** -- absence and refusal are told apart; an error never hides an
  effect that a handler then forgets.
* **coverage oracle** -- no exemption hides what the pinned contract declares, the
  two gates do not lock each other out, and neither repository breaks the other
  but for a pin that is out of date.

## What is hard here

`PROJECT.json` lists every hazard at its line. The recurring ones:

* **An effect without an answer.** A request may be lost after it took effect:
  timeout, dropped connection, undecodable answer. Each model gives every
  request three outcomes (`Outcome`), and kills the run between any two steps;
  `Namespace` has every answer the wire can carry, and requests executed after
  they timed out.
* **Several requests, one handler.** Create and Update are up to three requests;
  what the earlier ones did has to reach the state when a later one fails.
* **Read, then act.** The plan was made from a refresh that others -- the web
  UI, a script, a cascade, another handler of the same run -- may overtake.
* **Values nobody can read back.** The headers and the tokens: correctness hangs
  on what the state remembers about them.
* **Two gates.** A change to the contract needs two repositories, each of which can
  refuse the other's half and looks at a copy of it that may be old.
* **Convergence.** A computed attribute that never meets its configured value is
  a diff on every run; `<>[]` properties look for those.

## The modules

| module | models | checked by |
|---|---|---|
| `AppShared` | `app_shared.go`: how what the two app resources share is planned, sent and read back: operators, no state | through `ProxyApp` and `TunnelApp`; `AppSharedProofs` |
| `ProxyApp` | `app_proxy.go`, over `AppShared` | `MCProxyApp`, `ProxyApp*.cfg`; `ProxyAppProofs` |
| `Sealing` | what the witness of a write-only secret promises, abstractly | refined by `ProxyApp`; `ProxyAppProofs` |
| `Token` | `token.go` and the lookups of `rows.go` it uses | `MCToken`, `Token.cfg`; `TokenProofs` |
| `Rotation` | what the rotation of a credential promises, abstractly | refined by `Token` |
| `Grant` | `grant.go` | `MCGrant`, `Grant*.cfg`; `GrantProofs` |
| `TunnelApp` | `app_tunnel.go`, over `AppShared` | `MCTunnelApp`, `TunnelApp*.cfg`; `TunnelAppProofs` |
| `HubSettings` | `hub_settings.go` | `MCHubSettings`, `HubSettings.cfg`; `HubSettingsProofs` |
| `Client` | `client.go`, the envelopes of `rows.go`, `hubDiag` of `convert.go`: operators, no state | through `Namespace` |
| `Namespace` | `agent.go` in whole runs with a grant and a token, over `Client`'s answers | `MCNamespace`, `Namespace.cfg`; `NamespaceProofs` |
| `Coverage` | `internal/coverage`: the scenarios, `Check`, the two repositories' gates | `MCCoverage`, `Coverage.cfg`; `CoverageProofs` |

The `MC` modules only give constants their values, but for `MCCoverage`, which also
has the contract fixture; the `...Proofs` modules hold the theorems.

The resource modules are built alike. The hub's row (`hub`, `tokens`,
`grants`, the pairs), the configuration (`config`), the OpenTofu state (`state`, or
`current` and `deposed`) and the handler in flight (`op`, a program counter with
the plan and the model the handler carries) are the variables. A handler is cut
at its requests: each action is the code from one answer to the next request's
effect, so anybody else can act in between. A step takes an outcome: `ok`;
`refused`, an error without an effect; `lost`, an effect without an answer.
History variables (`unseen`, `accepted`, `orphans`, `imported`, ...) record what
happened without the provider knowing; no guard of the code's actions reads them.

Operators whose comment starts with "Mutant:" are small changes of the definition
after them, each a plausible slip in the code. No specification uses them; they
show that the properties notice.

### AppShared

Both app resources depend on what comes back for a value they sent. There are three
answers to that, and an attribute of each kind stands for all of its kind:

| here | in the code |
|---|---|
| `common.plain` | `name`, `description`, `redact`, `log_bodies`, and of a proxied app `endpoint`, `forward_identity`: what was sent comes back |
| `common.aliases` | the children of `typescript_aliases`, `capabilities`: absence is null, a null is not sent, and the hub keeps what it is not sent (`Sent`); an empty `tools` map is dropped as well (`EmptyList`) |
| `roles` | `rolesAttribute`: a map from role names to a pattern family, which is given, left out (`Null`) or emptied (`EmptyList`); a write replaces the map whole |
| `Kept`, `KeptCommon`, `KeptRoles` | `UseStateForUnknown`, leaf by leaf: an omitted attribute, and a family omitted from a role, is planned as the last refresh read it |
| `ToWire` | `rolesToArgs` and `RoleFamilies`' `omitempty`; an empty list is not sent, and `patternList` reads a missing family as null |
| `CommonOfCreated`, `RolesOfCreated`, `CommonPatched` | what the hub makes of `app_create` and `app_update` (external) |
| `EchoesCommon`, `EchoesRoles` | OpenTofu's comparison of an answer with the plan it showed |
| `AsksForEmpty` | a configuration with an empty family or an empty `tools`, which cannot come back |

A role has three families; the code treats them alike, so a role here is one of them,
the others given.

### ProxyApp

| here | in the code |
|---|---|
| `hub` | the row, and `env`, the version of the headers sealed with it |
| `state` | `proxyAppModel`: `auth`, `common` and `roles` (see `AppShared`), `archived`, and the two versions; `tainted` is OpenTofu's |
| `Patched`, `ProxyAppChanged` | what `app_update` patches; `proxyAppChanged` |
| `PlanCreate`, `CreateApp`, `CreateHeaders`/`CreateNoHeaders`, `CreateArchived`/`CreateDone` | `Create`: `app_create`, the first `State.Set`, `app_set_upstream_auth`, `app_archive` |
| `PlanUpdate` with `UpdatePlan`, `MarkApplyUnknown`, `CannotClear` | `ModifyPlan`, `decideHeadersPlan`, the plan modifiers |
| `PlanDeferred` | `ModifyPlan`'s early return while `auth` or `headers_version` is unknown, and what OpenTofu makes of the plan that follows |
| `UpdateFields`/`UpdateNoFields`, `UpdateHeaders`/`UpdateNoHeaders`, `UpdateArchived`/`UpdateDone` | `Update`'s three steps and their gates |
| `Read`, `Import`, `Delete` | the handlers of those names; a failed Read changes nothing and has no action |
| `Echoes`, `Finish`, `last` | OpenTofu compares what a handler returned with the plan it showed; a contradiction is an error, and the object is recorded, tainted if it was being created |
| `Drift` | another client creates, deletes, patches, archives, or stores headers |
| `Crash` | the run is killed; the state keeps what it had |

A `headers_version` stands for the headers configured with it: `headers_wo` is
write-only and never in plan or state. The slug is fixed because it forces
replacement.

`app_update` is sent only if the plan changes something it patches, but then it
carries every attribute the plan knows. So an apply that only archives, or only sends
headers, overwrites nothing edited on the hub since the refresh; one that changes a
name does, and puts an attribute that the configuration leaves out back to what the
refresh had read. `FieldsLeftAlone` says that it does no more than that.

A configuration that asks for what the wire cannot say (`AsksForEmpty`) is
contradicted by every apply that sends it, and no run settles it: it is one of the
states `Stuck` lists.

`Sealing` is the promise of the README's `headers_applied_version`, without stages,
plans or rows: a secret that the hub holds, a claim about it, and whether anything
was missed since the claim was made. A claim moves to a version in the instant its
acceptance is heard (`Seal`); what is not heard leaves it and takes the trust away
(`SealUnheard`, `Meddle`); it may be given up (`Abandon`); only a killed run goes back
to an older one (`Relapse`). `SealingSpec` is `ProxyApp`'s refinement of it: `sealed` is
the envelope of the row, `witness` the handler's `headers_applied_version`, or the
state's when none runs, and `Null` while a stage is about to drop it (`Revising`),
`trusted` that there is one and `unseen.cred` is false. The drop of the witness is
therefore one step of the promise and two of the code, in between which no reader
may rely on what the model object still says.

### Token and Rotation

| here | in the code |
|---|---|
| `tokens` | the rows: not issued, accepted, revoked or expired, gone with the agent |
| `order` | `lifecycle { create_before_destroy }`: the successor first, or last |
| `current`, `deposed` | the object, and those replaced but not yet deleted |
| `Issue`, `List` | `Create`: `token_issue`, and the follow-up `token_list` whose failure still records the id and the plaintext (and, the creation having failed, taints the object) |
| `Revoke` | `Delete`: the object's own id; revoked already or absent is a success |
| `Read`, `Import` | only an absent row leaves the state; an import has no plaintext |
| `PlanReplace`, `PlanDeposed`, `Deliver`, ... | OpenTofu: every attribute forces replacement; the order is `order` |

`Rotation` is the promise of the README's `pmcp_token` section: a set of
credentials, those accepted, the one in use; `Retire` is never of the one in use.
`OverlapSpec` is `Token`'s refinement of it under `order = "first"`, the consumer's
copy being the one in use; the default order promises nothing and maps to nothing.

### Grant

| here | in the code |
|---|---|
| `grants` | the pair's entries in the agent's row; `Null` for no key, `{}` for an empty list |
| `Check`, `Set` | `applyGrant`: `checkDeclaredRoles` (`app_get`), then `grant_set` |
| `Unset` | `Delete`, `grant_set` of no roles |
| `ToWire`, `FromWire` | `rolesToWire`, `rolesFromWire`: an entry is its text and a count of `:approval` suffixes |
| `Gone`, `Read` | the three-way rule |
| `Run` | one plan for all addresses; their handlers then interleave, as in one apply |

### TunnelApp

| here | in the code |
|---|---|
| `hub` | the row; a proxied app's has no `ownerRoles` |
| `state` | `tunnelAppModel`: `common` as in `AppShared`, `roles` the owner roles, `archived` |
| `FromRow` | `tunnelModelFromRow`, `appRoles` |
| `UpdatePlan`, `CreatePlan` | the plan modifiers, by `AppShared`'s operators |
| `AppChanged`, `RolesSent` | `commonAppChanged \|\| ownerRolesChanged`; the map is sent only when it differs |
| `UpdateFields` ... `UpdateDone`, `CreateApp` ... `CreateDone` | `Update` and `Create`, cut at their requests |
| `Echoes`, `Finish` | as in `ProxyApp` |

The model is taken from the row, not from the plan, so what others changed between
refresh and apply is seen, and may contradict the plan: `last` keeps how an apply
ended. `AppliedMeansSettled` is what an `ok` means, `ContradictedOnlyByOthers` what a
contradiction means: the configuration asks for an empty family or an empty `tools`,
or others edited owner roles that the apply left alone, or they set aliases that the
plan showed as null.

### HubSettings

| here | in the code |
|---|---|
| `hub` | each owner's pair of timeouts; there is always one |
| `cred` | whose token the provider has: `Client.Namespace`, the owner of every object it shows |
| `InRange`, `ValidPair` | `timeoutRangeValidator`, `ValidateConfig` |
| `Write`, `Reset` | `Create` and `Update`; `Delete`, which writes the defaults |
| `Run` | one plan for all addresses, refused as a whole if one configuration is invalid; their handlers then interleave |
| `Switch` | another owner's token, with the same state |

### Client and Namespace

The other modules say of a request that it was answered, refused or lost.
`Client` says why: an answer is silence, an HTTP status, a body that is no JSON-RPC, an
error with a code and a message -- of the message only the two marks `IsNotFound`
looks for -- or a result that decodes or does not.

| here | in the code |
|---|---|
| `Admin`, `Decoded` | `Client.Admin` and `call`: no error, and a payload that decodes |
| `IsNotFound`, `MethodNotFound`, `hubDiag`, `Resolved` | the functions of those names; `resolveNamespace` |
| `Undelivered`, `Unread`, `Honest` | what can come back for a request the hub did not execute, did execute, and as the hub itself answers |
| `run` | one `tofu apply`: what it has still to read, and then what it has to apply |
| `Connect`, `Read`, `Plan` | `Configure` with its one `whoami`; the three Reads; the plan, `-replace` of the agent included |
| `Apply` with `Needs`, `Blocked`, `Recorded` | the Create, Update and Delete of each resource, in the order of OpenTofu's graph; a failure takes what depends on it out of the run; only what counts as success changes the state |
| `Succeeds` with `Returned`, `Deletes` | what counts as success: the client's call returned no error, or it is a Delete and the error is absence (each `IsNotFound` in the Deletes) |
| `Finish`, `last` | how the run ended and which of `hubDiag`'s sentences it showed |
| `Executed`, `late` | a request that timed out reaches the hub later, or never |
| `Expire`, `Renew`, `Upgrade` | the credential runs out; the operator does what a diagnostic said |
| `Import`, `Crash`, `Drift` | as in the other modules; a deletion by hand cascades |

`raced` records that somebody else -- another client, a late request, the cascade of a
replacement -- changed the hub during the run. The plan of a replacement does not show
the cascade: the grant and the token keep their slugs, so it takes a second run
to bring them back, and `Converges` says that repeated runs do.

### Coverage

A target is an operation or one of its fields, and a contract is a set of targets.
The scenarios are `drivers.go`'s, all of them, as the calls they make.

| here | in the code |
|---|---|
| `calls`, `want` | what the scenarios make the provider call, and the operations each path expects |
| `unmanaged`, `staged`, `pin` | `unmanaged.go`, `coverage/staged.json`, `coverage/admin-ops.json` on the provider's main |
| `fixture` | the hub's contract, on the hub's main (external) |
| `validate`, `validateArgs` | the fake hub's check of each call, with the staged exemptions |
| `FieldCoverage`, `Totality`, `expiryViolations`, `Check` | the assertions of `oracle.go`, in its order |
| `ProviderGreen`, `HubGreen` | `coverage-check -strict` over the pin; the hub's CI over its own fixture, without expiry |
| `Ship`, `StageAhead`, `Withdraw`, `Excuse`, `Bump` | commits of the provider, each behind its gate: support with or without entry and expectation, an entry alone, support taken back, an unmanaged row, a new pin |
| `Land`, `Retire` | commits of the hub, behind the other gate |

A commit is atomic, and what is on a main branch has passed the gate of that branch
when it was committed -- not since, which is what the properties are about.

## The runs

| run | shows |
|---|---|
| `proxy` | `ProxyApp` implements `Sealing`; the witness is earned and true, the state equals the row through every partial failure, a successful apply leaves nothing to plan, an empty plan means a live app, an `app_update` is sent only for a change of what it patches and puts back, of what is not configured, only what the refresh read, no app that exists is forgotten; `Converges`: runs settle, or stop in a state of `Stuck`, each of which needs a human (a refused plan, the oauth loop below, an app to import, a slug taken by a tunnel app, an empty family or `tools` in the configuration) |
| `proxy_flip`, `proxy_oauth` | findings 1 and 2 |
| `token` | in both orders: nothing that works is invisible, an object is forgotten only when it is done with (a revoked row is not drift), plaintexts survive, and one that is dead was ended by others or by a revocation nobody heard of; by default two generations never work at once, orphans of lost answers aside; under create_before_destroy `Token` implements `Rotation`; `Settles`: one object of the configured generation, delivered, and every replaced one gone |
| `grant` | a sole manager's state is the pair's grant and never a grant of nothing, reads round-trip, an undeclared role gets to a proxied app only in a race; `Converges`, renames included |
| `grant_suffix` | finding 3 |
| `tunnel` | owner roles are written only to become what is configured, whoever edits them and when; the state equals the row through every partial failure; an apply that succeeds leaves no diff, one that contradicts its plan met an empty family, an empty `tools` or another's edit; `Converges`, contradicted applies included |
| `tunnel_roles`, `tunnel_empty` | findings 4 and 5 |
| `hub` | no write lost unnoticed between two addresses, the default pair after the last destroy, and plans refused exactly when the hub would refuse them; `Converges`, unless two addresses want different pairs |
| `namespace` | an object leaves the state only when the hub has it not, whatever an answer looks like; a run that reports success has done what is configured, unless raced; `Converges`: through cascades, late requests, an expired credential and a hub without `agent_update`, if the operator heeds the diagnostics, or stops with an agent to import |
| `coverage` | nothing the pin declares rests on an exemption (`PinCovered`); neither gate waits for the other at any point of a handoff (`NoLockout`); the hub cannot drop what is pinned (`PinnedStays`); a commit here breaks the hub's main only over an operation on which the pin is old (`HubBrokenByStalePin`); what is supported and staged gets pinned (`Lands`). Once, at start, the contract and scenarios as they stand pass both gates (`TodayIsGreen`) |

A module's properties, safety and liveness, are checked in one run under
`FairSpec`; fairness removes no finite behaviour, so the safety of `Spec` is what
is checked.

Deadlock is not checked: a settled configuration with the budgets of edits,
drift and faults spent is a state in which nothing more has to happen.

## The bounds

Each model bounds the operator's edits (`MaxEdits`), changes by others
(`MaxDrift`) and failed requests with crashes (`MaxFaults`), in the guards of
those actions. Two or three edits reach create, change, and remove or flip back;
two faults let a failure follow a failure, two drifts let one land inside a handler
after another; `Grant` and `HubSettings` have one fault, `Token` one drift, each
with two of the other kind, because their addresses or ids already multiply the
states. `ProxyApp` also bounds drift and faults together (`MaxMishaps`): three, in
every mixture. Two versions, two plain values, one alias set or not, one role with a
family given, left out or emptied, and the three settings of `auth` (either,
omitted) are what the code's comparisons tell apart; its configurations vary the
credential over an app left otherwise unmanaged, or manage everything, or clear it,
or ask for empty collections. Four token ids hold a generation, its
replacement, a failed attempt, and one issued by hand; `Fresh = {}` in `Settles`
is the one place where that bound would show. An id is given out once and never
compared but for equality, so `NextId` fixes the order. Two addresses for a pair are
enough for every pairwise overlap of handlers. `TunnelApp` has one role too, there
or not: the code treats each entry of the map by itself, and compares maps whole. `HubSettings` tries pairs just outside and
on both limits, one in the wrong order, and the default one.

`Namespace` has two edits, one drift and two faults, which is a request lost and the
run after it failing too; three token ids, as many as those can use up, which
`Stuck` names. Two notes tell the hub's default from a configured one.

`Coverage` bounds the commits by `MaxCommits`, three, except for those that make
progress (shipping, landing, bumping), which `Features` bounds. The check of the
whole contract is in `TodayIsGreen`; the repositories move on the agent and token
operations with one unmanaged operation, one new operation with an optional field in
its schema and a required one that may join it, a new required field for an old
operation, and a field and an operation to retire: every rule of `Check` has a
target that meets it and one that does not. A change that needs more than two
operations to go wrong is out of the run's reach and within the proofs'.

No symmetry is declared: it is not sound for liveness.

## Fairness

`FairSpec` says what the operator's scheduling provides and nothing more. The run is
repeated while there is something to apply (`WF` of the planning actions); a refresh
is part of each run, though a handler may be in flight whenever one looks (`SF` of
`Read` where drift or a handler can disable it); a request that is sent again is
eventually answered (`WF` of the step with outcome `ok` -- failures are bounded by
`MaxFaults`). Runs do not defer for ever: what one had to wait for is in the state
when the next one plans (`WF` of `Plan`, which `PlanDeferred` is not part of). In
`Namespace` these are one condition, `WF` of `Goes`, and the operator does what runs
keep telling: `SF` of `Upgrade` and `Renew`, strong because each new run starts with
no diagnostics. Another block of the configuration puts a deleted agent back (`WF`
of `Recreated` in `Grant`, of `AgentCreated` in `Token`). In `Coverage` the landing
order of `staged.json` is followed (`WF` of `Handoff`): support for what is staged,
the hub lands it, the pin follows. Editing, drift, killing the run, losing answers,
taking support back and retiring are never obliged to happen.

## The proofs

Every invariant and action property of every passing run is a theorem, for any
sets of values, configurations, addresses and ids and for any bounds, under the
assumptions on constants that the modules name (the configurations are ones the
validators accept; sentinels are not values); so is that `ProxyApp` implements
`Sealing` and `Token` implements `Rotation`. Few of these are inductive alone. What
carries each is below. The type invariants of `ProxyApp`, `TunnelApp`, `HubSettings` and
`Coverage` are theorems only: the runs spend their time on what needs them.

**`AppSharedProofs`.** What both apps' proofs need of role maps and common attributes,
as lemmas about operators: a map without empty families is stored as it was written
(`WireKeeps`), a plan has an empty family only if the block does (`PlanAsks`), and what
an answer shows that echoes a plan is planned again without a change
(`CommonSettled`, `RolesSettled`, with `UpdateShows`, `CreateShows`).

**`ProxyAppProofs`.** `IInv` conjoins `TypeOK` with what the witness needs
(`Invariance`). `WitnessTrue` speaks of the handler's own model while one runs, so a
step needs to know how that model and the plan relate to the state the handler
started from: `StageInv`, per program counter. A witness is only kept by
`UpdateNoHeaders` if the app did not leave headers mode on the way, hence
`WitnessUnderHeaders`, and a wiped envelope is only compatible with a witness if
headers are sealed under headers mode alone, `SealedUnderHeaders`. `Revising` is the
window between the patch that makes the app oauth and the stage that drops the
witness. `WitnessIsEarned`, `WitnessIsTrue`, `StateIsTheRow` and `EmptyPlanIsTrue`
follow. `AppliedIsSettled` needs more: that what a handler carries is on its way to
what the configuration asks for (`Creates`, `Updates`; with `AppliedMeansSettled`
they make `AppliedInv`); that the answer echoes the plan, which OpenTofu checked, then
makes the next plan empty (`FitsIsSettled`). `NothingForgotten` is an action property
from `IInv`, and `FieldsStay` from `AppliedInv`: the plan being written was made from
the configuration and the state. `FlipBoundary` and `OauthBoundary`, from `AppliedInv`,
bound findings 1 and 2 from one side: outside the cases they except, what fails in
those runs holds.

`SealingImplemented`, in the same module, maps each step of the provider, under `IInv`, to
a step of `Sealing` or to a stutter: a stage that sends headers to `Seal` or
`SealUnheard` by its answer, a patch of `auth`, a deletion and everybody else to
`Meddle` or `Abandon`, a killed run to `Relapse`. `PromiseIsEnough` is about `Sealing`
itself: whatever keeps the promise satisfies `WitnessTrue`. Together they are a second
proof of it, through the promise instead of through the stages, which shows that
the promise left nothing out that a reader needs.

**`GrantProofs`.** `StateFollowsTheHub`, `RefreshesAreQuiet` and
`UndeclaredOnlyInRaces` rest on the encoding: `WireRoundTrip` (what is read back
would be written as it was, always) and `SetsRoundTrip` (what is written is read
back, unless an allowed entry ends in the suffix -- finding 3 is that exception).
With the types go two facts about the handlers in flight: `Configured`, that one
which will write has a configuration, because configurations change between runs
only; and `Checked`, that its `app_get` verdict still stands unless the app changed.
`RoundTripExactly` is the round trip in both directions, and `SuffixBoundary` with
it the reach of finding 3.

**`TokenProofs`.** `OInv` is types and the shape of the handler in flight, and that
the default order never has a deposed object. `KInv` adds that every object's id was
issued (`Known`), that no two objects share one (`Distinct`), and with them
`PlaintextKept` and `NoInvisibleCredential`, which need each other: putting a
deposed object back must not bring an id that another object or the handler holds.
`OneLiveByDefault` and `ForgottenAreDone` follow. `RotationImplemented` maps Init
and each step to one of `Rotation` or a stutter; `RInv` adds `DeadIsAccountedFor`,
which is a theorem of its own, and `NotInUse`, that under create_before_destroy no
deletion is of the consumer's id, for which the current object must not be a deposed
one (`Apart`). `ConsumerKept` is had through that refinement: `Rotation` by itself
keeps `InUseIsGood`, so the consumer's credential works unless others, or a
revocation that was not heard of, ended it.

**`TunnelAppProofs`.** `StateIsTheRow` is `StateMirrorsRow` with the stage of the
handler (`Handler`, `SInv`); `RolesLeftAlone` says of the one action that writes
roles that its plan was made from the configuration and differed from the state.
`AppliedIsSettled` and `ContradictionsExplained` need what a handler carries from its
plan to its end (`Carried`): a creation finishes with the row its plan asked for, an
update with the roles it sent, if it sent any. With `AppSharedProofs`, an object that
echoes a plan, of either kind, fits the block and is no diff again (`UpdateFits`,
`CreateFits`, `FitsIsSettled`). `CompleteRolesAreReplaced` follows from `AppliedIsSettled` and
`StateIsTheRow`.

**`HubSettingsProofs`.** `StateShowsThePair` and `DestroyingRestores` together,
because a pair written by one address is what another's reset undoes; `SameRefusals`
is about the operators alone.

**`NamespaceProofs`.** `NothingForgotten` needs that a live token has an agent
(`Cascaded`), and per answer that what the client takes for absence came from the
hub itself (lemmas on `Exchange`, `IsNotFound`). `AnswersAreOutcomes` makes of these
lemmas what joins the models: whatever the wire gives back is, as the client reads
it, one of the three outcomes the other modules give a request, with that outcome's
effect. A request executed after its timeout is, for them, a refusal and then a
change made by somebody else. `SuccessIsTrue` carries a refresh through the run:
what was read is there (`Refreshed`), and what is still to be applied is exactly
what the configuration and the state differ in (`Track`), as long as nobody raced
and nothing failed.

**`CoverageProofs`.** `GateInv` says that each main passed its gate and that
contracts are closed (a field never outlives its operation). `CoveragePinCovered`
follows from the three assertions of `Check` together with expiry.
`CoveragePinnedStays` uses that what is pinned is called with every field, and that
the hub's gate validates calls. `CoverageHubBrokenByStalePin` takes an operation on
which pin and fixture agree and shows each assertion of the hub's gate for it from
the provider's. `CoverageNoLockout` shows the whole of `Check` for the three commits
of a handoff: support adds calls that the entry lets through (`Shippable`), what
lands is excused by its entry (`Landable`), and the bump, which drops the entries,
passes exactly when the calls alone cover what the hub declares (`Bumpable`).

**Model-checked only.** Liveness (`Converges`, `Settles`, `Lands`) and ENABLED are
beyond the prover. So are induction over data and RECURSIVE operators; no module
here needs either. The theorems that no run's property stands for (`FlipBoundary`,
`OauthBoundary`, `SuffixBoundary`, `CompleteRolesAreReplaced`, `ConsumerKept`,
`AnswersAreOutcomes`) were checked with TLC on the runs' instances before they were
proved. What the fixture and the scenarios say today (`TodayIsGreen`) is evaluated,
not proved.

## Findings

1. `proxy_flip` -- an app taken to `oauth` outside the provider keeps its witness
   through Read, so taking it back to `headers` finds the versions equal and sends
   nothing: the apply succeeds and the app has no credential. Comments at
   `app_proxy.go:205` and `rows.go:299` say otherwise. `FlipBoundary` bounds it: the
   flip sends the headers unless something happened to the credential unseen and the
   witness that was kept is of the version configured. It does not say that every such
   flip fails. A lost answer to the patch that made the app oauth, and the edit taken
   back, gets there too, with nobody else involved.
2. `proxy_oauth` -- with `auth` omitted over an oauth app and the pair configured,
   every plan shows the witness as unknown and no apply settles it. The comment at
   `app_proxy.go:206` says no oauth-to-oauth case does that. `OauthBoundary` bounds
   it: none does but those with a pair under an omitted `auth`, and those that kept a
   witness as in finding 1.
3. `grant_suffix` -- an inline item in `allow` whose pattern ends in `:approval` is
   read back as an approval, and every plan shows the same change. The comment at
   `grant.go:380` argues from role names only, and is right about every other entry
   (`SuffixBoundary`, which is an equivalence).
4. `tunnel_roles` -- a pattern family removed from a configured role is planned from
   the state (`UseStateForUnknown`, `app_shared.go:256`): the apply succeeds, and
   the hub goes on granting patterns that the configuration no longer lists.
   `app_tunnel.go:58` and `README.md:135` say that apply replaces the hub's map with
   the complete set. Where every family of every configured role is given, it does
   (`CompleteRolesAreReplaced`). A proxied app's `roles` are the same attribute and
   share this.
5. `tunnel_empty` -- a configured `prompts = []` is planned as a known empty list,
   dropped from the request (`rows.go:23`) and read back as null (`data_app.go:85`),
   so each such apply ends in an inconsistent result, and a creation in a tainted
   app. The comment at `app_shared.go:249` says that optional and computed families
   avoid that. A proxied app's `roles` share this -- no run settles one (`Stuck`) -- and
   so does `typescript_aliases = { tools = {} }`, whose empty map `rows.go:60` drops.
   `ContradictionsExplained` bounds it: besides these, only what others edited between
   refresh and apply contradicts a tunnel app's plan.

Also seen, most of it by design: a revocation whose answer is lost, followed by the
block being put back, leaves a revoked token that every plan takes for settled (a
dead row is not drift; `DeadIsAccountedFor` says that there is no other way to one);
an app deleted and created again unseen keeps its witness (`unseen.cred`); an app
archived by somebody between refresh and apply is unarchived by an apply of another
field, because the row that `app_update` returns is compared with the plan; a new
`headers_version` that is unknown at plan time fails the apply that resolves it,
because the plan that was shown keeps the witness and the final one does not
(`PlanDeferred`; the comment at `app_proxy.go:223` defers to "the plan that resolves
it", which OpenTofu refuses), and settles on the next run; owner roles edited in the
web UI after the refresh survive an apply of another attribute, which then
contradicts its plan, and the next run replaces them; aliases set there while the
plan shows null contradict it too, and are in the state after; any other attribute
edited after the refresh, and left out of the configuration, is put back by an
`app_update` of another field, which carries them all (`FieldsLeftAlone`); when the
provider's credential changes owner, the settings of the old owner stay as they are
(`left` in `HubSettings`).

## What is not modelled

* The hub and OpenTofu are external: their operations are taken from what the
  provider's code and comments rely on (a change of `auth` wipes the credential,
  `grant_set` replaces, deletions cascade, a failed creation with an object taints
  it, deposed objects go last).
* Values unknown at plan time, but for `auth` and `headers_version` of a proxy app
  (`PlanDeferred`): the validators of `HubSettings` and `Grant` skip them, and
  OpenTofu validates again when they are known.
* `expires_in`'s parsing and `pmcp_token`'s `ValidateConfig`; the syntax checks of
  slugs, pattern keys and aliases: regular expressions and integer parsing over one
  string, whose only effect is a refused plan. `tokenResource.Update` copies the
  plan and is never reached, since every attribute forces replacement.
* The JSON types of values in the coverage check (`validateValue`), and the helpers
  that build framework values for its scenarios.
* Where the endpoint and the token of the provider come from, and the serving of the
  plugin. The data sources keep no state: of them the rendering of roles and grants
  and what they call is modelled, in the modules that need it.
* The smoke hub, the terranix module, packaging and pipelines: not part of the
  running program.

## The plan

Done: all resources, the client and the coverage oracle, each with a run and its
safety and action properties proved; `ProxyApp` refining `Sealing` and `Token`
refining `Rotation`; bounds on findings 1, 2, 4 and 5 and the reach of finding 3. Left, in order of worth:

1. `expires_in` and `ValidateConfig` of `pmcp_token` as operators against a
   reference over bounded inputs.
2. The three role families side by side in `AppShared`, should one of them get a
   rule of its own.
3. What `AppliedMeansSettled` is to the two kinds of app, for `Grant` and
   `HubSettings`: with one write in each handler it is close to the code.
