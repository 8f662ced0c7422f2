------------------------------ MODULE ProxyApp ------------------------------
(***************************************************************************)
(* pmcp_proxy_app (internal/provider/app_proxy.go): one proxied app, its   *)
(* row on the hub, the object in the OpenTofu state, the operator's        *)
(* configuration, and the CRUD handlers run step by step between them.     *)
(*                                                                         *)
(* The subject is the credential.  Upstream headers are write-only: the    *)
(* hub seals them and never returns them, so whether the app still holds   *)
(* them is known only through a witness, headers_applied_version, that the *)
(* provider keeps in the state.  ModifyPlan compares the configured        *)
(* headers_version with it to decide whether anything has to be sent.      *)
(*                                                                         *)
(* Abstractions.  A headers_version stands for the headers configured with *)
(* it.  `common' is commonAppModel without archived, and with it endpoint, *)
(* forward_identity and capabilities (see AppShared).  The slug is fixed:  *)
(* it forces replacement, so one slug is one object.  The hub and OpenTofu *)
(* are external: modelled from what the provider's code and comments rely  *)
(* on.                                                                     *)
(***************************************************************************)
EXTENDS Naturals, AppShared

CONSTANTS
  Versions,     \* the headers_version values an operator may configure
  Configs,      \* the configurations the operator may write
  Foreign,      \* headers stored on the hub by somebody else
  Outcomes,     \* what may become of a request, see Outcome below
  MaxEdits,     \* bound: configuration edits
  MaxDrift,     \* bound: changes to the row made outside the provider
  MaxFaults,    \* bound: requests that do not answer ok, and crashes
  MaxMishaps    \* bound: changes outside and faults together

Auth == {"headers", "oauth"}

(***************************************************************************)
(* What becomes of a request (Client.Admin): "ok" took effect and its      *)
(* answer arrived; "refused" had no effect and came back as an error (an   *)
(* RPC error, a non-200, a connection that never opened); "lost" took      *)
(* effect but the answer did not arrive or could not be decoded.  Nothing  *)
(* is retried.                                                             *)
(***************************************************************************)
Outcome == {"ok", "refused", "lost"}

Config ==
  [auth: Auth \cup {Null}, common: CommonWritten, roles: Written \cup {Null},
   archived: BOOLEAN \cup {Null}, version: Versions \cup {Null}]

Row ==
  [kind: {"proxy"}, auth: Auth, common: Common, roles: Stored,
   archived: BOOLEAN, env: Versions \cup {Null, Foreign}]
  \cup
  [kind: {"tunnel"}, auth: {Null}, common: Common, roles: {Null},
   archived: BOOLEAN, env: {Null}]

Model ==
  [auth: Auth, common: Common, roles: Stored, archived: BOOLEAN,
   version: Versions \cup {Null}, applied: Versions \cup {Null},
   tainted: BOOLEAN]

\* A create plan, where an omitted attribute is unknown until the hub resolves
\* it, and an update plan, where it has kept its prior value.
Created ==
  [auth: Auth \cup {Unknown}, common: CommonCreated, roles: RolesCreated,
   archived: BOOLEAN \cup {Unknown}, version: Versions \cup {Null},
   applied: {Unknown}]

Updated ==
  [auth: Auth, common: CommonUpdated, roles: Written, archived: BOOLEAN,
   version: Versions \cup {Null}, applied: Versions \cup {Null, Unknown}]

(***************************************************************************)
(* ValidateConfig: under auth = "oauth" the pair is refused; an omitted    *)
(* auth counts as "headers" here.  (The pair itself is one value, so its   *)
(* co-requirement holds by the encoding.)                                  *)
(***************************************************************************)
ValidConfig(c) == ~(c.auth = "oauth" /\ c.version # Null)

ASSUME ConstantsAssumption ==
  /\ Configs \subseteq {c \in Config : ValidConfig(c)}
  /\ Outcomes \subseteq Outcome /\ "ok" \in Outcomes
  /\ MaxEdits \in Nat /\ MaxDrift \in Nat /\ MaxFaults \in Nat
  /\ MaxMishaps \in Nat

ASSUME SentinelAssumption ==
  /\ Null \notin Auth /\ Null \notin BOOLEAN
  /\ Null \notin Versions
  /\ Null \notin Configs \cup Row \cup Model
  /\ Unknown \notin Auth /\ Unknown \notin BOOLEAN
  /\ Unknown \notin Versions
  /\ Foreign \notin Versions \cup {Null}

VARIABLES
  hub,      \* the hub's row for the slug, with the sealed headers, or Null
  config,   \* the resource block the operator has written, or Null
  state,    \* the object in the OpenTofu state, or Null
  op,       \* the handler in flight: where it is, its plan, its model
  last,     \* how the last apply ended, "none" once something else happened
  accepted, \* history: the versions the hub ever accepted
  unseen,   \* history: what changed on the hub without an answer seen
  spent     \* the budgets used: edits, drift, faults

vars == <<hub, config, state, op, last, accepted, unseen, spent>>

Idle == [pc |-> "idle", plan |-> Null, work |-> Null]
AllSeen == [cred |-> FALSE, row |-> FALSE]

UpdatePCs == {"update", "update_headers", "update_archived"}

Op ==
  {Idle}
  \cup [pc: {"create"}, plan: Created, work: {Null}]
  \cup [pc: {"create_headers", "create_archived"}, plan: Created, work: Model]
  \cup [pc: UpdatePCs, plan: Updated, work: Model]
  \cup [pc: {"delete"}, plan: {Null}, work: Model]

TypeOK ==
  /\ hub \in Row \cup {Null}
  /\ config \in Configs \cup {Null}
  /\ state \in Model \cup {Null}
  /\ op \in Op
  /\ last \in {"none", "ok", "failed", "contradicted"}
  /\ accepted \subseteq Versions
  /\ unseen \in [cred: BOOLEAN, row: BOOLEAN]
  /\ spent \in [edits: 0..MaxEdits, drift: 0..MaxDrift, faults: 0..MaxFaults]

Init ==
  /\ hub = Null /\ config = Null /\ state = Null
  /\ op = Idle /\ last = "none"
  /\ accepted = {} /\ unseen = AllSeen
  /\ spent = [edits |-> 0, drift |-> 0, faults |-> 0]

-----------------------------------------------------------------------------
(* The hub's operations (external).                                        *)

HubCreated(p) ==
  [kind |-> "proxy",
   auth |-> IF p.auth = Unknown THEN "headers" ELSE p.auth,
   common |-> CommonOfCreated(p.common), roles |-> RolesOfCreated(p.roles),
   archived |-> FALSE, env |-> Null]

\* app_update: a change of auth wipes the stored credential in the same write.
HubPatched(h, p) ==
  [h EXCEPT !.auth = p.auth,
            !.common = CommonPatched(@, p.common), !.roles = ToWire(p.roles),
            !.env = IF p.auth # h.auth THEN Null ELSE @]

IsProxy(h) == h # Null /\ h.kind = "proxy"
TakesHeaders(h) == IsProxy(h) /\ h.auth = "headers"

-----------------------------------------------------------------------------
(* Planning: the framework's proposed plan, then ModifyPlan.               *)

\* decideHeadersPlan's refusal: the pair removed, a version still witnessed.
CannotClear(auth, version, applied) ==
  auth = "headers" /\ version = Null /\ applied # Null

\* Mutants: a comparison that takes nil for equal, and no comparison at all.
NilIsEqual(version, applied) ==
  version # Null /\ applied # Null /\ version # applied
MarkedWheneverConfigured(version, applied) == version # Null \/ applied # Null

\* decideHeadersPlan's verdict, and so whether the witness becomes unknown.
MarkApplyUnknown(version, applied) == version # applied

PlanRefused(c, s) == CannotClear(Kept(c.auth, s.auth), c.version, s.applied)

UpdatePlan(c, s) ==
  [auth |-> Kept(c.auth, s.auth), common |-> KeptCommon(c.common, s.common),
   roles |-> KeptRoles(c.roles, s.roles),
   archived |-> Kept(c.archived, s.archived), version |-> c.version,
   applied |-> IF MarkApplyUnknown(c.version, s.applied)
                 THEN Unknown ELSE s.applied]

CreatePlan(c) ==
  [auth |-> Resolvable(c.auth), common |-> ResolvableCommon(c.common),
   roles |-> ResolvableRoles(c.roles), archived |-> Resolvable(c.archived),
   version |-> c.version, applied |-> Unknown]

\* What app_update patches.
Patched(m) == <<m.auth, m.common, m.roles>>

\* No attribute differs from the prior state: nothing is scheduled.
PlanEmpty(c, s) ==
  LET planned == UpdatePlan(c, s) IN
  /\ Patched(planned) = Patched(s) /\ planned.archived = s.archived
  /\ planned.version = s.version /\ planned.applied = s.applied

\* Mutant: app_update on every Update.
Ungated(p, s) == TRUE

ProxyAppChanged(p, s) == Patched(p) # Patched(s)

\* Mutant: one field of the row forgotten.
FromRowButAuth(base, h) ==
  [base EXCEPT !.common = h.common, !.roles = h.roles, !.archived = h.archived]

\* proxyModelFromRow: the row over `base', the headers trio left as it was.
FromRow(base, h) ==
  [base EXCEPT !.auth = h.auth, !.common = h.common, !.roles = h.roles,
               !.archived = h.archived]

\* A new object, with the trio given.
Reflected(h, version, applied) ==
  [auth |-> h.auth, common |-> h.common, roles |-> h.roles,
   archived |-> h.archived, version |-> version, applied |-> applied,
   tainted |-> FALSE]

-----------------------------------------------------------------------------
(* What the provider holds: the handler's own model while it has one.      *)

View == IF op.pc = "idle" THEN state ELSE op.work

RowOf(h) ==
  IF h = Null THEN << >> ELSE <<h.kind, h.auth, h.common, h.roles, h.archived>>
EnvOf(h) == IF h = Null THEN Null ELSE h.env

\* The hub became h and nobody told the provider.
Unwitnessed(h) ==
  unseen' = [cred |-> unseen.cred \/ EnvOf(h) # EnvOf(hub),
             row  |-> unseen.row \/ RowOf(h) # RowOf(hub)]

MishapsLeft == spent.drift + spent.faults < MaxMishaps

\* Only a request that fails spends the budget.
Spend(o) ==
  /\ o \in Outcomes
  /\ IF o = "ok" THEN UNCHANGED spent
     ELSE /\ spent.faults < MaxFaults /\ MishapsLeft
          /\ spent' = [spent EXCEPT !.faults = @ + 1]

\* The handler returns: s is the state it leaves, r how the apply ended.
Return(s, r) == state' = s /\ op' = Idle /\ last' = r

\* OpenTofu refuses an answer that contradicts a value the plan showed, and
\* records it nevertheless; an object whose creation it was is tainted.
Echoes(p, m) ==
  /\ EchoesCommon(p.common, m.common) /\ EchoesRoles(p.roles, m.roles)
  /\ p.auth \in {m.auth, Unknown} /\ p.archived \in {m.archived, Unknown}
  /\ p.version = m.version /\ p.applied \in {m.applied, Unknown}

Finish(m) ==
  IF Echoes(op.plan, m) THEN Return(m, "ok")
  ELSE Return([m EXCEPT !.tainted = op.pc = "create_archived"], "contradicted")

\* A request that the hub takes exactly when `takes', turning the row into
\* `after': its effect, and whether the handler sees it succeed.
Request(o, takes, after) ==
  /\ Spend(o)
  /\ hub' = IF takes /\ o # "refused" THEN after ELSE hub

Succeeds(o, takes) == takes /\ o = "ok"

-----------------------------------------------------------------------------
(* Create                                                                  *)

\* The run reaches a block with no object in the state.
PlanCreate ==
  /\ op.pc = "idle" /\ config # Null /\ state = Null
  /\ op' = [pc |-> "create", plan |-> CreatePlan(config), work |-> Null]
  /\ UNCHANGED <<hub, config, state, last, accepted, unseen, spent>>

\* app_create; the new object is reflected before any later step.
CreateApp(o) ==
  /\ op.pc = "create"
  /\ LET takes == hub = Null IN
     /\ Request(o, takes, HubCreated(op.plan))
     /\ IF Succeeds(o, takes)
          THEN /\ op' = [op EXCEPT
                    !.pc = "create_headers",
                    !.work = Reflected(hub', op.plan.version, Null)]
               /\ UNCHANGED <<state, last>>
          ELSE Return(Null, "failed")
  /\ unseen' = AllSeen
  /\ UNCHANGED <<config, accepted>>

NeedsHeaders == op.work.auth = "headers" /\ op.plan.version # Null

\* app_set_upstream_auth, with stage `to' after it.  The witness advances on its
\* success only; `failed' is the model left in the state otherwise.
SetUpstreamAuth(o, to, settled, failed) ==
  /\ LET takes == TakesHeaders(hub) IN
     /\ Request(o, takes, [hub EXCEPT !.env = op.plan.version])
     /\ accepted' = IF takes /\ o # "refused"
                      THEN accepted \cup {op.plan.version} ELSE accepted
     /\ IF Succeeds(o, takes)
          THEN /\ op' = [op EXCEPT !.pc = to, !.work = settled]
               /\ unseen' = [unseen EXCEPT !.cred = FALSE]
               /\ UNCHANGED <<state, last>>
          ELSE Return(failed, "failed") /\ Unwitnessed(hub')
  /\ UNCHANGED config

\* What a failed Create leaves: OpenTofu taints the object it was given.
Tainted(m) == [m EXCEPT !.tainted = TRUE]

CreateHeaders(o) ==
  /\ op.pc = "create_headers" /\ NeedsHeaders
  /\ SetUpstreamAuth(o, "create_archived",
                     [op.work EXCEPT !.applied = op.plan.version],
                     Tainted(op.work))

CreateNoHeaders ==
  /\ op.pc = "create_headers" /\ ~NeedsHeaders
  /\ op' = [op EXCEPT !.pc = "create_archived"]
  /\ UNCHANGED <<hub, config, state, last, accepted, unseen, spent>>

\* app_archive or app_unarchive, always the last request.
SetArchived(o, archived, failed) ==
  /\ LET takes == hub # Null IN
     /\ Request(o, takes, [hub EXCEPT !.archived = archived])
     /\ IF Succeeds(o, takes)
          THEN /\ Finish([op.work EXCEPT !.archived = archived])
               /\ UNCHANGED unseen
          ELSE Return(failed, "failed") /\ Unwitnessed(hub')
  /\ UNCHANGED <<config, accepted>>

CreateArchived(o) ==
  /\ op.pc = "create_archived" /\ op.plan.archived = TRUE
  /\ SetArchived(o, TRUE, Tainted(op.work))

CreateDone ==
  /\ op.pc = "create_archived" /\ op.plan.archived # TRUE
  /\ Finish(op.work)
  /\ UNCHANGED <<hub, config, accepted, unseen, spent>>

-----------------------------------------------------------------------------
(* Update                                                                  *)

\* A non-empty plan that ModifyPlan does not refuse is applied.
PlanUpdate ==
  /\ op.pc = "idle" /\ config # Null /\ state # Null
  /\ ~state.tainted
  /\ ~PlanRefused(config, state) /\ ~PlanEmpty(config, state)
  /\ op' = [pc |-> "update", plan |-> UpdatePlan(config, state),
            work |-> state]
  /\ UNCHANGED <<hub, config, state, last, accepted, unseen, spent>>

\* ModifyPlan defers while auth or headers_version is unknown, so the plan that
\* is shown keeps the witness.  OpenTofu plans again once the value is known,
\* and fails the apply if that plan is refused or has another witness; one that
\* agrees is PlanUpdate's.
PlanDeferred ==
  /\ op.pc = "idle" /\ config # Null /\ state # Null
  /\ ~state.tainted
  /\ config.auth # Null \/ config.version # Null
  /\ PlanRefused(config, state)
     \/ UpdatePlan(config, state).applied # state.applied
  /\ last' = "failed"
  /\ UNCHANGED <<hub, config, state, op, accepted, unseen, spent>>

\* app_update, sent only when a field it patches differs.
UpdateFields(o) ==
  /\ op.pc = "update" /\ ProxyAppChanged(op.plan, op.work)
  /\ LET takes == IsProxy(hub) IN
     /\ Request(o, takes, HubPatched(hub, op.plan))
     /\ IF Succeeds(o, takes)
          THEN /\ op' = [op EXCEPT !.pc = "update_headers",
                                   !.work = FromRow(@, hub')]
               /\ unseen' = [unseen EXCEPT !.row = FALSE]
               /\ UNCHANGED <<state, last>>
          ELSE Return(op.work, "failed") /\ Unwitnessed(hub')
  /\ UNCHANGED <<config, accepted>>

UpdateNoFields ==
  /\ op.pc = "update" /\ ~ProxyAppChanged(op.plan, op.work)
  /\ op' = [op EXCEPT !.pc = "update_headers"]
  /\ UNCHANGED <<hub, config, state, last, accepted, unseen, spent>>

\* Mutant: the witness advanced before the request that it vouches for.
UpdateHeadersEager(o) ==
  /\ op.pc = "update_headers" /\ op.plan.applied = Unknown /\ NeedsHeaders
  /\ LET m == [op.work EXCEPT !.applied = op.plan.version,
                              !.version = op.plan.version]
     IN SetUpstreamAuth(o, "update_archived", m, m)

\* Headers are sent when ModifyPlan flagged them and the app takes them.
UpdateHeaders(o) ==
  /\ op.pc = "update_headers" /\ op.plan.applied = Unknown /\ NeedsHeaders
  /\ SetUpstreamAuth(o, "update_archived",
                     [op.work EXCEPT !.applied = op.plan.version,
                                     !.version = op.plan.version],
                     op.work)

\* Flagged with nothing to send: the witness is dropped.  Not flagged: kept.
UpdateNoHeaders ==
  /\ op.pc = "update_headers"
  /\ ~(op.plan.applied = Unknown /\ NeedsHeaders)
  /\ op' = [op EXCEPT
       !.pc = "update_archived",
       !.work.applied = IF op.plan.applied = Unknown THEN Null ELSE @,
       !.work.version = op.plan.version]
  /\ UNCHANGED <<hub, config, state, last, accepted, unseen, spent>>

UpdateArchived(o) ==
  /\ op.pc = "update_archived" /\ op.plan.archived # op.work.archived
  /\ SetArchived(o, op.plan.archived, op.work)

UpdateDone ==
  /\ op.pc = "update_archived" /\ op.plan.archived = op.work.archived
  /\ Finish(op.work)
  /\ UNCHANGED <<hub, config, accepted, unseen, spent>>

-----------------------------------------------------------------------------
(* Delete, Read, Import                                                    *)

\* The block is gone, or the object is tainted and has to be replaced.
PlanDelete ==
  /\ op.pc = "idle" /\ state # Null
  /\ config = Null \/ state.tainted
  /\ op' = [pc |-> "delete", plan |-> Null, work |-> state]
  /\ UNCHANGED <<hub, config, state, last, accepted, unseen, spent>>

\* app_delete, of whatever holds the slug; one that is not there is a success.
Delete(o) ==
  /\ op.pc = "delete"
  /\ Request(o, hub # Null, Null)
  /\ IF o = "ok"
       THEN Return(Null, "ok") /\ unseen' = AllSeen
       ELSE Return(state, "failed") /\ Unwitnessed(hub')
  /\ UNCHANGED <<config, accepted>>

\* Mutant: a slug held by a tunnel app taken for an app that is gone.
ReadForgetting ==
  /\ op.pc = "idle" /\ state # Null
  /\ state' = IF IsProxy(hub) THEN FromRow(state, hub) ELSE Null
  /\ unseen' = IF IsProxy(hub) THEN [unseen EXCEPT !.row = FALSE] ELSE AllSeen
  /\ last' = IF state' = state THEN last ELSE "none"
  /\ UNCHANGED <<hub, config, op, accepted, spent>>

\* Read refreshes the row and leaves the trio alone.  A failed app_get, and a
\* slug now held by a tunnel app, are errors that change nothing.
Read ==
  /\ op.pc = "idle" /\ state # Null
  /\ hub = Null \/ IsProxy(hub)
  /\ state' = IF hub = Null THEN Null ELSE FromRow(state, hub)
  /\ unseen' = IF hub = Null THEN AllSeen ELSE [unseen EXCEPT !.row = FALSE]
  /\ last' = IF state' = state THEN last ELSE "none"
  /\ UNCHANGED <<hub, config, op, accepted, spent>>

\* Mutant: the configured version taken for the one applied.
ImportWitnessed ==
  /\ op.pc = "idle" /\ state = Null /\ config # Null /\ IsProxy(hub)
  /\ state' = Reflected(hub, config.version, config.version)
  /\ unseen' = AllSeen /\ last' = "none"
  /\ UNCHANGED <<hub, config, op, accepted, spent>>

\* Import by slug, and the Read that follows it: the trio is null.
Import ==
  /\ op.pc = "idle" /\ state = Null /\ config # Null /\ IsProxy(hub)
  /\ state' = Reflected(hub, Null, Null)
  /\ unseen' = AllSeen /\ last' = "none"
  /\ UNCHANGED <<hub, config, op, accepted, spent>>

-----------------------------------------------------------------------------
(* The environment                                                         *)

\* The operator edits the resource block between two runs.
Configure(c) ==
  /\ op.pc = "idle" /\ c # config
  /\ spent.edits < MaxEdits
  /\ config' = c /\ last' = "none"
  /\ spent' = [spent EXCEPT !.edits = @ + 1]
  /\ UNCHANGED <<hub, state, op, accepted, unseen>>

\* An app_create with no argument but the slug.
Bare ==
  [auth |-> Unknown, roles |-> Unknown,
   common |-> [plain |-> Unknown, aliases |-> Unknown]]

\* What the web UI, or another client, can turn the row into.
Drifted ==
  IF hub = Null
    THEN {[HubCreated(Bare) EXCEPT !.auth = a] : a \in Auth} \cup
         {[HubCreated(Bare) EXCEPT !.kind = "tunnel", !.auth = Null,
                                   !.roles = Null]}
    ELSE {Null, [hub EXCEPT !.archived = ~@]} \cup
         {[hub EXCEPT !.common = m] : m \in CommonDrifted(hub.common)} \cup
         (IF ~IsProxy(hub) THEN {}
          ELSE {[hub EXCEPT !.roles = m] : m \in Stored} \cup
               {HubPatched(hub, [auth |-> a, common |-> hub.common,
                                 roles |-> hub.roles]) : a \in Auth})
         \cup (IF ~TakesHeaders(hub) THEN {}
               ELSE {[hub EXCEPT !.env = Foreign]})

Drift ==
  /\ spent.drift < MaxDrift /\ MishapsLeft
  /\ \E h \in Drifted : h # hub /\ hub' = h
  /\ IF View = Null THEN UNCHANGED unseen ELSE Unwitnessed(hub')
  /\ spent' = [spent EXCEPT !.drift = @ + 1]
  /\ UNCHANGED <<config, state, op, last, accepted>>

\* The run is killed: what the handler had not returned is not in the state.
Crash ==
  /\ op.pc # "idle" /\ spent.faults < MaxFaults /\ MishapsLeft
  /\ Return(state, "failed")
  /\ unseen' = IF state = Null THEN AllSeen
               ELSE [cred |-> unseen.cred \/ op.work # state,
                     row  |-> unseen.row \/ op.work # state]
  /\ spent' = [spent EXCEPT !.faults = @ + 1]
  /\ UNCHANGED <<hub, config, accepted>>

-----------------------------------------------------------------------------

Plan == PlanCreate \/ PlanUpdate \/ PlanDelete

Step(o) ==
  \/ CreateApp(o) \/ CreateHeaders(o) \/ CreateArchived(o)
  \/ UpdateFields(o) \/ UpdateHeaders(o) \/ UpdateArchived(o)
  \/ Delete(o)

Silent == CreateNoHeaders \/ CreateDone \/ UpdateNoFields \/ UpdateNoHeaders
          \/ UpdateDone

Next ==
  \/ Plan \/ PlanDeferred \/ Silent \/ Read \/ Import \/ Drift \/ Crash
  \/ \E o \in Outcome : Step(o)
  \/ \E c \in Configs \cup {Null} : Configure(c)

Spec == Init /\ [][Next]_vars

(***************************************************************************)
(* Fairness: `tofu apply' is run again for as long as there is something   *)
(* to apply, each run refreshes, a request that is sent again is           *)
(* eventually answered, and a value that one run had to wait for is known  *)
(* to a later one.  Killing the run, editing and drift are never obliged   *)
(* to happen.                                                              *)
(***************************************************************************)
FairSpec ==
  Spec /\ WF_vars(Plan) /\ SF_vars(Read) /\ WF_vars(Step("ok") \/ Silent)

-----------------------------------------------------------------------------
(* Properties                                                              *)

\* The witness never names a version the hub did not accept, whatever is lost,
\* refused, killed or edited: AppSetUpstreamAuth calls it the only signal that
\* a version was ever accepted, and both handlers advance it after the request.
WitnessEverAccepted ==
  \A m \in {state, op.work} :
    m # Null /\ m.applied # Null => m.applied \in accepted

\* Between an app_update that made the app oauth and the stage that drops the
\* witness, the witness names headers that are gone.
Revising ==
  op.pc = "update_headers" /\ op.plan.applied = Unknown
  /\ op.work.auth = "oauth"

\* While nothing happened to the credential behind the provider's back, the
\* hub holds exactly the headers of the version witnessed -- through every
\* flip of auth, every refused request and every half-done Create or Update.
WitnessTrue ==
  View # Null /\ View.applied # Null /\ ~unseen.cred /\ ~Revising =>
    hub # Null /\ hub.env = View.applied

\* The witness as its reader sees it: see Sealing.  While a stage is about to
\* drop it there is no claim, and a killed run is the only way back to one.
Witness == IF View = Null \/ Revising THEN Null ELSE View.applied
Promise == INSTANCE Sealing WITH
  None <- Null,
  sealed <- EnvOf(hub),
  witness <- Witness,
  trusted <- Witness # Null /\ ~unseen.cred,
  accepted <- accepted
SealingSpec == Promise!Spec

\* After a failed step the state still records what the earlier ones did to
\* the row: a later failure discards no earlier success (Update's comment).
StateMirrorsRow ==
  View # Null /\ ~unseen.row =>
    /\ IsProxy(hub)
    /\ Patched(View) = Patched(hub) /\ View.archived = hub.archived

\* An omitted auth with the pair configured, over an app that is oauth: the
\* plan keeps oauth, and no apply makes the versions meet.
KeptOauth(c, s) == c.auth = Null /\ c.version # Null /\ s.auth = "oauth"

\* One apply that reports success leaves nothing to apply: a second plan of
\* the same configuration is empty and is not refused, even when the row
\* drifted while the handler ran.
AppliedMeansSettled ==
  last = "ok" /\ config # Null /\ state # Null /\ ~KeptOauth(config, state) =>
    PlanEmpty(config, state) /\ ~PlanRefused(config, state)

\* A plan that shows no diff means the app is as configured, sealed headers
\* included, unless it was changed unseen: "no changes" is not a false comfort
\* (README: headers "would never be re-sent and the app would go live with
\* none, while apply reported success").
EmptyPlanMeansLive ==
  /\ op.pc = "idle" /\ config # Null /\ state # Null /\ unseen = AllSeen
  /\ ~state.tainted /\ PlanEmpty(config, state)
  => /\ config.auth # Null => hub.auth = config.auth
     /\ config.common.plain # Null => hub.common.plain = config.common.plain
     /\ config.common.aliases # Null =>
          hub.common.aliases = config.common.aliases
     /\ config.roles # Null => Shows(config.roles, hub.roles)
     /\ config.archived # Null => hub.archived = config.archived
     /\ config.version # Null => TakesHeaders(hub) /\ hub.env = config.version

\* A patched attribute that a step changes on the hub: the plan patches
\* something, and one that the configuration leaves out ends up as the refresh
\* had read it, if it is touched at all.
TouchedRightly(before, after, configured, refreshed) ==
  after # before =>
    /\ Patched(op.plan) # Patched(state)
    /\ configured = Null => after = refreshed

\* What app_update does to attributes edited on the hub after the refresh.  It
\* is sent only if the plan changes something it patches (proxyAppChanged), so
\* an apply that archives, or sends headers, overwrites no such edit.  But it
\* carries every attribute that is known: one that the configuration does not
\* manage is then put back to what the refresh read, and made nothing else.
FieldsLeftAlone ==
  [][op.pc \in UpdatePCs /\ op'.pc # op.pc /\ hub # Null /\ hub' # Null =>
       /\ TouchedRightly(hub.auth, hub'.auth, config.auth, state.auth)
       /\ TouchedRightly(hub.common.plain, hub'.common.plain,
                         config.common.plain, state.common.plain)
       /\ TouchedRightly(hub.common.aliases, hub'.common.aliases,
                         config.common.aliases, state.common.aliases)
       /\ TouchedRightly(hub.roles, hub'.roles, config.roles, state.roles)]_vars

\* An object leaves the state only at an instant the hub has no such app: no
\* failed, lost or killed call makes the provider forget an app that exists.
ForgottenOnlyWhenGone ==
  [][state # Null /\ state' = Null => hub' = Null]_vars

\* The objects no run can settle: the plan that ModifyPlan refuses, the kept
\* oauth above, an app whose creation was not recorded (it has to be
\* imported), a slug now held by a tunnel app, and a configuration with an
\* empty list or map that the wire cannot say, which every apply contradicts.
Stuck ==
  \/ AsksForEmpty(config)
  \/ config # Null /\ state # Null /\ ~state.tainted
     /\ (PlanRefused(config, state) \/ KeptOauth(config, state))
  \/ state = Null /\ hub # Null
  \/ hub # Null /\ ~IsProxy(hub)

Settled ==
  IF config = Null THEN state = Null
  ELSE state # Null /\ ~state.tainted /\ PlanEmpty(config, state)

\* Repeated runs converge: once edits, drift and failures cease, the object
\* settles for good, or is one of those a human has to look at.
Converges == <>[]((op.pc = "idle" /\ Settled) \/ Stuck)

-----------------------------------------------------------------------------
(* The inductive invariant behind the state properties above.              *)

\* The hub holds headers only for a proxied app in headers mode.
SealedUnderHeaders == hub # Null /\ hub.env # Null => TakesHeaders(hub)

\* A witness that can be trusted belongs to an app known to be in headers mode.
WitnessUnderHeaders ==
  View # Null /\ View.applied # Null /\ ~unseen.cred /\ ~Revising =>
    View.auth = "headers"

\* What each stage of a handler knows of the state it started from.
StageInv ==
  /\ op.pc \in {"create", "create_headers", "create_archived"} => state = Null
  /\ op.pc \in UpdatePCs \cup {"delete"} => state # Null
  /\ op.pc \in {"update", "delete"} => op.work = state
  /\ op.pc = "create_headers" => op.work.applied = Null
  /\ op.pc \in {"update", "update_headers"} =>
       /\ op.work.applied = state.applied
       /\ op.plan.applied # Unknown => op.plan.applied = state.applied
       /\ ~unseen.cred /\ state.applied # Null =>
            /\ state.auth = "headers"
            /\ op.plan.applied # Unknown => op.plan.auth = "headers"

IInv ==
  /\ TypeOK
  /\ SealedUnderHeaders
  /\ StageInv
  /\ WitnessEverAccepted
  /\ WitnessTrue
  /\ WitnessUnderHeaders
  /\ StateMirrorsRow

-----------------------------------------------------------------------------
(* What the comments say and the code does not do                          *)

\* "oauth -> headers picking up a newly configured pair" (ModifyPlan): an
\* Update that takes the app from oauth to headers with a pair configured has
\* sealed the pair's headers by the time it reaches its last stage.
FlipSendsHeaders ==
  [][op.pc = "update_headers" /\ op'.pc = "update_archived"
     /\ state.auth = "oauth" /\ op.work.auth = "headers"
     /\ op.plan.version # Null
     => TakesHeaders(hub') /\ hub'.env = op.plan.version]_vars

\* "every oauth<->oauth case do not" (ModifyPlan) mark the witness unknown.
OauthToOauthSettles ==
  op.pc = "update" /\ state.auth = "oauth" /\ op.plan.auth = "oauth" =>
    op.plan.applied # Unknown
=============================================================================
