------------------------------ MODULE TunnelApp -----------------------------
(***************************************************************************)
(* pmcp_tunnel_app (internal/provider/app_tunnel.go): one tunneled app,    *)
(* its row on the hub, the object in the OpenTofu state, and the handlers  *)
(* run step by step between them.                                          *)
(*                                                                         *)
(* The subject is owner_roles, a map that the web UI edits too and that a  *)
(* write replaces whole.  Left out of the configuration it is not managed, *)
(* yet UseStateForUnknown puts what the last refresh read into every plan, *)
(* so Update sends it only when plan and state differ.  The pattern lists  *)
(* inside a role are optional and computed too: the plan fills in what the *)
(* configuration leaves out, and the wire has no empty list.               *)
(*                                                                         *)
(* Abstractions.  `common' is commonAppModel without archived, see         *)
(* AppShared.  The slug is fixed: it forces replacement.  The hub has the  *)
(* ownerRoles field.  The hub and OpenTofu are external.                   *)
(***************************************************************************)
EXTENDS Naturals, AppShared

CONSTANTS
  Configs,      \* the configurations the operator may write
  MaxEdits,     \* bound: configuration edits
  MaxDrift,     \* bound: changes to the row made outside the provider
  MaxFaults     \* bound: requests that do not answer ok, and crashes

\* As in Client.Admin: an effect and an answer, an error and no effect, or an
\* effect whose answer is lost.
Outcome == {"ok", "refused", "lost"}

Config ==
  [common: CommonWritten, roles: Written \cup {Null},
   archived: BOOLEAN \cup {Null}]

\* A proxied app's row carries no ownerRoles key.
Row == [kind: {"tunnel"}, common: Common, roles: Stored, archived: BOOLEAN]
       \cup [kind: {"proxy"}, common: Common, roles: {Null}, archived: BOOLEAN]

Model == [common: Common, roles: Stored \cup {Null}, archived: BOOLEAN,
          tainted: BOOLEAN]

Created == [common: CommonCreated, roles: RolesCreated,
            archived: BOOLEAN \cup {Unknown}]
Updated == [common: CommonUpdated, roles: Written \cup {Null},
            archived: BOOLEAN]

ASSUME ConstantsAssumption ==
  /\ Configs \subseteq Config
  /\ MaxEdits \in Nat /\ MaxDrift \in Nat /\ MaxFaults \in Nat

ASSUME SentinelAssumption ==
  /\ {Null, Unknown} \cap BOOLEAN = {}
  /\ Null \notin Configs \cup Row \cup Model

VARIABLES
  hub,     \* the hub's row for the slug, or Null
  config,  \* the resource block, or Null
  state,   \* the object in the OpenTofu state, or Null
  op,      \* the handler in flight: where it is, its plan, its model
  last,    \* how the last apply ended, "none" once something else happened
  unseen,  \* history: the row changed and the provider does not know
  spent    \* the budgets used: edits, drift, faults

vars == <<hub, config, state, op, last, unseen, spent>>

Idle == [pc |-> "idle", plan |-> Null, work |-> Null]
UpdatePCs == {"update", "update_archived"}

Op ==
  {Idle}
  \cup [pc: {"create"}, plan: Created, work: {Null}]
  \cup [pc: {"create_archived"}, plan: Created, work: Model]
  \cup [pc: UpdatePCs, plan: Updated, work: Model]
  \cup [pc: {"delete"}, plan: {Null}, work: Model]

TypeOK ==
  /\ hub \in Row \cup {Null}
  /\ config \in Configs \cup {Null}
  /\ state \in Model \cup {Null}
  /\ op \in Op
  /\ last \in {"none", "ok", "failed", "contradicted"}
  /\ unseen \in BOOLEAN
  /\ spent \in [edits: 0..MaxEdits, drift: 0..MaxDrift, faults: 0..MaxFaults]

Init ==
  /\ hub = Null /\ config = Null /\ state = Null
  /\ op = Idle /\ last = "none" /\ unseen = FALSE
  /\ spent = [edits |-> 0, drift |-> 0, faults |-> 0]

-----------------------------------------------------------------------------
(* The hub's operations (external)                                         *)

HubCreated(p) ==
  [kind |-> "tunnel",
   common |-> CommonOfCreated(p.common), roles |-> RolesOfCreated(p.roles),
   archived |-> FALSE]

IsTunnel(h) == h # Null /\ h.kind = "tunnel"

\* app_update refuses owner_roles on a proxied app.
HubPatches(h, withRoles) == h # Null /\ (withRoles => IsTunnel(h))

HubPatched(h, p, withRoles) ==
  [h EXCEPT !.common = CommonPatched(@, p.common),
            !.roles = IF withRoles THEN ToWire(p.roles) ELSE @]

-----------------------------------------------------------------------------
(* Planning and conversion                                                 *)

UpdatePlan(c, s) ==
  [common |-> KeptCommon(c.common, s.common),
   roles |-> KeptRoles(c.roles, s.roles),
   archived |-> Kept(c.archived, s.archived)]

CreatePlan(c) ==
  [common |-> ResolvableCommon(c.common), roles |-> ResolvableRoles(c.roles),
   archived |-> Resolvable(c.archived)]

PlanEmpty(c, s) ==
  UpdatePlan(c, s) = [common |-> s.common, roles |-> s.roles,
                      archived |-> s.archived]

\* Mutant: the map resent beside every other change.
RolesSentAlways(p, s) == p.roles # Null

\* ownerRolesChanged, and a null map drops out of the arguments.
RolesSent(p, s) == p.roles # s.roles /\ p.roles # Null

\* Mutant: owner_roles not counted as a change.
FieldsOnly(p, s) == p.common # s.common

AppChanged(p, s) == p.common # s.common \/ p.roles # s.roles

\* Mutant: the roles of the plan, not those of the row.
FromRowOfPlan(h) ==
  [common |-> h.common, roles |-> IF config.roles = Null THEN h.roles
                              ELSE ToWire(config.roles),
   archived |-> h.archived, tainted |-> FALSE]

\* tunnelModelFromRow: a family the row does not have is null, not empty.
FromRow(h) == [common |-> h.common, roles |-> h.roles, archived |-> h.archived,
               tainted |-> FALSE]

-----------------------------------------------------------------------------
(* Requests                                                                *)

View == IF op.pc = "idle" THEN state ELSE op.work

Unwitnessed(h) == unseen' = (unseen \/ h # hub)

Spend(o) ==
  IF o = "ok" THEN UNCHANGED spent
  ELSE /\ spent.faults < MaxFaults
       /\ spent' = [spent EXCEPT !.faults = @ + 1]

Return(s, r) == state' = s /\ op' = Idle /\ last' = r

\* OpenTofu refuses an answer that contradicts a value the plan showed, and
\* records it nevertheless.
Echoes(p, m) ==
  /\ EchoesCommon(p.common, m.common) /\ EchoesRoles(p.roles, m.roles)
  /\ p.archived \in {m.archived, Unknown}

\* An object whose creation was contradicted is tainted.
Finish(m) ==
  IF Echoes(op.plan, m) THEN Return(m, "ok")
  ELSE Return([m EXCEPT !.tainted = op.pc = "create_archived"], "contradicted")

Request(o, takes, after) ==
  /\ Spend(o)
  /\ hub' = IF takes /\ o # "refused" THEN after ELSE hub

-----------------------------------------------------------------------------
(* Create                                                                  *)

PlanCreate ==
  /\ op.pc = "idle" /\ config # Null /\ state = Null
  /\ op' = [pc |-> "create", plan |-> CreatePlan(config), work |-> Null]
  /\ UNCHANGED <<hub, config, state, last, unseen, spent>>

\* app_create; the new object is reflected before it is archived.
CreateApp(o) ==
  /\ op.pc = "create"
  /\ Request(o, hub = Null, HubCreated(op.plan))
  /\ IF hub = Null /\ o = "ok"
       THEN /\ op' = [op EXCEPT !.pc = "create_archived",
                                !.work = FromRow(hub')]
            /\ UNCHANGED <<state, last>>
       ELSE Return(Null, "failed")
  /\ unseen' = FALSE
  /\ UNCHANGED config

\* app_archive or app_unarchive, the last request; `failed' is what the handler
\* leaves in the state if it is not answered.
SetArchived(o, archived, failed) ==
  /\ Request(o, hub # Null, [hub EXCEPT !.archived = archived])
  /\ IF hub # Null /\ o = "ok"
       THEN Finish([op.work EXCEPT !.archived = archived]) /\ UNCHANGED unseen
       ELSE Return(failed, "failed") /\ Unwitnessed(hub')
  /\ UNCHANGED config

\* A creation that fails after its object was reflected leaves it tainted.
CreateArchived(o) ==
  /\ op.pc = "create_archived" /\ op.plan.archived = TRUE
  /\ SetArchived(o, TRUE, [op.work EXCEPT !.tainted = TRUE])

CreateDone ==
  /\ op.pc = "create_archived" /\ op.plan.archived # TRUE
  /\ Finish(op.work)
  /\ UNCHANGED <<hub, config, unseen, spent>>

-----------------------------------------------------------------------------
(* Update                                                                  *)

PlanUpdate ==
  /\ op.pc = "idle" /\ config # Null /\ state # Null
  /\ ~state.tainted /\ ~PlanEmpty(config, state)
  /\ op' = [pc |-> "update", plan |-> UpdatePlan(config, state),
            work |-> state]
  /\ UNCHANGED <<hub, config, state, last, unseen, spent>>

\* app_update: every common field, and the roles if they changed.  Its row
\* becomes the model, whatever it says.
UpdateFields(o) ==
  /\ op.pc = "update" /\ AppChanged(op.plan, op.work)
  /\ LET withRoles == RolesSent(op.plan, op.work)
         takes == HubPatches(hub, withRoles)
     IN
     /\ Request(o, takes, HubPatched(hub, op.plan, withRoles))
     /\ IF takes /\ o = "ok"
          THEN /\ op' = [op EXCEPT !.pc = "update_archived",
                                   !.work = FromRow(hub')]
               /\ unseen' = FALSE
               /\ UNCHANGED <<state, last>>
          ELSE Return(op.work, "failed") /\ Unwitnessed(hub')
  /\ UNCHANGED config

UpdateNoFields ==
  /\ op.pc = "update" /\ ~AppChanged(op.plan, op.work)
  /\ op' = [op EXCEPT !.pc = "update_archived"]
  /\ UNCHANGED <<hub, config, state, last, unseen, spent>>

UpdateArchived(o) ==
  /\ op.pc = "update_archived" /\ op.plan.archived # op.work.archived
  /\ SetArchived(o, op.plan.archived, op.work)

UpdateDone ==
  /\ op.pc = "update_archived" /\ op.plan.archived = op.work.archived
  /\ Finish(op.work)
  /\ UNCHANGED <<hub, config, unseen, spent>>

-----------------------------------------------------------------------------
(* Delete, Read, Import                                                    *)

PlanDelete ==
  /\ op.pc = "idle" /\ state # Null
  /\ config = Null \/ state.tainted
  /\ op' = [pc |-> "delete", plan |-> Null, work |-> state]
  /\ UNCHANGED <<hub, config, state, last, unseen, spent>>

\* app_delete, of whatever holds the slug; one that is not there is a success.
Delete(o) ==
  /\ op.pc = "delete"
  /\ Request(o, hub # Null, Null)
  /\ IF o = "ok"
       THEN Return(Null, "ok") /\ unseen' = FALSE
       ELSE Return(state, "failed") /\ Unwitnessed(hub')
  /\ UNCHANGED config

\* A failed app_get, and a slug held by a proxied app, are errors that change
\* nothing.
Read ==
  /\ op.pc = "idle" /\ state # Null
  /\ hub = Null \/ IsTunnel(hub)
  /\ state' = IF hub = Null THEN Null
              ELSE [FromRow(hub) EXCEPT !.tainted = state.tainted]
  /\ unseen' = FALSE
  /\ last' = IF state' = state THEN last ELSE "none"
  /\ UNCHANGED <<hub, config, op, spent>>

\* Import by slug, and the Read that follows it.
Import ==
  /\ op.pc = "idle" /\ state = Null /\ config # Null /\ IsTunnel(hub)
  /\ state' = FromRow(hub)
  /\ unseen' = FALSE /\ last' = "none"
  /\ UNCHANGED <<hub, config, op, spent>>

-----------------------------------------------------------------------------
(* The environment (external)                                              *)

Configure(c) ==
  /\ op.pc = "idle" /\ c # config /\ spent.edits < MaxEdits
  /\ config' = c /\ last' = "none"
  /\ spent' = [spent EXCEPT !.edits = @ + 1]
  /\ UNCHANGED <<hub, state, op, unseen>>

\* An app_create with no argument but the slug.
Bare == [common |-> [plain |-> Unknown, aliases |-> Unknown], roles |-> Unknown]

\* What the web UI, or another client, can turn the row into.
Drifted ==
  IF hub = Null
    THEN {HubCreated(Bare),
          [HubCreated(Bare) EXCEPT !.kind = "proxy", !.roles = Null]}
    ELSE {Null, [hub EXCEPT !.archived = ~@]}
         \cup {[hub EXCEPT !.common = m] : m \in CommonDrifted(hub.common)}
         \cup {[hub EXCEPT !.roles = m] :
                  m \in IF IsTunnel(hub) THEN Stored ELSE {}}

Drift ==
  /\ spent.drift < MaxDrift
  /\ \E h \in Drifted : h # hub /\ hub' = h
  /\ IF View = Null THEN UNCHANGED unseen ELSE unseen' = TRUE
  /\ spent' = [spent EXCEPT !.drift = @ + 1]
  /\ UNCHANGED <<config, state, op, last>>

\* The run is killed: what the handler had not returned is not in the state.
Crash ==
  /\ op.pc # "idle" /\ spent.faults < MaxFaults
  /\ Return(state, "failed")
  /\ unseen' = (state # Null /\ (unseen \/ op.work # state))
  /\ spent' = [spent EXCEPT !.faults = @ + 1]
  /\ UNCHANGED <<hub, config>>

-----------------------------------------------------------------------------

Plan == PlanCreate \/ PlanUpdate \/ PlanDelete
Step(o) == CreateApp(o) \/ CreateArchived(o) \/ UpdateFields(o)
           \/ UpdateArchived(o) \/ Delete(o)
Silent == CreateDone \/ UpdateNoFields \/ UpdateDone

Next ==
  \/ Plan \/ Silent \/ Read \/ Import \/ Drift \/ Crash
  \/ \E o \in Outcome : Step(o)
  \/ \E c \in Configs \cup {Null} : Configure(c)

Spec == Init /\ [][Next]_vars

\* As in ProxyApp: runs are repeated, each refreshes, requests sent again are
\* eventually answered.
FairSpec ==
  Spec /\ WF_vars(Plan) /\ SF_vars(Read) /\ WF_vars(Step("ok") \/ Silent)

-----------------------------------------------------------------------------
(* Properties                                                              *)

\* After any failed step the state records what the earlier ones did, and what
\* others did before the row was read: "a later failure does not discard an
\* earlier success" (Update's comment).
StateMirrorsRow ==
  View # Null /\ ~unseen =>
    /\ hub # Null
    /\ <<View.common, View.roles, View.archived>>
         = <<hub.common, hub.roles, hub.archived>>

\* A row has what is configured.
Meets(configured, m) ==
  /\ configured # Null /\ DOMAIN configured = DOMAIN m
  /\ \A r \in DOMAIN m :
       configured[r] = Null \/ m[r] = ToWire(configured)[r]

\* An Update writes owner_roles only to make them what is configured, and only
\* when the refresh read something else: roles set from the web UI, before the
\* refresh or after it, survive every apply that does not manage them (README:
\* "omitting the attribute leaves the hub's owner roles").
OwnerRolesLeftAlone ==
  [][op.pc \in UpdatePCs /\ op'.pc # op.pc
     /\ hub # Null /\ hub' # Null /\ hub'.roles # hub.roles
     => Meets(config.roles, hub'.roles) /\ ~Shows(config.roles, state.roles)]_vars

\* One apply that reports success leaves nothing to apply, whatever it was
\* planned from and whoever changed the row meanwhile: what the plan left to
\* the hub, or took from the refresh, is not a diff again.
AppliedMeansSettled ==
  last = "ok" /\ config # Null /\ state # Null =>
    ~state.tainted /\ PlanEmpty(config, state)

\* An apply contradicts its plan for one of three reasons: the configuration
\* asks for an empty list or map, which the wire cannot say; owner roles that
\* this apply left alone, or aliases that it found and left null, were edited
\* between its refresh and its app_update.
ContradictedOnlyByOthers ==
  [][op.pc # "idle" /\ op'.pc = "idle" /\ last' = "contradicted" =>
       \/ AsksForEmpty(config)
       \/ state # Null /\ op.plan.roles = state.roles
          /\ state'.roles # state.roles
       \/ state # Null /\ op.plan.common.aliases = Null
          /\ state.common.aliases = Null /\ state'.common.aliases # Null]_vars

\* An app to import, a slug held by a proxied app, and a configuration that no
\* row can meet are for a human.
Stuck ==
  \/ state = Null /\ hub # Null
  \/ hub # Null /\ ~IsTunnel(hub)
  \/ AsksForEmpty(config)

Settled ==
  IF config = Null THEN state = Null
  ELSE state # Null /\ ~state.tainted /\ PlanEmpty(config, state)

\* Repeated runs settle, contradictions included: the next one plans again from
\* the row that the contradicted one recorded.
Converges == <>[]((op.pc = "idle" /\ Settled) \/ Stuck)

-----------------------------------------------------------------------------
(* What the comments say and the code does not do                          *)

\* "The value is the complete set and apply replaces the hub's with it" (the
\* doc of owner_roles): after an apply that succeeded the hub grants what the
\* configuration lists, and nothing else.
ApplyReplacesRoles ==
  last = "ok" /\ ~unseen /\ config # Null /\ state # Null
  /\ config.roles # Null => hub.roles = ToWire(config.roles)

\* An "explicitly empty family list" is normalized away "without a `provider
\* produced inconsistent result' error" (the comment of rolesAttribute): with
\* nobody else at work, and no empty map of aliases, no row contradicts the
\* plan it answers.
EmptyFamilyIsNoContradiction ==
  config # Null /\ config.common.aliases # EmptyList => last # "contradicted"
=============================================================================
