--------------------------- MODULE ProxyAppProofs ---------------------------
(***************************************************************************)
(* Proofs about ProxyApp, for every set of versions, attribute values,     *)
(* configurations and failures, and every bound: its types, its inductive  *)
(* invariant, what its steps may never do, and that it implements Sealing. *)
(***************************************************************************)
EXTENDS ProxyApp, AppSharedProofs

(***************************************************************************)
(* What the type of op says of the plan and the model at each stage.       *)
(***************************************************************************)
LEMMA StageTypes ==
  ASSUME TypeOK
  PROVE  /\ op.pc = "create" => op.plan \in Created
         /\ op.pc \in {"create_headers", "create_archived"} =>
              op.plan \in Created /\ op.work \in Model
         /\ op.pc \in UpdatePCs => op.plan \in Updated /\ op.work \in Model
         /\ op.pc = "delete" => op.work \in Model
         /\ op.pc = "idle" => op = Idle
  BY DEF TypeOK, Op, Idle, UpdatePCs

(***************************************************************************)
(* The operator's plan is well typed: planning an update of an object with *)
(* a valid configuration resolves every attribute.                         *)
(***************************************************************************)
LEMMA UpdatePlanType ==
  ASSUME NEW c \in Configs, NEW s \in Model
  PROVE  UpdatePlan(c, s) \in Updated
  <1>1. c \in Config
    BY ConstantsAssumption
  <1>2. /\ KeptCommon(c.common, s.common) \in CommonUpdated
        /\ KeptRoles(c.roles, s.roles) \in Written
    BY <1>1, CommonTypes, KeptRolesWritten DEF Config, Model
  <1>3. Kept(c.auth, s.auth) \in Auth /\ Kept(c.archived, s.archived) \in BOOLEAN
    BY <1>1, SentinelAssumption DEF Config, Model, Kept
  <1>4. c.version \in Versions \cup {Null} /\ s.applied \in Versions \cup {Null}
    BY <1>1 DEF Config, Model
  <1>5. QED
    BY <1>2, <1>3, <1>4 DEF UpdatePlan, Updated

LEMMA CreatePlanType ==
  ASSUME NEW c \in Configs
  PROVE  CreatePlan(c) \in Created
  <1>1. c \in Config
    BY ConstantsAssumption
  <1>2. /\ ResolvableCommon(c.common) \in CommonCreated
        /\ ResolvableRoles(c.roles) \in RolesCreated
    BY <1>1, CommonTypes, ResolvableRolesType DEF Config
  <1>3. /\ Resolvable(c.auth) \in Auth \cup {Unknown}
        /\ Resolvable(c.archived) \in BOOLEAN \cup {Unknown}
        /\ c.version \in Versions \cup {Null}
    BY <1>1, SentinelAssumption DEF Config, Resolvable
  <1>4. QED
    BY <1>2, <1>3 DEF CreatePlan, Created

(***************************************************************************)
(* What the hub's operations make of a row is a row.                       *)
(***************************************************************************)
ProxyRow ==
  [kind: {"proxy"}, auth: Auth, common: Common, roles: Stored,
   archived: BOOLEAN, env: Versions \cup {Null, Foreign}]

LEMMA RowTypes ==
  ASSUME NEW h \in Row
  PROVE  /\ h # Null /\ h.common \in Common /\ h.archived \in BOOLEAN
         /\ IsProxy(h) => h \in ProxyRow
         /\ h \in ProxyRow => IsProxy(h)
  BY SentinelAssumption DEF Row, ProxyRow, IsProxy

LEMMA CreatedRow == ASSUME NEW p \in Created PROVE HubCreated(p) \in ProxyRow
  <1>1. CommonOfCreated(p.common) \in Common /\ RolesOfCreated(p.roles) \in Stored
    BY CommonTypes, RolesOfCreatedType DEF Created
  <1>2. QED
    BY <1>1 DEF HubCreated, ProxyRow, Created, Auth

LEMMA BareRow == HubCreated(Bare) \in ProxyRow
  <1>1. Bare.common \in CommonCreated /\ Bare.roles \in RolesCreated
    BY DEF Bare, CommonCreated, RolesCreated
  <1>2. CommonOfCreated(Bare.common) \in Common /\ RolesOfCreated(Bare.roles) \in Stored
    BY <1>1, CommonTypes, RolesOfCreatedType
  <1>3. Bare.auth = Unknown
    BY DEF Bare
  <1>4. QED
    BY <1>2, <1>3 DEF HubCreated, ProxyRow, Auth

LEMMA PatchedRow ==
  ASSUME NEW h \in ProxyRow, NEW p, p.auth \in Auth,
         p.common \in CommonUpdated, p.roles \in Written
  PROVE  /\ HubPatched(h, p) \in ProxyRow
         /\ HubPatched(h, p).auth = p.auth
         /\ HubPatched(h, p).common = CommonPatched(h.common, p.common)
         /\ HubPatched(h, p).roles = ToWire(p.roles)
         /\ HubPatched(h, p).archived = h.archived
         /\ HubPatched(h, p).env = IF p.auth # h.auth THEN Null ELSE h.env
  <1>1. CommonPatched(h.common, p.common) \in Common
    BY CommonTypes DEF ProxyRow
  <1>2. ToWire(p.roles) \in Stored
    BY WireStored DEF Written
  <1>3. QED
    BY <1>1, <1>2 DEF HubPatched, ProxyRow

LEMMA ProxyRows == ProxyRow \subseteq Row
  BY DEF ProxyRow, Row

\* The row read back is an object.
LEMMA ReadBack ==
  ASSUME NEW h \in ProxyRow
  PROVE  /\ \A m \in Model : FromRow(m, h) \in Model
         /\ \A v \in Versions \cup {Null}, a \in Versions \cup {Null} :
              Reflected(h, v, a) \in Model
  BY DEF ProxyRow, FromRow, Reflected, Model

LEMMA UpdatedRow ==
  ASSUME TypeOK, op.pc \in UpdatePCs, IsProxy(hub)
  PROVE  LET h == HubPatched(hub, op.plan) IN
         /\ hub \in ProxyRow /\ h \in ProxyRow /\ h \in Row /\ IsProxy(h)
         /\ h.auth = op.plan.auth
         /\ h.common = CommonPatched(hub.common, op.plan.common)
         /\ h.roles = ToWire(op.plan.roles)
         /\ h.archived = hub.archived
         /\ h.env = IF op.plan.auth # hub.auth THEN Null ELSE hub.env
  <1>1. op.plan.auth \in Auth /\ op.plan.common \in CommonUpdated
        /\ op.plan.roles \in Written
    BY StageTypes DEF Updated
  <1>2. hub \in ProxyRow
    BY RowTypes DEF TypeOK, IsProxy
  <1>3. QED
    BY <1>1, <1>2, PatchedRow, ProxyRows, RowTypes

\* However a handler ends, it leaves an object or none; one that it finishes
\* with is the object it had, but for its taint.
LEMMA Finished ==
  ASSUME NEW m \in Model, Finish(m)
  PROVE  /\ state' \in Model /\ state' # Null
         /\ op' = Idle /\ last' \in {"ok", "contradicted"}
         /\ Patched(state') = Patched(m) /\ state'.archived = m.archived
         /\ state'.applied = m.applied /\ state'.auth = m.auth
         /\ last' = "ok" => Echoes(op.plan, m) /\ state' = m
  <1>1. CASE Echoes(op.plan, m)
    BY <1>1, SentinelAssumption DEF Finish, Return
  <1>2. CASE ~Echoes(op.plan, m)
    <2>1. PICK t \in BOOLEAN : state' = [m EXCEPT !.tainted = t]
      BY <1>2 DEF Finish, Return
    <2>2. state' \in Model /\ Patched(state') = Patched(m)
          /\ state'.archived = m.archived /\ state'.applied = m.applied
          /\ state'.auth = m.auth
      BY <2>1 DEF Model, Patched
    <2>3. QED
      BY <1>2, <2>2, SentinelAssumption DEF Finish, Return
  <1>3. QED
    BY <1>1, <1>2

(***************************************************************************)
(* Type correctness, action by action.                                     *)
(***************************************************************************)
LEMMA TypePlan ==
  ASSUME TypeOK, Plan
  PROVE  TypeOK'
  <1>1. CASE PlanCreate
    <2>1. CreatePlan(config) \in Created
      BY <1>1, CreatePlanType DEF TypeOK, PlanCreate
    <2>2. op' \in Op
      BY <1>1, <2>1 DEF PlanCreate, Op
    <2>3. QED
      BY <1>1, <2>2 DEF TypeOK, PlanCreate
  <1>2. CASE PlanUpdate
    <2>1. UpdatePlan(config, state) \in Updated
      BY <1>2, UpdatePlanType DEF TypeOK, PlanUpdate
    <2>2. op' \in Op
      BY <1>2, <2>1 DEF PlanUpdate, Op, TypeOK, UpdatePCs
    <2>3. QED
      BY <1>2, <2>2 DEF TypeOK, PlanUpdate
  <1>3. CASE PlanDelete
    <2>1. op' \in Op
      BY <1>3 DEF PlanDelete, Op, TypeOK
    <2>2. QED
      BY <1>3, <2>1 DEF TypeOK, PlanDelete
  <1>4. QED
    BY <1>1, <1>2, <1>3 DEF Plan

LEMMA TypeSpend ==
  ASSUME TypeOK, NEW o, Spend(o)
  PROVE  spent' \in [edits: 0..MaxEdits, drift: 0..MaxDrift,
                     faults: 0..MaxFaults]
  BY ConstantsAssumption DEF TypeOK, Spend

LEMMA TypeUnwitnessed ==
  ASSUME TypeOK, Unwitnessed(hub')
  PROVE  unseen' \in [cred: BOOLEAN, row: BOOLEAN]
  BY DEF TypeOK, Unwitnessed

LEMMA TypeIdle == Idle \in Op
  BY DEF Op

LEMMA TypeSetUpstreamAuth ==
  ASSUME TypeOK, NEW o \in Outcome, NEW to, NEW settled, NEW failed \in Model,
         op.plan.version \in Versions,
         [op EXCEPT !.pc = to, !.work = settled] \in Op,
         SetUpstreamAuth(o, to, settled, failed)
  PROVE  TypeOK'
  <1>1. hub' \in Row \cup {Null}
    BY DEF SetUpstreamAuth, Request, TakesHeaders, IsProxy, TypeOK, Row
  <1>2. accepted' \subseteq Versions
    BY DEF SetUpstreamAuth, TypeOK
  <1>3. CASE Succeeds(o, TakesHeaders(hub))
    BY <1>1, <1>2, <1>3, TypeSpend DEF SetUpstreamAuth, TypeOK, Request
  <1>4. CASE ~Succeeds(o, TakesHeaders(hub))
    BY <1>1, <1>2, <1>4, TypeSpend, TypeIdle, TypeUnwitnessed
    DEF SetUpstreamAuth, TypeOK, Request, Return
  <1>5. QED
    BY <1>3, <1>4

LEMMA TypeSetArchived ==
  ASSUME TypeOK, NEW o \in Outcome, NEW archived \in BOOLEAN,
         NEW failed \in Model, op.work \in Model,
         SetArchived(o, archived, failed)
  PROVE  TypeOK'
  <1>1. hub' \in Row \cup {Null}
    BY DEF SetArchived, Request, TypeOK, Row
  <1>2. [op.work EXCEPT !.archived = archived] \in Model
    BY DEF Model
  <1>3. /\ state' \in Model /\ op' = Idle
        /\ last' \in {"ok", "failed", "contradicted"}
    BY <1>2, Finished DEF SetArchived, Return
  <1>4. unseen' \in [cred: BOOLEAN, row: BOOLEAN]
    BY TypeUnwitnessed DEF SetArchived, TypeOK
  <1>5. QED
    BY <1>1, <1>3, <1>4, TypeSpend, TypeIdle
    DEF SetArchived, TypeOK, Request

\* What the handler knows once app_create has answered.
LEMMA CreatedObject ==
  ASSUME TypeOK, NEW o, CreateApp(o), Succeeds(o, hub = Null)
  PROVE  /\ op' = [pc |-> "create_headers", plan |-> op.plan,
                   work |-> Reflected(hub', op.plan.version, Null)]
         /\ hub' = HubCreated(op.plan) /\ hub' \in ProxyRow /\ op.plan \in Created
         /\ UNCHANGED <<state, last, config>>
  <1>1. op.pc = "create" /\ op.plan \in Created
    BY StageTypes DEF CreateApp
  <1>2. hub' = HubCreated(op.plan) /\ hub' \in ProxyRow
    BY <1>1, CreatedRow DEF CreateApp, Request, Succeeds
  <1>3. QED
    BY <1>1, <1>2 DEF CreateApp, TypeOK, Op, Idle, UpdatePCs

LEMMA TypeCreate ==
  ASSUME TypeOK, NEW o \in Outcome,
         CreateApp(o) \/ CreateHeaders(o) \/ CreateArchived(o)
           \/ CreateNoHeaders \/ CreateDone
  PROVE  TypeOK'
  <1>1. CASE CreateApp(o)
    <2>1. op.pc = "create" /\ op.plan \in Created
      BY <1>1, StageTypes DEF CreateApp
    <2>2. HubCreated(op.plan) \in Row
      BY <2>1, CreatedRow, ProxyRows
    <2>3. hub' \in Row \cup {Null}
      BY <1>1, <2>2 DEF CreateApp, Request, TypeOK
    <2>4. CASE Succeeds(o, hub = Null)
      <3>1. /\ hub' \in ProxyRow
            /\ op' = [pc |-> "create_headers", plan |-> op.plan,
                      work |-> Reflected(hub', op.plan.version, Null)]
        BY <1>1, <2>4, CreatedObject
      <3>2. Reflected(hub', op.plan.version, Null) \in Model
        BY <2>1, <3>1, ReadBack DEF Created
      <3>3. op' \in Op
        BY <2>1, <3>1, <3>2 DEF Op
      <3>4. QED
        BY <1>1, <2>3, <2>4, <3>3, TypeSpend
        DEF CreateApp, TypeOK, AllSeen, Request
    <2>5. CASE ~Succeeds(o, hub = Null)
      BY <1>1, <2>3, <2>5, TypeSpend, TypeIdle
      DEF CreateApp, TypeOK, AllSeen, Request, Return
    <2>6. QED
      BY <2>4, <2>5
  <1>2. CASE CreateHeaders(o)
    <2>1. op.plan \in Created /\ op.work \in Model /\ op.pc = "create_headers"
      BY <1>2, StageTypes DEF CreateHeaders
    <2>2. op.plan.version \in Versions
      BY <1>2, <2>1 DEF CreateHeaders, NeedsHeaders, Created
    <2>3. [op.work EXCEPT !.applied = op.plan.version] \in Model
      BY <2>1, <2>2 DEF Model
    <2>4. Tainted(op.work) \in Model
      BY <2>1 DEF Tainted, Model
    <2>5. [op EXCEPT !.pc = "create_archived",
                     !.work = [op.work EXCEPT !.applied = op.plan.version]]
            \in Op
      BY <2>1, <2>3 DEF Op, TypeOK, Idle, UpdatePCs
    <2>6. QED
      BY <1>2, <2>2, <2>4, <2>5, TypeSetUpstreamAuth DEF CreateHeaders
  <1>3. CASE CreateArchived(o)
    <2>1. op.work \in Model
      BY <1>3, StageTypes DEF CreateArchived
    <2>2. Tainted(op.work) \in Model
      BY <2>1 DEF Tainted, Model
    <2>3. QED
      BY <1>3, <2>1, <2>2, TypeSetArchived DEF CreateArchived
  <1>4. CASE CreateNoHeaders
    <2>1. op' \in Op
      BY <1>4 DEF CreateNoHeaders, TypeOK, Op, Idle, UpdatePCs
    <2>2. QED
      BY <1>4, <2>1 DEF CreateNoHeaders, TypeOK
  <1>5. CASE CreateDone
    <2>1. op.work \in Model /\ Finish(op.work)
      BY <1>5, StageTypes DEF CreateDone
    <2>2. QED
      BY <1>5, <2>1, Finished, TypeIdle DEF CreateDone, TypeOK
  <1>6. QED
    BY <1>1, <1>2, <1>3, <1>4, <1>5

LEMMA TypeUpdate ==
  ASSUME TypeOK, NEW o \in Outcome,
         UpdateFields(o) \/ UpdateHeaders(o) \/ UpdateArchived(o)
           \/ UpdateNoFields \/ UpdateNoHeaders \/ UpdateDone
  PROVE  TypeOK'
  <1>0. op.pc \in UpdatePCs
    BY DEF UpdateFields, UpdateHeaders, UpdateArchived, UpdateNoFields,
        UpdateNoHeaders, UpdateDone, UpdatePCs
  <1>1. op.plan \in Updated /\ op.work \in Model
    BY <1>0, StageTypes
  <1>2. CASE UpdateFields(o)
    <2>1. IsProxy(hub) => HubPatched(hub, op.plan) \in ProxyRow
      BY <1>0, UpdatedRow
    <2>2. hub' \in Row \cup {Null}
      BY <1>2, <2>1, ProxyRows DEF UpdateFields, Request, TypeOK
    <2>3. CASE Succeeds(o, IsProxy(hub))
      <3>1. hub' = HubPatched(hub, op.plan) /\ hub' \in ProxyRow
        BY <1>2, <2>1, <2>3 DEF UpdateFields, Request, Succeeds
      <3>2. FromRow(op.work, hub') \in Model
        BY <1>1, <3>1, ReadBack
      <3>3. op' \in Op
        BY <1>1, <1>2, <2>3, <3>2 DEF UpdateFields, TypeOK, Op, Idle, UpdatePCs
      <3>4. QED
        BY <1>2, <2>2, <2>3, <3>3, TypeSpend DEF UpdateFields, TypeOK, Request
    <2>4. CASE ~Succeeds(o, IsProxy(hub))
      BY <1>1, <1>2, <2>2, <2>4, TypeSpend, TypeIdle, TypeUnwitnessed
      DEF UpdateFields, TypeOK, Request, Return
    <2>5. QED
      BY <2>3, <2>4
  <1>3. CASE UpdateHeaders(o)
    <2>1. op.plan.version \in Versions
      BY <1>1, <1>3 DEF UpdateHeaders, NeedsHeaders, Updated
    <2>2. [op.work EXCEPT !.applied = op.plan.version,
                          !.version = op.plan.version] \in Model
      BY <1>1, <2>1 DEF Model
    <2>3. [op EXCEPT !.pc = "update_archived",
                     !.work = [op.work EXCEPT !.applied = op.plan.version,
                                              !.version = op.plan.version]]
            \in Op
      BY <1>1, <1>3, <2>2 DEF UpdateHeaders, Op, TypeOK, Idle, UpdatePCs
    <2>4. QED
      BY <1>1, <1>3, <2>1, <2>3, TypeSetUpstreamAuth DEF UpdateHeaders
  <1>4. CASE UpdateArchived(o)
    BY <1>1, <1>4, TypeSetArchived DEF UpdateArchived, Updated
  <1>5. CASE UpdateNoFields
    <2>1. op' \in Op
      BY <1>5 DEF UpdateNoFields, TypeOK, Op, Idle, UpdatePCs
    <2>2. QED
      BY <1>5, <2>1 DEF UpdateNoFields, TypeOK
  <1>6. CASE UpdateNoHeaders
    <2>1. op'.work \in Model /\ op'.plan = op.plan /\ op'.pc = "update_archived"
      BY <1>1, <1>6 DEF UpdateNoHeaders, Model, Updated, TypeOK, Op, Idle
    <2>2. op' \in Op
      BY <1>1, <1>6, <2>1 DEF UpdateNoHeaders, TypeOK, Op, Idle, UpdatePCs
    <2>3. QED
      BY <1>6, <2>2 DEF UpdateNoHeaders, TypeOK
  <1>7. CASE UpdateDone
    <2>1. Finish(op.work)
      BY <1>7 DEF UpdateDone
    <2>2. QED
      BY <1>1, <1>7, <2>1, Finished, TypeIdle DEF UpdateDone, TypeOK
  <1>8. QED
    BY <1>2, <1>3, <1>4, <1>5, <1>6, <1>7

LEMMA TypeDelete ==
  ASSUME TypeOK, NEW o \in Outcome, Delete(o)
  PROVE  TypeOK'
  <1>1. hub' \in Row \cup {Null} /\ spent' \in
          [edits: 0..MaxEdits, drift: 0..MaxDrift, faults: 0..MaxFaults]
    BY TypeSpend DEF Delete, Request, TypeOK
  <1>2. CASE o = "ok"
    <2>1. state' = Null /\ op' = Idle /\ last' = "ok" /\ unseen' = AllSeen
      BY <1>2 DEF Delete, Return
    <2>2. UNCHANGED <<config, accepted>>
      BY DEF Delete
    <2>3. QED
      BY <1>1, <2>1, <2>2, TypeIdle DEF TypeOK, AllSeen
  <1>3. CASE o # "ok"
    BY <1>1, <1>3, TypeIdle, TypeUnwitnessed DEF Delete, Return, TypeOK
  <1>4. QED
    BY <1>2, <1>3

LEMMA TypeRead ==
  ASSUME TypeOK, Read \/ Import
  PROVE  TypeOK'
  <1>1. IsProxy(hub) => hub \in ProxyRow
    BY RowTypes DEF TypeOK, IsProxy
  <1>2. CASE Read
    <2>1. state' \in Model \cup {Null}
      BY <1>1, <1>2, ReadBack DEF Read, TypeOK
    <2>2. QED
      BY <1>2, <2>1 DEF Read, TypeOK, AllSeen
  <1>3. CASE Import
    <2>1. state' \in Model
      BY <1>1, <1>3, ReadBack DEF Import
    <2>2. QED
      BY <1>3, <2>1 DEF Import, TypeOK, AllSeen
  <1>4. QED
    BY <1>2, <1>3

\* What another client can turn a proxied app's row into.
LEMMA DriftedProxy ==
  ASSUME NEW h \in ProxyRow
  PROVE  /\ [h EXCEPT !.archived = ~@] \in Row
         /\ \A m \in CommonDrifted(h.common) : [h EXCEPT !.common = m] \in Row
         /\ \A m \in Stored : [h EXCEPT !.roles = m] \in Row
         /\ [h EXCEPT !.env = Foreign] \in Row
         /\ \A a \in Auth :
              LET d == HubPatched(h, [auth |-> a, common |-> h.common,
                                      roles |-> h.roles])
              IN  /\ d \in Row /\ d.kind = "proxy" /\ d.auth = a
                  /\ d.env = IF a # h.auth THEN Null ELSE h.env
  <1>1. CommonDrifted(h.common) \subseteq Common
    BY CommonTypes DEF ProxyRow
  <1>2. ASSUME NEW a \in Auth
        PROVE  LET d == HubPatched(h, [auth |-> a, common |-> h.common,
                                       roles |-> h.roles])
               IN  /\ d \in Row /\ d.kind = "proxy" /\ d.auth = a
                   /\ d.env = IF a # h.auth THEN Null ELSE h.env
    <2> DEFINE p == [auth |-> a, common |-> h.common, roles |-> h.roles]
    <2>1. h.common \in CommonUpdated /\ h.roles \in Written
      BY DEF ProxyRow, Common, CommonUpdated, Stored, Written, RoleMaps
    <2>2. p.auth = a /\ p.common = h.common /\ p.roles = h.roles
      OBVIOUS
    <2> HIDE DEF p
    <2>3. /\ HubPatched(h, p) \in ProxyRow /\ HubPatched(h, p).auth = a
          /\ HubPatched(h, p).env = IF a # h.auth THEN Null ELSE h.env
      BY <2>1, <2>2, PatchedRow
    <2>4. HubPatched(h, p).kind = "proxy"
      BY <2>3 DEF ProxyRow
    <2>5. QED
      BY <2>3, <2>4, ProxyRows DEF p
  <1>3. QED
    BY <1>1, <1>2, ProxyRows DEF ProxyRow

LEMMA TypeDrift ==
  ASSUME TypeOK, Drift
  PROVE  TypeOK'
  <1>1. Drifted \subseteq Row \cup {Null}
    <2>1. CASE hub = Null
      <3>1. \A a \in Auth : [HubCreated(Bare) EXCEPT !.auth = a] \in ProxyRow
        BY BareRow DEF ProxyRow
      <3>2. [HubCreated(Bare) EXCEPT !.kind = "tunnel", !.auth = Null,
                                     !.roles = Null] \in Row
        <4>1. HubCreated(Bare).env = Null
          BY DEF HubCreated
        <4>2. QED
          BY <4>1, BareRow DEF ProxyRow, Row
      <3>3. QED
        BY <2>1, <3>1, <3>2, ProxyRows DEF Drifted
    <2>2. CASE hub \in Row /\ ~IsProxy(hub)
      <3>1. CommonDrifted(hub.common) \subseteq Common
        BY <2>2, RowTypes, CommonTypes
      <3>2. /\ [hub EXCEPT !.archived = ~@] \in Row
            /\ \A m \in CommonDrifted(hub.common) : [hub EXCEPT !.common = m] \in Row
        BY <2>2, <3>1 DEF Row
      <3>3. ~TakesHeaders(hub) /\ hub # Null
        BY <2>2, SentinelAssumption DEF TakesHeaders
      <3>4. QED
        BY <2>2, <3>2, <3>3 DEF Drifted
    <2>3. CASE hub \in Row /\ IsProxy(hub)
      <3>1. hub \in ProxyRow /\ hub # Null
        BY <2>3, RowTypes
      <3>2. SUFFICES ASSUME NEW h \in Drifted, h # Null PROVE h \in Row
        OBVIOUS
      <3>3. \/ h = [hub EXCEPT !.archived = ~@]
            \/ \E m \in CommonDrifted(hub.common) : h = [hub EXCEPT !.common = m]
            \/ \E m \in Stored : h = [hub EXCEPT !.roles = m]
            \/ \E a \in Auth :
                 h = HubPatched(hub, [auth |-> a, common |-> hub.common,
                                      roles |-> hub.roles])
            \/ h = [hub EXCEPT !.env = Foreign]
        BY <2>3, <3>1, <3>2 DEF Drifted
      <3>4. QED
        BY <3>1, <3>3, DriftedProxy
    <2>4. QED
      BY <2>1, <2>2, <2>3 DEF TypeOK
  <1>2. unseen' \in [cred: BOOLEAN, row: BOOLEAN]
    BY TypeUnwitnessed DEF Drift, TypeOK
  <1>3. spent' \in [edits: 0..MaxEdits, drift: 0..MaxDrift,
                    faults: 0..MaxFaults]
    BY ConstantsAssumption DEF Drift, TypeOK
  <1>4. QED
    BY <1>1, <1>2, <1>3 DEF Drift, TypeOK

LEMMA TypeEnvironment ==
  ASSUME TypeOK, Crash \/ \E c \in Configs \cup {Null} : Configure(c)
  PROVE  TypeOK'
  <1>1. spent' \in [edits: 0..MaxEdits, drift: 0..MaxDrift,
                    faults: 0..MaxFaults]
    BY ConstantsAssumption DEF Crash, Configure, TypeOK
  <1>2. CASE Crash
    BY <1>1, <1>2, TypeIdle DEF Crash, Return, TypeOK, AllSeen
  <1>3. CASE \E c \in Configs \cup {Null} : Configure(c)
    BY <1>1, <1>3 DEF Configure, TypeOK
  <1>4. QED
    BY <1>2, <1>3

LEMMA TypeStep ==
  ASSUME TypeOK, [Next]_vars
  PROVE  TypeOK'
  <1>1. CASE Plan
    BY <1>1, TypePlan
  <1>2. CASE Silent
    BY <1>2, TypeCreate, TypeUpdate DEF Silent, Outcome
  <1>3. CASE Read \/ Import
    BY <1>3, TypeRead
  <1>4. CASE Drift
    BY <1>4, TypeDrift
  <1>5. CASE Crash \/ \E c \in Configs \cup {Null} : Configure(c)
    BY <1>5, TypeEnvironment
  <1>6. CASE \E o \in Outcome : Step(o)
    BY <1>6, TypeCreate, TypeUpdate, TypeDelete DEF Step
  <1>7. CASE PlanDeferred \/ UNCHANGED vars
    BY <1>7 DEF PlanDeferred, vars, TypeOK
  <1>8. QED
    BY <1>1, <1>2, <1>3, <1>4, <1>5, <1>6, <1>7 DEF Next

(***************************************************************************)
(* TypeOK: every variable of the model keeps its type, for every set of    *)
(* configurations, every failure and every bound.                          *)
(***************************************************************************)
THEOREM TypeCorrect == Spec => []TypeOK
  <1>1. Init => TypeOK
    BY ConstantsAssumption, TypeIdle DEF Init, TypeOK, AllSeen
  <1>2. TypeOK /\ [Next]_vars => TypeOK'
    BY TypeStep
  <1>3. QED
    BY <1>1, <1>2, PTL DEF Spec

-----------------------------------------------------------------------------
(***************************************************************************)
(* The inductive invariant, action by action.  TypeOK' is TypeStep's.      *)
(***************************************************************************)
LEMMA InvPlan ==
  ASSUME IInv, TypeOK', Plan
  PROVE  IInv'
  <1> USE SentinelAssumption DEF IInv
  <1>1. CASE PlanCreate
    <2>1. View = Null /\ View' = Null /\ op'.pc = "create" /\ op'.work = Null
      BY <1>1 DEF PlanCreate, View, TypeOK
    <2>2. QED
      BY <1>1, <2>1 DEF PlanCreate, SealedUnderHeaders, TakesHeaders, IsProxy,
        StageInv, WitnessEverAccepted, WitnessTrue, WitnessUnderHeaders,
        StateMirrorsRow, Patched, UpdatePCs
  <1>2. CASE PlanDelete
    <2>1. View = state /\ View' = state /\ op'.pc = "delete" /\ op'.work = state
          /\ ~Revising /\ ~Revising'
      BY <1>2 DEF PlanDelete, View, Revising
    <2>2. QED
      BY <1>2, <2>1 DEF PlanDelete, SealedUnderHeaders, TakesHeaders, IsProxy,
        StageInv, WitnessEverAccepted, WitnessTrue, WitnessUnderHeaders,
        StateMirrorsRow, Patched, UpdatePCs
  <1>3. CASE PlanUpdate
    <2>1. View = state /\ View' = state /\ op'.pc = "update" /\ op'.work = state
          /\ ~Revising /\ ~Revising'
      BY <1>3 DEF PlanUpdate, View, Revising
    <2>2. StageInv'
      <3>1. op'.plan = UpdatePlan(config, state)
        BY <1>3 DEF PlanUpdate
      <3>2. config \in Configs /\ state \in Model /\ state # Null
        BY <1>3 DEF PlanUpdate, TypeOK
      <3>3. op'.plan.applied # Unknown =>
              op'.plan.applied = state.applied
              /\ config.version = state.applied
        BY <3>1, <3>2 DEF UpdatePlan, MarkApplyUnknown, Model
      <3>4. ASSUME ~unseen.cred, state.applied # Null
            PROVE  /\ state.auth = "headers"
                   /\ op'.plan.applied # Unknown => op'.plan.auth = "headers"
        <4>1. state.auth = "headers"
          BY <2>1, <3>2, <3>4 DEF WitnessUnderHeaders
        <4>2. ASSUME op'.plan.applied # Unknown
              PROVE  op'.plan.auth = "headers"
          <5>1. config.version # Null /\ config \in Config /\ ValidConfig(config)
            BY <3>2, <3>3, <3>4, <4>2, ConstantsAssumption
          <5>2. config.auth \in {"headers", Null}
            BY <5>1 DEF ValidConfig, Config, Auth
          <5>3. QED
            BY <3>1, <4>1, <5>2 DEF UpdatePlan, Kept
        <4>3. QED
          BY <4>1, <4>2
      <3>5. QED
        BY <1>3, <2>1, <3>2, <3>3, <3>4 DEF PlanUpdate, StageInv, UpdatePCs
    <2>3. QED
      BY <1>3, <2>1, <2>2 DEF PlanUpdate, SealedUnderHeaders, TakesHeaders,
        IsProxy, WitnessEverAccepted, WitnessTrue, WitnessUnderHeaders,
        StateMirrorsRow, Patched
  <1>4. QED
    BY <1>1, <1>2, <1>3 DEF Plan

\* A failed request can only add to what was not seen.
LEMMA UnseenGrows ==
  ASSUME Unwitnessed(hub')
  PROVE  /\ ~unseen'.cred => ~unseen.cred /\ EnvOf(hub') = EnvOf(hub)
         /\ ~unseen'.row => ~unseen.row /\ RowOf(hub') = RowOf(hub)
  BY Zenon DEF Unwitnessed

\* A request that seals headers in an app that takes them, or does nothing.
LEMMA SealedBySetUpstreamAuth ==
  ASSUME IInv, NEW o, NEW to, NEW settled, NEW failed,
         op.plan.version \in Versions, SetUpstreamAuth(o, to, settled, failed)
  PROVE  /\ SealedUnderHeaders'
         /\ RowOf(hub') = RowOf(hub)
         /\ accepted \subseteq accepted'
         /\ hub # Null => hub' # Null
         /\ IsProxy(hub) => IsProxy(hub')
         /\ hub # Null => /\ hub'.auth = hub.auth /\ Patched(hub') = Patched(hub)
                          /\ hub'.archived = hub.archived
  <1>1. CASE TakesHeaders(hub) /\ o # "refused"
    <2>1. hub' = [hub EXCEPT !.env = op.plan.version] /\ hub \in Row
          /\ hub # Null
      BY <1>1, SentinelAssumption
      DEF SetUpstreamAuth, Request, IInv, TypeOK, TakesHeaders, IsProxy
    <2>2. hub' \in Row /\ hub' # Null /\ hub'.auth = hub.auth
          /\ hub'.kind = hub.kind /\ Patched(hub') = Patched(hub)
          /\ hub'.archived = hub.archived
      BY <2>1, <1>1, SentinelAssumption DEF Row, TakesHeaders, IsProxy, Patched
    <2>3. QED
      BY <1>1, <2>1, <2>2
      DEF SealedUnderHeaders, TakesHeaders, IsProxy, RowOf, SetUpstreamAuth
  <1>2. CASE ~(TakesHeaders(hub) /\ o # "refused")
    <2>1. hub' = hub
      BY <1>2 DEF SetUpstreamAuth, Request
    <2>2. QED
      BY <2>1 DEF SealedUnderHeaders, TakesHeaders, IsProxy, SetUpstreamAuth,
        IInv
  <1>3. QED
    BY <1>1, <1>2

\* What the handler knows once app_set_upstream_auth has answered.
LEMMA SettledBySetUpstreamAuth ==
  ASSUME TypeOK, NEW o, NEW to, NEW settled, NEW failed,
         SetUpstreamAuth(o, to, settled, failed),
         Succeeds(o, TakesHeaders(hub))
  PROVE  /\ hub' = [hub EXCEPT !.env = op.plan.version]
         /\ hub \in Row /\ hub # Null /\ state' = state
         /\ op'.pc = to /\ op'.work = settled /\ op'.plan = op.plan
         /\ unseen'.row = unseen.row /\ unseen'.cred = FALSE
         /\ op.plan.version \in accepted'
  <1>1. /\ hub' = [hub EXCEPT !.env = op.plan.version]
        /\ hub \in Row /\ hub # Null
    BY DEF SetUpstreamAuth, Request, Succeeds, TakesHeaders, IsProxy, TypeOK
  <1>2. /\ op' = [op EXCEPT !.pc = to, !.work = settled]
        /\ unseen' = [unseen EXCEPT !.cred = FALSE] /\ state' = state
        /\ op.plan.version \in accepted'
    BY DEF SetUpstreamAuth, Succeeds
  <1>3. op = [pc |-> op.pc, plan |-> op.plan, work |-> op.work]
    BY DEF TypeOK, Op, Idle, UpdatePCs
  <1>4. op'.pc = to /\ op'.work = settled /\ op'.plan = op.plan
    BY <1>2, <1>3
  <1>5. unseen'.row = unseen.row /\ unseen'.cred = FALSE
    BY <1>2 DEF TypeOK
  <1>6. QED
    BY <1>1, <1>2, <1>4, <1>5

\* The handler finishes with the model it has, having changed nothing else.
LEMMA InvFinish ==
  ASSUME IInv, ~Revising, op.pc # "idle", op.work \in Model, Finish(op.work),
         UNCHANGED <<hub, accepted, unseen>>, TypeOK'
  PROVE  IInv'
  <1>1. /\ state' # Null /\ Patched(state') = Patched(op.work)
        /\ state'.archived = op.work.archived
        /\ state'.applied = op.work.applied /\ state'.auth = op.work.auth
        /\ op' = Idle
    BY Finished
  <1>2. View' = state' /\ op'.pc = "idle" /\ op'.work = Null
    BY <1>1 DEF View, Idle
  <1>3. View = op.work /\ View # Null
    BY SentinelAssumption DEF View
  <1>4. WitnessEverAccepted'
    BY <1>1, <1>2, <1>3 DEF IInv, WitnessEverAccepted
  <1>5. WitnessTrue' /\ WitnessUnderHeaders'
    BY <1>1, <1>2, <1>3 DEF IInv, WitnessTrue, WitnessUnderHeaders
  <1>6. StateMirrorsRow'
    BY <1>1, <1>2, <1>3 DEF IInv, StateMirrorsRow, Patched, IsProxy
  <1>7. SealedUnderHeaders' /\ StageInv'
    BY <1>2 DEF IInv, SealedUnderHeaders, TakesHeaders, IsProxy, StageInv,
      UpdatePCs
  <1>8. QED
    BY <1>4, <1>5, <1>6, <1>7 DEF IInv

\* app_archive and app_unarchive disturb nothing the invariant speaks of but
\* the archived flag, and record it exactly when the answer arrived.
LEMMA InvSetArchived ==
  ASSUME IInv, TypeOK', NEW o \in Outcome, NEW archived \in BOOLEAN,
         NEW failed \in Model, op.work \in Model, View = op.work, ~Revising,
         failed.applied = op.work.applied, failed.auth = op.work.auth,
         Patched(failed) = Patched(op.work), failed.archived = op.work.archived,
         SetArchived(o, archived, failed)
  PROVE  IInv'
  <1> USE SentinelAssumption DEF IInv
  <1>0. LET m == [op.work EXCEPT !.archived = archived] IN
          /\ m \in Model /\ Patched(m) = Patched(op.work)
          /\ m.applied = op.work.applied /\ m.auth = op.work.auth
          /\ m.archived = archived
    BY DEF Model, Patched
  <1>1. op' = Idle /\ state' # Null /\ View' = state' /\ op'.work = Null
        /\ op'.pc = "idle"
    <2>1. state' \in Model /\ op' = Idle
      BY <1>0, Finished DEF SetArchived, Return
    <2>2. QED
      BY <2>1 DEF Idle, View
  <1>2. /\ state'.applied = op.work.applied
        /\ state'.auth = op.work.auth /\ Patched(state') = Patched(op.work)
    BY <1>0, Finished DEF SetArchived, Return
  <1>3. hub # Null =>
          /\ hub' # Null /\ hub'.kind = hub.kind /\ hub'.auth = hub.auth
          /\ Patched(hub') = Patched(hub) /\ hub'.env = hub.env
    BY DEF SetArchived, Request, TypeOK, Row, Patched
  <1>4. hub = Null => hub' = Null
    BY DEF SetArchived, Request
  <1>5. ~unseen'.cred => ~unseen.cred
    BY UnseenGrows DEF SetArchived
  <1>6. StateMirrorsRow'
    <2>1. CASE Succeeds(o, hub # Null)
      <3>1. /\ hub' = [hub EXCEPT !.archived = archived] /\ hub \in Row
            /\ state'.archived = archived /\ unseen' = unseen
        BY <1>0, <2>1, Finished DEF SetArchived, Request, Succeeds, TypeOK
      <3>2. hub'.archived = archived
        BY <3>1 DEF Row
      <3>3. QED
        BY <1>1, <1>2, <1>3, <3>1, <3>2 DEF StateMirrorsRow, Patched, IsProxy, TypeOK,
          Model
    <2>2. CASE ~Succeeds(o, hub # Null)
      <3>1. state' = failed /\ Unwitnessed(hub')
        BY <2>2 DEF SetArchived, Return
      <3>2. ~unseen'.row => ~unseen.row /\ RowOf(hub') = RowOf(hub)
        BY <3>1 DEF Unwitnessed
      <3>3. hub # Null /\ RowOf(hub') = RowOf(hub) =>
              hub'.archived = hub.archived
        BY <1>3 DEF RowOf
      <3>4. QED
        BY <1>1, <1>2, <1>3, <3>1, <3>2, <3>3 DEF StateMirrorsRow, Patched, IsProxy,
          TypeOK, Model
    <2>3. QED
      BY <2>1, <2>2
  <1>7. SealedUnderHeaders'
    BY <1>3, <1>4 DEF SealedUnderHeaders, TakesHeaders, IsProxy
  <1>8. WitnessEverAccepted'
    <2>1. op.work.applied # Null => op.work.applied \in accepted
      BY DEF WitnessEverAccepted
    <2>2. accepted' = accepted
      BY DEF SetArchived
    <2>3. QED
      BY <1>1, <1>2, <2>1, <2>2 DEF WitnessEverAccepted
  <1>9. WitnessTrue' /\ WitnessUnderHeaders'
    BY <1>1, <1>2, <1>3, <1>5 DEF WitnessTrue, WitnessUnderHeaders, TypeOK,
      Model
  <1>10. QED
    BY <1>1, <1>6, <1>7, <1>8, <1>9 DEF StageInv, UpdatePCs

LEMMA InvCreate ==
  ASSUME IInv, TypeOK', NEW o \in Outcome,
         CreateApp(o) \/ CreateHeaders(o) \/ CreateArchived(o)
           \/ CreateNoHeaders \/ CreateDone
  PROVE  IInv'
  <1> USE SentinelAssumption DEF IInv
  <1>1. state = Null
    BY DEF CreateApp, CreateHeaders, CreateArchived, CreateNoHeaders,
      CreateDone, StageInv
  <1>2. CASE CreateApp(o)
    <2>1. op.pc = "create" /\ op.plan \in Created
      BY <1>2, StageTypes DEF CreateApp
    <2>2. SealedUnderHeaders'
      BY <1>2, <2>1 DEF CreateApp, Request, HubCreated, SealedUnderHeaders,
        TakesHeaders, IsProxy
    <2>3. CASE Succeeds(o, hub = Null)
      <3>1. hub' = HubCreated(op.plan) /\ hub' \in ProxyRow
        BY <1>2, <2>3, CreatedObject
      <3>2. op' = [pc |-> "create_headers", plan |-> op.plan,
                   work |-> Reflected(hub', op.plan.version, Null)]
        BY <1>2, <2>3, CreatedObject
      <3>3. state' = Null /\ View' = op'.work /\ op'.work.applied = Null
        BY <1>1, <1>2, <2>3, <3>2 DEF CreateApp, View, Reflected
      <3>4. IsProxy(hub)' /\ Patched(op'.work) = Patched(hub')
            /\ op'.work.archived = hub'.archived
        BY <3>1, <3>2, ProxyRows, RowTypes DEF IsProxy, Reflected, Patched
      <3>5. WitnessEverAccepted'
        BY <3>3 DEF WitnessEverAccepted
      <3>6. WitnessTrue' /\ WitnessUnderHeaders'
        BY <3>3 DEF WitnessTrue, WitnessUnderHeaders
      <3>7. StateMirrorsRow'
        BY <3>2, <3>3, <3>4 DEF StateMirrorsRow, Patched
      <3>8. QED
        BY <2>2, <3>2, <3>3, <3>5, <3>6, <3>7 DEF StageInv, UpdatePCs
    <2>4. CASE ~Succeeds(o, hub = Null)
      <3>1. state' = Null /\ op' = Idle
        BY <1>2, <2>4 DEF CreateApp, Return
      <3>2. View' = Null /\ op'.pc = "idle" /\ op'.work = Null
        BY <3>1 DEF Idle, View
      <3>3. WitnessEverAccepted'
        BY <3>1, <3>2 DEF WitnessEverAccepted
      <3>4. WitnessTrue' /\ WitnessUnderHeaders' /\ StateMirrorsRow'
        BY <3>2 DEF WitnessTrue, WitnessUnderHeaders, StateMirrorsRow, Patched
      <3>5. QED
        BY <2>2, <3>2, <3>3, <3>4 DEF StageInv, UpdatePCs
    <2>5. QED
      BY <2>3, <2>4
  <1>3. CASE CreateHeaders(o)
    <2>1. op.plan \in Created /\ op.work \in Model /\ op.work # Null
          /\ op.pc = "create_headers" /\ View = op.work
      BY <1>3, StageTypes DEF CreateHeaders, View
    <2>2. op.plan.version \in Versions /\ op.work.auth = "headers"
      BY <1>3, <2>1 DEF CreateHeaders, NeedsHeaders, Created
    <2>3. /\ SealedUnderHeaders' /\ RowOf(hub') = RowOf(hub)
          /\ accepted \subseteq accepted' /\ (hub # Null => hub' # Null)
          /\ IsProxy(hub) => IsProxy(hub')
          /\ hub # Null => /\ hub'.auth = hub.auth /\ Patched(hub') = Patched(hub)
                           /\ hub'.archived = hub.archived
      BY <1>3, <2>2, SealedBySetUpstreamAuth DEF CreateHeaders
    <2>4. CASE Succeeds(o, TakesHeaders(hub))
      <3>1. /\ hub' = [hub EXCEPT !.env = op.plan.version]
            /\ hub \in Row /\ hub # Null
        BY <1>3, <2>4, SettledBySetUpstreamAuth DEF CreateHeaders
      <3>2. /\ op'.pc = "create_archived" /\ state' = Null
            /\ op'.work = [op.work EXCEPT !.applied = op.plan.version]
            /\ unseen'.row = unseen.row /\ unseen'.cred = FALSE
            /\ op.plan.version \in accepted'
        BY <1>1, <1>3, <2>4, SettledBySetUpstreamAuth DEF CreateHeaders
      <3>3. op'.work.applied = op.plan.version /\ op'.work.auth = "headers"
            /\ Patched(op'.work) = Patched(op.work)
            /\ op'.work.archived = op.work.archived
        BY <2>1, <2>2, <3>2 DEF Model, Patched
      <3>4. hub'.env = op.plan.version /\ hub' # Null
        BY <2>3, <3>1 DEF Row
      <3>5. View' = op'.work
        BY <3>2 DEF View
      <3>6. WitnessEverAccepted'
        BY <3>2, <3>3 DEF WitnessEverAccepted
      <3>7. WitnessTrue' /\ WitnessUnderHeaders'
        BY <3>3, <3>4, <3>5 DEF WitnessTrue, WitnessUnderHeaders
      <3>8. StateMirrorsRow'
        BY <2>1, <2>2, <2>3, <3>1, <3>2, <3>3, <3>5 DEF StateMirrorsRow, Patched
      <3>9. QED
        BY <2>3, <3>2, <3>6, <3>7, <3>8 DEF StageInv, UpdatePCs
    <2>5. CASE ~Succeeds(o, TakesHeaders(hub))
      <3>1. state' = Tainted(op.work) /\ op' = Idle /\ Unwitnessed(hub')
        BY <1>3, <2>5 DEF CreateHeaders, SetUpstreamAuth, Return
      <3>2. state'.applied = Null /\ state'.auth = op.work.auth
            /\ Patched(state') = Patched(op.work)
            /\ state'.archived = op.work.archived
        BY <2>1, <3>1 DEF Tainted, Model, StageInv, Patched
      <3>3. View' = state' /\ op'.work = Null /\ op'.pc = "idle"
        BY <3>1 DEF View, Idle
      <3>4. ~unseen'.row => ~unseen.row
        BY <3>1 DEF Unwitnessed
      <3>5. WitnessEverAccepted'
        BY <3>2, <3>3 DEF WitnessEverAccepted
      <3>6. WitnessTrue' /\ WitnessUnderHeaders'
        BY <3>2, <3>3 DEF WitnessTrue, WitnessUnderHeaders
      <3>7. StateMirrorsRow'
        BY <2>1, <2>3, <3>2, <3>3, <3>4 DEF StateMirrorsRow, Patched, IsProxy
      <3>8. QED
        BY <2>3, <3>3, <3>5, <3>6, <3>7 DEF StageInv, UpdatePCs
    <2>6. QED
      BY <2>4, <2>5
  <1>4. CASE CreateArchived(o)
    <2>1. /\ op.work \in Model /\ op.work # Null /\ View = op.work
          /\ op.pc = "create_archived"
      BY <1>4, StageTypes DEF CreateArchived, View
    <2>2. /\ Tainted(op.work) \in Model
          /\ Tainted(op.work).applied = op.work.applied
          /\ Tainted(op.work).auth = op.work.auth
          /\ Patched(Tainted(op.work)) = Patched(op.work)
          /\ Tainted(op.work).archived = op.work.archived
      BY <2>1 DEF Tainted, Model, Patched
    <2>3. QED
      BY <1>4, <2>1, <2>2, InvSetArchived DEF CreateArchived, Revising
  <1>5. CASE CreateNoHeaders
    <2>1. /\ op'.pc = "create_archived" /\ op'.work = op.work
          /\ op.pc = "create_headers" /\ View = op.work /\ View' = op.work
      BY <1>5 DEF CreateNoHeaders, View, TypeOK, Op, Idle, UpdatePCs
    <2>2. QED
      BY <1>1, <1>5, <2>1 DEF CreateNoHeaders, SealedUnderHeaders, TakesHeaders,
        IsProxy, StageInv, WitnessEverAccepted, WitnessTrue, Revising,
        WitnessUnderHeaders, StateMirrorsRow, Patched, UpdatePCs
  <1>6. CASE CreateDone
    <2>1. op.work \in Model /\ op.pc = "create_archived" /\ Finish(op.work)
      BY <1>6, StageTypes DEF CreateDone
    <2>2. QED
      BY <1>6, <2>1, InvFinish DEF CreateDone, Revising
  <1>7. QED
    BY <1>2, <1>3, <1>4, <1>5, <1>6

\* A request failed: the handler keeps the model it has, marks what it cannot
\* know any more as unseen, and returns.
LEMMA InvFailed ==
  ASSUME IInv, TypeOK', View # Null, ~Revising, state' = View, op' = Idle,
         accepted \subseteq accepted', Unwitnessed(hub'), SealedUnderHeaders'
  PROVE  IInv'
  <1> USE SentinelAssumption DEF IInv
  <1>1. View' = View /\ op'.pc = "idle" /\ op'.work = Null
    BY DEF View, Idle
  <1>2. View.applied # Null => View.applied \in accepted'
    BY DEF View, WitnessEverAccepted
  <1>3. WitnessEverAccepted'
    BY <1>1, <1>2 DEF WitnessEverAccepted
  <1>4. /\ ~unseen'.cred => ~unseen.cred /\ EnvOf(hub') = EnvOf(hub)
        /\ ~unseen'.row => ~unseen.row /\ RowOf(hub') = RowOf(hub)
    BY UnseenGrows
  <1>5. WitnessTrue' /\ WitnessUnderHeaders'
    BY <1>1, <1>4 DEF WitnessTrue, WitnessUnderHeaders, EnvOf
  <1>6. StateMirrorsRow'
    BY <1>1, <1>4 DEF StateMirrorsRow, Patched, RowOf, IsProxy
  <1>7. QED
    BY <1>1, <1>3, <1>5, <1>6 DEF StageInv, UpdatePCs

\* What an update handler carries: its plan, its model, and what it owes the
\* object it started from.
LEMMA UpdateStage ==
  ASSUME IInv, op.pc \in UpdatePCs
  PROVE  /\ op.plan \in Updated /\ op.work \in Model /\ op.work # Null
         /\ View = op.work /\ state \in Model /\ state # Null
         /\ op.work.applied # Null => op.work.applied \in accepted
  BY StageTypes, SentinelAssumption
  DEF IInv, TypeOK, StageInv, View, WitnessEverAccepted, UpdatePCs

LEMMA InvUpdateFields ==
  ASSUME IInv, TypeOK', NEW o \in Outcome, UpdateFields(o)
  PROVE  IInv'
  <1> USE SentinelAssumption DEF IInv
  <1>1. op.pc = "update" /\ op.work = state /\ ~Revising
    BY DEF UpdateFields, StageInv, Revising
  <1>2. /\ op.plan \in Updated /\ op.work \in Model /\ op.work # Null
        /\ View = op.work /\ state \in Model /\ state # Null
        /\ op.work.applied # Null => op.work.applied \in accepted
    BY <1>1, UpdateStage DEF UpdatePCs
  <1>3. hub' = hub \/ (IsProxy(hub) /\ hub' = HubPatched(hub, op.plan))
    BY DEF UpdateFields, Request
  <1>4. IsProxy(hub) =>
          LET h == HubPatched(hub, op.plan) IN
          /\ h \in ProxyRow /\ h # Null /\ h.kind = "proxy"
          /\ h.auth = op.plan.auth /\ h.archived = hub.archived
          /\ h.env = IF op.plan.auth # hub.auth THEN Null ELSE hub.env
    BY <1>1, UpdatedRow DEF IsProxy, UpdatePCs
  <1>5. SealedUnderHeaders'
    BY <1>3, <1>4 DEF SealedUnderHeaders, TakesHeaders, IsProxy
  <1>6. CASE Succeeds(o, IsProxy(hub))
    <2>1. IsProxy(hub) /\ hub' = HubPatched(hub, op.plan)
      BY <1>6 DEF UpdateFields, Request, Succeeds
    <2>2. /\ op'.pc = "update_headers" /\ op'.work = FromRow(op.work, hub')
          /\ op'.plan = op.plan /\ state' = state /\ accepted' = accepted
          /\ unseen'.row = FALSE /\ unseen'.cred = unseen.cred
      <3>1. op' = [op EXCEPT !.pc = "update_headers",
                             !.work = FromRow(@, hub')]
            /\ unseen' = [unseen EXCEPT !.row = FALSE]
            /\ state' = state /\ accepted' = accepted
        BY <1>6 DEF UpdateFields
      <3>2. unseen'.row = FALSE /\ unseen'.cred = unseen.cred
        BY <3>1 DEF TypeOK
      <3>3. QED
        BY <1>1, <3>1, <3>2 DEF TypeOK, Op, Idle, UpdatePCs
    <2>3. /\ op'.work.applied = state.applied
          /\ op'.work.auth = op.plan.auth /\ Patched(op'.work) = Patched(hub')
          /\ op'.work.archived = hub.archived
      BY <1>1, <1>2, <1>4, <2>1, <2>2 DEF FromRow, Model, Patched
    <2>4. View' = op'.work /\ op'.work # Null
      BY <2>2 DEF View, TypeOK, Op, Idle, UpdatePCs
    <2>5. StageInv'
      BY <1>1, <1>2, <2>2, <2>3 DEF StageInv, UpdatePCs
    <2>6. WitnessEverAccepted'
      BY <1>1, <1>2, <2>2, <2>3 DEF WitnessEverAccepted
    <2>7. ASSUME state.applied # Null, ~unseen.cred, ~Revising'
          PROVE  op.plan.auth = "headers" /\ hub'.env = state.applied
      <3>1. hub # Null /\ hub.env = state.applied
        BY <1>1, <1>2, <2>7 DEF WitnessTrue
      <3>2. hub.auth = "headers"
        BY <2>7, <3>1 DEF SealedUnderHeaders, TakesHeaders
      <3>3. op.plan.auth = "headers"
        BY <1>1, <1>2, <2>2, <2>3, <2>7 DEF StageInv, Revising, Updated, Auth
      <3>4. QED
        BY <1>4, <2>1, <3>1, <3>2, <3>3
    <2>8. WitnessTrue' /\ WitnessUnderHeaders'
      BY <1>4, <2>1, <2>2, <2>3, <2>4, <2>7
      DEF WitnessTrue, WitnessUnderHeaders
    <2>9. StateMirrorsRow'
      BY <1>4, <2>1, <2>3, <2>4 DEF StateMirrorsRow, Patched, IsProxy
    <2>10. QED
      BY <1>5, <2>5, <2>6, <2>8, <2>9
  <1>7. CASE ~Succeeds(o, IsProxy(hub))
    <2>1. state' = View /\ op' = Idle /\ accepted' = accepted
          /\ Unwitnessed(hub')
      BY <1>2, <1>7 DEF UpdateFields, Return
    <2>2. QED
      BY <1>1, <1>2, <1>5, <2>1, InvFailed
  <1>8. QED
    BY <1>6, <1>7

LEMMA InvUpdateHeaders ==
  ASSUME IInv, TypeOK', NEW o \in Outcome, UpdateHeaders(o)
  PROVE  IInv'
  <1> USE SentinelAssumption DEF IInv
  <1>1. op.pc = "update_headers" /\ op.work.auth = "headers" /\ ~Revising
    BY DEF UpdateHeaders, NeedsHeaders, Revising
  <1>2. /\ op.plan \in Updated /\ op.work \in Model /\ op.work # Null
        /\ View = op.work /\ state \in Model /\ state # Null
        /\ op.work.applied # Null => op.work.applied \in accepted
    BY <1>1, UpdateStage DEF UpdatePCs
  <1>3. op.plan.version \in Versions
    BY <1>2 DEF UpdateHeaders, NeedsHeaders, Updated
  <1>4. /\ SealedUnderHeaders' /\ RowOf(hub') = RowOf(hub)
        /\ accepted \subseteq accepted' /\ (hub # Null => hub' # Null)
        /\ IsProxy(hub) => IsProxy(hub')
        /\ hub # Null => /\ hub'.auth = hub.auth /\ Patched(hub') = Patched(hub)
                         /\ hub'.archived = hub.archived
    BY <1>3, SealedBySetUpstreamAuth DEF UpdateHeaders
  <1>5. CASE Succeeds(o, TakesHeaders(hub))
    <2>1. /\ hub' = [hub EXCEPT !.env = op.plan.version]
          /\ hub \in Row /\ hub # Null
      BY <1>5, SettledBySetUpstreamAuth DEF UpdateHeaders
    <2>2. /\ op'.pc = "update_archived" /\ state' = state
          /\ op'.work = [op.work EXCEPT !.applied = op.plan.version,
                                        !.version = op.plan.version]
          /\ unseen'.row = unseen.row
          /\ op.plan.version \in accepted'
      <3>1. SetUpstreamAuth(o, "update_archived",
              [op.work EXCEPT !.applied = op.plan.version,
                              !.version = op.plan.version], op.work)
        BY DEF UpdateHeaders
      <3>2. QED
        BY <1>5, <3>1, SettledBySetUpstreamAuth
    <2>3. op'.work.applied = op.plan.version /\ op'.work.auth = "headers"
          /\ Patched(op'.work) = Patched(op.work)
          /\ op'.work.archived = op.work.archived
      BY <1>1, <1>2, <2>2 DEF Model, Patched
    <2>4. hub'.env = op.plan.version /\ hub' # Null
      BY <1>4, <2>1 DEF Row
    <2>5. View' = op'.work
      BY <2>2 DEF View
    <2>6. state.applied # Null => state.applied \in accepted'
      BY <1>2, <1>4 DEF WitnessEverAccepted
    <2>7. WitnessEverAccepted'
      BY <2>2, <2>3, <2>6 DEF WitnessEverAccepted
    <2>8. WitnessTrue' /\ WitnessUnderHeaders'
      BY <2>3, <2>4, <2>5 DEF WitnessTrue, WitnessUnderHeaders
    <2>9. StateMirrorsRow'
      BY <1>1, <1>2, <1>4, <2>2, <2>3, <2>5, <2>1 DEF StateMirrorsRow, Patched
    <2>10. QED
      BY <1>2, <1>4, <2>2, <2>7, <2>8, <2>9 DEF StageInv, UpdatePCs
  <1>6. CASE ~Succeeds(o, TakesHeaders(hub))
    <2>1. state' = View /\ op' = Idle /\ Unwitnessed(hub')
      BY <1>2, <1>6 DEF UpdateHeaders, SetUpstreamAuth, Return
    <2>2. QED
      BY <1>1, <1>2, <1>4, <2>1, InvFailed
  <1>7. QED
    BY <1>5, <1>6

LEMMA InvUpdateSilent ==
  ASSUME IInv, TypeOK', UpdateNoFields \/ UpdateNoHeaders \/ UpdateDone
  PROVE  IInv'
  <1> USE SentinelAssumption DEF IInv
  <1>1. op.pc \in UpdatePCs
    BY DEF UpdateNoFields, UpdateNoHeaders, UpdateDone, UpdatePCs
  <1>2. /\ op.plan \in Updated /\ op.work \in Model /\ op.work # Null
        /\ View = op.work /\ state \in Model /\ state # Null
        /\ op.work.applied # Null => op.work.applied \in accepted
    BY <1>1, UpdateStage
  <1>3. CASE UpdateNoFields
    <2>1. /\ op'.pc = "update_headers" /\ op'.work = op.work
          /\ op'.plan = op.plan /\ op.pc = "update" /\ op.work = state
          /\ UNCHANGED <<hub, state, accepted, unseen>>
      BY <1>3 DEF UpdateNoFields, TypeOK, Op, Idle, UpdatePCs, StageInv
    <2>2. View' = View /\ ~Revising
      BY <2>1, <1>2 DEF View, Revising
    <2>3. StageInv'
      BY <1>2, <2>1 DEF StageInv, UpdatePCs
    <2>4. WitnessEverAccepted'
      BY <2>1 DEF WitnessEverAccepted
    <2>5. QED
      BY <2>1, <2>2, <2>3, <2>4 DEF SealedUnderHeaders, TakesHeaders, IsProxy,
        WitnessTrue, WitnessUnderHeaders, StateMirrorsRow, Patched
  <1>4. CASE UpdateNoHeaders
    <2>1. /\ op'.pc = "update_archived" /\ op'.plan = op.plan
          /\ UNCHANGED <<hub, state, accepted, unseen>>
          /\ op'.work.applied = IF op.plan.applied = Unknown THEN Null
                                  ELSE op.work.applied
          /\ op'.work.auth = op.work.auth /\ Patched(op'.work) = Patched(op.work)
          /\ op'.work.archived = op.work.archived
      <3>1. /\ op' = [op EXCEPT
                  !.pc = "update_archived",
                  !.work.applied = IF op.plan.applied = Unknown THEN Null ELSE @,
                  !.work.version = op.plan.version]
            /\ UNCHANGED <<hub, state, accepted, unseen>>
        BY <1>4 DEF UpdateNoHeaders
      <3>2. op = [pc |-> op.pc, plan |-> op.plan, work |-> op.work]
        BY <1>1 DEF TypeOK, Op, Idle, UpdatePCs
      <3>3. /\ op'.pc = "update_archived" /\ op'.plan = op.plan
            /\ op'.work = [op.work EXCEPT
                             !.applied = IF op.plan.applied = Unknown
                                           THEN Null ELSE @,
                             !.version = op.plan.version]
        BY <3>1, <3>2
      <3>4. /\ op'.work.applied = IF op.plan.applied = Unknown THEN Null
                                     ELSE op.work.applied
            /\ op'.work.auth = op.work.auth /\ Patched(op'.work) = Patched(op.work)
            /\ op'.work.archived = op.work.archived
        BY <1>2, <3>3 DEF Model, Patched
      <3>5. QED
        BY <3>1, <3>3, <3>4
    <2>2. View' = op'.work
      BY <2>1 DEF View
    <2>3. op'.work.applied # Null => ~Revising
      BY <2>1 DEF Revising
    <2>4. WitnessEverAccepted'
      BY <1>2, <2>1 DEF WitnessEverAccepted
    <2>5. WitnessTrue' /\ WitnessUnderHeaders'
      BY <1>2, <2>1, <2>2, <2>3 DEF WitnessTrue, WitnessUnderHeaders
    <2>6. StateMirrorsRow'
      BY <1>2, <2>1, <2>2 DEF StateMirrorsRow, Patched, IsProxy
    <2>7. QED
      BY <1>2, <2>1, <2>4, <2>5, <2>6 DEF SealedUnderHeaders, TakesHeaders,
        IsProxy, StageInv, UpdatePCs
  <1>5. CASE UpdateDone
    <2>1. Finish(op.work) /\ ~Revising /\ op.pc # "idle"
          /\ UNCHANGED <<hub, accepted, unseen>>
      BY <1>5 DEF UpdateDone, Revising
    <2>2. QED
      BY <1>2, <2>1, InvFinish
  <1>6. QED
    BY <1>3, <1>4, <1>5

LEMMA InvUpdateArchived ==
  ASSUME IInv, TypeOK', NEW o \in Outcome, UpdateArchived(o)
  PROVE  IInv'
  <1>1. op.pc = "update_archived" /\ ~Revising
    BY DEF UpdateArchived, Revising
  <1>2. op.plan \in Updated /\ op.work \in Model /\ View = op.work
    BY <1>1, UpdateStage DEF UpdatePCs
  <1>3. op.plan.archived \in BOOLEAN
    BY <1>2 DEF Updated
  <1>4. QED
    BY <1>1, <1>2, <1>3, InvSetArchived DEF UpdateArchived

LEMMA InvDelete ==
  ASSUME IInv, TypeOK', NEW o \in Outcome, Delete(o)
  PROVE  IInv'
  <1> USE SentinelAssumption DEF IInv
  <1>1. /\ op.pc = "delete" /\ op.work = state /\ state # Null
        /\ View = state /\ ~Revising
    BY DEF Delete, StageInv, UpdatePCs, View, Revising
  <1>2. hub' = hub \/ hub' = Null
    BY DEF Delete, Request
  <1>3. SealedUnderHeaders'
    BY <1>2 DEF SealedUnderHeaders, TakesHeaders, IsProxy
  <1>4. CASE o = "ok"
    <2>1. state' = Null /\ op' = Idle
      BY <1>4 DEF Delete, Return
    <2>2. View' = Null /\ op'.pc = "idle" /\ op'.work = Null
      BY <2>1 DEF View, Idle
    <2>3. WitnessEverAccepted'
      BY <2>1, <2>2 DEF WitnessEverAccepted
    <2>4. QED
      BY <1>3, <2>2, <2>3 DEF WitnessTrue, WitnessUnderHeaders,
        StateMirrorsRow, Patched, StageInv, UpdatePCs
  <1>5. CASE o # "ok"
    <2>1. state' = View /\ op' = Idle /\ accepted' = accepted
          /\ Unwitnessed(hub')
      BY <1>1, <1>5 DEF Delete, Return
    <2>2. QED
      BY <1>1, <1>3, <2>1, InvFailed
  <1>6. QED
    BY <1>4, <1>5

LEMMA InvRead ==
  ASSUME IInv, TypeOK', Read \/ Import
  PROVE  IInv'
  <1> USE SentinelAssumption DEF IInv
  <1>1. /\ op.pc = "idle" /\ op.work = Null /\ ~Revising /\ View = state
        /\ UNCHANGED <<hub, op, accepted>> /\ View' = state'
        /\ op'.pc = "idle" /\ op'.work = Null
    BY StageTypes DEF Read, Import, Idle, View, Revising
  <1>2. SealedUnderHeaders'
    BY <1>1 DEF SealedUnderHeaders, TakesHeaders, IsProxy
  <1>3. CASE Read /\ hub = Null
    <2>1. state' = Null
      BY <1>3 DEF Read
    <2>2. WitnessEverAccepted'
      BY <1>1, <2>1 DEF WitnessEverAccepted
    <2>3. QED
      BY <1>1, <1>2, <2>1, <2>2 DEF WitnessTrue, WitnessUnderHeaders,
        StateMirrorsRow, Patched, StageInv, UpdatePCs
  <1>4. CASE Read /\ hub # Null
    <2>1. /\ state \in Model /\ state # Null /\ state' = FromRow(state, hub)
          /\ unseen' = [unseen EXCEPT !.row = FALSE] /\ IsProxy(hub)
      BY <1>4 DEF Read, TypeOK
    <2>2. /\ state'.applied = state.applied /\ state'.auth = hub.auth
          /\ Patched(state') = Patched(hub) /\ state'.archived = hub.archived
      BY <2>1 DEF FromRow, Model, Patched
    <2>3. ~unseen'.cred => ~unseen.cred
      BY <2>1 DEF TypeOK
    <2>4. WitnessEverAccepted'
      BY <1>1, <2>1, <2>2 DEF WitnessEverAccepted
    <2>5. ASSUME state.applied # Null, ~unseen.cred
          PROVE  hub.env = state.applied /\ hub.auth = "headers"
      <3>1. hub.env = state.applied
        BY <1>1, <2>1, <2>5 DEF WitnessTrue
      <3>2. QED
        BY <1>4, <2>5, <3>1 DEF SealedUnderHeaders, TakesHeaders
    <2>6. WitnessTrue' /\ WitnessUnderHeaders'
      BY <1>1, <1>4, <2>2, <2>3, <2>5 DEF WitnessTrue, WitnessUnderHeaders
    <2>7. StateMirrorsRow'
      BY <1>1, <2>1, <2>2 DEF StateMirrorsRow, Patched, IsProxy
    <2>8. QED
      BY <1>1, <1>2, <2>4, <2>6, <2>7 DEF StageInv, UpdatePCs
  <1>5. CASE Import
    <2>1. /\ state'.applied = Null /\ state'.auth = hub.auth
          /\ Patched(state') = Patched(hub) /\ state'.archived = hub.archived
          /\ IsProxy(hub)
      BY <1>5 DEF Import, Reflected, Patched
    <2>2. WitnessEverAccepted'
      BY <1>1, <2>1 DEF WitnessEverAccepted
    <2>3. WitnessTrue' /\ WitnessUnderHeaders' /\ StateMirrorsRow'
      BY <1>1, <2>1 DEF WitnessTrue, WitnessUnderHeaders, StateMirrorsRow, Patched,
        IsProxy
    <2>4. QED
      BY <1>1, <1>2, <2>2, <2>3 DEF StageInv, UpdatePCs
  <1>6. QED
    BY <1>3, <1>4, <1>5

\* A row that somebody else created holds no headers.
LEMMA CreatedBare ==
  ASSUME hub = Null, hub' \in Drifted
  PROVE  hub'.env = Null
  <1> DEFINE h == HubCreated(Bare)
  <1>1. h \in ProxyRow /\ h.env = Null
    BY BareRow DEF HubCreated
  <1>2. \/ \E a \in Auth : hub' = [h EXCEPT !.auth = a]
        \/ hub' = [h EXCEPT !.kind = "tunnel", !.auth = Null, !.roles = Null]
    BY DEF Drifted
  <1> HIDE DEF h
  <1>3. QED
    BY <1>1, <1>2 DEF ProxyRow

\* What somebody else makes of one that exists.
LEMMA DriftedFrom ==
  ASSUME hub # Null, hub' \in Drifted
  PROVE  \/ hub' = Null \/ hub' = [hub EXCEPT !.archived = ~@]
         \/ \E m : hub' = [hub EXCEPT !.common = m]
         \/ \E m : hub' = [hub EXCEPT !.roles = m]
         \/ IsProxy(hub) /\ \E a \in Auth :
              hub' = HubPatched(hub, [auth |-> a, common |-> hub.common,
                                      roles |-> hub.roles])
         \/ TakesHeaders(hub) /\ hub' = [hub EXCEPT !.env = Foreign]
  BY DEF Drifted

\* The hub wipes the headers with every change of auth, whoever makes it.
LEMMA SealedByDrift ==
  ASSUME TypeOK, SealedUnderHeaders, Drift
  PROVE  SealedUnderHeaders'
  <1> USE SentinelAssumption
  <1>1. hub' \in Drifted
    BY DEF Drift
  <1>2. CASE hub = Null
    BY <1>1, <1>2, CreatedBare DEF SealedUnderHeaders
  <1>3. CASE hub # Null
    <2>1. hub \in Row
      BY <1>3 DEF TypeOK
    <2>2. CASE hub' = Null
      BY <2>2 DEF SealedUnderHeaders
    <2>3. CASE \/ hub' = [hub EXCEPT !.archived = ~@]
               \/ \E m : hub' = [hub EXCEPT !.common = m]
               \/ \E m : hub' = [hub EXCEPT !.roles = m]
      <3>1. hub'.kind = hub.kind /\ hub'.auth = hub.auth /\ hub'.env = hub.env
        BY <2>1, <2>3 DEF Row
      <3>2. QED
        BY <1>3, <3>1 DEF SealedUnderHeaders, TakesHeaders, IsProxy
    <2>4. ASSUME NEW a \in Auth, IsProxy(hub),
                 hub' = HubPatched(hub, [auth |-> a, common |-> hub.common,
                                         roles |-> hub.roles])
          PROVE  SealedUnderHeaders'
      <3>1. hub \in ProxyRow
        BY <2>1, <2>4, RowTypes
      <3>2. /\ hub'.kind = hub.kind /\ hub'.auth = a
            /\ hub'.env = IF a # hub.auth THEN Null ELSE hub.env
        BY <2>4, <3>1, DriftedProxy DEF IsProxy
      <3>3. QED
        BY <1>3, <3>2 DEF SealedUnderHeaders, TakesHeaders, IsProxy
    <2>5. CASE TakesHeaders(hub) /\ hub' = [hub EXCEPT !.env = Foreign]
      <3>1. hub'.kind = hub.kind /\ hub'.auth = hub.auth
        BY <2>1, <2>5 DEF Row
      <3>2. QED
        BY <2>5, <3>1 DEF SealedUnderHeaders, TakesHeaders, IsProxy
    <2>6. QED
      BY <1>1, <1>3, <2>2, <2>3, <2>4, <2>5, DriftedFrom
  <1>4. QED
    BY <1>2, <1>3

LEMMA InvDrift ==
  ASSUME IInv, TypeOK', Drift
  PROVE  IInv'
  <1> USE SentinelAssumption DEF IInv
  <1>1. /\ UNCHANGED <<state, op, accepted>> /\ View' = View
        /\ SealedUnderHeaders' /\ (Revising' <=> Revising)
    BY SealedByDrift DEF Drift, View, Revising
  <1>2. WitnessEverAccepted'
    BY <1>1 DEF WitnessEverAccepted
  <1>3. CASE View = Null
    <2>1. op.pc \notin UpdatePCs
      BY <1>3, UpdateStage
    <2>2. QED
      BY <1>1, <1>2, <1>3, <2>1 DEF WitnessTrue, WitnessUnderHeaders,
        StateMirrorsRow, Patched, StageInv, UpdatePCs
  <1>4. CASE View # Null
    <2>1. /\ ~unseen'.cred => ~unseen.cred /\ EnvOf(hub') = EnvOf(hub)
          /\ ~unseen'.row => ~unseen.row /\ RowOf(hub') = RowOf(hub)
      BY <1>4, UnseenGrows DEF Drift
    <2>2. WitnessTrue' /\ WitnessUnderHeaders'
      BY <1>1, <2>1 DEF WitnessTrue, WitnessUnderHeaders, EnvOf
    <2>3. StateMirrorsRow'
      BY <1>1, <2>1 DEF StateMirrorsRow, Patched, RowOf, IsProxy
    <2>4. StageInv'
      BY <1>1, <2>1 DEF StageInv
    <2>5. QED
      BY <1>1, <1>2, <2>2, <2>3, <2>4
  <1>5. QED
    BY <1>3, <1>4

LEMMA InvCrash ==
  ASSUME IInv, TypeOK', Crash
  PROVE  IInv'
  <1> USE SentinelAssumption DEF IInv
  <1>1. /\ op' = Idle /\ state' = state /\ View' = state
        /\ op'.pc = "idle" /\ op'.work = Null
        /\ UNCHANGED <<hub, accepted>>
    BY DEF Crash, Return, Idle, View
  <1>2. WitnessEverAccepted'
    BY <1>1 DEF WitnessEverAccepted
  <1>3. SealedUnderHeaders'
    BY <1>1 DEF SealedUnderHeaders, TakesHeaders, IsProxy
  <1>4. ASSUME state # Null
        PROVE  /\ ~unseen'.cred => ~unseen.cred /\ op.work = state
               /\ ~unseen'.row => ~unseen.row /\ op.work = state
    BY <1>4, Zenon DEF Crash
  <1>5. op.pc # "idle" /\ (op.work = state => View = state)
    BY DEF Crash, View
  <1>6. ASSUME state # Null, state.applied # Null, ~unseen'.cred
        PROVE  ~Revising
    BY <1>4, <1>6 DEF StageInv, Revising
  <1>7. WitnessTrue' /\ WitnessUnderHeaders'
    BY <1>1, <1>4, <1>5, <1>6 DEF WitnessTrue, WitnessUnderHeaders
  <1>8. StateMirrorsRow'
    BY <1>1, <1>4, <1>5 DEF StateMirrorsRow, Patched, IsProxy
  <1>9. QED
    BY <1>1, <1>2, <1>3, <1>7, <1>8 DEF StageInv, UpdatePCs

LEMMA InvStep ==
  ASSUME IInv, [Next]_vars
  PROVE  IInv'
  <1>1. TypeOK'
    BY TypeStep DEF IInv
  <1>2. CASE Plan
    BY <1>1, <1>2, InvPlan
  <1>3. CASE Silent
    BY <1>1, <1>3, InvCreate, InvUpdateSilent DEF Silent, Outcome
  <1>4. CASE Read \/ Import
    BY <1>1, <1>4, InvRead
  <1>5. CASE Drift
    BY <1>1, <1>5, InvDrift
  <1>6. CASE Crash
    BY <1>1, <1>6, InvCrash
  <1>7. CASE \E o \in Outcome : Step(o)
    BY <1>1, <1>7, InvCreate, InvUpdateFields, InvUpdateHeaders,
      InvUpdateArchived, InvDelete DEF Step
  <1>8. CASE \/ PlanDeferred \/ UNCHANGED vars
             \/ \E c \in Configs \cup {Null} : Configure(c)
    <2>1. UNCHANGED <<hub, state, op, accepted, unseen>>
      BY <1>8 DEF PlanDeferred, Configure, vars
    <2>2. View' = View /\ (Revising' <=> Revising)
      BY <2>1 DEF View, Revising
    <2>3. QED
      BY <1>1, <2>1, <2>2 DEF IInv, SealedUnderHeaders, TakesHeaders, IsProxy,
        StageInv, WitnessEverAccepted, WitnessTrue, WitnessUnderHeaders,
        StateMirrorsRow, Patched
  <1>9. QED
    BY <1>2, <1>3, <1>4, <1>5, <1>6, <1>7, <1>8 DEF Next

LEMMA InitInv == Init => IInv
  <1>1. ASSUME Init PROVE TypeOK
    BY <1>1, ConstantsAssumption, TypeIdle DEF Init, TypeOK, AllSeen
  <1>2. ASSUME Init PROVE View = Null /\ op.pc = "idle" /\ op.work = Null
    BY <1>2 DEF Init, View, Idle
  <1>3. QED
    BY <1>1, <1>2 DEF Init, IInv, SealedUnderHeaders, StageInv,
      WitnessEverAccepted, WitnessTrue, WitnessUnderHeaders,
      StateMirrorsRow, Patched, UpdatePCs

(***************************************************************************)
(* The inductive invariant holds in every state of every behaviour.        *)
(***************************************************************************)
THEOREM Invariance == Spec => []IInv
  <1>1. Init => IInv
    BY InitInv
  <1>2. IInv /\ [Next]_vars => IInv'
    BY InvStep
  <1>3. QED
    BY <1>1, <1>2, PTL DEF Spec

(***************************************************************************)
(* A version is witnessed only if the hub accepted it.                     *)
(***************************************************************************)
THEOREM WitnessIsEarned == Spec => []WitnessEverAccepted
  <1>1. IInv => WitnessEverAccepted
    BY DEF IInv
  <1>2. QED
    BY <1>1, Invariance, PTL

(***************************************************************************)
(* The hub holds exactly the headers the witness names, as long as nobody  *)
(* changed them behind the provider's back.                                *)
(***************************************************************************)
THEOREM WitnessIsTrue == Spec => []WitnessTrue
  <1>1. IInv => WitnessTrue
    BY DEF IInv
  <1>2. QED
    BY <1>1, Invariance, PTL

(***************************************************************************)
(* What the provider has in hand is the row, after every failure it saw.   *)
(***************************************************************************)
THEOREM StateIsTheRow == Spec => []StateMirrorsRow
  <1>1. IInv => StateMirrorsRow
    BY DEF IInv
  <1>2. QED
    BY <1>1, Invariance, PTL

(***************************************************************************)
(* An empty plan means the app is as configured, sealed headers included.  *)
(***************************************************************************)
THEOREM EmptyPlanIsTrue == Spec => []EmptyPlanMeansLive
  <1>1. ASSUME IInv, op.pc = "idle", config # Null, state # Null,
               unseen = AllSeen, PlanEmpty(config, state)
        PROVE  /\ config.auth # Null => hub.auth = config.auth
               /\ config.common.plain # Null =>
                    hub.common.plain = config.common.plain
               /\ config.common.aliases # Null =>
                    hub.common.aliases = config.common.aliases
               /\ config.roles # Null => Shows(config.roles, hub.roles)
               /\ config.archived # Null => hub.archived = config.archived
               /\ config.version # Null =>
                    TakesHeaders(hub) /\ hub.env = config.version
    <2>1. View = state /\ ~Revising /\ state \in Model /\ config \in Config
          /\ ~unseen.cred /\ ~unseen.row
      BY <1>1, ConstantsAssumption DEF View, Revising, AllSeen, IInv, TypeOK
    <2>2. /\ hub # Null /\ state.auth = hub.auth /\ state.common = hub.common
          /\ state.roles = hub.roles /\ state.archived = hub.archived
      BY <1>1, <2>1 DEF IInv, StateMirrorsRow, Patched, IsProxy
    <2>3. LET p == UpdatePlan(config, state) IN
            /\ p.auth = Kept(config.auth, state.auth)
            /\ p.common = KeptCommon(config.common, state.common)
            /\ p.roles = KeptRoles(config.roles, state.roles)
            /\ p.archived = Kept(config.archived, state.archived)
            /\ p.applied = IF config.version # state.applied
                             THEN Unknown ELSE state.applied
      BY DEF UpdatePlan, MarkApplyUnknown
    <2>4. state.applied = config.version
      <3>1. state.applied # Unknown
        BY <2>1, SentinelAssumption, ValuesAssumption DEF Model
      <3>2. UpdatePlan(config, state).applied = state.applied
        BY <1>1 DEF PlanEmpty
      <3>3. QED
        BY <2>3, <3>1, <3>2
    <2>5. config.version # Null => hub.env = config.version
      BY <1>1, <2>1, <2>4 DEF IInv, WitnessTrue
    <2>6. config.version # Null => TakesHeaders(hub)
      BY <1>1, <2>2, <2>5 DEF IInv, SealedUnderHeaders
    <2>7. /\ Kept(config.auth, state.auth) = state.auth
          /\ KeptCommon(config.common, state.common) = state.common
          /\ KeptRoles(config.roles, state.roles) = state.roles
          /\ Kept(config.archived, state.archived) = state.archived
      BY <1>1, <2>3 DEF PlanEmpty, Patched
    <2>8. config.roles # Null => Shows(config.roles, state.roles)
      BY <2>1, <2>7, SettledShows DEF Config, Model
    <2>9. /\ config.common.plain # Null => state.common.plain = config.common.plain
          /\ config.common.aliases # Null =>
               state.common.aliases = config.common.aliases
      BY <2>7 DEF KeptCommon, Kept
    <2>10. QED
      BY <2>2, <2>5, <2>6, <2>7, <2>8, <2>9 DEF Kept
  <1>2. IInv => EmptyPlanMeansLive
    BY <1>1 DEF EmptyPlanMeansLive
  <1>3. QED
    BY <1>2, Invariance, PTL
-----------------------------------------------------------------------------
(* What a step may never do                                                *)

(***************************************************************************)
(* What each stage leaves when it ends the handler is an object, or there  *)
(* was none to begin with.                                                 *)
(***************************************************************************)
LEMMA StepsRemember ==
  ASSUME IInv, NEW o \in Outcome, Step(o), state # Null, state' = Null
  PROVE  hub' = Null
  <1>1. ASSUME NEW m \in Model PROVE m # Null /\ Tainted(m) # Null
    <2>1. Tainted(m) \in Model
      BY DEF Tainted, Model
    <2>2. QED
      BY <2>1, SentinelAssumption
  <1>2. op.pc \notin {"create", "create_headers", "create_archived"}
    BY DEF IInv, StageInv
  <1>3. ~CreateApp(o) /\ ~CreateHeaders(o) /\ ~CreateArchived(o)
    BY <1>2 DEF CreateApp, CreateHeaders, CreateArchived
  <1>4. op.pc \in UpdatePCs => op.work # Null
    BY <1>1, StageTypes DEF IInv
  <1>5. CASE UpdateFields(o)
    BY <1>4, <1>5 DEF UpdateFields, Return, UpdatePCs
  <1>6. CASE UpdateHeaders(o)
    BY <1>4, <1>6 DEF UpdateHeaders, SetUpstreamAuth, Return, UpdatePCs
  <1>7. CASE UpdateArchived(o)
    <2>1. op.pc = "update_archived" /\ op.work \in Model
          /\ op.plan \in Updated /\ op.work # Null
      BY <1>4, <1>7, StageTypes DEF UpdateArchived, UpdatePCs, IInv
    <2>2. [op.work EXCEPT !.archived = op.plan.archived] \in Model
      BY <2>1 DEF Model, Updated
    <2>3. QED
      BY <1>7, <2>1, <2>2, Finished DEF UpdateArchived, SetArchived, Return
  <1>8. CASE Delete(o)
    <2>1. o = "ok" /\ Request(o, hub # Null, Null)
      BY <1>8 DEF Delete, Return
    <2>2. QED
      BY <2>1 DEF Request
  <1>9. QED
    BY <1>3, <1>5, <1>6, <1>7, <1>8 DEF Step

(***************************************************************************)
(* Only the deletion of an app, or a refresh that finds none, empties the  *)
(* state: no failure of a step does.                                       *)
(***************************************************************************)
THEOREM NothingForgotten == Spec => ForgottenOnlyWhenGone
  <1>1. ASSUME IInv, [Next]_vars
        PROVE  [state # Null /\ state' = Null => hub' = Null]_vars
    <2>1. SUFFICES ASSUME Next, state # Null, state' = Null
                   PROVE  hub' = Null
      BY <1>1
    <2>2. CASE \E o \in Outcome : Step(o)
      BY <1>1, <2>1, <2>2, StepsRemember
    <2>3. CASE Read
      <3>1. hub # Null => FromRow(state, hub) # Null
        <4>1. hub # Null => hub \in ProxyRow
          BY <1>1, <2>3, RowTypes DEF Read, IInv, TypeOK
        <4>2. hub # Null => FromRow(state, hub) \in Model
          BY <1>1, <2>1, <4>1, ReadBack DEF IInv, TypeOK
        <4>3. QED
          BY <4>2, SentinelAssumption
      <3>2. QED
        BY <2>1, <2>3, <3>1 DEF Read
    <2>4. CASE Silent
      <3>1. op.pc \in UpdatePCs => op.work \in Model
        BY <1>1, StageTypes DEF IInv
      <3>2. ~CreateNoHeaders /\ ~CreateDone
        BY <1>1, <2>1 DEF IInv, StageInv, CreateNoHeaders, CreateDone
      <3>3. ~UpdateDone
        BY <2>1, <3>1, Finished DEF UpdateDone, UpdatePCs
      <3>4. QED
        BY <2>1, <2>4, <3>2, <3>3 DEF Silent, UpdateNoFields, UpdateNoHeaders
    <2>5. CASE Plan \/ PlanDeferred \/ Import \/ Drift \/ Crash
               \/ \E c \in Configs \cup {Null} : Configure(c)
      BY <2>1, <2>5
      DEF Plan, PlanCreate, PlanUpdate, PlanDelete, PlanDeferred, Import,
          Drift, Crash, Return, Configure
    <2>6. QED
      BY <2>1, <2>2, <2>3, <2>4, <2>5 DEF Next
  <1>2. QED
    BY <1>1, Invariance, PTL DEF Spec, ForgottenOnlyWhenGone

-----------------------------------------------------------------------------
(* What was applied is settled                                             *)

\* Of the model a Create carries: the witness its stages leave.
Creates ==
  /\ op.pc \in {"create", "create_headers", "create_archived"} =>
       config # Null /\ op.plan = CreatePlan(config)
  /\ op.pc = "create_archived" =>
       op.work.applied = IF NeedsHeaders THEN op.plan.version ELSE Null

\* Of the model an Update carries: the same, when the plan left it unknown.
Updates ==
  /\ op.pc \in UpdatePCs =>
       config # Null /\ state # Null /\ op.plan = UpdatePlan(config, state)
  /\ op.pc = "update_archived" /\ op.plan.applied = Unknown =>
       op.work.applied = IF NeedsHeaders THEN op.plan.version ELSE Null

AppliedInv == IInv /\ Creates /\ Updates /\ AppliedMeansSettled

\* An object that shows what is configured, its witness included, leaves
\* nothing to plan.
LEMMA FitsIsSettled ==
  ASSUME NEW c \in Config, NEW m \in Model,
         c.auth \in {m.auth, Null}, FitsCommon(c.common, m.common),
         c.roles # Null => Shows(c.roles, m.roles),
         c.archived \in {m.archived, Null},
         c.version = m.version, m.applied = c.version
  PROVE  PlanEmpty(c, m) /\ ~PlanRefused(c, m)
  <1>1. KeptCommon(c.common, m.common) = m.common
        /\ KeptRoles(c.roles, m.roles) = m.roles
    BY CommonSettled, RolesSettled DEF Config, Model
  <1>2. PlanEmpty(c, m)
    BY <1>1 DEF PlanEmpty, UpdatePlan, Patched, Kept, MarkApplyUnknown
  <1>3. QED
    BY <1>2 DEF PlanRefused, CannotClear

(***************************************************************************)
(* The object a finished Create returns is one its configuration asks no   *)
(* more of, if it has what the plan showed.                                *)
(***************************************************************************)
LEMMA CreatedIsSettled ==
  ASSUME AppliedInv, op.pc = "create_archived", NEW m \in Model,
         m.auth = op.work.auth, m.applied = op.work.applied,
         Echoes(op.plan, m), ~KeptOauth(config, m)
  PROVE  PlanEmpty(config, m) /\ ~PlanRefused(config, m)
  <1> USE SentinelAssumption, ValuesAssumption
  <1>1. config \in Config /\ ValidConfig(config)
    BY ConstantsAssumption DEF AppliedInv, Creates, IInv, TypeOK
  <1>2. op.plan = CreatePlan(config)
    BY DEF AppliedInv, Creates
  <1>3. /\ Resolvable(config.auth) \in {m.auth, Unknown}
        /\ Resolvable(config.archived) \in {m.archived, Unknown}
        /\ config.version = m.version
        /\ EchoesCommon(ResolvableCommon(config.common), m.common)
        /\ EchoesRoles(ResolvableRoles(config.roles), m.roles)
    BY <1>2 DEF Echoes, CreatePlan
  <1>4. config.auth \in {m.auth, Null} /\ config.archived \in {m.archived, Null}
    BY <1>1, <1>3 DEF Resolvable, Config
  <1>5. FitsCommon(config.common, m.common)
    BY <1>1, <1>3, CreateFitsCommon DEF Config, Model
  <1>6. config.roles # Null => Shows(config.roles, m.roles)
    BY <1>1, <1>3, CreateShows DEF Config
  <1>7. m.applied = IF m.auth = "headers" /\ m.version # Null
                      THEN m.version ELSE Null
    BY <1>2, <1>3 DEF AppliedInv, Creates, NeedsHeaders, CreatePlan
  <1>8. m.auth = "oauth" => config.version = Null
    BY <1>1, <1>4 DEF ValidConfig, KeptOauth
  <1>9. m.applied = config.version
    BY <1>3, <1>7, <1>8 DEF Model, Auth
  <1>10. QED
    BY <1>1, <1>3, <1>4, <1>5, <1>6, <1>9, FitsIsSettled

(***************************************************************************)
(* So is the object a finished Update returns.                             *)
(***************************************************************************)
LEMMA UpdatedIsSettled ==
  ASSUME AppliedInv, op.pc = "update_archived", NEW m \in Model,
         m.auth = op.work.auth, m.applied = op.work.applied,
         Echoes(op.plan, m), ~KeptOauth(config, m)
  PROVE  PlanEmpty(config, m) /\ ~PlanRefused(config, m)
  <1> USE SentinelAssumption, ValuesAssumption
  <1>1. config \in Config /\ ValidConfig(config)
    BY ConstantsAssumption DEF AppliedInv, Updates, UpdatePCs, IInv, TypeOK
  <1>2. op.plan = UpdatePlan(config, state) /\ op.plan \in Updated
        /\ state \in Model
    BY StageTypes DEF AppliedInv, Updates, UpdatePCs, IInv, TypeOK
  <1>3. /\ op.plan.auth = Kept(config.auth, state.auth)
        /\ op.plan.archived = Kept(config.archived, state.archived)
        /\ op.plan.version = config.version
        /\ op.plan.applied = IF config.version # state.applied
                               THEN Unknown ELSE state.applied
        /\ op.plan.common = KeptCommon(config.common, state.common)
        /\ op.plan.roles = KeptRoles(config.roles, state.roles)
    BY <1>2 DEF UpdatePlan, MarkApplyUnknown
  <1>4. op.plan.auth = m.auth /\ op.plan.archived = m.archived
    BY <1>2 DEF Echoes, Updated
  <1>5. /\ config.auth \in {m.auth, Null} /\ config.archived \in {m.archived, Null}
        /\ config.version = m.version
    BY <1>3, <1>4 DEF Kept, Echoes
  <1>6. FitsCommon(config.common, m.common)
    <2>1. EchoesCommon(KeptCommon(config.common, state.common), m.common)
      BY <1>3 DEF Echoes
    <2>2. QED
      BY <1>1, <1>2, <2>1, UpdateFitsCommon DEF Config, Model
  <1>7. config.roles # Null => Shows(config.roles, m.roles)
    <2>1. EchoesRoles(KeptRoles(config.roles, state.roles), m.roles)
      BY <1>3 DEF Echoes
    <2>2. QED
      BY <1>1, <1>2, <2>1, UpdateShows DEF Config, Model
  <1>8. m.auth = "oauth" => config.version = Null
    BY <1>1, <1>5 DEF ValidConfig, KeptOauth
  <1>9. m.applied = config.version
    <2>1. CASE op.plan.applied # Unknown
      BY <1>3, <2>1 DEF Echoes
    <2>2. CASE op.plan.applied = Unknown
      <3>1. m.applied = IF m.auth = "headers" /\ m.version # Null
                          THEN m.version ELSE Null
        BY <1>3, <1>5, <2>2 DEF AppliedInv, Updates, NeedsHeaders
      <3>2. QED
        BY <1>5, <1>8, <3>1 DEF Model, Auth
    <2>3. QED
      BY <2>1, <2>2
  <1>10. QED
    BY <1>1, <1>5, <1>6, <1>7, <1>9, FitsIsSettled

(***************************************************************************)
(* A handler that returned carries nothing; one that goes on has changed   *)
(* neither the state nor how the last apply ended.                         *)
(***************************************************************************)
LEMMA Returned ==
  ASSUME op' = Idle
  PROVE  Creates' /\ Updates'
  BY DEF Idle, Creates, Updates, UpdatePCs

LEMMA NotOk ==
  ASSUME AppliedInv,
         last' # "ok" \/ state' = Null \/ UNCHANGED <<state, config, last>>
  PROVE  AppliedMeansSettled'
  BY DEF AppliedInv, AppliedMeansSettled

LEMMA AppliedPlan ==
  ASSUME AppliedInv, Plan
  PROVE  Creates' /\ Updates' /\ AppliedMeansSettled'
  <1>1. AppliedMeansSettled'
    BY NotOk DEF Plan, PlanCreate, PlanUpdate, PlanDelete
  <1>2. CASE PlanCreate
    <2>1. op'.pc = "create" /\ op'.plan = CreatePlan(config) /\ config # Null
          /\ config' = config
      BY <1>2 DEF PlanCreate
    <2>2. QED
      BY <1>1, <2>1 DEF Creates, Updates, UpdatePCs
  <1>3. CASE PlanUpdate
    <2>1. op'.pc = "update" /\ op'.plan = UpdatePlan(config, state)
          /\ config # Null /\ state # Null /\ UNCHANGED <<config, state>>
      BY <1>3 DEF PlanUpdate
    <2>2. QED
      BY <1>1, <2>1 DEF Creates, Updates, UpdatePCs
  <1>4. CASE PlanDelete
    <2>1. op'.pc = "delete"
      BY <1>4 DEF PlanDelete
    <2>2. QED
      BY <1>1, <2>1 DEF Creates, Updates, UpdatePCs
  <1>5. QED
    BY <1>2, <1>3, <1>4 DEF Plan

LEMMA AppliedCreateApp ==
  ASSUME AppliedInv, NEW o \in Outcome, CreateApp(o)
  PROVE  Creates' /\ Updates' /\ AppliedMeansSettled'
  <1>1. config' = config /\ config # Null /\ op.plan = CreatePlan(config)
    BY DEF CreateApp, AppliedInv, Creates
  <1>2. CASE Succeeds(o, hub = Null)
    <2>1. /\ op'.pc = "create_headers" /\ op'.plan = op.plan
          /\ UNCHANGED <<state, last>>
      BY <1>2, CreatedObject DEF AppliedInv, IInv
    <2>2. AppliedMeansSettled'
      BY <1>1, <2>1, NotOk
    <2>3. QED
      BY <1>1, <2>1, <2>2 DEF Creates, Updates, UpdatePCs
  <1>3. CASE ~Succeeds(o, hub = Null)
    <2>1. op' = Idle /\ last' = "failed"
      BY <1>3 DEF CreateApp, Return
    <2>2. QED
      BY <2>1, Returned, NotOk
  <1>4. QED
    BY <1>2, <1>3

LEMMA AppliedCreateHeaders ==
  ASSUME AppliedInv, NEW o \in Outcome, CreateHeaders(o) \/ CreateNoHeaders
  PROVE  Creates' /\ Updates' /\ AppliedMeansSettled'
  <1>1. /\ config' = config /\ op.pc = "create_headers" /\ config # Null
        /\ op.plan = CreatePlan(config) /\ op.work \in Model
        /\ op.work.applied = Null
    BY StageTypes
    DEF CreateHeaders, SetUpstreamAuth, CreateNoHeaders, AppliedInv, Creates,
        IInv, StageInv
  <1>2. CASE CreateHeaders(o) /\ Succeeds(o, TakesHeaders(hub))
    <2>1. /\ op'.pc = "create_archived" /\ op'.plan = op.plan
          /\ op'.work = [op.work EXCEPT !.applied = op.plan.version]
          /\ UNCHANGED <<state, last>> /\ NeedsHeaders
      <3>1. SetUpstreamAuth(o, "create_archived",
              [op.work EXCEPT !.applied = op.plan.version], Tainted(op.work))
            /\ NeedsHeaders
        BY <1>2 DEF CreateHeaders
      <3>2. last' = last
        BY <1>2, <3>1 DEF SetUpstreamAuth
      <3>3. TypeOK /\ Succeeds(o, TakesHeaders(hub))
        BY <1>2 DEF AppliedInv, IInv
      <3>4. /\ op'.pc = "create_archived" /\ op'.plan = op.plan
            /\ op'.work = [op.work EXCEPT !.applied = op.plan.version]
            /\ state' = state
        BY <1>2, <3>3, SettledBySetUpstreamAuth DEF CreateHeaders
      <3>5. QED
        BY <3>1, <3>2, <3>4
    <2>2. AppliedMeansSettled'
      BY <1>1, <2>1, NotOk
    <2>3. op'.work.auth = op.work.auth /\ op'.work.applied = op.plan.version
      BY <1>1, <2>1 DEF Model
    <2>4. Creates'
      BY <1>1, <2>1, <2>3 DEF Creates, NeedsHeaders
    <2>5. QED
      BY <2>1, <2>2, <2>4 DEF Updates, UpdatePCs
  <1>3. CASE CreateHeaders(o) /\ ~Succeeds(o, TakesHeaders(hub))
    <2>1. op' = Idle /\ last' = "failed"
      BY <1>3 DEF CreateHeaders, SetUpstreamAuth, Return
    <2>2. QED
      BY <2>1, Returned, NotOk
  <1>4. CASE CreateNoHeaders
    <2>1. /\ op' = [op EXCEPT !.pc = "create_archived"]
          /\ UNCHANGED <<state, last>> /\ ~NeedsHeaders
      BY <1>4 DEF CreateNoHeaders
    <2>2. /\ op'.pc = "create_archived" /\ op'.plan = op.plan
          /\ op'.work = op.work
      BY <1>1, <2>1 DEF AppliedInv, IInv, TypeOK, Op, Idle, UpdatePCs
    <2>3. AppliedMeansSettled'
      BY <1>1, <2>1, NotOk
    <2>4. Creates'
      BY <1>1, <2>1, <2>2 DEF Creates, NeedsHeaders
    <2>5. QED
      BY <2>2, <2>3, <2>4 DEF Updates, UpdatePCs
  <1>5. QED
    BY <1>2, <1>3, <1>4

\* How the last stage ends, of a Create and of an Update.
LEMMA AppliedFinish ==
  ASSUME AppliedInv, op.pc \in {"create_archived", "update_archived"},
         config' = config, NEW m \in Model, Finish(m),
         m.auth = op.work.auth, m.applied = op.work.applied
  PROVE  Creates' /\ Updates' /\ AppliedMeansSettled'
  <1>1. op' = Idle /\ (last' = "ok" => Echoes(op.plan, m) /\ state' = m)
    BY Finished
  <1>2. CASE last' # "ok"
    BY <1>1, <1>2, Returned, NotOk
  <1>3. CASE last' = "ok"
    <2>1. ~KeptOauth(config, m) =>
            PlanEmpty(config, m) /\ ~PlanRefused(config, m)
      BY <1>1, <1>3, CreatedIsSettled, UpdatedIsSettled
    <2>2. AppliedMeansSettled'
      BY <1>1, <1>3, <2>1 DEF AppliedMeansSettled
    <2>3. QED
      BY <1>1, <2>2, Returned
  <1>4. QED
    BY <1>2, <1>3

LEMMA AppliedSetArchived ==
  ASSUME AppliedInv, op.pc \in {"create_archived", "update_archived"},
         NEW o \in Outcome, NEW archived \in BOOLEAN, NEW failed,
         SetArchived(o, archived, failed)
  PROVE  Creates' /\ Updates' /\ AppliedMeansSettled'
  <1>1. op.work \in Model
    BY StageTypes DEF AppliedInv, IInv, UpdatePCs
  <1>2. CASE Succeeds(o, hub # Null)
    <2> DEFINE m == [op.work EXCEPT !.archived = archived]
    <2>1. Finish(m) /\ config' = config
      BY <1>2 DEF SetArchived
    <2>2. m \in Model /\ m.auth = op.work.auth /\ m.applied = op.work.applied
      BY <1>1 DEF Model
    <2>3. QED
      BY <2>1, <2>2, AppliedFinish
  <1>3. CASE ~Succeeds(o, hub # Null)
    <2>1. op' = Idle /\ last' = "failed"
      BY <1>3 DEF SetArchived, Return
    <2>2. QED
      BY <2>1, Returned, NotOk
  <1>4. QED
    BY <1>2, <1>3

LEMMA AppliedLast ==
  ASSUME AppliedInv, NEW o \in Outcome,
         CreateArchived(o) \/ CreateDone \/ UpdateArchived(o) \/ UpdateDone
  PROVE  Creates' /\ Updates' /\ AppliedMeansSettled'
  <1>1. CASE CreateArchived(o)
    BY <1>1, AppliedSetArchived DEF CreateArchived
  <1>2. CASE UpdateArchived(o)
    <2>1. op.plan.archived \in BOOLEAN
      BY <1>2, StageTypes DEF UpdateArchived, UpdatePCs, Updated, AppliedInv, IInv
    <2>2. QED
      BY <1>2, <2>1, AppliedSetArchived DEF UpdateArchived
  <1>3. CASE CreateDone \/ UpdateDone
    <2>1. /\ op.pc \in {"create_archived", "update_archived"}
          /\ config' = config /\ Finish(op.work)
      BY <1>3 DEF CreateDone, UpdateDone
    <2>2. op.work \in Model
      BY <2>1, StageTypes DEF AppliedInv, IInv, UpdatePCs
    <2>3. QED
      BY <2>1, <2>2, AppliedFinish
  <1>4. QED
    BY <1>1, <1>2, <1>3

LEMMA AppliedUpdateFields ==
  ASSUME AppliedInv, NEW o \in Outcome, UpdateFields(o) \/ UpdateNoFields
  PROVE  Creates' /\ Updates' /\ AppliedMeansSettled'
  <1>1. /\ config' = config /\ config # Null /\ state # Null
        /\ op.plan = UpdatePlan(config, state)
        /\ op = [pc |-> op.pc, plan |-> op.plan, work |-> op.work]
    BY DEF UpdateFields, UpdateNoFields, UpdatePCs, AppliedInv, Updates, IInv,
      TypeOK, Op, Idle
  <1>2. CASE UpdateFields(o) /\ ~Succeeds(o, IsProxy(hub))
    <2>1. op' = Idle /\ last' = "failed"
      BY <1>2 DEF UpdateFields, Return
    <2>2. QED
      BY <2>1, Returned, NotOk
  <1>3. CASE (UpdateFields(o) /\ Succeeds(o, IsProxy(hub))) \/ UpdateNoFields
    <2>1. /\ op'.pc = "update_headers" /\ op'.plan = op.plan
          /\ UNCHANGED <<state, last>>
      BY <1>1, <1>3 DEF UpdateFields, UpdateNoFields
    <2>2. AppliedMeansSettled'
      BY <1>1, <2>1, NotOk
    <2>3. QED
      BY <1>1, <2>1, <2>2 DEF Creates, Updates
  <1>4. QED
    BY <1>2, <1>3

LEMMA AppliedUpdateHeaders ==
  ASSUME AppliedInv, NEW o \in Outcome, UpdateHeaders(o) \/ UpdateNoHeaders
  PROVE  Creates' /\ Updates' /\ AppliedMeansSettled'
  <1>1. /\ config' = config /\ op.pc = "update_headers" /\ config # Null
        /\ op.plan = UpdatePlan(config, state) /\ op.work \in Model
        /\ op.plan \in Updated /\ state # Null
    BY StageTypes
    DEF UpdateHeaders, SetUpstreamAuth, UpdateNoHeaders, UpdatePCs, AppliedInv,
        Updates, IInv
  <1>2. CASE UpdateHeaders(o) /\ Succeeds(o, TakesHeaders(hub))
    <2>1. /\ op'.pc = "update_archived" /\ op'.plan = op.plan
          /\ op'.work = [op.work EXCEPT !.applied = op.plan.version,
                                        !.version = op.plan.version]
          /\ UNCHANGED <<state, last>>
          /\ NeedsHeaders /\ op.plan.applied = Unknown
      <3>1. SetUpstreamAuth(o, "update_archived",
              [op.work EXCEPT !.applied = op.plan.version,
                              !.version = op.plan.version], op.work)
            /\ NeedsHeaders /\ op.plan.applied = Unknown
        BY <1>2 DEF UpdateHeaders
      <3>2. last' = last
        BY <1>2, <3>1 DEF SetUpstreamAuth
      <3>3. QED
        BY <1>2, <3>1, <3>2, SettledBySetUpstreamAuth DEF AppliedInv, IInv
    <2>2. AppliedMeansSettled'
      BY <1>1, <2>1, NotOk
    <2>3. op'.work.auth = op.work.auth /\ op'.work.applied = op.plan.version
      BY <1>1, <2>1 DEF Model
    <2>4. Updates'
      BY <1>1, <2>1, <2>3 DEF Updates, NeedsHeaders
    <2>5. QED
      BY <2>1, <2>2, <2>4 DEF Creates
  <1>3. CASE UpdateHeaders(o) /\ ~Succeeds(o, TakesHeaders(hub))
    <2>1. op' = Idle /\ last' = "failed"
      BY <1>3 DEF UpdateHeaders, SetUpstreamAuth, Return
    <2>2. QED
      BY <2>1, Returned, NotOk
  <1>4. CASE UpdateNoHeaders
    <2>1. /\ op' = [op EXCEPT
               !.pc = "update_archived",
               !.work.applied = IF op.plan.applied = Unknown THEN Null ELSE @,
               !.work.version = op.plan.version]
          /\ UNCHANGED <<state, last>>
          /\ ~(op.plan.applied = Unknown /\ NeedsHeaders)
      BY <1>4 DEF UpdateNoHeaders
    <2>2. /\ op'.pc = "update_archived" /\ op'.plan = op.plan
          /\ op'.work = [op.work EXCEPT
               !.applied = IF op.plan.applied = Unknown THEN Null ELSE @,
               !.version = op.plan.version]
      <3>1. op = [pc |-> op.pc, plan |-> op.plan, work |-> op.work]
        BY DEF AppliedInv, IInv, TypeOK, Op, Idle, UpdatePCs
      <3>2. QED
        BY <1>1, <2>1, <3>1 DEF Model
    <2>3. /\ op'.work.auth = op.work.auth
          /\ op.plan.applied = Unknown => op'.work.applied = Null
      BY <1>1, <2>2 DEF Model
    <2>4. AppliedMeansSettled'
      BY <1>1, <2>1, NotOk
    <2>5. Updates'
      BY <1>1, <2>1, <2>2, <2>3 DEF Updates, NeedsHeaders
    <2>6. QED
      BY <2>2, <2>4, <2>5 DEF Creates
  <1>5. QED
    BY <1>2, <1>3, <1>4

LEMMA AppliedStep ==
  ASSUME AppliedInv, [Next]_vars
  PROVE  AppliedInv'
  <1>1. IInv'
    BY InvStep DEF AppliedInv
  <1>2. CASE Plan
    BY <1>1, <1>2, AppliedPlan DEF AppliedInv
  <1>3. CASE Silent
    BY <1>1, <1>3, AppliedCreateHeaders, AppliedLast, AppliedUpdateFields,
      AppliedUpdateHeaders
    DEF Silent, Outcome, AppliedInv
  <1>4. CASE \E o \in Outcome : Step(o)
    <2>1. PICK o \in Outcome : Step(o)
      BY <1>4
    <2>2. CASE Delete(o)
      <3>1. op' = Idle /\ (state' = Null \/ last' = "failed")
        BY <2>2 DEF Delete, Return
      <3>2. QED
        BY <1>1, <3>1, Returned, NotOk DEF AppliedInv
    <2>3. QED
      BY <1>1, <2>1, <2>2, AppliedCreateApp, AppliedCreateHeaders,
        AppliedLast, AppliedUpdateFields, AppliedUpdateHeaders
      DEF Step, AppliedInv
  <1>5. CASE PlanDeferred \/ Read \/ Import \/ Crash
             \/ \E c \in Configs \cup {Null} : Configure(c)
    <2>1. op' = Idle
      BY <1>5, StageTypes
      DEF PlanDeferred, Read, Import, Crash, Configure, Return, AppliedInv, IInv
    <2>2. last' # "ok" \/ UNCHANGED <<state, config, last>>
      BY <1>5 DEF PlanDeferred, Read, Import, Crash, Configure, Return
    <2>3. QED
      BY <1>1, <2>1, <2>2, Returned, NotOk DEF AppliedInv
  <1>6. CASE Drift \/ UNCHANGED vars
    <2>1. UNCHANGED <<state, config, op, last>>
      BY <1>6 DEF Drift, vars
    <2>2. AppliedMeansSettled'
      BY <2>1, NotOk
    <2>3. QED
      BY <1>1, <2>1, <2>2
      DEF AppliedInv, Creates, Updates, NeedsHeaders
  <1>7. QED
    BY <1>2, <1>3, <1>4, <1>5, <1>6 DEF Next

LEMMA AppliedInvariance == Spec => []AppliedInv
  <1>1. Init => AppliedInv
    <2>1. SUFFICES ASSUME Init PROVE AppliedInv
      OBVIOUS
    <2>2. IInv
      BY <2>1, InitInv
    <2>3. op.pc = "idle" /\ last = "none"
      BY <2>1 DEF Init, Idle
    <2>4. QED
      BY <2>2, <2>3
      DEF AppliedInv, Creates, Updates, UpdatePCs, AppliedMeansSettled
  <1>2. AppliedInv /\ [Next]_vars => AppliedInv'
    BY AppliedStep
  <1>3. QED
    BY <1>1, <1>2, PTL DEF Spec

(***************************************************************************)
(* An apply that reports success leaves a second plan empty and accepted.  *)
(***************************************************************************)
THEOREM AppliedIsSettled == Spec => []AppliedMeansSettled
  <1>1. AppliedInv => AppliedMeansSettled
    BY DEF AppliedInv
  <1>2. QED
    BY <1>1, AppliedInvariance, PTL

-----------------------------------------------------------------------------
(* What an update writes over                                              *)

\* What app_update makes of the attributes that the configuration leaves out
\* is what the refresh had read.
LEMMA FieldsTouched ==
  ASSUME AppliedInv, NEW o \in Outcome, UpdateFields(o), hub' # hub
  PROVE  /\ TouchedRightly(hub.auth, hub'.auth, config.auth, state.auth)
         /\ TouchedRightly(hub.common.plain, hub'.common.plain,
                           config.common.plain, state.common.plain)
         /\ TouchedRightly(hub.common.aliases, hub'.common.aliases,
                           config.common.aliases, state.common.aliases)
         /\ TouchedRightly(hub.roles, hub'.roles, config.roles, state.roles)
  <1> USE ValuesAssumption
  <1>1. /\ op.plan = UpdatePlan(config, state) /\ op.work = state
        /\ op.pc \in UpdatePCs /\ TypeOK
    BY DEF UpdateFields, UpdatePCs, AppliedInv, Updates, IInv, StageInv
  <1>2. Patched(op.plan) # Patched(state)
    BY <1>1 DEF UpdateFields, ProxyAppChanged
  <1>3. IsProxy(hub) /\ hub' = HubPatched(hub, op.plan)
    BY DEF UpdateFields, Request
  <1>4. /\ hub'.auth = op.plan.auth
        /\ hub'.common = CommonPatched(hub.common, op.plan.common)
        /\ hub'.roles = ToWire(op.plan.roles)
    BY <1>1, <1>3, UpdatedRow
  <1>5. /\ op.plan.auth = Kept(config.auth, state.auth)
        /\ op.plan.common = KeptCommon(config.common, state.common)
        /\ op.plan.roles = KeptRoles(config.roles, state.roles)
    BY <1>1 DEF UpdatePlan
  <1>6. state.common.aliases \in Aliases \cup {Null} /\ state.roles \in Stored
    BY <1>1 DEF AppliedInv, Updates, TypeOK, Model, Common
  <1>7. TouchedRightly(hub.auth, hub'.auth, config.auth, state.auth)
    BY <1>2, <1>4, <1>5 DEF TouchedRightly, Kept
  <1>8. TouchedRightly(hub.common.plain, hub'.common.plain,
                       config.common.plain, state.common.plain)
    BY <1>2, <1>4, <1>5 DEF TouchedRightly, KeptCommon, Kept, CommonPatched
  <1>9. TouchedRightly(hub.common.aliases, hub'.common.aliases,
                       config.common.aliases, state.common.aliases)
    BY <1>2, <1>4, <1>5, <1>6
    DEF TouchedRightly, KeptCommon, Kept, CommonPatched, Sent
  <1>10. config.roles = Null => hub'.roles = state.roles
    <2>1. SUFFICES ASSUME config.roles = Null PROVE hub'.roles = state.roles
      OBVIOUS
    <2>2. KeptRoles(Null, state.roles) = state.roles /\ ~HasEmptyFamily(Null)
      BY DEF KeptRoles, HasEmptyFamily
    <2>3. ~HasEmptyFamily(state.roles)
      BY <1>6, <2>2, PlanAsks
    <2>4. state.roles \in Written
      BY <1>6 DEF Stored, Written, RoleMaps
    <2>5. QED
      BY <1>4, <1>5, <2>1, <2>2, <2>3, <2>4, WireKeeps
  <1>11. TouchedRightly(hub.roles, hub'.roles, config.roles, state.roles)
    BY <1>2, <1>10 DEF TouchedRightly
  <1>12. QED
    BY <1>7, <1>8, <1>9, <1>11

\* No other stage writes any of them.
LEMMA OthersLeaveFields ==
  ASSUME AppliedInv, Next, op.pc \in UpdatePCs, op'.pc # op.pc,
         hub # Null, hub' # Null, \A o \in Outcome : ~UpdateFields(o)
  PROVE  hub'.auth = hub.auth /\ hub'.common = hub.common
         /\ hub'.roles = hub.roles
  <1> USE DEF UpdatePCs
  <1>1. hub \in Row
    BY DEF AppliedInv, IInv, TypeOK
  <1>2. CASE \E o \in Outcome : UpdateHeaders(o)
    <2>1. hub' = hub \/ hub' = [hub EXCEPT !.env = op.plan.version]
      BY <1>2 DEF UpdateHeaders, SetUpstreamAuth, Request
    <2>2. QED
      BY <1>1, <2>1 DEF Row
  <1>3. CASE \E o \in Outcome : UpdateArchived(o)
    <2>1. hub' = hub \/ hub' = [hub EXCEPT !.archived = op.plan.archived]
      BY <1>3 DEF UpdateArchived, SetArchived, Request
    <2>2. QED
      BY <1>1, <2>1 DEF Row
  <1>4. CASE Drift \/ Read \/ Import
    BY <1>4 DEF Drift, Read, Import
  <1>5. CASE \E o \in Outcome : CreateApp(o) \/ CreateHeaders(o)
                                \/ CreateArchived(o) \/ Delete(o)
    BY <1>5 DEF CreateApp, CreateHeaders, CreateArchived, Delete
  <1>6. CASE Plan \/ PlanDeferred \/ Silent \/ Crash
             \/ \E c \in Configs \cup {Null} : Configure(c)
    BY <1>6
    DEF Plan, PlanCreate, PlanUpdate, PlanDelete, PlanDeferred, Silent,
        CreateNoHeaders, CreateDone, UpdateNoFields, UpdateNoHeaders,
        UpdateDone, Crash, Configure
  <1>7. QED
    BY <1>2, <1>3, <1>4, <1>5, <1>6 DEF Next, Step

(***************************************************************************)
(* An update that plans no attribute app_update patches writes none, and   *)
(* one that does makes of an attribute that is not configured nothing but  *)
(* what the refresh had read.                                              *)
(***************************************************************************)
THEOREM FieldsStay == Spec => FieldsLeftAlone
  <1> DEFINE Fields ==
        /\ TouchedRightly(hub.auth, hub'.auth, config.auth, state.auth)
        /\ TouchedRightly(hub.common.plain, hub'.common.plain,
                          config.common.plain, state.common.plain)
        /\ TouchedRightly(hub.common.aliases, hub'.common.aliases,
                          config.common.aliases, state.common.aliases)
        /\ TouchedRightly(hub.roles, hub'.roles, config.roles, state.roles)
  <1>1. ASSUME AppliedInv, [Next]_vars
        PROVE  [op.pc \in UpdatePCs /\ op'.pc # op.pc
                /\ hub # Null /\ hub' # Null => Fields]_vars
    <2>1. SUFFICES ASSUME Next, op.pc \in UpdatePCs, op'.pc # op.pc,
                          hub # Null, hub' # Null
                   PROVE  Fields
      BY <1>1
    <2>2. ASSUME \A o \in Outcome : ~UpdateFields(o) PROVE Fields
      BY <1>1, <2>1, <2>2, OthersLeaveFields DEF TouchedRightly
    <2>3. ASSUME NEW o \in Outcome, UpdateFields(o) PROVE Fields
      <3>1. CASE hub' = hub
        BY <3>1 DEF TouchedRightly
      <3>2. CASE hub' # hub
        BY <1>1, <2>3, <3>2, FieldsTouched
      <3>3. QED
        BY <3>1, <3>2
    <2>4. QED
      BY <2>2, <2>3
  <1>2. QED
    BY <1>1, AppliedInvariance, PTL DEF Spec, FieldsLeftAlone

-----------------------------------------------------------------------------
(* FlipSendsHeaders and OauthToOauthSettles fail: here are cases in which  *)
(* they hold, so that what fails goes no further than the rest.            *)

\* What ModifyPlan's comment says of an app taken from oauth to headers, of any
\* app whose credential nothing happened to unseen, and of any whose witness
\* is of another version than the one configured.
FlipSendsUnlessKept ==
  [][op.pc = "update_headers" /\ op'.pc = "update_archived"
     /\ state.auth = "oauth" /\ op.work.auth = "headers"
     /\ op.plan.version # Null
     /\ (~unseen.cred \/ state.applied # op.plan.version)
     => TakesHeaders(hub') /\ hub'.env = op.plan.version]_vars

\* What it says of an app that is oauth and stays so, with the same exception
\* and that of a pair configured over an omitted auth.
OauthSettlesUnlessKept ==
  op.pc = "update" /\ state.auth = "oauth" /\ op.plan.auth = "oauth"
  /\ ~KeptOauth(config, state) /\ ~unseen.cred =>
    op.plan.applied # Unknown

\* An Update that plans a version other than the one witnessed cannot reach
\* its last stage without sealing it, in an app that takes headers.
LEMMA FlipSeals ==
  ASSUME AppliedInv, [Next]_vars,
         op.pc = "update_headers", op'.pc = "update_archived",
         op.work.auth = "headers", op.plan.version # Null,
         state.applied # op.plan.version
  PROVE  TakesHeaders(hub') /\ hub'.env = op.plan.version
  <1> USE SentinelAssumption
  <1>1. op.plan = UpdatePlan(config, state) /\ op.plan \in Updated
    BY StageTypes DEF AppliedInv, Updates, UpdatePCs, IInv
  <1>2. op.plan.applied = Unknown /\ NeedsHeaders
    BY <1>1 DEF UpdatePlan, MarkApplyUnknown, NeedsHeaders
  <1>3. PICK o \in Outcome : UpdateHeaders(o)
    BY <1>2 DEF Next, Plan, PlanCreate, PlanUpdate, PlanDelete, PlanDeferred,
      Silent, CreateNoHeaders, CreateDone, UpdateNoFields, UpdateNoHeaders,
      UpdateDone, Read, Import, Drift, Crash, Return, Idle, Step, CreateApp,
      CreateHeaders, CreateArchived, UpdateFields, UpdateArchived, Delete,
      Configure, vars
  <1>4. SetUpstreamAuth(o, "update_archived",
          [op.work EXCEPT !.applied = op.plan.version,
                          !.version = op.plan.version], op.work)
    BY <1>3 DEF UpdateHeaders
  <1>5. Succeeds(o, TakesHeaders(hub))
    BY <1>4 DEF SetUpstreamAuth, Return, Idle
  <1>6. hub' = [hub EXCEPT !.env = op.plan.version] /\ hub \in Row /\ TakesHeaders(hub)
    BY <1>4, <1>5, SettledBySetUpstreamAuth DEF AppliedInv, IInv, Succeeds
  <1>7. op.plan.version \in Versions
    BY <1>1 DEF Updated
  <1>8. hub' \in Row /\ hub'.kind = "proxy" /\ hub'.auth = "headers"
        /\ hub'.env = op.plan.version
    BY <1>6, <1>7 DEF TakesHeaders, IsProxy, Row
  <1>9. QED
    BY <1>8 DEF TakesHeaders, IsProxy

\* A flip from oauth to headers sends the headers, unless the app had become
\* oauth, or lost them, without an answer that the provider saw.
THEOREM FlipBoundary == Spec => FlipSendsUnlessKept
  <1>1. ASSUME AppliedInv, [Next]_vars
        PROVE  [op.pc = "update_headers" /\ op'.pc = "update_archived"
                /\ state.auth = "oauth" /\ op.work.auth = "headers"
                /\ op.plan.version # Null
                /\ (~unseen.cred \/ state.applied # op.plan.version)
                => TakesHeaders(hub') /\ hub'.env = op.plan.version]_vars
    <2>1. op.pc = "update_headers" /\ state.auth = "oauth" /\ ~unseen.cred
            => state.applied = Null
      BY <1>1 DEF AppliedInv, IInv, StageInv
    <2>2. QED
      BY <1>1, <2>1, FlipSeals
  <1>2. QED
    BY <1>1, AppliedInvariance, PTL DEF Spec, FlipSendsUnlessKept

\* An app that stays oauth is settled by one apply, with the same exception and
\* that of the pair under an omitted auth.
THEOREM OauthBoundary == Spec => []OauthSettlesUnlessKept
  <1>1. ASSUME AppliedInv PROVE OauthSettlesUnlessKept
    <2>1. SUFFICES ASSUME op.pc = "update", state.auth = "oauth",
                          op.plan.auth = "oauth", ~KeptOauth(config, state),
                          ~unseen.cred
                   PROVE  op.plan.applied # Unknown
      BY DEF OauthSettlesUnlessKept
    <2>2. /\ op.plan = UpdatePlan(config, state) /\ config # Null
          /\ state.applied = Null
      BY <1>1, <2>1 DEF AppliedInv, Updates, UpdatePCs, IInv, StageInv
    <2>3. config \in Config /\ ValidConfig(config)
      BY <1>1, <2>2, ConstantsAssumption DEF AppliedInv, IInv, TypeOK
    <2>4. config.auth \in {"oauth", Null}
      BY <2>1, <2>2 DEF UpdatePlan, Kept
    <2>5. config.version = Null
      BY <2>1, <2>3, <2>4 DEF ValidConfig, KeptOauth
    <2>6. QED
      BY <2>2, <2>5, ValuesAssumption DEF UpdatePlan, MarkApplyUnknown
  <1>2. QED
    BY <1>1, AppliedInvariance, PTL
-----------------------------------------------------------------------------
(***************************************************************************)
(* ProxyApp keeps the promise of Sealing: every step of the handlers, the  *)
(* runs and the hub is one of Sealing's, seen through the witness, or      *)
(* changes nothing that it speaks of.                                      *)
(***************************************************************************)

Trusted == Witness # Null /\ ~unseen.cred

-----------------------------------------------------------------------------
(* The abstract steps, as the concrete ones provide them                   *)

\* The claim stays, and is as good as the secret is the same.
LEMMA MissedMaps ==
  ASSUME Witness' = Witness, accepted' = accepted,
         Trusted' <=> Trusted /\ EnvOf(hub)' = EnvOf(hub),
         EnvOf(hub)' \in {EnvOf(hub), Null, Foreign}
  PROVE  [Promise!Next]_(Promise!vars)
  <1>1. CASE EnvOf(hub)' = EnvOf(hub)
    <2>1. Trusted' = Trusted
      BY <1>1, Zenon DEF Trusted
    <2>2. QED
      BY <1>1, <2>1, Zenon DEF Promise!vars, Trusted
  <1>2. CASE EnvOf(hub)' # EnvOf(hub)
    <2>1. Trusted' = (Trusted /\ EnvOf(hub)' = EnvOf(hub))
      BY Zenon
    <2>2. Promise!Meddle
      BY <1>2, <2>1, Zenon DEF Promise!Meddle, Promise!Missed, Trusted
    <2>3. QED
      BY <2>2 DEF Promise!Next
  <1>3. QED
    BY <1>1, <1>2

LEMMA AbandonMaps ==
  ASSUME Witness' = Null, accepted' = accepted,
         EnvOf(hub)' \in {EnvOf(hub), Null}
  PROVE  [Promise!Next]_(Promise!vars)
  <1>1. Promise!Abandon
    BY Zenon DEF Promise!Abandon
  <1>2. QED
    BY <1>1 DEF Promise!Next

LEMMA SealMaps ==
  ASSUME NEW v \in Versions, EnvOf(hub)' = v, Witness' = v, Trusted',
         accepted' = accepted \cup {v}
  PROVE  [Promise!Next]_(Promise!vars)
  <1>1. Promise!Seal(v)
    <2>1. Trusted' = TRUE
      BY Zenon
    <2>2. QED
      BY <2>1, Zenon DEF Promise!Seal, Trusted
  <1>2. QED
    BY <1>1 DEF Promise!Next

LEMMA SealUnheardMaps ==
  ASSUME NEW v \in Versions, EnvOf(hub)' = v, Witness' = Witness,
         Trusted' <=> Trusted /\ EnvOf(hub)' = EnvOf(hub),
         accepted' = accepted \cup {v}
  PROVE  [Promise!Next]_(Promise!vars)
  <1>1. Promise!SealUnheard(v)
    <2>1. Trusted' = (Trusted /\ EnvOf(hub)' = EnvOf(hub))
      BY Zenon
    <2>2. QED
      BY <2>1, Zenon DEF Promise!SealUnheard, Promise!Missed, Trusted
  <1>2. QED
    BY <1>1 DEF Promise!Next

LEMMA RelapseMaps ==
  ASSUME Witness' \in accepted \cup {Null}, ~Trusted', hub' = hub,
         accepted' = accepted
  PROVE  [Promise!Next]_(Promise!vars)
  <1>1. Promise!Relapse(Witness')
    <2>1. Trusted' = FALSE
      BY Zenon DEF Trusted
    <2>2. EnvOf(hub)' = EnvOf(hub)
      BY DEF EnvOf
    <2>3. QED
      BY <2>1, <2>2, Zenon DEF Promise!Relapse, Trusted
  <1>2. QED
    BY <1>1 DEF Promise!Next

\* A step that leaves the credential, the claim and what was missed alone.
LEMMA QuietMaps ==
  ASSUME EnvOf(hub)' = EnvOf(hub), Witness' = Witness, accepted' = accepted,
         Witness # Null => (unseen'.cred <=> unseen.cred)
  PROVE  [Promise!Next]_(Promise!vars)
  <1>1. Trusted' <=> Trusted /\ EnvOf(hub)' = EnvOf(hub)
    BY Zenon DEF Trusted
  <1>2. QED
    BY <1>1, MissedMaps

\* A request failed and the handler returned the model it had.
LEMMA FailedMeans ==
  ASSUME View # Null, ~Revising, state' = View \/ state'.applied = View.applied,
         state' # Null, op' = Idle, Unwitnessed(hub')
  PROVE  /\ Witness' = Witness
         /\ Trusted' <=> Trusted /\ EnvOf(hub)' = EnvOf(hub)
  <1>1. View' = state' /\ ~Revising'
    BY DEF View, Revising, Idle
  <1>2. Witness' = Witness
    BY <1>1 DEF Witness
  <1>3. unseen'.cred <=> unseen.cred \/ EnvOf(hub') # EnvOf(hub)
    BY Zenon DEF Unwitnessed
  <1>4. EnvOf(hub)' = EnvOf(hub')
    BY Zenon DEF EnvOf
  <1>5. QED
    BY <1>2, <1>3, <1>4, Zenon DEF Trusted

-----------------------------------------------------------------------------
(* Handlers                                                                *)

\* app_set_upstream_auth: Seal, SealUnheard, or nothing at all.
LEMMA SetUpstreamAuthMaps ==
  ASSUME IInv, NEW o \in Outcome, NEW to \in {"create_archived", "update_archived"},
         NEW settled \in Model, NEW failed \in Model,
         op.plan.version \in Versions, View # Null, ~Revising,
         settled.applied = op.plan.version, failed.applied = View.applied,
         SetUpstreamAuth(o, to, settled, failed)
  PROVE  [Promise!Next]_(Promise!vars)
  <1> USE SentinelAssumption DEF IInv
  <1>1. ASSUME TakesHeaders(hub), o # "refused"
        PROVE  /\ hub' = [hub EXCEPT !.env = op.plan.version]
               /\ EnvOf(hub)' = op.plan.version
               /\ accepted' = accepted \cup {op.plan.version}
    <2>1. /\ hub' = [hub EXCEPT !.env = op.plan.version] /\ hub \in Row
          /\ accepted' = accepted \cup {op.plan.version}
      BY <1>1 DEF SetUpstreamAuth, Request, TypeOK, TakesHeaders, IsProxy
    <2>2. hub' \in Row /\ hub' # Null /\ hub'.env = op.plan.version
      BY <1>1, <2>1 DEF Row, TakesHeaders, IsProxy
    <2>3. QED
      BY <2>1, <2>2 DEF EnvOf
  <1>2. CASE Succeeds(o, TakesHeaders(hub))
    <2>1. op'.pc = to /\ op'.work = settled /\ unseen'.cred = FALSE
      BY <1>2, SettledBySetUpstreamAuth
    <2>2. View' = settled /\ ~Revising' /\ settled # Null
      BY <2>1 DEF View, Revising
    <2>3. Witness' = op.plan.version /\ Trusted'
      BY <2>1, <2>2 DEF Witness, Trusted
    <2>4. QED
      BY <1>1, <1>2, <2>3, SealMaps DEF Succeeds, Outcome
  <1>3. CASE ~Succeeds(o, TakesHeaders(hub))
    <2>1. state' = failed /\ op' = Idle /\ Unwitnessed(hub') /\ failed # Null
      BY <1>3 DEF SetUpstreamAuth, Return
    <2>2. /\ Witness' = Witness
          /\ Trusted' <=> Trusted /\ EnvOf(hub)' = EnvOf(hub)
      BY <2>1, FailedMeans
    <2>3. CASE TakesHeaders(hub) /\ o # "refused"
      BY <1>1, <2>2, <2>3, SealUnheardMaps
    <2>4. CASE ~(TakesHeaders(hub) /\ o # "refused")
      <3>1. hub' = hub /\ accepted' = accepted
        BY <2>4 DEF SetUpstreamAuth, Request
      <3>2. EnvOf(hub)' = EnvOf(hub)
        BY <3>1 DEF EnvOf
      <3>3. QED
        BY <2>2, <3>1, <3>2, MissedMaps
    <2>5. QED
      BY <2>3, <2>4
  <1>4. QED
    BY <1>2, <1>3

\* Ending a handler with the model it has is no change of the claim.
LEMMA FinishKeepsWitness ==
  ASSUME NEW m \in Model, Finish(m), View # Null, ~Revising,
         m.applied = View.applied
  PROVE  Witness' = Witness
  <1>1. state' # Null /\ op' = Idle /\ state'.applied = m.applied
    BY Finished
  <1>2. View' = state' /\ ~Revising'
    BY <1>1 DEF View, Revising, Idle
  <1>3. QED
    BY <1>1, <1>2 DEF Witness

\* app_archive and app_unarchive say nothing of the credential.
LEMMA SetArchivedMaps ==
  ASSUME IInv, NEW o \in Outcome, NEW a \in BOOLEAN, NEW failed \in Model,
         op.work \in Model, View = op.work, ~Revising,
         failed.applied = op.work.applied, SetArchived(o, a, failed)
  PROVE  [Promise!Next]_(Promise!vars)
  <1> USE SentinelAssumption DEF IInv
  <1>1. EnvOf(hub)' = EnvOf(hub)
    <2>1. hub' = hub \/ (hub # Null /\ hub' = [hub EXCEPT !.archived = a])
      BY DEF SetArchived, Request
    <2>2. hub # Null => LET h == [hub EXCEPT !.archived = a] IN
                          h \in Row /\ h # Null /\ h.env = hub.env
      BY DEF TypeOK, Row
    <2>3. QED
      BY <2>1, <2>2 DEF EnvOf
  <1>2. accepted' = accepted /\ View # Null
    BY DEF SetArchived
  <1>3. CASE Succeeds(o, hub # Null)
    <2>1. Finish([op.work EXCEPT !.archived = a]) /\ unseen' = unseen
      BY <1>3 DEF SetArchived
    <2>2. [op.work EXCEPT !.archived = a] \in Model
          /\ [op.work EXCEPT !.archived = a].applied = op.work.applied
      BY DEF Model
    <2>3. Witness' = Witness
      BY <1>2, <2>1, <2>2, FinishKeepsWitness
    <2>4. QED
      BY <1>1, <1>2, <2>1, <2>3, QuietMaps
  <1>4. CASE ~Succeeds(o, hub # Null)
    <2>1. state' = failed /\ op' = Idle /\ Unwitnessed(hub') /\ failed # Null
      BY <1>4 DEF SetArchived, Return
    <2>2. /\ Witness' = Witness
          /\ Trusted' <=> Trusted /\ EnvOf(hub)' = EnvOf(hub)
      BY <1>2, <2>1, FailedMeans
    <2>3. QED
      BY <1>1, <1>2, <2>2, MissedMaps
  <1>5. QED
    BY <1>3, <1>4

LEMMA CreateMaps ==
  ASSUME IInv, NEW o \in Outcome,
         CreateApp(o) \/ CreateHeaders(o) \/ CreateArchived(o)
           \/ CreateNoHeaders \/ CreateDone
  PROVE  [Promise!Next]_(Promise!vars)
  <1> USE SentinelAssumption DEF IInv
  <1>1. CASE CreateApp(o)
    <2>1. op.pc = "create" /\ op.plan \in Created /\ op.work = Null /\ View = Null
      BY <1>1, StageTypes DEF CreateApp, View, TypeOK, Op, Idle, UpdatePCs
    <2>2. Witness = Null
      BY <2>1 DEF Witness
    <2>3. EnvOf(hub)' = EnvOf(hub) /\ accepted' = accepted
      <3>1. hub' = hub \/ (hub = Null /\ hub' = HubCreated(op.plan))
        BY <1>1 DEF CreateApp, Request
      <3>2. HubCreated(op.plan).env = Null
        BY DEF HubCreated
      <3>3. QED
        BY <1>1, <3>1, <3>2 DEF EnvOf, CreateApp
    <2>4. Witness' = Null
      <3>1. CASE Succeeds(o, hub = Null)
        <4>1. op' = [pc |-> "create_headers", plan |-> op.plan,
                     work |-> Reflected(hub', op.plan.version, Null)]
          BY <1>1, <3>1, CreatedObject
        <4>2. View' = op'.work /\ op'.work.applied = Null
          BY <4>1 DEF View, Reflected
        <4>3. QED
          BY <4>2 DEF Witness
      <3>2. CASE ~Succeeds(o, hub = Null)
        <4>1. state' = Null /\ op' = Idle
          BY <1>1, <3>2 DEF CreateApp, Return
        <4>2. View' = Null
          BY <4>1 DEF View, Idle
        <4>3. QED
          BY <4>2 DEF Witness
      <3>3. QED
        BY <3>1, <3>2
    <2>5. QED
      BY <2>2, <2>3, <2>4, QuietMaps
  <1>2. CASE CreateHeaders(o)
    <2>1. op.plan \in Created /\ op.work \in Model /\ op.work # Null
          /\ op.pc = "create_headers" /\ View = op.work
      BY <1>2, StageTypes DEF CreateHeaders, View
    <2>2. op.plan.version \in Versions
      BY <1>2, <2>1 DEF CreateHeaders, NeedsHeaders, Created
    <2>3. [op.work EXCEPT !.applied = op.plan.version] \in Model
          /\ [op.work EXCEPT !.applied = op.plan.version].applied
               = op.plan.version
          /\ Tainted(op.work) \in Model
          /\ Tainted(op.work).applied = op.work.applied
      BY <2>1, <2>2 DEF Tainted, Model
    <2>4. SetUpstreamAuth(o, "create_archived",
                          [op.work EXCEPT !.applied = op.plan.version],
                          Tainted(op.work))
      BY <1>2 DEF CreateHeaders
    <2>5. ~Revising
      BY <2>1 DEF Revising
    <2>6. QED
      BY <2>1, <2>2, <2>3, <2>4, <2>5, SetUpstreamAuthMaps
  <1>3. CASE CreateArchived(o)
    <2>1. op.work \in Model /\ View = op.work /\ ~Revising
      BY <1>3, StageTypes DEF CreateArchived, View, Revising
    <2>2. Tainted(op.work) \in Model /\ Tainted(op.work).applied = op.work.applied
      BY <2>1 DEF Tainted, Model
    <2>3. SetArchived(o, TRUE, Tainted(op.work))
      BY <1>3 DEF CreateArchived
    <2>4. QED
      BY <2>1, <2>2, <2>3, SetArchivedMaps
  <1>4. CASE CreateNoHeaders \/ CreateDone
    <2>1. UNCHANGED <<hub, accepted, unseen>> /\ EnvOf(hub)' = EnvOf(hub)
      BY <1>4 DEF CreateNoHeaders, CreateDone, EnvOf
    <2>2. CASE CreateNoHeaders
      <3>1. /\ op.pc = "create_headers" /\ op'.pc = "create_archived"
            /\ op'.work = op.work
        BY <2>2 DEF CreateNoHeaders, TypeOK, Op, Idle, UpdatePCs
      <3>2. View' = View /\ ~Revising /\ ~Revising'
        BY <2>2, <3>1 DEF CreateNoHeaders, View, Revising
      <3>3. QED
        BY <2>1, <3>2, QuietMaps DEF Witness
    <2>3. CASE CreateDone
      <3>1. /\ op.work \in Model /\ op.work # Null /\ View = op.work
            /\ ~Revising /\ Finish(op.work)
        BY <2>3, StageTypes DEF CreateDone, View, Revising
      <3>2. Witness' = Witness
        BY <3>1, FinishKeepsWitness
      <3>3. QED
        BY <2>1, <3>2, QuietMaps
    <2>4. QED
      BY <1>4, <2>2, <2>3
  <1>5. QED
    BY <1>1, <1>2, <1>3, <1>4

\* The patch that makes the app oauth gives the claim up, with the headers; one
\* that leaves it in headers mode, or brings it back to it, wipes none.
LEMMA UpdateFieldsMaps ==
  ASSUME IInv, NEW o \in Outcome, UpdateFields(o)
  PROVE  [Promise!Next]_(Promise!vars)
  <1> USE SentinelAssumption DEF IInv
  <1>1. op.pc = "update" /\ op.work = state /\ ~Revising
    BY DEF UpdateFields, StageInv, Revising
  <1>2. op.plan \in Updated /\ op.work \in Model /\ op.work # Null /\ View = op.work
    BY <1>1, UpdateStage DEF UpdatePCs
  <1>3. /\ accepted' = accepted
        /\ hub' = hub \/ (IsProxy(hub) /\ hub' = HubPatched(hub, op.plan))
    BY DEF UpdateFields, Request
  <1>4. IsProxy(hub) =>
          LET h == HubPatched(hub, op.plan) IN
          /\ h # Null
          /\ h.env = IF op.plan.auth # hub.auth THEN Null ELSE hub.env
    <2>1. op.pc \in UpdatePCs
      BY <1>1 DEF UpdatePCs
    <2>2. QED
      BY <2>1, UpdatedRow DEF IsProxy
  <1>5. EnvOf(hub)' \in {EnvOf(hub), Null}
    BY <1>3, <1>4 DEF EnvOf, IsProxy
  <1>6. CASE Succeeds(o, IsProxy(hub))
    <2>1. /\ op'.pc = "update_headers" /\ op'.work = FromRow(op.work, hub')
          /\ op'.plan = op.plan /\ unseen'.cred = unseen.cred
          /\ IsProxy(hub) /\ hub' = HubPatched(hub, op.plan)
      <3>1. op' = [op EXCEPT !.pc = "update_headers",
                             !.work = FromRow(@, hub')]
            /\ unseen' = [unseen EXCEPT !.row = FALSE]
            /\ IsProxy(hub) /\ hub' = HubPatched(hub, op.plan)
        BY <1>6 DEF UpdateFields, Request, Succeeds
      <3>2. unseen'.cred = unseen.cred
        BY <3>1 DEF TypeOK
      <3>3. QED
        BY <1>1, <3>1, <3>2 DEF TypeOK, Op, Idle, UpdatePCs
    <2>2. View' = op'.work /\ op'.work.applied = op.work.applied
          /\ op'.work # Null /\ op'.work.auth = op.plan.auth
      <3>1. hub' \in ProxyRow /\ hub'.auth = op.plan.auth
        BY <1>1, <2>1, UpdatedRow DEF UpdatePCs
      <3>2. op'.work \in Model
        BY <1>2, <2>1, <3>1, ReadBack
      <3>3. op'.work.applied = op.work.applied /\ op'.work.auth = op.plan.auth
        BY <1>2, <2>1, <3>1 DEF FromRow, Model
      <3>4. View' = op'.work
        BY <2>1 DEF View
      <3>5. QED
        BY <3>2, <3>3, <3>4
    <2>3. CASE Revising'
      <3>1. Witness' = Null
        BY <2>3 DEF Witness
      <3>2. QED
        BY <1>3, <1>5, <3>1, AbandonMaps
    <2>4. CASE ~Revising'
      <3>1. Witness' = Witness
        BY <1>1, <1>2, <2>2, <2>4 DEF Witness
      <3>2. CASE EnvOf(hub)' = EnvOf(hub)
        BY <1>3, <2>1, <3>1, <3>2, QuietMaps
      <3>3. CASE EnvOf(hub)' # EnvOf(hub)
        <4>1. hub.env # Null /\ op.plan.auth # hub.auth
          BY <1>4, <2>1, <3>3 DEF EnvOf, IsProxy
        <4>2. op.plan.auth # "headers"
          BY <2>1, <4>1 DEF SealedUnderHeaders, TakesHeaders, IsProxy
        <4>3. op.plan.applied # Unknown
          BY <1>2, <2>1, <2>2, <2>4, <4>2 DEF Revising, Updated, Auth
        <4>4. ~Trusted
          BY <1>1, <1>2, <4>2, <4>3 DEF StageInv, Trusted, Witness
        <4>5. ~Trusted'
          BY <2>1, <3>1, <4>4 DEF Trusted
        <4>6. Trusted' <=> Trusted /\ EnvOf(hub)' = EnvOf(hub)
          BY <4>4, <4>5
        <4>7. QED
          BY <1>3, <1>5, <3>1, <4>6, MissedMaps
      <3>4. QED
        BY <3>2, <3>3
    <2>5. QED
      BY <2>3, <2>4
  <1>7. CASE ~Succeeds(o, IsProxy(hub))
    <2>1. state' = View /\ op' = Idle /\ Unwitnessed(hub')
      BY <1>2, <1>7 DEF UpdateFields, Return
    <2>2. /\ Witness' = Witness
          /\ Trusted' <=> Trusted /\ EnvOf(hub)' = EnvOf(hub)
      BY <1>1, <1>2, <2>1, FailedMeans
    <2>3. QED
      BY <1>3, <1>5, <2>2, MissedMaps
  <1>8. QED
    BY <1>6, <1>7

LEMMA UpdateHeadersMaps ==
  ASSUME IInv, NEW o \in Outcome, UpdateHeaders(o)
  PROVE  [Promise!Next]_(Promise!vars)
  <1>1. op.pc = "update_headers" /\ op.work.auth = "headers" /\ ~Revising
    BY DEF UpdateHeaders, NeedsHeaders, Revising
  <1>2. op.plan \in Updated /\ op.work \in Model /\ op.work # Null /\ View = op.work
    BY <1>1, UpdateStage DEF UpdatePCs
  <1>3. op.plan.version \in Versions
    BY <1>2 DEF UpdateHeaders, NeedsHeaders, Updated
  <1> DEFINE settled == [op.work EXCEPT !.applied = op.plan.version,
                                        !.version = op.plan.version]
  <1>4. settled \in Model /\ settled.applied = op.plan.version
    BY <1>2, <1>3 DEF Model
  <1>5. SetUpstreamAuth(o, "update_archived", settled, op.work)
    BY DEF UpdateHeaders
  <1> HIDE DEF settled
  <1>6. QED
    BY <1>1, <1>2, <1>3, <1>4, <1>5, SetUpstreamAuthMaps

\* UpdateNoFields may enter the window in which the claim is given up, and
\* UpdateNoHeaders leaves it, or gives the claim up itself.
LEMMA UpdateSilentMaps ==
  ASSUME IInv, UpdateNoFields \/ UpdateNoHeaders \/ UpdateDone
  PROVE  [Promise!Next]_(Promise!vars)
  <1> USE SentinelAssumption DEF IInv
  <1>1. op.pc \in UpdatePCs
    BY DEF UpdateNoFields, UpdateNoHeaders, UpdateDone, UpdatePCs
  <1>2. op.plan \in Updated /\ op.work \in Model /\ op.work # Null /\ View = op.work
    BY <1>1, UpdateStage
  <1>3. UNCHANGED <<hub, accepted, unseen>> /\ EnvOf(hub)' = EnvOf(hub)
    BY DEF UpdateNoFields, UpdateNoHeaders, UpdateDone, EnvOf
  <1>4. Witness' \in {Witness, Null}
    <2>1. CASE UpdateNoFields
      <3>1. op'.work = op.work /\ op'.pc = "update_headers" /\ ~Revising
        BY <2>1 DEF UpdateNoFields, Revising, TypeOK, Op, Idle, UpdatePCs
      <3>2. View' = View
        BY <1>2, <3>1 DEF View
      <3>3. QED
        BY <3>1, <3>2 DEF Witness
    <2>2. CASE UpdateNoHeaders
      <3>1. op = [pc |-> op.pc, plan |-> op.plan, work |-> op.work]
        BY <1>1 DEF TypeOK, Op, Idle, UpdatePCs
      <3>2. op'.pc = "update_archived"
            /\ op'.work = [op.work EXCEPT
                             !.applied = IF op.plan.applied = Unknown
                                           THEN Null ELSE @,
                             !.version = op.plan.version]
        BY <2>2, <3>1 DEF UpdateNoHeaders
      <3>3. op'.work.applied = IF op.plan.applied = Unknown THEN Null
                                 ELSE op.work.applied
        BY <1>2, <3>2 DEF Model
      <3>4. View' = op'.work /\ op'.work # Null /\ ~Revising'
        <4>1. op'.work \in Model
          <5>1. op.plan.version \in Versions \cup {Null}
            BY <1>2 DEF Updated
          <5>2. CASE op.plan.applied = Unknown
            BY <1>2, <3>2, <5>1, <5>2 DEF Model
          <5>3. CASE op.plan.applied # Unknown
            BY <1>2, <3>2, <5>1, <5>3 DEF Model
          <5>4. QED
            BY <5>2, <5>3
        <4>2. op'.pc = "update_archived"
          BY <3>2
        <4>3. QED
          BY <4>1, <4>2 DEF View, Revising
      <3>5. op.plan.applied # Unknown => ~Revising
        BY DEF Revising
      <3>6. QED
        BY <1>2, <3>3, <3>4, <3>5 DEF Witness
    <2>3. CASE UpdateDone
      <3>1. Finish(op.work) /\ ~Revising
        BY <2>3 DEF UpdateDone, Revising
      <3>2. QED
        BY <1>2, <3>1, FinishKeepsWitness
    <2>4. QED
      BY <2>1, <2>2, <2>3
  <1>5. CASE Witness' = Witness
    BY <1>3, <1>5, QuietMaps
  <1>6. CASE Witness' = Null
    BY <1>3, <1>6, AbandonMaps
  <1>7. QED
    BY <1>4, <1>5, <1>6

LEMMA UpdateArchivedMaps ==
  ASSUME IInv, NEW o \in Outcome, UpdateArchived(o)
  PROVE  [Promise!Next]_(Promise!vars)
  <1>1. op.pc = "update_archived" /\ ~Revising
    BY DEF UpdateArchived, Revising
  <1>2. op.plan \in Updated /\ op.work \in Model /\ View = op.work
    BY <1>1, UpdateStage DEF UpdatePCs
  <1>3. op.plan.archived \in BOOLEAN
    BY <1>2 DEF Updated
  <1>4. SetArchived(o, op.plan.archived, op.work)
    BY DEF UpdateArchived
  <1>5. QED
    BY <1>1, <1>2, <1>3, <1>4, SetArchivedMaps

LEMMA DeleteMaps ==
  ASSUME IInv, NEW o \in Outcome, Delete(o)
  PROVE  [Promise!Next]_(Promise!vars)
  <1> USE SentinelAssumption DEF IInv
  <1>1. /\ op.work = state /\ state # Null /\ View = state /\ ~Revising
        /\ accepted' = accepted
    BY DEF Delete, StageInv, UpdatePCs, View, Revising
  <1>2. EnvOf(hub)' \in {EnvOf(hub), Null}
    BY DEF Delete, Request, EnvOf
  <1>3. CASE o = "ok"
    <2>1. state' = Null /\ op' = Idle
      BY <1>3 DEF Delete, Return
    <2>2. Witness' = Null
      BY <2>1 DEF Witness, View, Idle
    <2>3. QED
      BY <1>1, <1>2, <2>2, AbandonMaps
  <1>4. CASE o # "ok"
    <2>1. state' = View /\ op' = Idle /\ Unwitnessed(hub')
      BY <1>1, <1>4 DEF Delete, Return
    <2>2. /\ Witness' = Witness
          /\ Trusted' <=> Trusted /\ EnvOf(hub)' = EnvOf(hub)
      BY <1>1, <2>1, FailedMeans
    <2>3. QED
      BY <1>1, <1>2, <2>2, MissedMaps
  <1>5. QED
    BY <1>3, <1>4

-----------------------------------------------------------------------------
(* Between runs, and what others do                                        *)

LEMMA ReadMaps ==
  ASSUME IInv, Read \/ Import
  PROVE  [Promise!Next]_(Promise!vars)
  <1> USE SentinelAssumption DEF IInv
  <1>1. /\ ~Revising /\ View = state /\ UNCHANGED <<hub, op, accepted>>
        /\ View' = state' /\ ~Revising' /\ EnvOf(hub)' = EnvOf(hub)
    BY DEF Read, Import, View, Revising, EnvOf
  <1>2. CASE Read /\ hub = Null
    <2>1. Witness' = Null
      BY <1>1, <1>2 DEF Read, Witness
    <2>2. QED
      BY <1>1, <2>1, AbandonMaps
  <1>3. CASE Read /\ hub # Null
    <2>1. /\ state \in Model /\ state # Null /\ state' = FromRow(state, hub)
          /\ unseen' = [unseen EXCEPT !.row = FALSE] /\ IsProxy(hub)
      BY <1>3 DEF Read, TypeOK
    <2>2. state' \in Model /\ state'.applied = state.applied
      <3>1. hub \in ProxyRow
        BY <2>1, RowTypes DEF TypeOK, IsProxy
      <3>2. state' \in Model
        BY <2>1, <3>1, ReadBack
      <3>3. QED
        BY <2>1, <3>2 DEF FromRow, Model
    <2>3. unseen'.cred = unseen.cred
      BY <2>1 DEF TypeOK
    <2>4. Witness' = Witness
      BY <1>1, <2>1, <2>2 DEF Witness
    <2>5. QED
      BY <1>1, <2>3, <2>4, QuietMaps
  <1>4. CASE Import
    <2>1. state = Null /\ state'.applied = Null
      BY <1>4 DEF Import, Reflected
    <2>2. Witness = Null /\ Witness' = Null
      BY <1>1, <2>1 DEF Witness
    <2>3. QED
      BY <1>1, <2>2, QuietMaps
  <1>5. QED
    BY <1>2, <1>3, <1>4

\* Others wipe headers or store their own; no one else can store a version.
LEMMA DriftMeddles ==
  ASSUME TypeOK, Drift
  PROVE  EnvOf(hub)' \in {EnvOf(hub), Null, Foreign}
  <1> USE SentinelAssumption
  <1>1. hub' \in Drifted
    BY DEF Drift
  <1>2. CASE hub = Null
    BY <1>1, <1>2, CreatedBare DEF EnvOf
  <1>3. CASE hub # Null
    <2>1. hub \in Row
      BY <1>3 DEF TypeOK
    <2>2. CASE hub' = Null
      BY <2>2 DEF EnvOf
    <2>3. CASE \/ hub' = [hub EXCEPT !.archived = ~@]
               \/ \E m : hub' = [hub EXCEPT !.common = m]
               \/ \E m : hub' = [hub EXCEPT !.roles = m]
      <3>1. hub'.env = hub.env
        BY <2>1, <2>3 DEF Row
      <3>2. QED
        BY <1>3, <3>1 DEF EnvOf
    <2>4. ASSUME NEW a \in Auth, IsProxy(hub),
                 hub' = HubPatched(hub, [auth |-> a, common |-> hub.common,
                                         roles |-> hub.roles])
          PROVE  EnvOf(hub)' \in {EnvOf(hub), Null, Foreign}
      <3>1. hub \in ProxyRow
        BY <2>1, <2>4, RowTypes
      <3>2. hub'.env = IF a # hub.auth THEN Null ELSE hub.env
        BY <2>4, <3>1, DriftedProxy
      <3>3. QED
        BY <1>3, <3>2 DEF EnvOf
    <2>5. CASE TakesHeaders(hub) /\ hub' = [hub EXCEPT !.env = Foreign]
      <3>1. hub'.env = Foreign
        BY <2>1, <2>5 DEF Row
      <3>2. QED
        BY <3>1 DEF EnvOf
    <2>6. QED
      BY <1>1, <1>3, <2>2, <2>3, <2>4, <2>5, DriftedFrom
  <1>4. QED
    BY <1>2, <1>3

LEMMA DriftMaps ==
  ASSUME IInv, Drift
  PROVE  [Promise!Next]_(Promise!vars)
  <1>1. View' = View /\ (Revising' <=> Revising) /\ accepted' = accepted
    BY DEF Drift, View, Revising
  <1>2. Witness' = Witness
    BY <1>1 DEF Witness
  <1>3. EnvOf(hub)' \in {EnvOf(hub), Null, Foreign} /\ EnvOf(hub)' = EnvOf(hub')
    BY DriftMeddles DEF IInv, EnvOf
  <1>4. Trusted' <=> Trusted /\ EnvOf(hub)' = EnvOf(hub)
    <2>1. CASE View = Null
      BY <1>2, <2>1 DEF Trusted, Witness
    <2>2. CASE View # Null
      <3>1. unseen' = [cred |-> unseen.cred \/ EnvOf(hub') # EnvOf(hub),
                       row  |-> unseen.row \/ RowOf(hub') # RowOf(hub)]
        BY <2>2 DEF Drift, Unwitnessed
      <3>2. QED
        BY <1>2, <1>3, <3>1, Zenon DEF Trusted
    <2>3. QED
      BY <2>1, <2>2
  <1>5. QED
    BY <1>1, <1>2, <1>3, <1>4, MissedMaps

\* A killed run: the state's witness is the claim again, and not to be trusted,
\* unless the handler had changed nothing yet.
LEMMA CrashMaps ==
  ASSUME IInv, Crash
  PROVE  [Promise!Next]_(Promise!vars)
  <1> USE SentinelAssumption DEF IInv
  <1>1. /\ op.pc # "idle" /\ op' = Idle /\ state' = state /\ View = op.work
        /\ UNCHANGED <<hub, accepted>> /\ EnvOf(hub)' = EnvOf(hub)
    BY DEF Crash, Return, View, EnvOf
  <1>2. View' = state /\ ~Revising'
    BY <1>1 DEF View, Revising, Idle
  <1>3. Witness' = IF state = Null THEN Null ELSE state.applied
    BY <1>2 DEF Witness
  <1>4. Witness' \in accepted \cup {Null}
    BY <1>3 DEF WitnessEverAccepted
  <1>5. CASE state # Null /\ op.work = state /\ ~Revising
    <2>1. unseen'.cred <=> unseen.cred
      BY <1>5, Zenon DEF Crash
    <2>2. Witness' = Witness
      BY <1>1, <1>3, <1>5 DEF Witness
    <2>3. QED
      BY <1>1, <2>1, <2>2, QuietMaps
  <1>6. CASE ~(state # Null /\ op.work = state /\ ~Revising)
    <2>1. ~Trusted'
      <3>1. CASE state = Null
        BY <1>3, <3>1 DEF Trusted
      <3>2. CASE state # Null /\ op.work # state
        BY <3>2, Zenon DEF Crash, Trusted
      <3>3. CASE state # Null /\ op.work = state /\ Revising
        <4>1. Witness' # Null => unseen.cred
          BY <1>3, <3>3 DEF StageInv, Revising
        <4>2. unseen.cred => unseen'.cred
          BY <3>3, Zenon DEF Crash
        <4>3. QED
          BY <4>1, <4>2 DEF Trusted
      <3>4. QED
        BY <1>6, <3>1, <3>2, <3>3
    <2>2. QED
      BY <1>1, <1>4, <2>1, RelapseMaps
  <1>7. QED
    BY <1>5, <1>6

LEMMA PlanMaps ==
  ASSUME IInv, Plan
  PROVE  [Promise!Next]_(Promise!vars)
  <1> USE SentinelAssumption DEF IInv
  <1>1. View' = View /\ ~Revising /\ ~Revising'
        /\ UNCHANGED <<hub, accepted, unseen>>
    BY DEF Plan, PlanCreate, PlanUpdate, PlanDelete, View, Revising
  <1>2. Witness' = Witness /\ EnvOf(hub)' = EnvOf(hub)
    BY <1>1 DEF Witness, EnvOf
  <1>3. QED
    BY <1>1, <1>2, QuietMaps

LEMMA NextPromised ==
  ASSUME IInv, [Next]_vars
  PROVE  [Promise!Next]_(Promise!vars)
  <1>1. CASE Plan
    BY <1>1, PlanMaps
  <1>2. CASE Silent
    BY <1>2, CreateMaps, UpdateSilentMaps DEF Silent, Outcome
  <1>3. CASE Read \/ Import
    BY <1>3, ReadMaps
  <1>4. CASE Drift
    BY <1>4, DriftMaps
  <1>5. CASE Crash
    BY <1>5, CrashMaps
  <1>6. CASE \E o \in Outcome : Step(o)
    BY <1>6, CreateMaps, UpdateFieldsMaps, UpdateHeadersMaps,
      UpdateArchivedMaps, DeleteMaps DEF Step
  <1>7. CASE \/ PlanDeferred \/ UNCHANGED vars
             \/ \E c \in Configs \cup {Null} : Configure(c)
    <2>1. UNCHANGED <<hub, state, op, accepted, unseen>>
      BY <1>7 DEF PlanDeferred, Configure, vars
    <2>2. Witness' = Witness /\ EnvOf(hub)' = EnvOf(hub)
      BY <2>1 DEF View, Revising, Witness, EnvOf
    <2>3. QED
      BY <2>1, <2>2, QuietMaps
  <1>8. QED
    BY <1>1, <1>2, <1>3, <1>4, <1>5, <1>6, <1>7 DEF Next

LEMMA InitPromised == Init => Promise!Init
  <1>1. ASSUME Init PROVE Witness = Null /\ EnvOf(hub) = Null /\ accepted = {}
    BY <1>1 DEF Init, Witness, View, Idle, EnvOf
  <1>2. QED
    BY <1>1, Zenon DEF Promise!Init

\* pmcp_proxy_app keeps the promise of Sealing, for all versions, attribute
\* values, configurations, failures and bounds: the witness names a version
\* the hub took, advances only with an answer, is given up with the headers it
\* named, and comes back unearned by nothing but a killed run.
THEOREM SealingImplemented == Spec => SealingSpec
  BY InitPromised, NextPromised, Invariance, PTL
  DEF Spec, SealingSpec, Promise!Spec

-----------------------------------------------------------------------------
(* What the promise gives the reader of a plan                             *)

LEMMA SealingKeepsItsWord == Promise!Spec => []Promise!WitnessHonest
  <1>1. Promise!Init => Promise!WitnessHonest
    BY Zenon DEF Promise!Init, Promise!WitnessHonest
  <1>2. ASSUME Promise!WitnessHonest, [Promise!Next]_(Promise!vars)
        PROVE  Promise!WitnessHonest'
    <2>1. ASSUME NEW v \in Versions, Promise!Seal(v)
          PROVE  Promise!WitnessHonest'
      BY <2>1, SentinelAssumption DEF Promise!WitnessHonest, Promise!Seal
    <2>2. ASSUME NEW v \in Versions, Promise!SealUnheard(v)
          PROVE  Promise!WitnessHonest'
      BY <1>2, <2>2 DEF Promise!WitnessHonest, Promise!SealUnheard, Promise!Missed
    <2>3. ASSUME NEW v \in accepted \cup {Null}, Promise!Relapse(v)
          PROVE  Promise!WitnessHonest'
      BY <2>3 DEF Promise!WitnessHonest, Promise!Relapse
    <2>4. CASE Promise!Meddle
      BY <1>2, <2>4 DEF Promise!WitnessHonest, Promise!Meddle, Promise!Missed
    <2>5. CASE Promise!Abandon
      BY <2>5 DEF Promise!WitnessHonest, Promise!Abandon
    <2>6. CASE UNCHANGED Promise!vars
      BY <1>2, <2>6 DEF Promise!WitnessHonest, Promise!vars
    <2>7. QED
      BY <1>2, <2>1, <2>2, <2>3, <2>4, <2>5, <2>6 DEF Promise!Next
  <1>3. QED
    BY <1>1, <1>2, PTL DEF Promise!Spec

\* Sealing is all that the readers of a plan rely on: whatever keeps its
\* promise has a true witness.
THEOREM PromiseIsEnough == SealingSpec => []WitnessTrue
  <1>1. Promise!WitnessHonest => WitnessTrue
    BY DEF Promise!WitnessHonest, WitnessTrue, Witness, EnvOf
  <1>2. QED
    BY <1>1, SealingKeepsItsWord, PTL DEF SealingSpec
=============================================================================
