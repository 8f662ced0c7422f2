--------------------------- MODULE TunnelAppProofs --------------------------
(***************************************************************************)
(* Proofs about TunnelApp, for every set of role names, patterns and       *)
(* configurations and every bound.                                         *)
(***************************************************************************)
EXTENDS TunnelApp, AppSharedProofs

LEMMA UpdatePlanType ==
  ASSUME NEW c \in Config, NEW s \in Model PROVE UpdatePlan(c, s) \in Updated
  <1>1. /\ c.common \in CommonWritten /\ c.archived \in BOOLEAN \cup {Null}
        /\ c.roles \in Written \cup {Null}
        /\ s.common \in Common /\ s.archived \in BOOLEAN
        /\ s.roles \in Stored \cup {Null}
    BY DEF Config, Model
  <1>2. KeptCommon(c.common, s.common) \in CommonUpdated
        /\ Kept(c.archived, s.archived) \in BOOLEAN
    BY <1>1, CommonTypes DEF Kept
  <1>3. KeptRoles(c.roles, s.roles) \in Written \cup {Null}
    BY <1>1, KeptRolesType
  <1>4. QED
    BY <1>2, <1>3 DEF UpdatePlan, Updated

LEMMA CreatePlanType ==
  ASSUME NEW c \in Config PROVE CreatePlan(c) \in Created
  <1>1. /\ c.common \in CommonWritten /\ c.archived \in BOOLEAN \cup {Null}
        /\ c.roles \in Written \cup {Null}
    BY DEF Config
  <1>2. ResolvableRoles(c.roles) \in RolesCreated
    BY <1>1, ResolvableRolesType
  <1>3. ResolvableCommon(c.common) \in CommonCreated
        /\ Resolvable(c.archived) \in BOOLEAN \cup {Unknown}
    BY <1>1, CommonTypes DEF Resolvable
  <1>4. QED
    BY <1>2, <1>3 DEF CreatePlan, Created

-----------------------------------------------------------------------------
(* The types                                                               *)

\* A deletion and an update work on the object of the state, and what an update
\* is about to send is the plan for it.
Handler ==
  /\ op.pc \in UpdatePCs \cup {"delete"} => state # Null
  /\ op.pc \in {"update", "delete"} => op.work = state
  /\ op.pc \in UpdatePCs => config # Null /\ op.plan = UpdatePlan(config, state)

TInv == TypeOK /\ Handler

LEMMA RowType ==
  ASSUME NEW h \in Row
  PROVE  /\ h.common \in Common /\ h.archived \in BOOLEAN
         /\ h.roles \in Stored \cup {Null}
         /\ IsTunnel(h) => h.kind = "tunnel" /\ h.roles \in Stored
         /\ FromRow(h) \in Model
         /\ \A a \in BOOLEAN : [h EXCEPT !.archived = a] \in Row
         /\ \A m \in Common : [h EXCEPT !.common = m] \in Row
  BY DEF Row, IsTunnel, FromRow, Model

LEMMA OpTypes ==
  ASSUME TypeOK
  PROVE  /\ op.pc = "idle" => op = Idle
         /\ op.pc = "create" => op.plan \in Created /\ op.work = Null
         /\ op.pc = "create_archived" => op.plan \in Created /\ op.work \in Model
         /\ op.pc \in UpdatePCs => op.plan \in Updated /\ op.work \in Model
         /\ op.pc = "delete" => op.work \in Model
         /\ op.pc \in {"idle", "create", "create_archived", "delete"} \cup UpdatePCs
  BY DEF TypeOK, Op, Idle, UpdatePCs

LEMMA CreatedRow ==
  ASSUME NEW p \in Created PROVE HubCreated(p) \in Row
  <1>1. CommonOfCreated(p.common) \in Common /\ RolesOfCreated(p.roles) \in Stored
    BY CommonTypes, RolesOfCreatedType DEF Created
  <1>2. QED
    BY <1>1 DEF HubCreated, Row

LEMMA PatchedRow ==
  ASSUME NEW h \in Row, NEW p \in Updated, NEW withRoles \in BOOLEAN,
         HubPatches(h, withRoles), withRoles => p.roles # Null
  PROVE  HubPatched(h, p, withRoles) \in Row
  <1>1. p.common \in CommonUpdated /\ p.roles \in Written \cup {Null}
    BY DEF Updated
  <1>2. CommonPatched(h.common, p.common) \in Common
    BY <1>1, RowType, CommonTypes
  <1>3. CASE withRoles
    <2>1. ToWire(p.roles) \in Stored
      BY <1>1, <1>3, WireStored DEF Written
    <2>2. h \in [kind: {"tunnel"}, common: Common, roles: Stored, archived: BOOLEAN]
      BY <1>3 DEF HubPatches, IsTunnel, Row
    <2>3. QED
      BY <1>2, <1>3, <2>1, <2>2 DEF HubPatched, Row
  <1>4. CASE ~withRoles
    BY <1>2, <1>4 DEF HubPatched, Row
  <1>5. QED
    BY <1>3, <1>4

LEMMA SpendType ==
  ASSUME TypeOK, NEW o, Spend(o)
  PROVE  spent' \in [edits: 0..MaxEdits, drift: 0..MaxDrift, faults: 0..MaxFaults]
  BY ConstantsAssumption DEF TypeOK, Spend

\* However a handler ends, it leaves an object or none.
LEMMA FinishType ==
  ASSUME NEW m \in Model, Finish(m)
  PROVE  state' \in Model /\ op' = Idle /\ last' \in {"ok", "contradicted"}
  BY DEF Finish, Return, Model

LEMMA AtRest == ASSUME op = Idle PROVE op \in Op /\ Handler
  BY DEF Op, Handler, Idle, UpdatePCs

LEMMA InitT == Init => TInv
  <1>1. ASSUME Init
        PROVE  spent \in [edits: 0..MaxEdits, drift: 0..MaxDrift, faults: 0..MaxFaults]
    BY <1>1, ConstantsAssumption DEF Init
  <1>2. QED
    BY <1>1, AtRest DEF Init, TInv, TypeOK

LEMMA ComesToRest == ASSUME op' = Idle PROVE op' \in Op /\ Handler'
  BY DEF Op, Handler, Idle, UpdatePCs

LEMMA CreateAppT == ASSUME TInv, NEW o \in Outcome, CreateApp(o) PROVE TInv'
  <1>1. op.plan \in Created /\ HubCreated(op.plan) \in Row /\ op.pc = "create"
    BY OpTypes, CreatedRow DEF CreateApp, TInv
  <1>2. hub' \in Row \cup {Null}
    BY <1>1 DEF CreateApp, Request, TInv, TypeOK
  <1>3. spent' \in [edits: 0..MaxEdits, drift: 0..MaxDrift, faults: 0..MaxFaults]
    BY SpendType DEF CreateApp, Request, TInv
  <1>4. CASE hub = Null /\ o = "ok"
    <2>1. hub' \in Row
      BY <1>1, <1>4 DEF CreateApp, Request
    <2>2. FromRow(hub') \in Model
      BY <2>1, RowType
    <2>3. op = [pc |-> "create", plan |-> op.plan, work |-> Null]
      BY <1>1 DEF TInv, TypeOK, Op, Idle, UpdatePCs
    <2>4. op' = [op EXCEPT !.pc = "create_archived", !.work = FromRow(hub')]
          /\ UNCHANGED <<state, last, config>> /\ unseen' = FALSE
      BY <1>4 DEF CreateApp
    <2>5. op' = [pc |-> "create_archived", plan |-> op.plan, work |-> FromRow(hub')]
      BY <2>3, <2>4
    <2>6. op' \in Op
      BY <1>1, <2>2, <2>5 DEF Op
    <2>7. QED
      BY <1>2, <1>3, <2>4, <2>5, <2>6 DEF TInv, TypeOK, Handler, UpdatePCs
  <1>5. CASE ~(hub = Null /\ o = "ok")
    <2>1. state' = Null /\ op' = Idle /\ last' = "failed" /\ unseen' = FALSE
          /\ config' = config
      BY <1>5 DEF CreateApp, Return
    <2>2. QED
      BY <1>2, <1>3, <2>1, ComesToRest DEF TInv, TypeOK
  <1>6. QED
    BY <1>4, <1>5

LEMMA SetArchivedT ==
  ASSUME TInv, NEW o \in Outcome, NEW a \in BOOLEAN, NEW f \in Model,
         op.work \in Model, SetArchived(o, a, f)
  PROVE  TInv'
  <1>1. hub' \in Row \cup {Null}
    BY RowType DEF SetArchived, Request, TInv, TypeOK
  <1>2. spent' \in [edits: 0..MaxEdits, drift: 0..MaxDrift, faults: 0..MaxFaults]
    BY SpendType DEF SetArchived, Request, TInv
  <1>3. [op.work EXCEPT !.archived = a] \in Model
    BY DEF Model
  <1>4. /\ state' \in Model /\ op' = Idle /\ unseen' \in BOOLEAN /\ config' = config
        /\ last' \in {"ok", "failed", "contradicted"}
    BY <1>3, FinishType DEF SetArchived, Return, Unwitnessed, TInv, TypeOK
  <1>5. QED
    BY <1>1, <1>2, <1>4, ComesToRest DEF TInv, TypeOK

LEMMA UpdatedRow ==
  ASSUME TypeOK, op.pc = "update", HubPatches(hub, RolesSent(op.plan, op.work))
  PROVE  HubPatched(hub, op.plan, RolesSent(op.plan, op.work)) \in Row
  <1> DEFINE w == RolesSent(op.plan, op.work)
  <1>1. w \in BOOLEAN /\ (w => op.plan.roles # Null)
    BY DEF RolesSent
  <1>2. op.plan \in Updated /\ hub \in Row
    BY OpTypes DEF UpdatePCs, HubPatches, TypeOK
  <1> HIDE DEF w
  <1>3. HubPatches(hub, w)
    BY DEF w
  <1>4. HubPatched(hub, op.plan, w) \in Row
    BY <1>1, <1>2, <1>3, PatchedRow
  <1>5. QED
    BY <1>4 DEF w

LEMMA UpdateFieldsT == ASSUME TInv, NEW o \in Outcome, UpdateFields(o) PROVE TInv'
  <1> DEFINE w == RolesSent(op.plan, op.work)
  <1>1. op.plan \in Updated /\ op.work \in Model /\ op.pc = "update"
    BY OpTypes DEF UpdateFields, TInv, UpdatePCs
  <1>2. spent' \in [edits: 0..MaxEdits, drift: 0..MaxDrift, faults: 0..MaxFaults]
    BY SpendType DEF UpdateFields, Request, TInv
  <1>3. HubPatches(hub, w) => HubPatched(hub, op.plan, w) \in Row
    BY UpdatedRow DEF UpdateFields, TInv
  <1>4. hub' \in Row \cup {Null}
    BY <1>3 DEF UpdateFields, Request, TInv, TypeOK
  <1>5. CASE HubPatches(hub, w) /\ o = "ok"
    <2>1. hub' \in Row
      BY <1>3, <1>5 DEF UpdateFields, Request
    <2>2. FromRow(hub') \in Model
      BY <2>1, RowType
    <2>3. op = [pc |-> "update", plan |-> op.plan, work |-> op.work]
      BY <1>1 DEF TInv, TypeOK, Op, Idle, UpdatePCs
    <2>4. op' = [op EXCEPT !.pc = "update_archived", !.work = FromRow(hub')]
          /\ UNCHANGED <<state, last, config>> /\ unseen' = FALSE
      BY <1>5 DEF UpdateFields
    <2>5. op' = [pc |-> "update_archived", plan |-> op.plan, work |-> FromRow(hub')]
      BY <2>3, <2>4
    <2>6. op' \in Op
      BY <1>1, <2>2, <2>5 DEF Op, UpdatePCs
    <2>7. QED
      BY <1>1, <1>2, <1>4, <2>4, <2>5, <2>6 DEF TInv, TypeOK, Handler, UpdatePCs
  <1>6. CASE ~(HubPatches(hub, w) /\ o = "ok")
    <2>1. Return(op.work, "failed") /\ Unwitnessed(hub') /\ config' = config
      BY <1>6 DEF UpdateFields
    <2>2. QED
      BY <1>1, <1>2, <1>4, <2>1, ComesToRest DEF Return, Unwitnessed, TInv, TypeOK
  <1>7. QED
    BY <1>5, <1>6

LEMMA PlanT == ASSUME TInv, Plan PROVE TInv'
  <1>1. UNCHANGED <<hub, config, state, last, unseen, spent>>
    BY DEF Plan, PlanCreate, PlanUpdate, PlanDelete
  <1>2. CASE PlanCreate
    <2>1. CreatePlan(config) \in Created
      BY <1>2, CreatePlanType, ConstantsAssumption DEF PlanCreate, TInv, TypeOK
    <2>2. QED
      BY <1>1, <1>2, <2>1 DEF PlanCreate, TInv, TypeOK, Handler, Op, UpdatePCs
  <1>3. CASE PlanUpdate
    <2>1. UpdatePlan(config, state) \in Updated /\ state \in Model
          /\ config # Null /\ state # Null
      BY <1>3, UpdatePlanType, ConstantsAssumption DEF PlanUpdate, TInv, TypeOK
    <2>2. op' = [pc |-> "update", plan |-> UpdatePlan(config, state), work |-> state]
      BY <1>3 DEF PlanUpdate
    <2>3. op' \in Op
      BY <2>1, <2>2 DEF Op, UpdatePCs
    <2>4. Handler'
      BY <1>1, <2>1, <2>2 DEF Handler
    <2>5. QED
      BY <1>1, <2>3, <2>4 DEF TInv, TypeOK
  <1>4. CASE PlanDelete
    <2>1. state \in Model /\ state # Null
          /\ op' = [pc |-> "delete", plan |-> Null, work |-> state]
      BY <1>4 DEF PlanDelete, TInv, TypeOK
    <2>2. QED
      BY <1>1, <2>1 DEF TInv, TypeOK, Handler, Op, UpdatePCs
  <1>5. QED
    BY <1>2, <1>3, <1>4 DEF Plan

LEMMA SilentT == ASSUME TInv, Silent PROVE TInv'
  <1>1. UNCHANGED <<hub, config, unseen, spent>>
    BY DEF Silent, CreateDone, UpdateNoFields, UpdateDone
  <1>2. CASE CreateDone \/ UpdateDone
    <2>1. op.work \in Model /\ Finish(op.work)
      BY <1>2, OpTypes DEF CreateDone, UpdateDone, TInv, UpdatePCs
    <2>2. QED
      BY <1>1, <2>1, FinishType, ComesToRest DEF TInv, TypeOK
  <1>3. CASE UpdateNoFields
    <2>1. op.plan \in Updated /\ op.work \in Model /\ op.pc = "update"
      BY <1>3, OpTypes DEF UpdateNoFields, TInv, UpdatePCs
    <2>2. op = [pc |-> "update", plan |-> op.plan, work |-> op.work]
      BY <2>1 DEF TInv, TypeOK, Op, Idle, UpdatePCs
    <2>3. op' = [pc |-> "update_archived", plan |-> op.plan, work |-> op.work]
          /\ UNCHANGED <<state, last>>
      BY <1>3, <2>2 DEF UpdateNoFields
    <2>4. QED
      BY <1>1, <2>1, <2>3 DEF TInv, TypeOK, Handler, Op, UpdatePCs
  <1>4. QED
    BY <1>2, <1>3 DEF Silent

LEMMA StepT == ASSUME TInv, NEW o \in Outcome, Step(o) PROVE TInv'
  <1>1. CASE CreateArchived(o)
    <2>1. op.work \in Model
      BY <1>1, OpTypes DEF CreateArchived, TInv
    <2>2. [op.work EXCEPT !.tainted = TRUE] \in Model
      BY <2>1 DEF Model
    <2>3. QED
      BY <1>1, <2>1, <2>2, SetArchivedT DEF CreateArchived
  <1>2. CASE UpdateArchived(o)
    <2>1. op.work \in Model /\ op.plan.archived \in BOOLEAN
      BY <1>2, OpTypes DEF UpdateArchived, TInv, UpdatePCs, Updated
    <2>2. QED
      BY <1>2, <2>1, SetArchivedT DEF UpdateArchived
  <1>3. CASE Delete(o)
    <2>1. hub' \in Row \cup {Null}
      BY <1>3 DEF Delete, Request, TInv, TypeOK
    <2>2. spent' \in [edits: 0..MaxEdits, drift: 0..MaxDrift, faults: 0..MaxFaults]
      BY <1>3, SpendType DEF Delete, Request, TInv
    <2>3. /\ state' \in {state, Null} /\ op' = Idle /\ last' \in {"ok", "failed"}
          /\ unseen' \in BOOLEAN /\ config' = config
      BY <1>3 DEF Delete, Return, Unwitnessed, TInv, TypeOK
    <2>4. QED
      BY <2>1, <2>2, <2>3, ComesToRest DEF TInv, TypeOK
  <1>4. QED
    BY <1>1, <1>2, <1>3, CreateAppT, UpdateFieldsT DEF Step

LEMMA ReadT == ASSUME TInv, Read \/ Import PROVE TInv'
  <1>1. /\ op = Idle /\ op' = Idle /\ unseen' = FALSE
        /\ UNCHANGED <<hub, config, spent>> /\ last' \in {last, "none"}
    BY OpTypes DEF Read, Import, TInv
  <1>2. state' \in Model \cup {Null}
    <2>1. CASE Read
      <3>1. CASE hub = Null
        BY <2>1, <3>1 DEF Read
      <3>2. CASE hub # Null
        <4>1. FromRow(hub) \in Model /\ state \in Model
          BY <2>1, <3>2, RowType DEF Read, TInv, TypeOK
        <4>2. [FromRow(hub) EXCEPT !.tainted = state.tainted] \in Model
          BY <4>1 DEF Model
        <4>3. QED
          BY <2>1, <3>2, <4>2 DEF Read
      <3>3. QED
        BY <3>1, <3>2
    <2>2. CASE Import
      <3>1. hub \in Row
        BY <2>2 DEF Import, IsTunnel, TInv, TypeOK
      <3>2. QED
        BY <2>2, <3>1, RowType DEF Import
    <2>3. QED
      BY <2>1, <2>2
  <1>3. QED
    BY <1>1, <1>2, ComesToRest DEF TInv, TypeOK

LEMMA ConfigureT ==
  ASSUME TInv, NEW c \in Configs \cup {Null}, Configure(c) PROVE TInv'
  <1>1. /\ op = Idle /\ op' = Idle /\ config' = c /\ last' = "none"
        /\ UNCHANGED <<hub, state, unseen>>
    BY OpTypes DEF Configure, TInv
  <1>2. spent' \in [edits: 0..MaxEdits, drift: 0..MaxDrift, faults: 0..MaxFaults]
    BY ConstantsAssumption DEF Configure, TInv, TypeOK
  <1>3. QED
    BY <1>1, <1>2, ComesToRest DEF TInv, TypeOK

LEMMA DriftedRow == ASSUME hub \in Row \cup {Null}, NEW h \in Drifted
                    PROVE h \in Row \cup {Null}
  <1>1. CASE hub = Null
    <2>1. HubCreated(Bare) \in [kind: {"tunnel"}, common: Common, roles: Stored,
                                archived: BOOLEAN]
      BY CommonTypes, NoRolesStored
      DEF HubCreated, Bare, CommonCreated, RolesOfCreated
    <2>2. HubCreated(Bare) \in Row
          /\ [HubCreated(Bare) EXCEPT !.kind = "proxy", !.roles = Null] \in Row
      BY <2>1 DEF Row
    <2>3. QED
      BY <1>1, <2>2 DEF Drifted
  <1>2. CASE hub # Null
    <2>1. hub \in Row
      BY <1>2
    <2>2. CASE h \in {Null, [hub EXCEPT !.archived = ~@]}
                     \cup {[hub EXCEPT !.common = m] : m \in CommonDrifted(hub.common)}
      BY <2>1, <2>2, RowType, CommonTypes
    <2>3. CASE IsTunnel(hub) /\ \E m \in Stored : h = [hub EXCEPT !.roles = m]
      BY <2>1, <2>3 DEF IsTunnel, Row
    <2>4. QED
      BY <1>2, <2>2, <2>3 DEF Drifted
  <1>3. QED
    BY <1>1, <1>2

LEMMA DriftT == ASSUME TInv, Drift PROVE TInv'
  <1>1. hub' \in Row \cup {Null}
    BY DriftedRow DEF Drift, TInv, TypeOK
  <1>2. spent' \in [edits: 0..MaxEdits, drift: 0..MaxDrift, faults: 0..MaxFaults]
    BY ConstantsAssumption DEF Drift, TInv, TypeOK
  <1>3. unseen' \in BOOLEAN /\ UNCHANGED <<config, state, op, last>>
    BY DEF Drift, TInv, TypeOK
  <1>4. QED
    BY <1>1, <1>2, <1>3 DEF TInv, TypeOK, Handler

LEMMA CrashT == ASSUME TInv, Crash PROVE TInv'
  <1>1. spent' \in [edits: 0..MaxEdits, drift: 0..MaxDrift, faults: 0..MaxFaults]
    BY ConstantsAssumption DEF Crash, TInv, TypeOK
  <1>2. /\ op' = Idle /\ last' = "failed" /\ unseen' \in BOOLEAN
        /\ UNCHANGED <<hub, config, state>>
    BY DEF Crash, Return, TInv, TypeOK
  <1>3. QED
    BY <1>1, <1>2, ComesToRest DEF TInv, TypeOK

LEMMA NextT == ASSUME TInv, [Next]_vars PROVE TInv'
  <1>1. CASE UNCHANGED vars
    BY <1>1 DEF vars, TInv, TypeOK, Handler
  <1>2. QED
    BY <1>1, PlanT, SilentT, StepT, ReadT, ConfigureT, DriftT, CrashT DEF Next

LEMMA TAlways == Spec => []TInv
  BY InitT, NextT, PTL DEF Spec

\* The types hold, and what an update is about to send is what was planned from
\* the state and the block.
THEOREM TypeCorrect == Spec => []TypeOK
  <1>1. TInv => TypeOK
    BY DEF TInv
  <1>2. QED
    BY <1>1, TAlways, PTL

-----------------------------------------------------------------------------
(* The state and the row                                                   *)

Same(m, h) == h # Null /\ <<m.common, m.roles, m.archived>>
                             = <<h.common, h.roles, h.archived>>

SInv == TInv /\ StateMirrorsRow

LEMMA MirrorsIs == StateMirrorsRow <=> (View # Null /\ ~unseen => Same(View, hub))
  BY DEF StateMirrorsRow, Same

LEMMA MirrorsWillBe ==
  StateMirrorsRow' <=> (View' # Null /\ ~unseen' => Same(View', hub'))
  BY DEF StateMirrorsRow, Same

\* What a handler returns becomes the view, except for its taint.
LEMMA ViewAtRest == ASSUME op' = Idle PROVE View' = state'
  BY DEF View, Idle

LEMMA FromRowSame == ASSUME NEW h \in Row, Null \notin Row PROVE Same(FromRow(h), h)
  BY DEF Same, FromRow

LEMMA FinishSame ==
  ASSUME NEW m \in Model, NEW h, Finish(m), Same(m, h)
  PROVE  Same(state', h)
  BY DEF Finish, Return, Model, Same

LEMMA InFlight ==
  ASSUME TInv, op.pc # "idle"
  PROVE  View = op.work
  BY DEF View

LEMMA SetArchivedS ==
  ASSUME SInv, NEW o \in Outcome, NEW a \in BOOLEAN, NEW f \in Model,
         op.pc # "idle", op.work \in Model, SetArchived(o, a, f),
         Same(f, hub) <=> Same(op.work, hub)
  PROVE  StateMirrorsRow'
  <1>1. op' = Idle /\ View = op.work /\ op.work # Null
    BY InFlight, SentinelAssumption DEF SInv, SetArchived, Finish, Return
  <1>2. CASE hub # Null /\ o = "ok"
    <2>1. /\ Finish([op.work EXCEPT !.archived = a]) /\ unseen' = unseen
          /\ hub' = [hub EXCEPT !.archived = a] /\ hub \in Row
      BY <1>2 DEF SetArchived, Request, SInv, TInv, TypeOK
    <2>2. [op.work EXCEPT !.archived = a] \in Model /\ hub' \in Row /\ hub' # Null
      BY <2>1, RowType, SentinelAssumption DEF Model
    <2>3. Same(op.work, hub) => Same([op.work EXCEPT !.archived = a], hub')
      BY <2>1, <2>2 DEF Same, Model, Row
    <2>4. Same(op.work, hub) => Same(state', hub')
      BY <2>1, <2>2, <2>3, FinishSame
    <2>5. QED
      BY <1>1, <2>1, <2>4, ViewAtRest, MirrorsIs, MirrorsWillBe DEF SInv
  <1>3. CASE ~(hub # Null /\ o = "ok")
    <2>1. state' = f /\ unseen' = (unseen \/ hub' # hub)
      BY <1>3 DEF SetArchived, Return, Unwitnessed
    <2>2. QED
      BY <1>1, <2>1, ViewAtRest, MirrorsIs, MirrorsWillBe DEF SInv
  <1>4. QED
    BY <1>2, <1>3

LEMMA StepS == ASSUME SInv, NEW o \in Outcome, Step(o) PROVE StateMirrorsRow'
  <1>0. TInv /\ TypeOK
    BY DEF SInv, TInv
  <1>1. CASE CreateApp(o)
    <2>1. CASE hub = Null /\ o = "ok"
      <3>1. hub' \in Row /\ op'.work = FromRow(hub') /\ op'.pc # "idle"
        <4>1. op.pc = "create" /\ op.plan \in Created
          BY <1>0, <1>1, OpTypes DEF CreateApp
        <4>2. op = [pc |-> "create", plan |-> op.plan, work |-> Null]
          BY <1>0, <4>1 DEF TypeOK, Op, Idle, UpdatePCs
        <4>3. op' = [op EXCEPT !.pc = "create_archived", !.work = FromRow(hub')]
          BY <1>1, <2>1 DEF CreateApp
        <4>4. hub' = HubCreated(op.plan)
          BY <1>1, <2>1 DEF CreateApp, Request
        <4>5. QED
          BY <4>1, <4>2, <4>3, <4>4, CreatedRow
      <3>2. View' = FromRow(hub') /\ hub' # Null
        BY <3>1, SentinelAssumption DEF View
      <3>3. QED
        BY <3>1, <3>2, FromRowSame, MirrorsWillBe, SentinelAssumption
    <2>2. CASE ~(hub = Null /\ o = "ok")
      <3>1. state' = Null /\ op' = Idle
        BY <1>1, <2>2 DEF CreateApp, Return
      <3>2. QED
        BY <3>1, ViewAtRest, MirrorsWillBe
    <2>3. QED
      BY <2>1, <2>2
  <1>2. CASE CreateArchived(o)
    <2>1. op.work \in Model /\ op.pc # "idle"
      BY <1>0, <1>2, OpTypes DEF CreateArchived
    <2>2. /\ [op.work EXCEPT !.tainted = TRUE] \in Model
          /\ Same([op.work EXCEPT !.tainted = TRUE], hub) <=> Same(op.work, hub)
      BY <2>1 DEF Model, Same
    <2>3. QED
      BY <1>2, <2>1, <2>2, SetArchivedS DEF CreateArchived
  <1>3. CASE UpdateArchived(o)
    <2>1. op.work \in Model /\ op.pc # "idle" /\ op.plan.archived \in BOOLEAN
      BY <1>0, <1>3, OpTypes DEF UpdateArchived, UpdatePCs, Updated
    <2>2. QED
      BY <1>3, <2>1, SetArchivedS DEF UpdateArchived
  <1>4. CASE UpdateFields(o)
    <2> DEFINE w == RolesSent(op.plan, op.work)
    <2>1. op.pc = "update" /\ op.work \in Model /\ op.plan \in Updated
          /\ View = op.work /\ op.work # Null
      BY <1>0, <1>4, OpTypes, InFlight, SentinelAssumption DEF UpdateFields, UpdatePCs
    <2>2. CASE HubPatches(hub, w) /\ o = "ok"
      <3>1. op = [pc |-> "update", plan |-> op.plan, work |-> op.work]
        BY <1>0, <2>1 DEF TypeOK, Op, Idle, UpdatePCs
      <3>2. op' = [op EXCEPT !.pc = "update_archived", !.work = FromRow(hub')]
        BY <1>4, <2>2 DEF UpdateFields
      <3>3. op'.work = FromRow(hub') /\ op'.pc # "idle"
        BY <3>1, <3>2
      <3>4. hub' = HubPatched(hub, op.plan, w)
        BY <1>4, <2>2 DEF UpdateFields, Request
      <3>5. hub' \in Row
        BY <1>0, <2>1, <2>2, <3>4, UpdatedRow
      <3>6. View' = FromRow(hub')
        BY <3>3 DEF View
      <3>7. QED
        BY <3>5, <3>6, FromRowSame, MirrorsWillBe, SentinelAssumption
    <2>3. CASE ~(HubPatches(hub, w) /\ o = "ok")
      <3>1. state' = op.work /\ op' = Idle /\ unseen' = (unseen \/ hub' # hub)
        BY <1>4, <2>3 DEF UpdateFields, Return, Unwitnessed
      <3>2. QED
        BY <2>1, <3>1, ViewAtRest, MirrorsIs, MirrorsWillBe DEF SInv
    <2>4. QED
      BY <2>2, <2>3
  <1>5. CASE Delete(o)
    <2>1. op.pc = "delete" /\ op' = Idle /\ op.work = state /\ View = state
      BY <1>0, <1>5, InFlight DEF Delete, Return, TInv, Handler
    <2>2. CASE o = "ok"
      <3>1. state' = Null
        BY <1>5, <2>2 DEF Delete, Return
      <3>2. QED
        BY <2>1, <3>1, ViewAtRest, MirrorsWillBe
    <2>3. CASE o # "ok"
      <3>1. state' = state /\ unseen' = (unseen \/ hub' # hub)
        BY <1>5, <2>3 DEF Delete, Return, Unwitnessed
      <3>2. QED
        BY <2>1, <3>1, ViewAtRest, MirrorsIs, MirrorsWillBe DEF SInv
    <2>4. QED
      BY <2>2, <2>3
  <1>6. QED
    BY <1>1, <1>2, <1>3, <1>4, <1>5 DEF Step

LEMMA NextS == ASSUME SInv, [Next]_vars PROVE SInv'
  <1>0. TInv /\ TypeOK /\ TInv'
    BY NextT DEF SInv, TInv
  <1>1. CASE Plan
    <2>1. View' = View /\ UNCHANGED <<hub, unseen>>
      BY <1>0, <1>1, OpTypes
      DEF Plan, PlanCreate, PlanUpdate, PlanDelete, View
    <2>2. QED
      BY <1>0, <2>1, MirrorsIs, MirrorsWillBe DEF SInv
  <1>2. CASE Silent
    <2>1. UNCHANGED <<hub, unseen>>
      BY <1>2 DEF Silent, CreateDone, UpdateNoFields, UpdateDone
    <2>2. CASE CreateDone \/ UpdateDone
      <3>1. op.work \in Model /\ Finish(op.work) /\ op' = Idle /\ View = op.work
        BY <1>0, <2>2, OpTypes, InFlight, FinishType
        DEF CreateDone, UpdateDone, UpdatePCs
      <3>2. Same(op.work, hub) => Same(state', hub)
        BY <3>1, FinishSame
      <3>3. View # Null
        BY <3>1, SentinelAssumption
      <3>4. QED
        BY <1>0, <2>1, <3>1, <3>2, <3>3, ViewAtRest, MirrorsIs, MirrorsWillBe DEF SInv
    <2>3. CASE UpdateNoFields
      <3>1. op = [pc |-> "update", plan |-> op.plan, work |-> op.work]
        BY <1>0, <2>3 DEF UpdateNoFields, TypeOK, Op, Idle, UpdatePCs
      <3>2. op' = [op EXCEPT !.pc = "update_archived"]
        BY <2>3 DEF UpdateNoFields
      <3>3. op'.work = op.work /\ op'.pc = "update_archived" /\ op.pc = "update"
        BY <3>1, <3>2
      <3>4. View' = View
        BY <3>3 DEF View
      <3>5. QED
        BY <1>0, <2>1, <3>4, MirrorsIs, MirrorsWillBe DEF SInv
    <2>4. QED
      BY <1>2, <2>2, <2>3 DEF Silent
  <1>3. CASE Read \/ Import
    <2>1. op' = Idle /\ hub' = hub
      BY <1>0, <1>3, OpTypes DEF Read, Import
    <2>2. state' = Null \/ (hub \in Row /\ Same(state', hub))
      <3>1. CASE hub = Null
        BY <1>3, <3>1 DEF Read, Import, IsTunnel
      <3>2. CASE hub # Null
        <4>1. hub \in Row /\ Same(FromRow(hub), hub)
          BY <1>0, <3>2, FromRowSame, SentinelAssumption DEF TypeOK
        <4>2. state' = FromRow(hub)
              \/ state' = [FromRow(hub) EXCEPT !.tainted = state.tainted]
          BY <1>3, <3>2 DEF Read, Import
        <4>3. QED
          BY <4>1, <4>2 DEF Same, FromRow
      <3>3. QED
        BY <3>1, <3>2
    <2>3. QED
      BY <1>0, <2>1, <2>2, ViewAtRest, MirrorsWillBe DEF SInv
  <1>4. CASE Drift
    <2>1. View' = View /\ (View = Null \/ unseen' = TRUE)
      BY <1>4 DEF Drift, View
    <2>2. QED
      BY <1>0, <2>1, MirrorsWillBe DEF SInv
  <1>5. CASE Crash
    <2>1. op' = Idle /\ state' = state /\ hub' = hub /\ View = op.work
          /\ unseen' = (state # Null /\ (unseen \/ op.work # state))
      BY <1>0, <1>5, InFlight DEF Crash, Return
    <2>2. QED
      BY <1>0, <2>1, ViewAtRest, MirrorsIs, MirrorsWillBe DEF SInv
  <1>6. ASSUME NEW c \in Configs \cup {Null}, Configure(c) PROVE SInv'
    <2>1. View' = View /\ UNCHANGED <<hub, unseen>>
      BY <1>6 DEF Configure, View
    <2>2. QED
      BY <1>0, <2>1, MirrorsIs, MirrorsWillBe DEF SInv
  <1>7. CASE UNCHANGED vars
    <2>1. View' = View /\ UNCHANGED <<hub, unseen>>
      BY <1>7 DEF vars, View
    <2>2. QED
      BY <1>0, <2>1, MirrorsIs, MirrorsWillBe DEF SInv
  <1>8. QED
    BY <1>0, <1>1, <1>2, <1>3, <1>4, <1>5, <1>6, <1>7, StepS DEF Next, SInv

\* After any failed, lost or killed step the state records what the earlier
\* ones did, unless the row changed behind the provider.
THEOREM StateIsTheRow == Spec => []StateMirrorsRow
  <1>1. Init => SInv
    BY InitT DEF SInv, Init, StateMirrorsRow, View, Idle
  <1>2. SInv => StateMirrorsRow
    BY DEF SInv
  <1>3. QED
    BY <1>1, <1>2, NextS, PTL DEF Spec

-----------------------------------------------------------------------------
(* The owner roles                                                         *)

\* The plan keeps what the block leaves out, so a plan that differs from what
\* was read is of a block that does not show it, and writes what the block
\* says.
LEMMA PlannedRoles ==
  ASSUME NEW c \in Config, NEW s \in Model,
         UpdatePlan(c, s).roles # s.roles, UpdatePlan(c, s).roles # Null
  PROVE  /\ Meets(c.roles, ToWire(UpdatePlan(c, s).roles))
         /\ ~Shows(c.roles, s.roles)
  <1> DEFINE p == KeptRoles(c.roles, s.roles)
  <1>1. UpdatePlan(c, s).roles = p
    BY DEF UpdatePlan
  <1>2. c.roles # Null
    BY <1>1 DEF KeptRoles
  <1>3. p = [r \in DOMAIN c.roles |-> Kept(c.roles[r], Family(s.roles, r))]
    BY <1>2 DEF KeptRoles
  <1>4. Meets(c.roles, ToWire(p))
    <2>1. DOMAIN ToWire(p) = DOMAIN c.roles
      BY <1>3 DEF ToWire
    <2>2. \A r \in DOMAIN c.roles :
            c.roles[r] # Null => p[r] = c.roles[r]
      BY <1>3 DEF Kept
    <2>3. \A r \in DOMAIN c.roles :
            c.roles[r] # Null => ToWire(p)[r] = ToWire(c.roles)[r]
      BY <1>3, <2>2 DEF ToWire
    <2>4. QED
      BY <1>2, <2>1, <2>3 DEF Meets
  <1>5. ~Shows(c.roles, s.roles)
    <2>1. SUFFICES ASSUME Shows(c.roles, s.roles) PROVE p = s.roles
      BY <1>1
    <2>2. s.roles \in Stored
      BY <2>1 DEF Shows, Model
    <2>3. s.roles = [r \in DOMAIN s.roles |-> s.roles[r]]
      BY <2>2, RoleMapsFunctions DEF Stored
    <2>4. \A r \in DOMAIN c.roles : Kept(c.roles[r], Family(s.roles, r)) = s.roles[r]
      BY <2>1 DEF Shows, Kept, Family
    <2>5. QED
      BY <1>3, <2>1, <2>3, <2>4 DEF Shows
  <1>6. QED
    BY <1>1, <1>4, <1>5

\* An apply writes the owner roles only to make them what is configured, when
\* the refresh had read something else.
THEOREM RolesLeftAlone == Spec => OwnerRolesLeftAlone
  <1> DEFINE Left == op.pc \in UpdatePCs /\ op'.pc # op.pc
                     /\ hub # Null /\ hub' # Null /\ hub'.roles # hub.roles
                     => Meets(config.roles, hub'.roles)
                        /\ ~Shows(config.roles, state.roles)
  <1>1. ASSUME TInv, [Next]_vars PROVE Left
    <2>1. SUFFICES ASSUME op.pc \in UpdatePCs, op'.pc # op.pc,
                          hub # Null, hub' # Null, hub'.roles # hub.roles
                   PROVE  Meets(config.roles, hub'.roles)
                          /\ ~Shows(config.roles, state.roles)
      OBVIOUS
    <2>2. /\ hub \in Row /\ config \in Config /\ state \in Model
          /\ op.plan = UpdatePlan(config, state)
      BY <1>1, <2>1, ConstantsAssumption DEF TInv, TypeOK, Handler
    <2>3. ASSUME NEW o \in Outcome, UpdateFields(o)
          PROVE  Meets(config.roles, hub'.roles) /\ ~Shows(config.roles, state.roles)
      <3> DEFINE w == RolesSent(op.plan, op.work)
      <3>1. op.work = state
        BY <1>1, <2>3 DEF UpdateFields, TInv, Handler
      <3>2. hub' = HubPatched(hub, op.plan, w)
        BY <2>1, <2>3 DEF UpdateFields, Request
      <3>3. w /\ hub'.roles = ToWire(op.plan.roles)
        <4>1. DOMAIN hub = {"kind", "common", "roles", "archived"}
          BY <2>2 DEF Row
        <4>2. hub'.roles = IF w THEN ToWire(op.plan.roles) ELSE hub.roles
          BY <3>2, <4>1 DEF HubPatched
        <4>3. QED
          BY <2>1, <4>2
      <3>4. op.plan.roles # state.roles /\ op.plan.roles # Null
        BY <3>1, <3>3 DEF RolesSent
      <3>5. QED
        BY <2>2, <3>3, <3>4, PlannedRoles
    <2>4. ASSUME NEW o \in Outcome, UpdateArchived(o) PROVE FALSE
      <3>1. hub' = hub \/ hub' = [hub EXCEPT !.archived = op.plan.archived]
        BY <2>4 DEF UpdateArchived, SetArchived, Request
      <3>2. QED
        BY <2>1, <2>2, <3>1 DEF Row
    <2>5. CASE ~ \E o \in Outcome : UpdateFields(o) \/ UpdateArchived(o)
      <3>1. hub' = hub \/ op.pc \notin UpdatePCs \/ op' = op
        BY <1>1, <2>5 DEF Next, Plan, PlanCreate, PlanUpdate, PlanDelete, Silent,
           CreateDone, UpdateNoFields, UpdateDone, Read, Import, Drift, Crash, Step,
           CreateApp, CreateArchived, Delete, Configure, vars, UpdatePCs
      <3>2. QED
        BY <2>1, <3>1
    <2>6. QED
      BY <2>3, <2>4, <2>5
  <1>2. QED
    BY <1>1, TAlways, PTL DEF Spec, OwnerRolesLeftAlone

-----------------------------------------------------------------------------
(* What an apply carries from its plan to its end                          *)

\* An object that has everything the block gives.
Fits(c, m) ==
  /\ FitsCommon(c.common, m.common) /\ c.archived \in {m.archived, Null}
  /\ c.roles # Null => Shows(c.roles, m.roles)

\* It is not a diff: what the block leaves out is kept.
LEMMA FitsIsSettled ==
  ASSUME NEW c \in Config, NEW m \in Model, Fits(c, m)
  PROVE  PlanEmpty(c, m)
  <1>1. Kept(c.archived, m.archived) = m.archived
    BY DEF Fits, Kept
  <1>2. KeptCommon(c.common, m.common) = m.common
    BY CommonSettled DEF Fits, Config, Model
  <1>3. KeptRoles(c.roles, m.roles) = m.roles
    BY RolesSettled DEF Fits, Config, Model
  <1>4. QED
    BY <1>1, <1>2, <1>3 DEF PlanEmpty, UpdatePlan

\* An object that comes back as an update planned it fits the block, and so
\* does one that comes back as a creation planned it.
LEMMA UpdateFits ==
  ASSUME NEW c \in Config, NEW s \in Model, NEW m \in Model,
         Echoes(UpdatePlan(c, s), m)
  PROVE  Fits(c, m)
  <1>1. /\ c.common \in CommonWritten /\ s.common \in Common /\ m.common \in Common
        /\ c.roles \in Written \cup {Null} /\ s.roles \in Stored \cup {Null}
    BY DEF Config, Model
  <1>2. /\ EchoesCommon(KeptCommon(c.common, s.common), m.common)
        /\ EchoesRoles(KeptRoles(c.roles, s.roles), m.roles)
        /\ Kept(c.archived, s.archived) \in {m.archived, Unknown}
    BY DEF Echoes, UpdatePlan
  <1>3. UpdatePlan(c, s).archived \in BOOLEAN
    BY UpdatePlanType DEF Updated
  <1>4. c.archived \in {m.archived, Null}
    BY <1>2, <1>3, SentinelAssumption DEF UpdatePlan, Kept
  <1>5. FitsCommon(c.common, m.common)
    BY <1>1, <1>2, UpdateFitsCommon
  <1>6. c.roles # Null => Shows(c.roles, m.roles)
    BY <1>1, <1>2, UpdateShows
  <1>7. QED
    BY <1>4, <1>5, <1>6 DEF Fits

LEMMA CreateFits ==
  ASSUME NEW c \in Config, NEW m \in Model, Echoes(CreatePlan(c), m)
  PROVE  Fits(c, m)
  <1>1. /\ c.common \in CommonWritten /\ m.common \in Common
        /\ c.roles \in Written \cup {Null} /\ c.archived \in BOOLEAN \cup {Null}
    BY DEF Config, Model
  <1>2. /\ EchoesCommon(ResolvableCommon(c.common), m.common)
        /\ EchoesRoles(ResolvableRoles(c.roles), m.roles)
        /\ Resolvable(c.archived) \in {m.archived, Unknown}
    BY DEF Echoes, CreatePlan
  <1>3. c.archived \in {m.archived, Null}
    BY <1>1, <1>2, SentinelAssumption DEF Resolvable
  <1>4. FitsCommon(c.common, m.common)
    BY <1>1, <1>2, CreateFitsCommon
  <1>5. c.roles # Null => Shows(c.roles, m.roles)
    BY <1>1, <1>2, CreateShows
  <1>6. QED
    BY <1>3, <1>4, <1>5 DEF Fits

-----------------------------------------------------------------------------
(* What a successful apply leaves, and what a contradicted one met         *)

\* The plan of a handler is the one made from the state and the block that are
\* still there, and was worth making; once the row has answered, the object has
\* what was sent.
Carried ==
  /\ op.pc \in {"create", "create_archived"} =>
       config # Null /\ state = Null /\ op.plan = CreatePlan(config)
  /\ op.pc = "create_archived" => op.work = FromRow(HubCreated(op.plan))
  /\ op.pc \in UpdatePCs => ~state.tainted /\ ~PlanEmpty(config, state)
  /\ op.pc = "update_archived" =>
       /\ ~op.work.tainted
       /\ AppChanged(op.plan, state) =>
            \E h \in Common : op.work.common = CommonPatched(h, op.plan.common)
       /\ ~AppChanged(op.plan, state) => op.work = state
       /\ RolesSent(op.plan, state) => op.work.roles = ToWire(op.plan.roles)
  /\ op.pc = "delete" => config = Null \/ state.tainted

CInv == TInv /\ Carried

LEMMA AtRestCarried == ASSUME op' = Idle PROVE Carried'
  BY DEF Carried, Idle, UpdatePCs

\* Every step that ends a handler, or happens while none runs, leaves none.
LEMMA Ends ==
  ASSUME CInv,
         \/ Read \/ Import \/ Crash \/ CreateDone \/ UpdateDone
         \/ \E o \in Outcome : CreateArchived(o) \/ UpdateArchived(o) \/ Delete(o)
         \/ \E c \in Configs \cup {Null} : Configure(c)
  PROVE  op' = Idle
  <1>1. op.pc = "idle" => op = Idle
    BY OpTypes DEF CInv, TInv
  <1>2. QED
    BY <1>1 DEF Read, Import, Crash, CreateDone, UpdateDone, CreateArchived,
       UpdateArchived, Delete, Configure, SetArchived, Finish, Return

LEMMA NextC == ASSUME CInv, [Next]_vars PROVE CInv'
  <1>0. TInv /\ TypeOK /\ Carried /\ Handler /\ TInv'
    BY NextT DEF CInv, TInv
  <1>1. CASE Plan
    <2>1. UNCHANGED <<config, state>>
      BY <1>1 DEF Plan, PlanCreate, PlanUpdate, PlanDelete
    <2>2. QED
      BY <1>0, <1>1, <2>1
      DEF Plan, PlanCreate, PlanUpdate, PlanDelete, Carried, CInv, UpdatePCs
  <1>2. ASSUME NEW o \in Outcome, CreateApp(o) PROVE Carried'
    <2>1. CASE hub = Null /\ o = "ok"
      <3>1. op.pc = "create" /\ op.plan \in Created
        BY <1>0, <1>2, OpTypes DEF CreateApp
      <3>2. op = [pc |-> "create", plan |-> op.plan, work |-> Null]
        BY <1>0, <3>1 DEF TypeOK, Op, Idle, UpdatePCs
      <3>3. op' = [op EXCEPT !.pc = "create_archived", !.work = FromRow(hub')]
            /\ UNCHANGED <<config, state>>
        BY <1>2, <2>1 DEF CreateApp
      <3>4. hub' = HubCreated(op.plan)
        BY <1>2, <2>1 DEF CreateApp, Request
      <3>5. op' = [pc |-> "create_archived", plan |-> op.plan,
                   work |-> FromRow(HubCreated(op.plan))]
        BY <3>2, <3>3, <3>4
      <3>6. /\ op'.pc = "create_archived" /\ op'.plan = op.plan
            /\ op'.work = FromRow(HubCreated(op.plan))
        BY <3>5
      <3>7. config # Null /\ state = Null /\ op.plan = CreatePlan(config)
        BY <1>0, <3>1 DEF Carried
      <3>8. op'.work = FromRow(HubCreated(op'.plan))
        BY <3>6
      <3>9. op'.plan = CreatePlan(config') /\ config' # Null /\ state' = Null
        BY <3>3, <3>6, <3>7
      <3>10. QED
        BY <3>6, <3>8, <3>9 DEF Carried, UpdatePCs
    <2>2. CASE ~(hub = Null /\ o = "ok")
      BY <1>2, <2>2, AtRestCarried DEF CreateApp, Return
    <2>3. QED
      BY <2>1, <2>2
  <1>3. ASSUME NEW o \in Outcome, UpdateFields(o) PROVE Carried'
    <2> DEFINE w == RolesSent(op.plan, op.work)
    <2>1. CASE HubPatches(hub, w) /\ o = "ok"
      <3>1. op.pc = "update" /\ op.work = state
        BY <1>0, <1>3 DEF UpdateFields, Handler
      <3>2. op = [pc |-> "update", plan |-> op.plan, work |-> op.work]
        BY <1>0, <3>1 DEF TypeOK, Op, Idle, UpdatePCs
      <3>3. op' = [op EXCEPT !.pc = "update_archived", !.work = FromRow(hub')]
            /\ UNCHANGED <<config, state>>
        BY <1>3, <2>1 DEF UpdateFields
      <3>4. hub' = HubPatched(hub, op.plan, w) /\ hub \in Row
        BY <1>0, <1>3, <2>1 DEF UpdateFields, Request, HubPatches, TypeOK
      <3>5. /\ hub'.common = CommonPatched(hub.common, op.plan.common)
            /\ w => hub'.roles = ToWire(op.plan.roles)
        <4>1. DOMAIN hub = {"kind", "common", "roles", "archived"}
          BY <3>4 DEF Row
        <4>2. QED
          BY <3>4, <4>1 DEF HubPatched
      <3>6. op' = [pc |-> "update_archived", plan |-> op.plan, work |-> FromRow(hub')]
        BY <3>2, <3>3
      <3>7. /\ op'.pc = "update_archived" /\ op'.plan = op.plan
            /\ op'.work.common = CommonPatched(hub.common, op.plan.common)
            /\ op'.work.tainted = FALSE
            /\ RolesSent(op.plan, state) => op'.work.roles = ToWire(op.plan.roles)
        BY <3>1, <3>5, <3>6 DEF FromRow
      <3>8. ~state.tainted /\ ~PlanEmpty(config, state)
        BY <1>0, <3>1 DEF Carried, UpdatePCs
      <3>9. hub.common \in Common /\ AppChanged(op.plan, state)
        BY <1>3, <3>1, <3>4, RowType DEF UpdateFields
      <3>10. AppChanged(op'.plan, state') =
               AppChanged(op.plan, state)
        BY <3>3, <3>7
      <3>11. QED
        BY <3>3, <3>7, <3>8, <3>9, <3>10 DEF Carried, UpdatePCs
    <2>2. CASE ~(HubPatches(hub, w) /\ o = "ok")
      BY <1>3, <2>2, AtRestCarried DEF UpdateFields, Return
    <2>3. QED
      BY <2>1, <2>2
  <1>4. CASE UpdateNoFields
    <2>1. op.pc = "update" /\ op.work = state /\ UNCHANGED <<config, state>>
          /\ ~AppChanged(op.plan, op.work)
      BY <1>0, <1>4 DEF UpdateNoFields, Handler
    <2>2. op = [pc |-> "update", plan |-> op.plan, work |-> op.work]
      BY <1>0, <2>1 DEF TypeOK, Op, Idle, UpdatePCs
    <2>3. op' = [pc |-> "update_archived", plan |-> op.plan, work |-> op.work]
      BY <1>4, <2>2 DEF UpdateNoFields
    <2>4. ~state.tainted /\ ~PlanEmpty(config, state)
      BY <1>0, <2>1 DEF Carried, UpdatePCs
    <2>5. op.work = state /\ ~AppChanged(op.plan, state) /\ ~RolesSent(op.plan, state)
      BY <2>1 DEF AppChanged, RolesSent
    <2>6. QED
      BY <1>0, <2>1, <2>3, <2>4, <2>5 DEF Carried, CInv, UpdatePCs
  <1>5. CASE Drift \/ UNCHANGED vars
    <2>1. UNCHANGED <<config, state, op>>
      BY <1>5 DEF Drift, vars
    <2>2. QED
      BY <1>0, <2>1 DEF Carried, CInv, RolesSent, AppChanged
  <1>6. CASE op' = Idle
    BY <1>0, <1>6, AtRestCarried DEF CInv
  <1>7. QED
    BY <1>0, <1>1, <1>2, <1>3, <1>4, <1>5, <1>6, Ends DEF Next, Silent, Step, CInv

LEMMA CAlways == Spec => []CInv
  <1>1. Init => CInv
    BY InitT DEF Init, CInv, Carried, Idle, UpdatePCs
  <1>2. QED
    BY <1>1, NextC, PTL DEF Spec

\* The object a handler finishes with: what it has, archived as planned.
LEMMA Finishing ==
  ASSUME CInv, NEW m,
         \/ CreateDone /\ m = op.work
         \/ UpdateDone /\ m = op.work
         \/ CreateArchived("ok") /\ hub # Null
            /\ m = [op.work EXCEPT !.archived = TRUE]
         \/ UpdateArchived("ok") /\ hub # Null
            /\ m = [op.work EXCEPT !.archived = op.plan.archived]
  PROVE  /\ op.pc \in {"create_archived", "update_archived"}
         /\ Finish(m) /\ m \in Model /\ op.work \in Model /\ ~m.tainted
         /\ m.common = op.work.common /\ m.roles = op.work.roles
         /\ op.plan.archived \in {m.archived, Unknown}
         /\ config' = config
  <1>0. TypeOK /\ Carried
    BY DEF CInv, TInv
  <1>1. CASE UpdateDone \/ UpdateArchived("ok")
    <2>1. /\ op.pc = "update_archived" /\ op.work \in Model
          /\ op.plan.archived \in BOOLEAN /\ ~op.work.tainted
      BY <1>0, <1>1, OpTypes DEF UpdateDone, UpdateArchived, UpdatePCs, Updated, Carried
    <2>2. Finish(m) /\ config' = config
      BY <1>1, <2>1 DEF UpdateDone, UpdateArchived, SetArchived, CreateDone, CreateArchived
    <2>3. \/ m = op.work /\ op.plan.archived = op.work.archived
          \/ m = [op.work EXCEPT !.archived = op.plan.archived]
      BY <1>1, <2>1 DEF CreateDone, CreateArchived, UpdateDone
    <2>4. QED
      BY <2>1, <2>2, <2>3 DEF Model
  <1>2. CASE CreateDone \/ CreateArchived("ok")
    <2>1. /\ op.pc = "create_archived" /\ op.work \in Model /\ op.plan \in Created
          /\ op.work = FromRow(HubCreated(op.plan))
      BY <1>0, <1>2, OpTypes DEF CreateDone, CreateArchived, Carried
    <2>2. Finish(m) /\ config' = config
      BY <1>2, <2>1 DEF UpdateDone, UpdateArchived, SetArchived, CreateDone, CreateArchived
    <2>3. op.work.archived = FALSE /\ op.work.tainted = FALSE
      BY <2>1 DEF FromRow, HubCreated
    <2>4. \/ m = op.work /\ op.plan.archived # TRUE
          \/ m = [op.work EXCEPT !.archived = TRUE] /\ op.plan.archived = TRUE
      BY <1>2, <2>1 DEF CreateDone, CreateArchived, UpdateDone, UpdateArchived
    <2>5. op.plan.archived \in BOOLEAN \cup {Unknown}
      BY <2>1 DEF Created
    <2>6. QED
      BY <2>1, <2>2, <2>3, <2>4, <2>5 DEF Model
  <1>3. QED
    BY <1>1, <1>2

LEMMA SettledType ==
  ASSUME CInv, NEW m \in Model,
         op.pc \in {"create_archived", "update_archived"}, Echoes(op.plan, m)
  PROVE  config # Null /\ Fits(config, m)
  <1>1. Carried /\ config \in Configs \cup {Null} /\ state \in Model \cup {Null}
        /\ Handler
    BY DEF CInv, TInv, TypeOK
  <1>2. CASE op.pc = "create_archived"
    <2>1. config # Null /\ op.plan = CreatePlan(config)
      BY <1>1, <1>2 DEF Carried
    <2>2. config \in Config
      BY <1>1, <2>1, ConstantsAssumption
    <2>3. QED
      BY <2>1, <2>2, CreateFits
  <1>3. CASE op.pc = "update_archived"
    <2>1. config # Null /\ state # Null /\ op.plan = UpdatePlan(config, state)
      BY <1>1, <1>3 DEF Handler, UpdatePCs
    <2>2. config \in Config /\ state \in Model
      BY <1>1, <2>1, ConstantsAssumption
    <2>3. QED
      BY <2>1, <2>2, UpdateFits
  <1>4. QED
    BY <1>2, <1>3

\* How an apply comes to have ended well, or in a contradiction.
LEMMA HowItEnds ==
  ASSUME CInv, [Next]_vars, last' \in {"ok", "contradicted"}
  PROVE  \/ /\ UNCHANGED <<config, state, last>>
            /\ op.pc = "idle" \/ op'.pc # "idle"
         \/ last' = "ok" /\ state' = Null
         \/ \E m : \/ CreateDone /\ m = op.work
                   \/ UpdateDone /\ m = op.work
                   \/ CreateArchived("ok") /\ hub # Null
                      /\ m = [op.work EXCEPT !.archived = TRUE]
                   \/ UpdateArchived("ok") /\ hub # Null
                      /\ m = [op.work EXCEPT !.archived = op.plan.archived]
  <1>0. DOMAIN op = {"pc", "plan", "work"}
    BY DEF CInv, TInv, TypeOK, Op, Idle, UpdatePCs
  <1>1. CASE Plan \/ Drift \/ UNCHANGED vars
    BY <1>1 DEF Plan, PlanCreate, PlanUpdate, PlanDelete, Drift, vars
  <1>2. CASE Import \/ Crash \/ \E c \in Configs \cup {Null} : Configure(c)
    BY <1>2 DEF Import, Crash, Return, Configure
  <1>3. CASE Read
    BY <1>3 DEF Read
  <1>4. CASE UpdateNoFields
    BY <1>0, <1>4 DEF UpdateNoFields
  <1>5. ASSUME NEW o \in Outcome, CreateApp(o) \/ UpdateFields(o)
        PROVE  UNCHANGED <<config, state, last>> /\ op'.pc # "idle"
    BY <1>0, <1>5 DEF CreateApp, UpdateFields, Return
  <1>6. ASSUME NEW o \in Outcome, Delete(o) PROVE last' = "ok" /\ state' = Null
    BY <1>6 DEF Delete, Return
  <1>7. ASSUME NEW o \in Outcome, CreateArchived(o) \/ UpdateArchived(o)
        PROVE  o = "ok" /\ hub # Null
    BY <1>7 DEF CreateArchived, UpdateArchived, SetArchived, Return
  <1>8. QED
    BY <1>1, <1>2, <1>3, <1>4, <1>5, <1>6, <1>7 DEF Next, Silent, Step

\* One apply that reports success leaves nothing to apply, whatever it was
\* planned from and whoever changed the row meanwhile.
THEOREM AppliedIsSettled == Spec => []AppliedMeansSettled
  <1>1. Init => AppliedMeansSettled
    BY DEF Init, AppliedMeansSettled
  <1>2. ASSUME CInv, AppliedMeansSettled, [Next]_vars PROVE AppliedMeansSettled'
    <2>1. SUFFICES ASSUME last' = "ok", config' # Null, state' # Null
                   PROVE  ~state'.tainted /\ PlanEmpty(config', state')
      BY DEF AppliedMeansSettled
    <2>2. CASE UNCHANGED <<config, state, last>>
      BY <1>2, <2>1, <2>2 DEF AppliedMeansSettled
    <2>3. ASSUME NEW m,
                 \/ CreateDone /\ m = op.work
                 \/ UpdateDone /\ m = op.work
                 \/ CreateArchived("ok") /\ hub # Null
                    /\ m = [op.work EXCEPT !.archived = TRUE]
                 \/ UpdateArchived("ok") /\ hub # Null
                    /\ m = [op.work EXCEPT !.archived = op.plan.archived]
          PROVE  ~state'.tainted /\ PlanEmpty(config', state')
      <3>1. /\ op.pc \in {"create_archived", "update_archived"}
            /\ Finish(m) /\ m \in Model /\ ~m.tainted /\ config' = config
        BY <1>2, <2>3, Finishing
      <3>2. Echoes(op.plan, m) /\ state' = m
        BY <2>1, <3>1 DEF Finish, Return
      <3>3. config # Null /\ Fits(config, m)
        BY <1>2, <3>1, <3>2, SettledType
      <3>4. config \in Config
        BY <1>2, <3>3, ConstantsAssumption DEF CInv, TInv, TypeOK
      <3>5. QED
        BY <3>1, <3>2, <3>3, <3>4, FitsIsSettled
    <2>4. QED
      BY <1>2, <2>1, <2>2, <2>3, HowItEnds
  <1>3. QED
    BY <1>1, <1>2, CAlways, PTL DEF Spec

\* What an update made of the common attributes comes back, but for aliases
\* that were null in the state and in the plan.
LEMMA UpdatedCommonComesBack ==
  ASSUME NEW c \in Config, NEW s \in Model, NEW m \in Common,
         c.common.aliases # EmptyList,
         \/ m = s.common /\ UpdatePlan(c, s).common = s.common
         \/ \E h \in Common : m = CommonPatched(h, UpdatePlan(c, s).common)
  PROVE  \/ EchoesCommon(UpdatePlan(c, s).common, m)
         \/ /\ UpdatePlan(c, s).common.aliases = Null
            /\ s.common.aliases = Null /\ m.aliases # Null
  <1>1. /\ c.common \in CommonWritten /\ s.common \in Common
        /\ UpdatePlan(c, s).common = KeptCommon(c.common, s.common)
    BY DEF Config, Model, UpdatePlan
  <1>2. CASE m = s.common /\ UpdatePlan(c, s).common = s.common
    BY <1>2 DEF EchoesCommon
  <1>3. ASSUME NEW h \in Common, m = CommonPatched(h, UpdatePlan(c, s).common)
        PROVE  \/ EchoesCommon(UpdatePlan(c, s).common, m)
               \/ /\ UpdatePlan(c, s).common.aliases = Null
                  /\ s.common.aliases = Null /\ m.aliases # Null
    <2>1. CASE KeptCommon(c.common, s.common).aliases = Null => h.aliases = Null
      BY <1>1, <1>3, <2>1, UpdateEchoesCommon
    <2>2. CASE KeptCommon(c.common, s.common).aliases = Null /\ h.aliases # Null
      <3>1. m.aliases = h.aliases
        BY <1>1, <1>3, <2>2, ValuesAssumption DEF CommonPatched, Sent
      <3>2. s.common.aliases = Null
        BY <2>2 DEF KeptCommon, Kept
      <3>3. QED
        BY <1>1, <2>2, <3>1, <3>2
    <2>3. QED
      BY <2>1, <2>2
  <1>4. QED
    BY <1>2, <1>3

\* The owner roles come back as well, but for roles that this apply left alone.
LEMMA UpdatedRolesComeBack ==
  ASSUME NEW c \in Config, NEW s \in Model, NEW m \in Stored \cup {Null},
         ~HasEmptyFamily(c.roles),
         RolesSent(UpdatePlan(c, s), s) => m = ToWire(UpdatePlan(c, s).roles)
  PROVE  \/ EchoesRoles(UpdatePlan(c, s).roles, m)
         \/ UpdatePlan(c, s).roles = s.roles /\ m # s.roles
  <1> DEFINE p == KeptRoles(c.roles, s.roles)
  <1>1. /\ UpdatePlan(c, s).roles = p
        /\ c.roles \in Written \cup {Null} /\ s.roles \in Stored \cup {Null}
    BY DEF UpdatePlan, Config, Model
  <1>2. CASE RolesSent(UpdatePlan(c, s), s)
    <2>1. p \in Written /\ ~HasEmptyFamily(p)
      BY <1>1, <1>2, KeptRolesType, PlanAsks DEF RolesSent
    <2>2. m = p
      BY <1>1, <1>2, <2>1, WireKeeps
    <2>3. QED
      BY <1>1, <2>2 DEF EchoesRoles
  <1>3. CASE ~RolesSent(UpdatePlan(c, s), s)
    <2>1. p = s.roles
      <3>1. CASE p = Null
        <4>1. c.roles = Null
          BY <1>1, <3>1, KeptGiven
        <4>2. QED
          BY <4>1 DEF KeptRoles
      <3>2. CASE p # Null
        BY <1>1, <1>3, <3>2 DEF RolesSent
      <3>3. QED
        BY <3>1, <3>2
    <2>2. QED
      BY <1>1, <2>1 DEF EchoesRoles
  <1>4. QED
    BY <1>2, <1>3

\* An apply contradicts its plan for no fourth reason: finding `tunnel_empty'
\* goes no further than a configuration that asks for an empty list or map.
THEOREM ContradictionsExplained == Spec => ContradictedOnlyByOthers
  <1> DEFINE Rest == \/ state # Null /\ op.plan.roles = state.roles
                        /\ state'.roles # state.roles
                     \/ state # Null /\ op.plan.common.aliases = Null
                        /\ state.common.aliases = Null
                        /\ state'.common.aliases # Null
             Why == AsksForEmpty(config) \/ Rest
  <1>1. ASSUME CInv, [Next]_vars, op.pc # "idle", op'.pc = "idle",
               last' = "contradicted"
        PROVE  Why
    <2>0. /\ Carried /\ Handler /\ TypeOK
          /\ config \in Configs \cup {Null} /\ state \in Model \cup {Null}
      BY <1>1 DEF CInv, TInv, TypeOK
    <2>1. SUFFICES ASSUME ~AsksForEmpty(config) PROVE Rest
      OBVIOUS
    <2>2. ASSUME NEW m,
                 \/ CreateDone /\ m = op.work
                 \/ UpdateDone /\ m = op.work
                 \/ CreateArchived("ok") /\ hub # Null
                    /\ m = [op.work EXCEPT !.archived = TRUE]
                 \/ UpdateArchived("ok") /\ hub # Null
                    /\ m = [op.work EXCEPT !.archived = op.plan.archived]
          PROVE  Rest
      <3>1. /\ op.pc \in {"create_archived", "update_archived"}
            /\ Finish(m) /\ m \in Model /\ op.work \in Model
            /\ m.common = op.work.common /\ m.roles = op.work.roles
            /\ op.plan.archived \in {m.archived, Unknown}
        BY <1>1, <2>2, Finishing
      <3>2. ~Echoes(op.plan, m) /\ state'.roles = m.roles
            /\ state'.common = m.common
        BY <1>1, <3>1 DEF Finish, Return, Model
      <3>3. ~EchoesCommon(op.plan.common, m.common)
            \/ ~EchoesRoles(op.plan.roles, m.roles)
        BY <3>1, <3>2 DEF Echoes
      <3>4. config # Null => /\ config \in Config
                             /\ config.common.aliases # EmptyList
                             /\ ~HasEmptyFamily(config.roles)
        BY <2>0, <2>1, ConstantsAssumption DEF AsksForEmpty
      <3>5. CASE op.pc = "create_archived"
        <4>1. /\ config # Null /\ op.plan = CreatePlan(config)
              /\ op.work = FromRow(HubCreated(op.plan))
          BY <2>0, <3>5 DEF Carried
        <4>2. /\ m.common = CommonOfCreated(op.plan.common)
              /\ m.roles = RolesOfCreated(op.plan.roles)
          BY <3>1, <4>1 DEF FromRow, HubCreated
        <4>3. /\ op.plan.common = ResolvableCommon(config.common)
              /\ op.plan.roles = ResolvableRoles(config.roles)
          BY <4>1 DEF CreatePlan
        <4>4. config.common \in CommonWritten /\ config.roles \in Written \cup {Null}
          BY <3>4, <4>1 DEF Config
        <4>5. QED
          BY <3>3, <3>4, <4>1, <4>2, <4>3, <4>4, CreateEchoes, CreateEchoesCommon
      <3>6. CASE op.pc = "update_archived"
        <4>1. /\ config # Null /\ state # Null
              /\ op.plan = UpdatePlan(config, state)
              /\ RolesSent(op.plan, state) => op.work.roles = ToWire(op.plan.roles)
              /\ AppChanged(op.plan, state) =>
                   \E h \in Common : op.work.common = CommonPatched(h, op.plan.common)
              /\ ~AppChanged(op.plan, state) => op.work = state
          BY <2>0, <3>6 DEF Carried, Handler, UpdatePCs
        <4>2. config \in Config /\ state \in Model
              /\ m.common \in Common /\ m.roles \in Stored \cup {Null}
          BY <2>0, <3>1, <3>4, <4>1 DEF Model
        <4>3. \/ m.common = state.common /\ op.plan.common = state.common
              \/ \E h \in Common : m.common = CommonPatched(h, op.plan.common)
          <5>1. CASE AppChanged(op.plan, state)
            BY <3>1, <4>1, <5>1
          <5>2. CASE ~AppChanged(op.plan, state)
            BY <3>1, <4>1, <5>2 DEF AppChanged
          <5>3. QED
            BY <5>1, <5>2
        <4>4. \/ EchoesCommon(op.plan.common, m.common)
              \/ /\ op.plan.common.aliases = Null /\ state.common.aliases = Null
                 /\ m.common.aliases # Null
          BY <3>4, <4>1, <4>2, <4>3, UpdatedCommonComesBack
        <4>5. \/ EchoesRoles(op.plan.roles, m.roles)
              \/ op.plan.roles = state.roles /\ m.roles # state.roles
          BY <3>1, <3>4, <4>1, <4>2, UpdatedRolesComeBack
        <4>6. QED
          BY <3>2, <3>3, <4>1, <4>4, <4>5
      <3>7. QED
        BY <3>1, <3>5, <3>6
    <2>3. QED
      BY <1>1, <2>2, HowItEnds
  <1>2. QED
    BY <1>1, CAlways, PTL DEF Spec, ContradictedOnlyByOthers

-----------------------------------------------------------------------------
(* How far a removed family reaches                                        *)

\* A map that is given, with every family of every role.
Complete(m) == m # Null /\ \A r \in DOMAIN m : m[r] # Null

\* Where every family of every configured role is given, an apply that succeeds
\* leaves the hub granting what is configured and nothing else: only a family
\* left out can stay behind (finding `tunnel_roles').
THEOREM CompleteRolesAreReplaced ==
  Spec => [](config # Null /\ Complete(config.roles) => ApplyReplacesRoles)
  <1>1. ASSUME CInv, StateMirrorsRow, AppliedMeansSettled
        PROVE  config # Null /\ Complete(config.roles) => ApplyReplacesRoles
    <2>1. SUFFICES ASSUME last = "ok", ~unseen, config # Null, state # Null,
                          Complete(config.roles)
                   PROVE  hub.roles = ToWire(config.roles)
      BY DEF ApplyReplacesRoles
    <2>2. ~state.tainted /\ PlanEmpty(config, state)
      BY <1>1, <2>1 DEF AppliedMeansSettled
    <2>3. /\ Carried /\ TypeOK /\ config \in Config /\ state \in Model
      BY <1>1, <2>1, ConstantsAssumption DEF CInv, TInv, TypeOK
    <2>4. op.pc = "idle"
      BY <2>1, <2>2, <2>3, OpTypes DEF Carried
    <2>5. hub.roles = state.roles
      BY <1>1, <2>1, <2>4 DEF StateMirrorsRow, View
    <2>6. KeptRoles(config.roles, state.roles) = state.roles
      BY <2>2 DEF PlanEmpty, UpdatePlan
    <2>7. config.roles \in Written /\ config.roles # Null
      BY <2>1, <2>3 DEF Config, Complete
    <2>8. KeptRoles(config.roles, state.roles) = config.roles
      <3>1. config.roles = [r \in DOMAIN config.roles |-> config.roles[r]]
        BY <2>7, RoleMapsFunctions DEF Written
      <3>2. \A r \in DOMAIN config.roles :
              Kept(config.roles[r], Family(state.roles, r)) = config.roles[r]
        BY <2>1 DEF Complete, Kept
      <3>3. QED
        BY <2>7, <3>1, <3>2 DEF KeptRoles
    <2>9. state.roles \in Stored
      BY <2>3, <2>6, <2>7, <2>8 DEF Model
    <2>10. state.roles \in Written /\ ~HasEmptyFamily(state.roles)
      <3>1. \A r \in DOMAIN state.roles : state.roles[r] # EmptyList
        BY <2>9, RoleMapsFunctions, ValuesAssumption DEF Stored
      <3>2. QED
        BY <2>6, <2>7, <2>8, <3>1 DEF HasEmptyFamily
    <2>11. QED
      BY <2>5, <2>6, <2>8, <2>10, WireKeeps
  <1>2. QED
    BY <1>1, CAlways, StateIsTheRow, AppliedIsSettled, PTL
=============================================================================
