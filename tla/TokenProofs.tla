----------------------------- MODULE TokenProofs ----------------------------
(***************************************************************************)
(* Proofs about Token, for every set of ids and generations and every      *)
(* bound, and that it implements Rotation under create_before_destroy.     *)
(***************************************************************************)
EXTENDS Token, FiniteSetTheorems, TLAPS

(***************************************************************************)
(* What the handler in flight holds.  A creation has no current object     *)
(* beside it, and the object it may have to put back is a deposed one; a   *)
(* deletion works on an object of the state, and only the default order    *)
(* goes on to create.                                                      *)
(***************************************************************************)
Creating ==
  op.pc \in {"issue", "list"} =>
    /\ config # Null /\ current = Null /\ op.then = "stop"
    /\ op.prior = Null \/ op.prior \in deposed

Handler ==
  /\ op.pc = "idle" => op = Idle
  /\ op.pc = "issue" => op.obj = Null
  /\ op.pc = "list" => op.obj \in Object /\ op.obj.secret
  /\ op.pc = "revoke" => op.obj \in InState /\ op.prior = Null
  /\ op.then = "create" => op.obj = current /\ config # Null /\ order = "last"

\* By default nothing is ever deposed.
NoneDeposed == order = "last" => deposed = {} /\ op.prior = Null

OInv == TypeOK /\ Creating /\ Handler /\ NoneDeposed

LEMMA InitO == Init => OInv
  BY ConstantsAssumption
  DEF Init, OInv, TypeOK, Creating, Handler, NoneDeposed, Idle, InState

LEMMA FreshId == Fresh # {} => NextId \in Ids /\ tokens[NextId] = "unissued"
  BY DEF Fresh, NextId

LEMMA HeldType == ASSUME TypeOK PROVE Held \subseteq Object /\ InState \subseteq Object
  BY DEF TypeOK, Held, InState

LEMMA SpendType ==
  ASSUME TypeOK, NEW o, Spend(o)
  PROVE  spent' \in [edits: 0..MaxEdits, drift: 0..MaxDrift, faults: 0..MaxFaults]
  BY ConstantsAssumption DEF TypeOK, Spend

LEMMA DriftType ==
  ASSUME TypeOK, DriftSpent
  PROVE  spent' \in [edits: 0..MaxEdits, drift: 0..MaxDrift, faults: 0..MaxFaults]
  BY ConstantsAssumption DEF TypeOK, DriftSpent

-----------------------------------------------------------------------------
(* The types and the handler                                               *)

\* The deposed object goes back to its place, or there was none.
LEMMA PutBack ==
  ASSUME OInv, op.pc = "issue", NothingCreated
  PROVE  /\ op' = Idle /\ current' \in Object \cup {Null} /\ deposed' \subseteq Object
         /\ order = "last" => deposed' = {}
         /\ Held' = Held
  BY ConstantsAssumption, NullIsNoObject
  DEF OInv, TypeOK, Creating, Handler, NoneDeposed, NothingCreated, Held, InState, Idle

LEMMA IssueO == ASSUME OInv, NEW o \in Outcome, Issue(o) PROVE OInv'
  <1>1. NextId \in Ids
    BY FreshId DEF Issue
  <1>2. spent' \in [edits: 0..MaxEdits, drift: 0..MaxDrift, faults: 0..MaxFaults]
    BY SpendType DEF Issue, OInv
  <1>3. CASE agent /\ o = "ok"
    <2>1. config \in Generations /\ op.pc = "issue"
      BY DEF Issue, OInv, TypeOK, Creating
    <2>2. [id |-> NextId, gen |-> config, secret |-> TRUE, tainted |-> FALSE] \in Object
      BY <1>1, <2>1 DEF Object
    <2>3. tokens' \in [Ids -> {"unissued", "live", "dead", "gone"}]
      BY <1>1, <1>3 DEF Issue, OInv, TypeOK
    <2>4. op = [pc |-> op.pc, obj |-> op.obj, prior |-> op.prior, then |-> op.then]
      BY DEF OInv, TypeOK
    <2>5. op' = [op EXCEPT !.pc = "list",
                   !.obj = [id |-> NextId, gen |-> config,
                            secret |-> TRUE, tainted |-> FALSE]]
      BY <1>3 DEF Issue
    <2>6. op' = [pc |-> "list",
                 obj |-> [id |-> NextId, gen |-> config,
                          secret |-> TRUE, tainted |-> FALSE],
                 prior |-> op.prior, then |-> op.then]
      BY <2>4, <2>5
    <2>7. op.prior \in Object \cup {Null} /\ op.then \in {"stop", "create"}
      BY DEF OInv, TypeOK
    <2>8. op' \in [pc: {"idle", "issue", "list", "revoke"}, obj: Object \cup {Null},
                   prior: Object \cup {Null}, then: {"stop", "create"}]
      BY <2>2, <2>6, <2>7
    <2>9. UNCHANGED <<agent, config, order, current, deposed, consumer,
                      imported, orphans, lapsed, unheard>>
      BY <1>3 DEF Issue, block, stateVars
    <2>10. TypeOK'
      BY <1>2, <2>3, <2>8, <2>9 DEF OInv, TypeOK
    <2>11. /\ op'.pc = "list" /\ op'.obj \in Object /\ op'.obj.secret
          /\ op'.prior = op.prior /\ op'.then = op.then
      BY <2>2, <2>6
    <2>12. UNCHANGED <<config, order, current, deposed>>
      BY <1>3 DEF Issue, block, stateVars
    <2>13. QED
      BY <2>10, <2>11, <2>12 DEF Issue, OInv, Creating, Handler, NoneDeposed
  <1>4. CASE ~(agent /\ o = "ok")
    <2>1. NothingCreated /\ UNCHANGED <<agent, config, order, consumer, imported, lapsed, unheard>>
      BY <1>4 DEF Issue, block
    <2>2. /\ tokens' \in [Ids -> {"unissued", "live", "dead", "gone"}]
          /\ orphans' \subseteq Ids
      BY <1>1, <1>4 DEF Issue, OInv, TypeOK
    <2>3. /\ op' = Idle /\ current' \in Object \cup {Null} /\ deposed' \subseteq Object
          /\ order = "last" => deposed' = {}
      BY <2>1, PutBack DEF Issue
    <2>4. TypeOK'
      BY <1>2, <2>1, <2>2, <2>3 DEF OInv, TypeOK, Idle
    <2>5. QED
      BY <2>1, <2>3, <2>4 DEF OInv, Creating, Handler, NoneDeposed, Idle
  <1>5. QED
    BY <1>3, <1>4

LEMMA ListO == ASSUME OInv, NEW o \in Outcome, List(o) PROVE OInv'
  <1>1. spent' \in [edits: 0..MaxEdits, drift: 0..MaxDrift, faults: 0..MaxFaults]
    BY SpendType DEF List, OInv
  <1>2. current' \in Object
    BY DEF List, OInv, Handler, Object
  <1>3. op' = Idle /\ UNCHANGED <<tokens, agent, config, order, deposed, consumer,
                                  imported, orphans, lapsed, unheard>>
    BY DEF List, hubVars, block, history
  <1>4. TypeOK'
    BY <1>1, <1>2, <1>3 DEF OInv, TypeOK, Idle
  <1>5. QED
    BY <1>3, <1>4 DEF OInv, Creating, Handler, NoneDeposed, Idle

LEMMA RevokeO == ASSUME OInv, NEW o \in Outcome, Revoke(o) PROVE OInv'
  <1>1. spent' \in [edits: 0..MaxEdits, drift: 0..MaxDrift, faults: 0..MaxFaults]
    BY SpendType DEF Revoke, OInv
  <1>2. op.obj \in Object
    BY HeldType DEF Revoke, OInv, Handler
  <1>3. op.obj.id \in Ids
    BY <1>2 DEF Object
  <1>4. /\ tokens' \in [Ids -> {"unissued", "live", "dead", "gone"}]
        /\ unheard' \subseteq Ids
        /\ current' \in {current, Null} /\ deposed' \subseteq deposed
        /\ UNCHANGED <<agent, config, order, consumer, imported, orphans, lapsed>>
    BY <1>3 DEF Revoke, OInv, TypeOK, block, stateVars
  <1>5. CASE op' = Idle
    <2>1. TypeOK'
      BY <1>1, <1>4, <1>5 DEF OInv, TypeOK, Idle
    <2>2. QED
      BY <1>4, <1>5, <2>1 DEF OInv, Creating, Handler, NoneDeposed, Idle
  <1>6. CASE o = "ok" /\ op.then = "create"
    <2>1. op' = [Idle EXCEPT !.pc = "issue"] /\ current' = Null
      BY <1>6 DEF Revoke, OInv, Handler
    <2>2. TypeOK'
      BY <1>1, <1>4, <2>1 DEF OInv, TypeOK, Idle
    <2>3. QED
      BY <1>4, <1>6, <2>1, <2>2 DEF OInv, Creating, Handler, NoneDeposed, Idle
  <1>7. QED
    BY <1>5, <1>6 DEF Revoke

LEMMA ReadO == ASSUME OInv, Read PROVE OInv'
  <1>1. PICK x \in InState :
          /\ current' = (IF current = x THEN Null ELSE current)
          /\ deposed' = deposed \ {x}
    BY DEF Read
  <1>2. /\ op = Idle /\ op' = Idle
        /\ UNCHANGED <<tokens, agent, config, order, consumer, imported,
                       orphans, lapsed, unheard, spent>>
    BY DEF Read, OInv, Handler, hubVars, block, history
  <1>3. current' \in Object \cup {Null} /\ deposed' \subseteq deposed
    BY <1>1 DEF OInv, TypeOK
  <1>4. TypeOK'
    BY <1>2, <1>3 DEF OInv, TypeOK
  <1>5. QED
    BY <1>2, <1>3, <1>4 DEF OInv, Creating, Handler, NoneDeposed, Idle

LEMMA ImportO == ASSUME OInv, NEW i \in Ids, Import(i) PROVE OInv'
  <1>1. current' \in Object
    BY DEF Import, Object
  <1>2. /\ op = Idle /\ op' = Idle /\ imported' \subseteq Ids
        /\ UNCHANGED <<tokens, agent, config, order, deposed, consumer,
                       orphans, lapsed, unheard, spent>>
    BY DEF Import, OInv, Handler, TypeOK, hubVars, block
  <1>3. TypeOK'
    BY <1>1, <1>2 DEF OInv, TypeOK
  <1>4. QED
    BY <1>1, <1>2, <1>3 DEF OInv, Creating, Handler, NoneDeposed, Idle

\* A plan starts a handler and changes neither the hub nor the history.
LEMMA PlanO ==
  ASSUME OInv, PlanCreate \/ PlanReplace \/ PlanDeposed \/ PlanDelete
  PROVE  OInv'
  <1>1. /\ op = Idle /\ current \in Object \cup {Null} /\ deposed \subseteq Object
        /\ UNCHANGED <<tokens, agent, config, order, consumer, imported,
                       orphans, lapsed, unheard, spent>>
    BY DEF PlanCreate, PlanReplace, PlanDeposed, PlanDelete, OInv, Handler,
           TypeOK, hubVars, block, history
  <1>2. CASE PlanCreate
    <2>1. op' = [Idle EXCEPT !.pc = "issue"] /\ config # Null /\ current = Null
          /\ UNCHANGED <<current, deposed>>
      BY <1>2 DEF PlanCreate, stateVars
    <2>2. TypeOK'
      BY <1>1, <2>1 DEF OInv, TypeOK, Idle
    <2>3. QED
      BY <1>1, <2>1, <2>2 DEF OInv, Creating, Handler, NoneDeposed, Idle
  <1>3. CASE PlanReplace
    <2>1. current \in Object /\ config # Null
      BY <1>1, <1>3 DEF PlanReplace, ToReplace
    <2>2. CASE order = "first"
      <3>1. /\ op' = [Idle EXCEPT !.pc = "issue", !.prior = current]
            /\ deposed' = deposed \cup {current} /\ current' = Null
        BY <1>3, <2>2 DEF PlanReplace
      <3>2. TypeOK'
        BY <1>1, <2>1, <3>1 DEF OInv, TypeOK, Idle
      <3>3. QED
        BY <1>1, <2>1, <2>2, <3>1, <3>2 DEF Creating, Handler, NoneDeposed, Idle, OInv
    <2>3. CASE order # "first"
      <3>1. /\ op' = [Idle EXCEPT !.pc = "revoke", !.obj = current, !.then = "create"]
            /\ UNCHANGED <<current, deposed>>
        BY <1>3, <2>3 DEF PlanReplace, stateVars
      <3>2. order = "last"
        BY <2>3 DEF OInv, TypeOK
      <3>3. TypeOK'
        BY <1>1, <2>1, <3>1 DEF OInv, TypeOK, Idle
      <3>4. current' \in InState' /\ current # Null
        BY <2>1, <3>1, NullIsNoObject DEF InState
      <3>5. QED
        BY <1>1, <2>1, <3>1, <3>2, <3>3, <3>4 DEF Creating, Handler, NoneDeposed, Idle, OInv
    <2>4. QED
      BY <2>2, <2>3
  <1>4. CASE PlanDeposed \/ PlanDelete
    <2>1. PICK x \in InState : op' = [Idle EXCEPT !.pc = "revoke", !.obj = x]
      BY <1>4 DEF PlanDeposed, PlanDelete, InState
    <2>2. UNCHANGED <<current, deposed>> /\ x \in Object
      BY <1>4, HeldType DEF PlanDeposed, PlanDelete, stateVars, OInv
    <2>3. TypeOK'
      BY <1>1, <2>1, <2>2 DEF OInv, TypeOK, Idle
    <2>4. QED
      BY <1>1, <2>1, <2>2, <2>3 DEF Creating, Handler, NoneDeposed, Idle, OInv, InState
  <1>5. QED
    BY <1>2, <1>3, <1>4

LEMMA ConsumerO ==
  ASSUME OInv, Deliver \/ Withdraw PROVE OInv'
  <1>1. consumer' \in Ids \cup {Null}
    BY DEF Deliver, Withdraw, Delivered, Steady, ToReplace, Object, OInv, TypeOK
  <1>2. UNCHANGED <<tokens, agent, config, order, current, deposed, op, imported,
                    orphans, lapsed, unheard, spent>>
    BY DEF Deliver, Withdraw, hubVars, block, stateVars, history
  <1>3. TypeOK'
    BY <1>1, <1>2 DEF OInv, TypeOK
  <1>4. QED
    BY <1>2, <1>3 DEF OInv, Creating, Handler, NoneDeposed, InState

LEMMA ConfigureO ==
  ASSUME OInv, NEW c \in Generations \cup {Null}, Configure(c) PROVE OInv'
  <1>1. /\ op = Idle /\ op' = Idle /\ config' = c
        /\ UNCHANGED <<tokens, agent, order, current, deposed, consumer, imported,
                       orphans, lapsed, unheard>>
    BY DEF Configure, OInv, Handler, hubVars, stateVars, history
  <1>2. spent' \in [edits: 0..MaxEdits, drift: 0..MaxDrift, faults: 0..MaxFaults]
    BY ConstantsAssumption DEF Configure, OInv, TypeOK
  <1>3. TypeOK'
    BY <1>1, <1>2 DEF OInv, TypeOK
  <1>4. QED
    BY <1>1, <1>3 DEF OInv, Creating, Handler, NoneDeposed, Idle

LEMMA CrashO == ASSUME OInv, Crash PROVE OInv'
  <1>1. spent' \in [edits: 0..MaxEdits, drift: 0..MaxDrift, faults: 0..MaxFaults]
    BY ConstantsAssumption DEF Crash, OInv, TypeOK
  <1>2. orphans' \subseteq Ids
    BY DEF Crash, OInv, TypeOK, Handler, Object
  <1>3. /\ current' \in Object \cup {Null} /\ deposed' \subseteq deposed
        /\ op' = Idle
        /\ UNCHANGED <<tokens, agent, config, order, consumer, imported, lapsed, unheard>>
    BY DEF Crash, OInv, TypeOK, hubVars, block, stateVars
  <1>4. TypeOK'
    BY <1>1, <1>2, <1>3 DEF OInv, TypeOK, Idle
  <1>5. QED
    BY <1>3, <1>4 DEF OInv, Creating, Handler, NoneDeposed, Idle

LEMMA OthersO == ASSUME OInv, Others PROVE OInv'
  <1>1. spent' \in [edits: 0..MaxEdits, drift: 0..MaxDrift, faults: 0..MaxFaults]
    BY DriftType DEF Others, IssueByHand, RevokedOrExpired, AgentDeleted,
                     AgentCreated, OInv, TypeOK
  <1>2. UNCHANGED <<config, order, current, deposed, op, consumer, orphans, unheard>>
    BY DEF Others, IssueByHand, RevokedOrExpired, AgentDeleted, AgentCreated,
           block, stateVars, history
  <1>3. tokens' \in [Ids -> {"unissued", "live", "dead", "gone"}] /\ agent' \in BOOLEAN
        /\ imported' \subseteq Ids /\ lapsed' \subseteq Ids
    <2>1. CASE IssueByHand
      BY <2>1, FreshId DEF IssueByHand, OInv, TypeOK
    <2>2. CASE RevokedOrExpired
      BY <2>2 DEF RevokedOrExpired, OInv, TypeOK
    <2>3. CASE AgentDeleted
      BY <2>3 DEF AgentDeleted, OInv, TypeOK
    <2>4. CASE AgentCreated
      BY <2>4 DEF AgentCreated, history, OInv, TypeOK
    <2>5. QED
      BY <2>1, <2>2, <2>3, <2>4 DEF Others
  <1>4. TypeOK'
    BY <1>1, <1>2, <1>3 DEF OInv, TypeOK
  <1>5. QED
    BY <1>2, <1>4 DEF OInv, Creating, Handler, NoneDeposed, InState

LEMMA NextO == ASSUME OInv, [Next]_vars PROVE OInv'
  <1>1. ASSUME NEW o \in Outcome, Step(o) PROVE OInv'
    BY <1>1, IssueO, ListO, RevokeO DEF Step
  <1>2. CASE Run
    BY <1>2, PlanO, ConsumerO DEF Run
  <1>3. CASE UNCHANGED vars
    BY <1>3 DEF vars, hubVars, block, stateVars, history, OInv, TypeOK,
                Creating, Handler, NoneDeposed, InState
  <1>4. QED
    BY <1>1, <1>2, <1>3, ReadO, ImportO, ConfigureO, CrashO, OthersO DEF Next

\* The types, and the shape of the handler in flight, hold in every state of
\* every interleaving of failures, killed runs, imports and drift.
THEOREM TypeCorrect == Spec => []TypeOK
  <1>1. OInv => TypeOK
    BY DEF OInv
  <1>2. QED
    BY <1>1, InitO, NextO, PTL DEF Spec

-----------------------------------------------------------------------------
(* What each step does to the objects that are held                        *)

LEMMA HeldIssue ==
  ASSUME OInv, NEW o \in Outcome, Issue(o)
  PROVE  /\ agent /\ o = "ok" =>
              /\ op'.obj = [id |-> NextId, gen |-> config, secret |-> TRUE,
                            tainted |-> FALSE]
              /\ Held' = Held \cup {op'.obj}
         /\ ~(agent /\ o = "ok") => Held' = Held
  <1>1. CASE agent /\ o = "ok"
    <2>1. op' = [op EXCEPT !.pc = "list",
                   !.obj = [id |-> NextId, gen |-> config,
                            secret |-> TRUE, tainted |-> FALSE]]
          /\ UNCHANGED <<current, deposed>>
      BY <1>1 DEF Issue, stateVars
    <2>2. op = [pc |-> op.pc, obj |-> op.obj, prior |-> op.prior, then |-> op.then]
      BY DEF OInv, TypeOK
    <2>3. op'.obj = [id |-> NextId, gen |-> config, secret |-> TRUE, tainted |-> FALSE]
          /\ op'.prior = op.prior
      BY <2>1, <2>2
    <2>4. op'.obj \in Object
      <3>1. NextId \in Ids /\ config \in Generations
        BY FreshId DEF Issue, OInv, TypeOK, Creating
      <3>2. QED
        BY <2>3, <3>1 DEF Object
    <2>5. op'.obj # Null /\ op.obj = Null
      BY <2>4, NullIsNoObject DEF Issue, OInv, Handler
    <2>6. QED
      BY <1>1, <2>1, <2>3, <2>5 DEF Held, InState
  <1>2. CASE ~(agent /\ o = "ok")
    BY <1>2, PutBack DEF Issue
  <1>3. QED
    BY <1>1, <1>2

LEMMA HeldList ==
  ASSUME OInv, NEW o \in Outcome, List(o)
  PROVE  /\ current' = [op.obj EXCEPT !.tainted = ~(o = "ok" /\ Listed(op.obj.id))]
         /\ op.obj \in Object
         /\ Held = deposed \cup {op.obj} /\ Held' = deposed \cup {current'}
  <1>1. op.obj \in Object /\ current' \in Object
        /\ current' = [op.obj EXCEPT !.tainted = ~(o = "ok" /\ Listed(op.obj.id))]
    BY DEF List, OInv, Handler, Object
  <1>2. op' = Idle /\ deposed' = deposed /\ current = Null
        /\ (op.prior = Null \/ op.prior \in deposed)
    BY DEF List, OInv, Creating
  <1>3. QED
    BY <1>1, <1>2, NullIsNoObject DEF Held, InState, Idle

LEMMA HeldRevoke ==
  ASSUME OInv, NEW o \in Outcome, Revoke(o)
  PROVE  /\ op.obj \in Held /\ op.obj \in Object
         /\ Held' = IF o = "ok" THEN Held \ {op.obj} ELSE Held
  <1>1. op.obj \in Held /\ op.obj \in Object /\ op.obj \in InState /\ op.prior = Null
    BY HeldType, NullIsNoObject DEF Revoke, OInv, Handler, Held
  <1>2. op'.obj = Null /\ op'.prior = Null
    BY DEF Revoke, Idle
  <1>3. Held = InState /\ Held' = InState'
    BY <1>1, <1>2 DEF Held
  <1>4. CASE o = "ok"
    BY <1>1, <1>3, <1>4, NullIsNoObject DEF Revoke, InState
  <1>5. CASE o # "ok"
    BY <1>1, <1>3, <1>5 DEF Revoke, InState, stateVars
  <1>6. QED
    BY <1>1, <1>4, <1>5

LEMMA HeldRead ==
  ASSUME OInv, Read
  PROVE  \E x \in Held : Absent(x.id) /\ Held' = Held \ {x}
  <1>1. PICK x \in InState :
          /\ Absent(x.id)
          /\ current' = (IF current = x THEN Null ELSE current)
          /\ deposed' = deposed \ {x}
    BY DEF Read
  <1>2. op = Idle /\ op' = Idle /\ x # Null
    BY HeldType, NullIsNoObject DEF Read, OInv, Handler
  <1>3. Held = InState /\ Held' = InState'
    BY <1>2 DEF Held, Idle
  <1>4. QED
    BY <1>1, <1>2, <1>3 DEF InState

LEMMA HeldImport ==
  ASSUME OInv, NEW i \in Ids, Import(i)
  PROVE  /\ current' = [id |-> i, gen |-> Unset, secret |-> FALSE, tainted |-> FALSE]
         /\ Held' = Held \cup {current'}
  <1>1. current' \in Object /\ current = Null /\ op = Idle /\ op' = Idle
        /\ deposed' = deposed
        /\ current' = [id |-> i, gen |-> Unset, secret |-> FALSE, tainted |-> FALSE]
    BY DEF Import, Object, OInv, Handler
  <1>2. QED
    BY <1>1, NullIsNoObject DEF Held, InState, Idle

LEMMA HeldCrash ==
  ASSUME OInv, Crash
  PROVE  /\ Held' \subseteq Held
         /\ \A x \in Held : x \in Held' \/ x.id \in orphans'
  <1>1. op' = Idle
    BY DEF Crash
  <1>2. Held' = InState'
    BY <1>1 DEF Held, Idle
  <1>3. CASE UNCHANGED stateVars
    <2>1. InState' = InState
      BY <1>3 DEF stateVars, InState
    <2>2. op.prior = Null \/ op.prior \in InState
      BY DEF Crash, OInv, Creating, Handler, TypeOK, InState
    <2>3. op.obj = Null \/ op.obj \in InState \/ op.obj.id \in orphans'
      BY DEF Crash, OInv, Handler, TypeOK
    <2>4. QED
      BY <1>2, <2>1, <2>2, <2>3 DEF Held
  <1>4. CASE op.prior # Null /\ current' = op.prior /\ deposed' = deposed \ {op.prior}
    <2>1. op.pc \in {"issue", "list"}
      BY <1>4 DEF Crash, OInv, TypeOK, Handler
    <2>2. current = Null /\ op.prior \in deposed
      BY <1>4, <2>1 DEF OInv, Creating
    <2>3. InState' = InState
      BY <1>4, <2>2 DEF InState
    <2>4. QED
      BY <1>2, <2>1, <2>2, <2>3 DEF Crash, Held, InState, OInv, Handler
  <1>5. QED
    BY <1>3, <1>4 DEF Crash

LEMMA HeldElse ==
  ASSUME OInv, Run \/ Others \/ UNCHANGED vars
               \/ \E c \in Generations \cup {Null} : Configure(c)
  PROVE  Held' = Held
  <1>1. CASE PlanCreate
    BY <1>1 DEF PlanCreate, OInv, Handler, Idle, Held, InState, stateVars
  <1>2. CASE PlanReplace
    <2>1. op = Idle /\ current # Null
      BY <1>2 DEF PlanReplace, OInv, Handler, ToReplace
    <2>2. CASE order = "first"
      <3>1. op'.obj = Null /\ op'.prior = current
            /\ deposed' = deposed \cup {current} /\ current' = Null
        BY <1>2, <2>2 DEF PlanReplace, Idle
      <3>2. QED
        BY <2>1, <3>1 DEF Held, InState, Idle
    <2>3. CASE order # "first"
      <3>1. op'.obj = current /\ op'.prior = Null /\ UNCHANGED <<current, deposed>>
        BY <1>2, <2>3 DEF PlanReplace, Idle, stateVars
      <3>2. QED
        BY <2>1, <3>1 DEF Held, InState, Idle
    <2>4. QED
      BY <2>2, <2>3
  <1>3. CASE PlanDeposed \/ PlanDelete
    <2>1. /\ op = Idle /\ op'.obj \in InState /\ op'.prior = Null
          /\ UNCHANGED <<current, deposed>>
      BY <1>3 DEF PlanDeposed, PlanDelete, OInv, Handler, Idle, InState, stateVars
    <2>2. QED
      BY <2>1 DEF Held, InState, Idle
  <1>4. CASE \/ Deliver \/ Withdraw \/ Others \/ UNCHANGED vars
             \/ \E c \in Generations \cup {Null} : Configure(c)
    <2>1. UNCHANGED <<current, deposed, op>>
      BY <1>4 DEF Deliver, Withdraw, Configure, Others, IssueByHand,
                  RevokedOrExpired, AgentDeleted, AgentCreated, vars, stateVars
    <2>2. QED
      BY <2>1 DEF Held, InState
  <1>5. QED
    BY <1>1, <1>2, <1>3, <1>4 DEF Run

-----------------------------------------------------------------------------
(* The credentials and their plaintext                                     *)

\* Whatever is held or was issued by hand has been issued, and no two objects
\* stand for one token: without this a put-back or an import could bring back
\* a second object with another idea of the plaintext.
Known ==
  /\ \A o \in Held : tokens[o.id] # "unissued"
  /\ \A i \in imported : tokens[i] # "unissued"
Distinct ==
  /\ \A o, p \in Held : o.id = p.id => o = p
  /\ op.pc = "list" => op.obj \notin deposed

KInv == OInv /\ Known /\ Distinct /\ PlaintextKept /\ NoInvisibleCredential

LEMMA HeldIds == ASSUME OInv, NEW o \in Held PROVE o \in Object /\ o.id \in Ids
  BY HeldType DEF OInv, Object

LEMMA InitK == Init => KInv
  <1>1. ASSUME Init PROVE KInv
    <2>1. Held = {} /\ imported = {}
      BY <1>1 DEF Init, Held, InState, Idle
    <2>2. op.pc = "idle" /\ \A i \in Ids : tokens[i] # "live"
      BY <1>1 DEF Init, Idle
    <2>3. QED
      BY <1>1, <2>1, <2>2, InitO
      DEF KInv, Known, Distinct, PlaintextKept, NoInvisibleCredential
  <1>2. QED
    BY <1>1

\* No step takes an id back.
LEMMA IdsSpent ==
  ASSUME OInv, [Next]_vars, NEW i \in Ids, tokens'[i] = "unissued"
  PROVE  tokens[i] = "unissued"
  <1>1. CASE \E o \in Outcome : Issue(o)
    BY <1>1 DEF Issue, OInv, TypeOK
  <1>2. CASE \E o \in Outcome : Revoke(o)
    BY <1>2 DEF Revoke, OInv, TypeOK
  <1>3. CASE Others
    <2>1. CASE IssueByHand
      BY <2>1 DEF IssueByHand, OInv, TypeOK
    <2>2. CASE RevokedOrExpired
      BY <2>2 DEF RevokedOrExpired, OInv, TypeOK
    <2>3. CASE AgentDeleted
      BY <2>3 DEF AgentDeleted, OInv, TypeOK, Listed
    <2>4. CASE AgentCreated
      BY <2>4 DEF AgentCreated
    <2>5. QED
      BY <1>3, <2>1, <2>2, <2>3, <2>4 DEF Others
  <1>4. CASE ~(Others \/ \E o \in Outcome : Issue(o) \/ Revoke(o))
    <2>1. tokens' = tokens
      BY <1>4 DEF Next, Run, Step, List, Read, Import, Crash, Configure, PlanCreate,
         PlanReplace, Deliver, PlanDeposed, Withdraw, PlanDelete, vars, hubVars
    <2>2. QED
      BY <2>1
  <1>5. QED
    BY <1>1, <1>2, <1>3, <1>4

\* A step that takes up no object keeps what is known of those it keeps; a
\* token issued by hand had no object.
TakesUpNothing ==
  /\ Held' \subseteq Held
  /\ imported \subseteq imported'
  /\ \A i \in imported' \ imported : i \in Fresh /\ tokens'[i] # "unissued"
  /\ op'.pc = "list" => UNCHANGED <<op, deposed>>

LEMMA Kept ==
  ASSUME KInv, [Next]_vars, TakesUpNothing
  PROVE  Known' /\ Distinct' /\ PlaintextKept'
  <1>1. \A o \in Held' : tokens'[o.id] # "unissued"
    BY IdsSpent, HeldIds DEF KInv, Known, TakesUpNothing
  <1>2. \A i \in imported' : tokens'[i] # "unissued"
    BY IdsSpent DEF KInv, Known, OInv, TypeOK, TakesUpNothing
  <1>3. \A o \in Held' : o.id \in imported' <=> o.id \in imported
    BY DEF KInv, Known, Fresh, TakesUpNothing
  <1>4. QED
    BY <1>1, <1>2, <1>3 DEF KInv, Known, Distinct, PlaintextKept, TakesUpNothing

LEMMA NextStep == ASSUME NEW o \in Outcome, Step(o) PROVE [Next]_vars
  BY DEF Next

LEMMA IssueK == ASSUME KInv, NEW o \in Outcome, Issue(o) PROVE KInv'
  <1>1. [Next]_vars /\ OInv' /\ OInv
    BY NextStep, IssueO DEF Step, KInv
  <1>2. NextId \in Ids /\ tokens[NextId] = "unissued"
    BY FreshId DEF Issue
  <1>3. imported' = imported
    BY DEF Issue
  <1>4. CASE agent /\ o = "ok"
    <2>1. PICK n : n = [id |-> NextId, gen |-> config, secret |-> TRUE, tainted |-> FALSE]
                   /\ Held' = Held \cup {n}
      BY <1>1, <1>4, HeldIssue
    <2>2. n.id = NextId /\ n.secret = TRUE
      BY <2>1
    <2>3. tokens' = [tokens EXCEPT ![NextId] = "live"] /\ orphans' = orphans
      BY <1>4 DEF Issue
    <2>4. \A p \in Held : p.id # NextId
      BY <1>2 DEF KInv, Known
    <2>5. NextId \notin imported
      BY <1>2 DEF KInv, Known
    <2>6. Known'
      BY <1>1, <1>2, <1>3, <2>1, <2>2, <2>3, <2>4, <2>5, HeldIds DEF KInv, Known, OInv, TypeOK
    <2>7. Distinct'
      <3>1. n \notin deposed /\ deposed' = deposed /\ op'.obj = n
        BY <1>1, <1>4, <2>1, <2>2, <2>4, HeldIssue DEF Issue, stateVars, Held, InState
      <3>2. QED
        BY <2>1, <2>2, <2>4, <3>1 DEF KInv, Distinct
    <2>8. PlaintextKept'
      BY <1>3, <2>1, <2>2, <2>5 DEF KInv, PlaintextKept
    <2>9. NoInvisibleCredential'
      BY <1>1, <1>2, <1>3, <2>1, <2>2, <2>3
      DEF KInv, NoInvisibleCredential, Tracked, OInv, TypeOK
    <2>10. QED
      BY <1>1, <2>6, <2>7, <2>8, <2>9 DEF KInv
  <1>5. CASE ~(agent /\ o = "ok")
    <2>1. Held' = Held
      BY <1>1, <1>5, HeldIssue
    <2>2. Known' /\ Distinct' /\ PlaintextKept'
      <3>1. op'.pc # "list"
        BY <1>5 DEF Issue, NothingCreated, Idle
      <3>2. QED
        BY <1>1, <1>3, <2>1, <3>1, Kept DEF TakesUpNothing
    <2>3. \/ UNCHANGED <<tokens, orphans>>
          \/ tokens' = [tokens EXCEPT ![NextId] = "live"] /\ orphans' = orphans \cup {NextId}
      BY <1>5 DEF Issue
    <2>4. NoInvisibleCredential'
      BY <1>1, <1>2, <1>3, <2>1, <2>3
      DEF KInv, NoInvisibleCredential, Tracked, OInv, TypeOK
    <2>5. QED
      BY <1>1, <2>2, <2>4 DEF KInv
  <1>6. QED
    BY <1>4, <1>5

LEMMA ListK == ASSUME KInv, NEW o \in Outcome, List(o) PROVE KInv'
  <1>1. OInv' /\ OInv /\ UNCHANGED <<tokens, imported, orphans>>
    BY ListO DEF KInv, List, hubVars, history
  <1>2. /\ op.obj \in Object /\ current'.id = op.obj.id /\ current'.secret = op.obj.secret
        /\ Held = deposed \cup {op.obj} /\ Held' = deposed \cup {current'}
    BY <1>1, HeldList DEF Object
  <1>3. op.obj \in Held
    BY <1>2
  <1>4. Known'
    BY <1>1, <1>2, <1>3 DEF KInv, Known
  <1>5. Distinct'
    <2>1. op.obj \notin deposed /\ op'.pc # "list"
      BY DEF List, KInv, Distinct, Idle
    <2>2. \A p \in deposed : p.id # op.obj.id
      BY <1>2, <2>1 DEF KInv, Distinct
    <2>3. QED
      BY <1>2, <2>1, <2>2 DEF KInv, Distinct
  <1>6. PlaintextKept'
    BY <1>1, <1>2, <1>3 DEF KInv, PlaintextKept
  <1>7. Tracked' = Tracked
    BY <1>2 DEF Tracked
  <1>8. NoInvisibleCredential'
    BY <1>1, <1>7 DEF KInv, NoInvisibleCredential
  <1>9. QED
    BY <1>1, <1>4, <1>5, <1>6, <1>8 DEF KInv

LEMMA RevokeK == ASSUME KInv, NEW o \in Outcome, Revoke(o) PROVE KInv'
  <1>1. [Next]_vars /\ OInv' /\ OInv
    BY NextStep, RevokeO DEF Step, KInv
  <1>2. /\ op.obj \in Held /\ op.obj \in Object
        /\ Held' = IF o = "ok" THEN Held \ {op.obj} ELSE Held
    BY <1>1, HeldRevoke
  <1>3. op'.pc # "list" /\ UNCHANGED <<imported, orphans>>
    BY DEF Revoke, Idle
  <1>4. Known' /\ Distinct' /\ PlaintextKept'
    BY <1>1, <1>2, <1>3, Kept DEF TakesUpNothing
  <1>5. tokens' = IF o # "refused" /\ Listed(op.obj.id)
                    THEN [tokens EXCEPT ![op.obj.id] = "dead"] ELSE tokens
    BY DEF Revoke
  <1>6. ASSUME NEW i \in Ids, tokens'[i] = "live", i \notin imported, i \notin orphans
        PROVE  i \in Tracked'
    <2>1. tokens[i] = "live" /\ (o = "ok" => i # op.obj.id)
      BY <1>1, <1>5, <1>6 DEF OInv, TypeOK, Listed
    <2>2. PICK x \in Held : x.id = i
      BY <1>6, <2>1 DEF KInv, NoInvisibleCredential, Tracked
    <2>3. QED
      BY <1>2, <2>1, <2>2 DEF Tracked
  <1>7. QED
    BY <1>1, <1>3, <1>4, <1>6 DEF KInv, NoInvisibleCredential

LEMMA ReadK == ASSUME KInv, Read PROVE KInv'
  <1>1. [Next]_vars /\ OInv' /\ OInv
    BY ReadO DEF Next, KInv
  <1>2. PICK x \in Held : Absent(x.id) /\ Held' = Held \ {x}
    BY <1>1, HeldRead
  <1>3. UNCHANGED <<tokens, op, imported, orphans>> /\ op.pc = "idle"
    BY DEF Read, hubVars, history
  <1>4. Known' /\ Distinct' /\ PlaintextKept'
    BY <1>1, <1>2, <1>3, Kept DEF TakesUpNothing
  <1>5. ASSUME NEW i \in Ids, tokens[i] = "live", i \notin imported, i \notin orphans
        PROVE  i \in Tracked'
    <2>1. PICK y \in Held : y.id = i
      BY <1>5 DEF KInv, NoInvisibleCredential, Tracked
    <2>2. y # x
      BY <1>2, <1>5, <2>1 DEF Absent, Listed
    <2>3. QED
      BY <1>2, <2>1, <2>2 DEF Tracked
  <1>6. QED
    BY <1>1, <1>3, <1>4, <1>5 DEF KInv, NoInvisibleCredential

LEMMA ImportK == ASSUME KInv, NEW i \in Ids, Import(i) PROVE KInv'
  <1>1. OInv' /\ OInv
    BY ImportO DEF KInv
  <1>2. PICK n : n = [id |-> i, gen |-> Unset, secret |-> FALSE, tainted |-> FALSE]
                 /\ Held' = Held \cup {n}
    BY <1>1, HeldImport
  <1>3. n.id = i /\ n.secret = FALSE
    BY <1>2
  <1>4. /\ UNCHANGED <<tokens, op, orphans>> /\ op.pc = "idle"
        /\ imported' = imported \cup {i} /\ Listed(i) /\ i \notin Tracked
    BY DEF Import, hubVars
  <1>5. \A p \in Held : p.id # i
    BY <1>4 DEF Tracked
  <1>6. Known'
    BY <1>2, <1>3, <1>4 DEF KInv, Known, Listed
  <1>7. Distinct'
    BY <1>2, <1>3, <1>4, <1>5 DEF KInv, Distinct
  <1>8. PlaintextKept'
    BY <1>2, <1>3, <1>4, <1>5 DEF KInv, PlaintextKept
  <1>9. NoInvisibleCredential'
    BY <1>2, <1>4 DEF KInv, NoInvisibleCredential, Tracked
  <1>10. QED
    BY <1>1, <1>6, <1>7, <1>8, <1>9 DEF KInv

LEMMA CrashK == ASSUME KInv, Crash PROVE KInv'
  <1>1. [Next]_vars /\ OInv' /\ OInv
    BY CrashO DEF Next, KInv
  <1>2. Held' \subseteq Held /\ \A x \in Held : x \in Held' \/ x.id \in orphans'
    BY <1>1, HeldCrash
  <1>3. op'.pc # "list" /\ UNCHANGED <<tokens, imported>> /\ orphans \subseteq orphans'
    BY DEF Crash, Idle, hubVars
  <1>4. Known' /\ Distinct' /\ PlaintextKept'
    BY <1>1, <1>2, <1>3, Kept DEF TakesUpNothing
  <1>5. NoInvisibleCredential'
    BY <1>2, <1>3 DEF KInv, NoInvisibleCredential, Tracked
  <1>6. QED
    BY <1>1, <1>4, <1>5 DEF KInv

\* The plans, the consumers, the operator and the hub's other clients leave
\* what is held alone; what they make live they issued themselves.
LEMMA ElseK ==
  ASSUME KInv, Run \/ Others \/ UNCHANGED vars
               \/ \E c \in Generations \cup {Null} : Configure(c)
  PROVE  KInv'
  <1>1. [Next]_vars /\ OInv
    BY DEF Next, KInv
  <1>2. OInv' /\ Held' = Held
    BY <1>1, NextO, HeldElse
  <1>3. op'.pc = "list" => UNCHANGED <<op, deposed>>
    BY DEF Run, PlanCreate, PlanReplace, Deliver, PlanDeposed, Withdraw, PlanDelete,
           Others, IssueByHand, RevokedOrExpired, AgentDeleted, AgentCreated,
           Configure, vars, stateVars, Idle
  <1>4. /\ orphans' = orphans /\ imported \subseteq imported'
        /\ \A i \in imported' \ imported : i \in Fresh /\ tokens'[i] # "unissued"
        /\ \A i \in Ids : tokens'[i] = "live" => tokens[i] = "live" \/ i \in imported'
    <2>1. CASE IssueByHand
      BY <1>1, <2>1, FreshId DEF IssueByHand, OInv, TypeOK, Fresh
    <2>2. CASE RevokedOrExpired
      BY <1>1, <2>2 DEF RevokedOrExpired, OInv, TypeOK
    <2>3. CASE AgentDeleted
      BY <1>1, <2>3 DEF AgentDeleted, OInv, TypeOK
    <2>4. CASE ~(IssueByHand \/ RevokedOrExpired \/ AgentDeleted)
      BY <2>4 DEF Others, Run, PlanCreate, PlanReplace, Deliver, PlanDeposed,
         Withdraw, PlanDelete, AgentCreated, Configure, vars, hubVars, history
    <2>5. QED
      BY <2>1, <2>2, <2>3, <2>4
  <1>5. Known' /\ Distinct' /\ PlaintextKept'
    BY <1>1, <1>2, <1>3, <1>4, Kept DEF TakesUpNothing
  <1>6. NoInvisibleCredential'
    BY <1>2, <1>4 DEF KInv, NoInvisibleCredential, Tracked
  <1>7. QED
    BY <1>2, <1>5, <1>6 DEF KInv

LEMMA NextK == ASSUME KInv, [Next]_vars PROVE KInv'
  BY IssueK, ListK, RevokeK, ReadK, ImportK, CrashK, ElseK DEF Next, Step

LEMMA KAlways == Spec => []KInv
  BY InitK, NextK, PTL DEF Spec

\* A token the provider issued and the hub still accepts is in the state or in
\* the hands of the handler about to put it there; only an answer that never
\* came, or a killed run, leaves one outside.
THEOREM NoCredentialIsLost == Spec => []NoInvisibleCredential
  <1>1. KInv => NoInvisibleCredential
    BY DEF KInv
  <1>2. QED
    BY <1>1, KAlways, PTL

\* Exactly the tokens issued outside the provider are without plaintext, in
\* whichever order objects are deposed, put back, tainted and imported.
THEOREM PlaintextIsKept == Spec => []PlaintextKept
  <1>1. KInv => PlaintextKept
    BY DEF KInv
  <1>2. QED
    BY <1>1, KAlways, PTL

-----------------------------------------------------------------------------
(* One generation at a time by default, and what a step may not give up    *)

LEMMA OneHeld ==
  ASSUME OInv, order = "last", NEW x \in Held, NEW y \in Held
  PROVE  x = y
  <1>1. InState = {current} \ {Null} /\ op.prior = Null /\ deposed = {}
    BY DEF OInv, NoneDeposed, InState
  <1>2. CASE op.pc = "idle"
    BY <1>1, <1>2 DEF OInv, Handler, Idle, Held
  <1>3. CASE op.pc \in {"issue", "list"}
    BY <1>1, <1>3 DEF OInv, Creating, Held
  <1>4. CASE op.pc = "revoke"
    BY <1>1, <1>4 DEF OInv, Handler, Held
  <1>5. QED
    BY <1>2, <1>3, <1>4 DEF OInv, TypeOK

\* Under the default order no two credentials of the block are accepted at the
\* same time, however many revocations failed before.
THEOREM OneGenerationByDefault == Spec => []OneLiveByDefault
  <1>1. ASSUME KInv PROVE OneLiveByDefault
    <2> DEFINE S == {i \in Ids : tokens[i] = "live"
                                 /\ i \notin (imported \ Tracked) \cup orphans}
    <2>1. SUFFICES ASSUME order = "last" PROVE Cardinality(S) <= 1
      BY DEF OneLiveByDefault
    <2>2. S \subseteq Tracked
      BY <1>1 DEF KInv, NoInvisibleCredential
    <2>3. ASSUME NEW i \in S, NEW j \in S PROVE i = j
      BY <1>1, <2>1, <2>2, <2>3, OneHeld DEF KInv, Tracked
    <2>4. CASE S = {}
      BY <2>4, FS_EmptySet
    <2>5. CASE S # {}
      <3>1. PICK i \in S : S = {i}
        BY <2>3, <2>5
      <3>2. Cardinality({i}) = 1
        BY FS_Singleton
      <3> HIDE DEF S
      <3>3. QED
        BY <3>1, <3>2
    <2>6. QED
      BY <2>4, <2>5
  <1>2. QED
    BY <1>1, KAlways, PTL

\* The state gives up an object only when it is done with: the row is gone, or
\* the object's own revocation took effect in this very step; or, alone of all
\* failures, the run is killed with the object in hand.
THEOREM ForgottenAreDone == Spec => ForgottenOnlyWhenDone
  <1> DEFINE Given == \A o \in Held : o \notin Held' =>
                         \/ ~Listed(o.id)
                         \/ op.pc = "revoke" /\ op.obj = o /\ tokens'[o.id] # "live"
                         \/ \E p \in Held' : p.id = o.id
                         \/ o.id \in orphans'
  <1>1. ASSUME KInv, [Next]_vars PROVE Given
    <2>1. OInv /\ \A o \in Held : o \in Object /\ o.id \in Ids
      BY <1>1, HeldIds DEF KInv
    <2>2. ASSUME NEW r \in Outcome, Issue(r) PROVE Given
      BY <2>1, <2>2, HeldIssue
    <2>3. ASSUME NEW r \in Outcome, List(r) PROVE Given
      BY <2>1, <2>3, HeldList DEF Object
    <2>4. ASSUME NEW r \in Outcome, Revoke(r) PROVE Given
      <3>1. /\ op.obj \in Held /\ Held \ {op.obj} \subseteq Held'
            /\ r # "ok" => Held' = Held
        BY <2>1, <2>4, HeldRevoke
      <3>2. r = "ok" => op.pc = "revoke" /\ tokens'[op.obj.id] # "live"
        BY <2>1, <2>4, <3>1 DEF Revoke, OInv, TypeOK, Listed
      <3>3. QED
        BY <3>1, <3>2
    <2>5. CASE Read
      <3>1. PICK x \in Held : Absent(x.id) /\ Held' = Held \ {x}
        BY <2>1, <2>5, HeldRead
      <3>2. QED
        BY <3>1 DEF Absent
    <2>6. ASSUME NEW i \in Ids, Import(i) PROVE Given
      BY <2>1, <2>6, HeldImport
    <2>7. CASE Crash
      BY <2>1, <2>7, HeldCrash
    <2>8. CASE Run \/ Others \/ UNCHANGED vars
               \/ \E c \in Generations \cup {Null} : Configure(c)
      BY <2>1, <2>8, HeldElse
    <2>9. QED
      BY <1>1, <2>2, <2>3, <2>4, <2>5, <2>6, <2>7, <2>8 DEF Next, Step
  <1>2. QED
    BY <1>1, KAlways, PTL DEF Spec, ForgottenOnlyWhenDone

-----------------------------------------------------------------------------
(* create_before_destroy implements Rotation                               *)

\* An object is current or deposed, so the deposed one being deleted is not the
\* one that was delivered.
Apart == current \notin deposed
NotInUse == order = "first" /\ op.pc = "revoke" => consumer # op.obj.id

RInv == KInv /\ DeadIsAccountedFor /\ Apart /\ NotInUse

LEMMA InitR == Init => RInv
  <1>1. ASSUME Init PROVE Held = {} /\ op.pc = "idle" /\ current \notin deposed
    BY <1>1 DEF Init, Held, InState, Idle
  <1>2. QED
    BY <1>1, InitK DEF RInv, DeadIsAccountedFor, Apart, NotInUse

\* What a token may become.
LEMMA TokenMoves ==
  ASSUME OInv, [Next]_vars, NEW i \in Ids, tokens[i] = "live" \/ i \in lapsed \cup unheard
  PROVE  \/ tokens'[i] = "live" \/ i \in lapsed' \cup unheard'
         \/ \E o \in Outcome : Revoke(o) /\ o = "ok" /\ i = op.obj.id
  <1>1. CASE \E o \in Outcome : Issue(o)
    BY <1>1 DEF Issue, OInv, TypeOK
  <1>2. ASSUME NEW o \in Outcome, Revoke(o)
        PROVE  \/ tokens'[i] = "live" \/ i \in lapsed' \cup unheard'
               \/ o = "ok" /\ i = op.obj.id
    BY <1>2 DEF Revoke, OInv, TypeOK, Outcome
  <1>3. CASE Others
    <2>1. CASE IssueByHand
      BY <2>1 DEF IssueByHand, OInv, TypeOK
    <2>2. CASE RevokedOrExpired
      BY <2>2 DEF RevokedOrExpired, OInv, TypeOK
    <2>3. CASE AgentDeleted
      BY <2>3 DEF AgentDeleted, OInv, TypeOK
    <2>4. CASE AgentCreated
      BY <2>4 DEF AgentCreated, history
    <2>5. QED
      BY <1>3, <2>1, <2>2, <2>3, <2>4 DEF Others
  <1>4. CASE ~(Others \/ \E o \in Outcome : Issue(o) \/ Revoke(o))
    <2>1. UNCHANGED <<tokens, lapsed, unheard>>
      BY <1>4 DEF Next, Run, Step, List, Read, Import, Crash, Configure, PlanCreate,
         PlanReplace, Deliver, PlanDeposed, Withdraw, PlanDelete, vars, hubVars, history
    <2>2. QED
      BY <2>1
  <1>5. QED
    BY <1>1, <1>2, <1>3, <1>4

\* Where a held object of the next state comes from.
LEMMA HeldFrom ==
  ASSUME KInv, [Next]_vars, NEW x \in Held', x.secret
  PROVE  \/ \E y \in Held : y.id = x.id /\ y.secret
         \/ \E o \in Outcome : Issue(o) /\ tokens'[x.id] = "live"
  <1>1. OInv
    BY DEF KInv
  <1>2. ASSUME NEW o \in Outcome, Issue(o), agent /\ o = "ok"
        PROVE  x \in Held \/ tokens'[x.id] = "live"
    <2>1. NextId \in Ids /\ tokens' = [tokens EXCEPT ![NextId] = "live"]
      BY <1>2, FreshId DEF Issue
    <2>2. tokens'[NextId] = "live"
      BY <1>1, <2>1 DEF OInv, TypeOK
    <2>3. x \in Held \/ x.id = NextId
      BY <1>1, <1>2, HeldIssue
    <2>4. QED
      BY <2>2, <2>3
  <1>3. ASSUME NEW o \in Outcome, Issue(o), ~(agent /\ o = "ok") PROVE x \in Held
    BY <1>1, <1>3, HeldIssue
  <1>4. ASSUME NEW o \in Outcome, List(o)
        PROVE \E y \in Held : y.id = x.id /\ y.secret
    <2>1. /\ op.obj \in Object /\ current'.id = op.obj.id /\ current'.secret = op.obj.secret
          /\ Held = deposed \cup {op.obj} /\ Held' = deposed \cup {current'}
      BY <1>1, <1>4, HeldList DEF Object
    <2>2. QED
      BY <2>1
  <1>5. ASSUME NEW o \in Outcome, Revoke(o) PROVE x \in Held
    BY <1>1, <1>5, HeldRevoke
  <1>6. ASSUME NEW i \in Ids, Import(i) PROVE x \in Held
    <2>1. PICK n : n = [id |-> i, gen |-> Unset, secret |-> FALSE, tainted |-> FALSE]
                   /\ Held' = Held \cup {n}
      BY <1>1, <1>6, HeldImport
    <2>2. n.secret = FALSE
      BY <2>1
    <2>3. QED
      BY <2>1, <2>2
  <1>7. Read \/ Crash => x \in Held
    BY <1>1, HeldRead, HeldCrash
  <1>8. CASE Run \/ Others \/ UNCHANGED vars
             \/ \E c \in Generations \cup {Null} : Configure(c)
    BY <1>1, <1>8, HeldElse
  <1>9. QED
    BY <1>2, <1>3, <1>4, <1>5, <1>6, <1>7, <1>8 DEF Next, Step

LEMMA EndedR == ASSUME RInv, [Next]_vars PROVE DeadIsAccountedFor'
  <1>1. KInv /\ OInv /\ OInv'
    BY NextK DEF RInv, KInv
  <1>2. ASSUME NEW x \in Held', x.secret
        PROVE  tokens'[x.id] = "live" \/ x.id \in lapsed' \cup unheard'
    <2>1. CASE tokens'[x.id] = "live"
      BY <2>1
    <2>2. CASE \E y \in Held : y.id = x.id /\ y.secret
      <3>1. PICK y \in Held : y.id = x.id /\ y.secret
        BY <2>2
      <3>2. x.id \in Ids /\ (tokens[x.id] = "live" \/ x.id \in lapsed \cup unheard)
        BY <1>1, <3>1, HeldIds DEF RInv, DeadIsAccountedFor
      <3>3. ASSUME NEW o \in Outcome, Revoke(o), o = "ok" PROVE x.id # op.obj.id
        BY <1>1, <3>3, HeldRevoke DEF KInv, Distinct
      <3>4. QED
        BY <1>1, <3>2, <3>3, TokenMoves
    <2>3. QED
      BY <1>1, <1>2, <2>1, <2>2, HeldFrom
  <1>3. QED
    BY <1>2 DEF DeadIsAccountedFor

LEMMA ApartR == ASSUME RInv, [Next]_vars PROVE Apart'
  <1>1. KInv /\ OInv /\ current \notin deposed /\ deposed \subseteq Object
    BY DEF RInv, Apart, KInv, OInv, TypeOK
  <1>2. ASSUME NEW o \in Outcome, Issue(o) PROVE Apart'
    <2>1. \/ UNCHANGED <<current, deposed>>
          \/ current' = op.prior /\ deposed' = deposed \ {op.prior}
      BY <1>2 DEF Issue, NothingCreated, stateVars
    <2>2. QED
      BY <1>1, <2>1 DEF Apart
  <1>3. ASSUME NEW o \in Outcome, List(o) PROVE Apart'
    <2>1. /\ current'.id = op.obj.id /\ deposed' = deposed
          /\ op.obj \in Held /\ op.obj \notin deposed /\ deposed \subseteq Held
      BY <1>1, <1>3, HeldList DEF KInv, Distinct, List, Object
    <2>2. QED
      BY <1>1, <2>1 DEF Apart, KInv, Distinct
  <1>4. ASSUME NEW i \in Ids, Import(i) PROVE Apart'
    <2>1. current'.id = i /\ deposed' = deposed /\ deposed \subseteq Held /\ i \notin Tracked
      BY <1>1, <1>4, HeldImport DEF Import, Held, InState
    <2>2. QED
      BY <2>1 DEF Apart, Tracked
  <1>5. CASE PlanReplace
    BY <1>1, <1>5, NullIsNoObject DEF PlanReplace, Apart, stateVars, ToReplace, OInv, TypeOK
  <1>6. CASE Read \/ Crash \/ \E o \in Outcome : Revoke(o)
    <2>1. /\ current' \in {current, Null, op.prior}
          /\ deposed' \subseteq deposed
          /\ current' = op.prior /\ op.prior # Null /\ current # op.prior => op.prior \notin deposed'
      BY <1>1, <1>6 DEF Read, Crash, Revoke, stateVars, OInv, Handler
    <2>2. QED
      BY <1>1, <2>1, NullIsNoObject DEF Apart
  <1>7. CASE ~(\/ Read \/ Crash \/ PlanReplace
               \/ \E o \in Outcome : Step(o)
               \/ \E i \in Ids : Import(i))
    <2>1. UNCHANGED <<current, deposed>>
      BY <1>7 DEF Next, Run, Others, PlanCreate, Deliver, PlanDeposed, Withdraw,
         PlanDelete, IssueByHand, RevokedOrExpired, AgentDeleted, AgentCreated,
         Configure, vars, stateVars
    <2>2. QED
      BY <1>1, <2>1 DEF Apart
  <1>8. QED
    BY <1>2, <1>3, <1>4, <1>5, <1>6, <1>7 DEF Step

LEMMA NotInUseR == ASSUME RInv, [Next]_vars PROVE NotInUse'
  <1>1. KInv /\ OInv
    BY DEF RInv, KInv
  <1>2. order' = order
    BY DEF Next, Run, Others, Step, Issue, List, Revoke, Read, Import, Crash,
       PlanCreate, PlanReplace, Deliver, PlanDeposed, Withdraw, PlanDelete,
       IssueByHand, RevokedOrExpired, AgentDeleted, AgentCreated, Configure,
       vars, block
  <1>3. CASE PlanDeposed
    <2>1. PICK x \in deposed : op' = [Idle EXCEPT !.pc = "revoke", !.obj = x]
      BY <1>3 DEF PlanDeposed
    <2>2. x \in Held /\ x.id \in Ids /\ x # current
      BY <1>1, HeldIds DEF RInv, Apart, Held, InState
    <2>3. consumer' = Null \/ (current \in Held /\ consumer' = current.id)
      BY <1>3 DEF PlanDeposed, Steady, Delivered, Held, InState
    <2>4. consumer' # x.id
      BY <1>1, <2>2, <2>3, ConstantsAssumption DEF KInv, Distinct
    <2>5. QED
      BY <2>1, <2>4 DEF NotInUse, Idle
  <1>4. CASE PlanDelete
    <2>1. op' = [Idle EXCEPT !.pc = "revoke", !.obj = current] /\ consumer' = Null
      BY <1>4 DEF PlanDelete
    <2>2. current \in Held
      BY <1>4 DEF PlanDelete, Held, InState
    <2>3. current.id \in Ids
      BY <1>1, <2>2, HeldIds
    <2>4. QED
      BY <2>1, <2>3, ConstantsAssumption DEF NotInUse, Idle
  <1>5. CASE PlanReplace
    BY <1>2, <1>5 DEF PlanReplace, NotInUse, Idle
  <1>6. CASE ~(PlanDeposed \/ PlanDelete \/ PlanReplace)
    <2>1. op'.pc = "revoke" => UNCHANGED <<op, consumer>>
      <3>1. CASE \E o \in Outcome : Issue(o)
        <4>1. PICK o \in Outcome : Issue(o)
          BY <3>1
        <4>2. op'.pc = "list" \/ op' = Idle
          BY <1>1, <4>1, IssueO, HeldIssue DEF Issue, NothingCreated, OInv, TypeOK
        <4>3. QED
          BY <4>2 DEF Idle
      <3>2. CASE ~ \E o \in Outcome : Issue(o)
        BY <1>1, <1>6, <3>2 DEF Next, Run, Others, Step, List, Revoke, Read, Import,
           Crash, PlanCreate, Deliver, Withdraw, IssueByHand, RevokedOrExpired,
           AgentDeleted, AgentCreated, Configure, vars, Idle, OInv, Handler
      <3>3. QED
        BY <3>1, <3>2
    <2>2. QED
      BY <1>2, <2>1 DEF RInv, NotInUse
  <1>7. QED
    BY <1>3, <1>4, <1>5, <1>6

LEMMA NextR == ASSUME RInv, [Next]_vars PROVE RInv'
  BY NextK, EndedR, ApartR, NotInUseR DEF RInv

LEMMA RAlways == Spec => []RInv
  BY InitR, NextR, PTL DEF Spec

\* A plaintext in the state is of a token that is accepted, or that died by
\* another's hand, or by a revocation whose answer was lost: a revocation the
\* provider heard of always took the object with it.
THEOREM DeadAreAccountedFor == Spec => []DeadIsAccountedFor
  <1>1. RInv => DeadIsAccountedFor
    BY DEF RInv
  <1>2. QED
    BY <1>1, RAlways, PTL

-----------------------------------------------------------------------------
(* The refinement mapping                                                  *)

IssuedIds == {i \in Ids : tokens[i] # "unissued"}
LiveIds == {i \in Ids : tokens[i] = "live"}

\* A token is issued: by the provider or by hand.
LEMMA IssueMaps ==
  ASSUME OInv, order = "first", order' = order, Fresh # {},
         tokens' = [tokens EXCEPT ![NextId] = "live"],
         UNCHANGED <<consumer, lapsed, unheard>>
  PROVE  Overlap!Next
  <1>1. NextId \in Ids /\ NextId \notin IssuedIds
    BY FreshId DEF IssuedIds
  <1>2. IssuedIds' = IssuedIds \cup {NextId} /\ LiveIds' = LiveIds \cup {NextId}
    BY <1>1 DEF IssuedIds, LiveIds, OInv, TypeOK
  <1>3. Overlap!Issue(NextId)
    BY <1>1, <1>2 DEF Overlap!Issue, Promised, IssuedIds, LiveIds
  <1>4. QED
    BY <1>1, <1>3 DEF Overlap!Next

\* A step that neither the hub nor the consumer sees.
LEMMA Stutters ==
  ASSUME order' = order, UNCHANGED <<tokens, consumer, lapsed, unheard>>
  PROVE  UNCHANGED Overlap!vars
  BY DEF Overlap!vars, Promised

LEMMA RevokeMaps ==
  ASSUME RInv, order = "first", order' = order, NEW o \in Outcome, Revoke(o)
  PROVE  [Overlap!Next]_(Overlap!vars)
  <1>1. KInv /\ OInv
    BY DEF RInv, KInv
  <1>2. UNCHANGED <<consumer, lapsed>>
    BY DEF Revoke
  <1>3. CASE o = "refused"
    BY <1>2, <1>3, Stutters DEF Revoke
  <1>4. CASE o # "refused"
    <2> DEFINE n == op.obj.id
    <2>1. n \in Ids /\ tokens[n] # "unissued" /\ consumer # n
      BY <1>1, HeldRevoke, HeldIds DEF Revoke, KInv, Known, RInv, NotInUse
    <2>2. tokens' = IF Listed(n) THEN [tokens EXCEPT ![n] = "dead"] ELSE tokens
      BY <1>4 DEF Revoke
    <2>3. IssuedIds' = IssuedIds /\ LiveIds' = LiveIds \ {n} /\ n \in IssuedIds
      BY <1>1, <2>1, <2>2 DEF IssuedIds, LiveIds, Listed, OInv, TypeOK
    <2>4. unheard' \in {unheard, unheard \cup {n}}
      BY DEF Revoke
    <2>5. Overlap!Retire(n)
      BY <1>2, <2>1, <2>3, <2>4 DEF Overlap!Retire, Promised, IssuedIds, LiveIds
    <2>6. QED
      BY <2>1, <2>5 DEF Overlap!Next
  <1>5. QED
    BY <1>3, <1>4

LEMMA OthersMap ==
  ASSUME OInv, order = "first", order' = order, Others
  PROVE  [Overlap!Next]_(Overlap!vars)
  <1>1. CASE IssueByHand
    BY <1>1, IssueMaps DEF IssueByHand
  <1>2. CASE RevokedOrExpired
    <2>1. PICK i \in Ids : /\ tokens[i] = "live" /\ tokens' = [tokens EXCEPT ![i] = "dead"]
                           /\ lapsed' = lapsed \cup {i}
      BY <1>2 DEF RevokedOrExpired
    <2>2. /\ IssuedIds' = IssuedIds /\ LiveIds' = LiveIds \ {i}
          /\ {i} \subseteq LiveIds /\ {i} \in SUBSET Ids
      BY <2>1 DEF IssuedIds, LiveIds, OInv, TypeOK
    <2>3. Overlap!Lapse({i})
      BY <1>2, <2>1, <2>2 DEF Overlap!Lapse, Promised, IssuedIds, LiveIds, RevokedOrExpired
    <2>4. QED
      BY <2>2, <2>3 DEF Overlap!Next
  <1>3. CASE AgentDeleted
    <2>1. /\ tokens' = [i \in Ids |-> IF Listed(i) THEN "gone" ELSE tokens[i]]
          /\ lapsed' = lapsed \cup LiveIds /\ UNCHANGED <<consumer, unheard>>
      BY <1>3 DEF AgentDeleted, LiveIds
    <2>2. /\ IssuedIds' = IssuedIds /\ LiveIds' = LiveIds \ LiveIds
          /\ LiveIds \in SUBSET Ids
      BY <2>1 DEF IssuedIds, LiveIds, Listed, OInv, TypeOK
    <2>3. Overlap!Lapse(LiveIds)
      BY <2>1, <2>2 DEF Overlap!Lapse, Promised, IssuedIds, LiveIds
    <2>4. QED
      BY <2>2, <2>3 DEF Overlap!Next
  <1>4. CASE AgentCreated
    BY <1>4, Stutters DEF AgentCreated, history
  <1>5. QED
    BY <1>1, <1>2, <1>3, <1>4 DEF Others

\* The consumer is given a plaintext that may be delivered, or none.
LEMMA DeliverMaps ==
  ASSUME RInv, order = "first", order' = order, Deliver
  PROVE  Overlap!Next
  <1>1. KInv /\ OInv /\ UNCHANGED <<tokens, lapsed, unheard>> /\ consumer' = Delivered
        /\ current # Null
    BY DEF RInv, KInv, Deliver, Steady, hubVars, history
  <1>2. IssuedIds' = IssuedIds /\ LiveIds' = LiveIds
    BY <1>1 DEF IssuedIds, LiveIds
  <1>3. CASE current.secret
    <2>1. current \in Held
      BY <1>1 DEF Held, InState
    <2>2. current.id \in Ids /\ current.id \in LiveIds \cup lapsed \cup unheard
      BY <1>1, <1>3, <2>1, HeldIds DEF RInv, DeadIsAccountedFor, LiveIds
    <2>3. consumer' = current.id
      BY <1>1, <1>3 DEF Delivered
    <2>4. Overlap!SwitchTo(current.id)
      BY <1>1, <1>2, <2>2, <2>3 DEF Overlap!SwitchTo, Promised, IssuedIds, LiveIds
    <2>5. QED
      BY <2>2, <2>4 DEF Overlap!Next
  <1>4. CASE ~current.secret
    <2>1. Overlap!Withdraw
      BY <1>1, <1>2, <1>4 DEF Overlap!Withdraw, Promised, IssuedIds, LiveIds, Delivered
    <2>2. QED
      BY <2>1 DEF Overlap!Next
  <1>5. QED
    BY <1>3, <1>4

LEMMA NextMaps ==
  ASSUME RInv, [Next]_vars PROVE [Overlap!Next]_(Overlap!vars)
  <1>1. OInv
    BY DEF RInv, KInv
  <1>2. order' = order
    BY DEF Next, Run, Others, Step, Issue, List, Revoke, Read, Import, Crash,
       PlanCreate, PlanReplace, Deliver, PlanDeposed, Withdraw, PlanDelete,
       IssueByHand, RevokedOrExpired, AgentDeleted, AgentCreated, Configure,
       vars, block
  <1>3. CASE order # "first"
    BY <1>2, <1>3 DEF Overlap!vars, Promised
  <1>4. CASE order = "first"
    <2>1. ASSUME NEW o \in Outcome, Issue(o) PROVE [Overlap!Next]_(Overlap!vars)
      <3>1. UNCHANGED <<consumer, lapsed, unheard>> /\ Fresh # {}
        BY <2>1 DEF Issue
      <3>2. tokens' = [tokens EXCEPT ![NextId] = "live"] \/ tokens' = tokens
        BY <2>1 DEF Issue
      <3>3. QED
        BY <1>1, <1>2, <1>4, <3>1, <3>2, IssueMaps, Stutters
    <2>2. ASSUME NEW o \in Outcome, Revoke(o) PROVE [Overlap!Next]_(Overlap!vars)
      BY <1>2, <1>4, <2>2, RevokeMaps
    <2>3. CASE Others
      BY <1>1, <1>2, <1>4, <2>3, OthersMap
    <2>4. CASE Deliver
      BY <1>2, <1>4, <2>4, DeliverMaps
    <2>5. CASE Withdraw
      <3>1. Overlap!Withdraw
        BY <1>2, <1>4, <2>5 DEF Withdraw, Overlap!Withdraw, Promised, hubVars, history
      <3>2. QED
        BY <3>1 DEF Overlap!Next
    <2>6. CASE ~(\/ Others \/ Deliver \/ Withdraw
                 \/ \E o \in Outcome : Issue(o) \/ Revoke(o))
      <3>1. UNCHANGED <<tokens, consumer, lapsed, unheard>>
        BY <2>6 DEF Next, Run, Step, List, Read, Import, Crash, Configure, PlanCreate,
           PlanReplace, PlanDeposed, PlanDelete, vars, hubVars, history
      <3>2. QED
        BY <1>2, <3>1, Stutters
    <2>7. QED
      BY <2>1, <2>2, <2>3, <2>4, <2>5, <2>6
  <1>5. QED
    BY <1>3, <1>4

LEMMA InitMaps == Init => Overlap!Init
  BY DEF Init, Overlap!Init, Promised

\* create_before_destroy keeps Rotation's promise for every set of ids: the
\* generations overlap, the consumer is only ever given a credential that was
\* good, and the provider never retires the one in use.
THEOREM RotationImplemented == Spec => OverlapSpec
  BY InitMaps, NextMaps, RAlways, PTL DEF Spec, OverlapSpec, Overlap!Spec

-----------------------------------------------------------------------------
(* What the promise gives the consumer                                     *)

\* Rotation keeps its word by its own rules: a credential is never retired
\* while it is the one in use, and only a good one comes into use.
LEMMA RotationKeepsItsWord == Overlap!Spec => []Overlap!InUseIsGood
  <1>1. Overlap!Init => Overlap!InUseIsGood
    BY DEF Overlap!Init, Overlap!InUseIsGood
  <1>2. ASSUME Overlap!InUseIsGood, [Overlap!Next]_(Overlap!vars)
        PROVE  Overlap!InUseIsGood'
    <2>1. ASSUME NEW i \in Ids, Overlap!Issue(i) \/ Overlap!SwitchTo(i) \/ Overlap!Retire(i)
          PROVE  Overlap!InUseIsGood'
      BY <1>2, <2>1 DEF Overlap!InUseIsGood, Overlap!Issue, Overlap!SwitchTo, Overlap!Retire
    <2>2. ASSUME NEW S \in SUBSET Ids, Overlap!Lapse(S) PROVE Overlap!InUseIsGood'
      BY <1>2, <2>2 DEF Overlap!InUseIsGood, Overlap!Lapse
    <2>3. CASE Overlap!Withdraw
      BY <2>3 DEF Overlap!InUseIsGood, Overlap!Withdraw
    <2>4. CASE UNCHANGED Overlap!vars
      BY <1>2, <2>4 DEF Overlap!InUseIsGood, Overlap!vars
    <2>5. QED
      BY <1>2, <2>1, <2>2, <2>3, <2>4 DEF Overlap!Next
  <1>3. QED
    BY <1>1, <1>2, PTL DEF Overlap!Spec

\* Under create_before_destroy the plaintext a consumer was given is accepted,
\* through rotations, failed revocations and killed runs, unless somebody else
\* ended it, or a revocation that was not heard of did.
ConsumerIsServed ==
  order = "first" /\ consumer # Null =>
    tokens[consumer] = "live" \/ consumer \in lapsed \cup unheard

\* The promise of the abstract rotation, had through the refinement.
THEOREM ConsumerKept == Spec => []ConsumerIsServed
  <1>1. Overlap!InUseIsGood => ConsumerIsServed
    BY DEF Overlap!InUseIsGood, ConsumerIsServed, Promised
  <1>2. QED
    BY <1>1, RotationImplemented, RotationKeepsItsWord, PTL DEF OverlapSpec
=============================================================================
