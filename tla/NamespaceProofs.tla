--------------------------- MODULE NamespaceProofs --------------------------
(***************************************************************************)
(* Proofs about Namespace, for every set of notes, token ids and           *)
(* configurations and every bound.                                         *)
(***************************************************************************)
EXTENDS Namespace, TLAPS

\* What is left to apply has something to apply to, and no agent is updated in
\* a run that creates or deletes it.
Tasked ==
  /\ run.pc = "idle" => run = NoRun
  /\ run.pc = "refresh" => run.todo = {}
  /\ "agent_create" \in run.todo => config.agent # Null
  /\ "agent_update" \in run.todo =>
       /\ config.agent # Null /\ state.agent # Null
       /\ {"agent_create", "agent_delete"} \cap run.todo = {}
  /\ "token_issue" \in run.todo => state.token = Null
  /\ "token_revoke" \in run.todo => state.token # Null

Hubs == [agent: Notes \cup {Null}, grant: BOOLEAN,
         tokens: [TokenIds -> {"unissued", "live", "revoked", "gone"}]]

\* Nothing of an agent outlives it.
Cascades(h) == h.agent = Null => ~h.grant /\ \A i \in TokenIds : ~Listed(h, i)
Cascaded == Cascades(hub)

TInv == TypeOK /\ Tasked /\ Cascaded

Issuable == \E i \in TokenIds : hub.tokens[i] = "unissued"
-----------------------------------------------------------------------------
(* Answers                                                                 *)

\* A request that was not executed is answered neither with a result nor with
\* an absence.
LEMMA UndeliveredSaysNothing ==
  ASSUME NEW a \in Undelivered
  PROVE  ~Admin(a) /\ ~IsNotFound(a)
<1>1. CASE a \in {Silence, Status(404), Status(503)}
  BY <1>1 DEF Silence, Status, Admin, IsNotFound
<1>2. CASE a \in Refusals
  <2>1. PICK c \in {CODE_invalid_params, CODE_internal_error},
             b \in BOOLEAN, e \in BOOLEAN : a = RPCError(c, b, e)
    BY <1>2 DEF Refusals
  <2>2. a # Absent
    BY <1>2 DEF Refusals
  <2>3. ~(a.code = CODE_invalid_params /\ a.nosuch /\ a.here)
    BY <2>1, <2>2 DEF RPCError, Absent
  <2> QED
    BY <2>1, <2>3 DEF RPCError, Admin, IsNotFound
<1> QED
  BY <1>1, <1>2 DEF Undelivered

\* An answer that was cut off is not taken for an absence, nor its row for read.
LEMMA UnreadSaysNothing ==
  ASSUME NEW a \in Unread
  PROVE  ~Decoded(a) /\ ~IsNotFound(a)
BY DEF Unread, Silence, Status, Garbage, Neither, Result, Decoded, Admin,
       IsNotFound

\* What the hub answers itself says whether it took the request.
LEMMA HonestSays ==
  ASSUME NEW q \in Request
  PROVE  /\ Admin(Honest(q)) => Takes(q)
         /\ IsNotFound(Honest(q)) => ~Takes(q)
BY DEF Honest, Result, UnknownOp, Invalid, Absent, RPCError, Admin, IsNotFound

\* A list is read or it is not; none of its answers is an absence.
LEMMA ListsSayNothingElse ==
  ASSUME NEW a \in Answer, Listing(a) \/ FailedListing(a)
  PROVE  ~IsNotFound(a) /\ hub' = hub
<1>1. CASE Listing(a)
  BY <1>1 DEF Listing, Result, Status, IsNotFound
<1>2. CASE FailedListing(a)
  BY <1>2, UndeliveredSaysNothing, UnreadSaysNothing DEF FailedListing
<1> QED
  BY <1>1, <1>2

\* A result means that the request was executed, an absence that there was
\* nothing to execute it on.
LEMMA ExchangeMeans ==
  ASSUME NEW q \in Request, NEW a \in Answer, Exchange(q, a)
  PROVE  /\ hub' \in {hub, Served(q)}
         /\ Admin(a) \/ IsNotFound(a) => hub' = Served(q)
         /\ Admin(a) => Takes(q)
         /\ IsNotFound(a) => ~Takes(q)
<1>1. CASE world.valid /\ a = Honest(q) /\ hub' = Served(q)
  BY <1>1, HonestSays
<1>2. CASE a = Status(401) /\ hub' = hub
  BY <1>2 DEF Status, Admin, IsNotFound
<1>3. CASE a \in Undelivered /\ hub' = hub
  BY <1>3, UndeliveredSaysNothing
<1>4. CASE Takes(q) /\ a \in Unread /\ hub' = Served(q)
  BY <1>4, UnreadSaysNothing
<1>5. CASE a = Silence /\ hub' = hub
  BY <1>5 DEF Silence, Admin, IsNotFound
<1> QED
  BY <1>1, <1>2, <1>3, <1>4, <1>5 DEF Exchange

\* What the other modules assume of a request: whatever comes over the wire is,
\* as the client reads it, one of their three outcomes -- answered (with the row
\* or with a refusal of the hub's own), refused without an effect, or lost after
\* one; and a deletion's answer counts as success exactly when it is "ok".
THEOREM AnswersAreOutcomes ==
  ASSUME NEW q \in Request, NEW a \in Answer, Exchange(q, a)
  PROVE  \E o \in {"ok", "refused", "lost"} :
           /\ hub' = IF Takes(q) /\ o # "refused" THEN After(q) ELSE hub
           /\ Decoded(a) <=> o = "ok" /\ Takes(q)
           /\ IsNotFound(a) => o = "ok" /\ ~Takes(q)
           /\ q.op \in {"agent_delete", "grant_unset", "token_revoke"} =>
                (Decoded(a) \/ IsNotFound(a) <=> o = "ok")
<1>1. CASE world.valid /\ a = Honest(q) /\ hub' = Served(q)
  <2>1. Decoded(a) <=> Takes(q)
    BY <1>1 DEF Honest, Result, UnknownOp, Invalid, Absent, RPCError, Decoded,
       Admin
  <2>2. IsNotFound(a) => ~Takes(q)
    BY <1>1, HonestSays
  <2>3. q.op \in {"agent_delete", "grant_unset", "token_revoke"} /\ ~Takes(q)
          => IsNotFound(a)
    BY <1>1 DEF Honest, Absent, RPCError, IsNotFound
  <2> WITNESS "ok" \in {"ok", "refused", "lost"}
  <2>4. hub' = IF Takes(q) /\ "ok" # "refused" THEN After(q) ELSE hub
    BY <1>1 DEF Served
  <2> QED
    BY <2>1, <2>2, <2>3, <2>4
<1>2. CASE hub' = hub /\ ~Decoded(a) /\ ~IsNotFound(a)
  <2> WITNESS "refused" \in {"ok", "refused", "lost"}
  <2> QED
    BY <1>2
<1>3. CASE Takes(q) /\ a \in Unread /\ hub' = Served(q)
  <2>1. ~Decoded(a) /\ ~IsNotFound(a)
    BY <1>3, UnreadSaysNothing
  <2> WITNESS "lost" \in {"ok", "refused", "lost"}
  <2> QED
    BY <1>3, <2>1 DEF Served
<1>4. CASE hub' = hub /\ (a = Status(401) \/ a \in Undelivered \/ a = Silence)
  <2>1. ~Decoded(a) /\ ~IsNotFound(a)
    <3>1. CASE a \in Undelivered
      BY <3>1, UndeliveredSaysNothing DEF Decoded
    <3>2. CASE a = Status(401) \/ a = Silence
      BY <3>2 DEF Status, Silence, Decoded, Admin, IsNotFound
    <3> QED
      BY <1>4, <3>1, <3>2
  <2> QED
    BY <1>2, <1>4, <2>1
<1> QED
  BY <1>1, <1>3, <1>4 DEF Exchange
-----------------------------------------------------------------------------
(* The hub                                                                 *)

LEMMA RequestsHaveOps ==
  ASSUME NEW q \in Request
  PROVE  /\ q.op \in Tasks
         /\ q.op \in {"agent_create", "agent_update"} =>
              q.arg \in Notes \cup {Omitted}
         /\ q.op = "token_revoke" => q.arg \in TokenIds
BY DEF Request, Tasks

\* The hub's operations keep the hub's types, and leave nothing of an agent.
LEMMA ServedHub ==
  ASSUME hub \in Hubs, Cascaded, NEW q \in Request,
         q.op = "token_issue" => Issuable
  PROVE  Served(q) \in Hubs /\ Cascades(Served(q))
<1> SUFFICES ASSUME Takes(q)
             PROVE  After(q) \in Hubs /\ Cascades(After(q))
  BY DEF Served, Cascaded
<1>0. q.op \in Tasks
  BY RequestsHaveOps
<1>1. CASE q.op = "agent_create"
  <2> DEFINE n == IF q.arg = Omitted THEN DefaultNote ELSE q.arg
  <2>1. n \in Notes /\ n # Null
    BY <1>1, RequestsHaveOps, ConstantsAssumption
  <2>2. After(q) = [hub EXCEPT !.agent = n]
    BY <1>1 DEF After
  <2> HIDE DEF n
  <2> QED
    BY <2>1, <2>2 DEF Hubs, Cascades
<1>2. CASE q.op = "agent_update"
  <2> DEFINE n == IF q.arg = Omitted THEN hub.agent ELSE q.arg
  <2>0. hub.agent # Null
    BY <1>2 DEF Takes
  <2>1. n \in Notes /\ n # Null
    BY <1>2, <2>0, RequestsHaveOps, ConstantsAssumption DEF Hubs
  <2>2. After(q) = [hub EXCEPT !.agent = n]
    BY <1>2 DEF After
  <2> HIDE DEF n
  <2> QED
    BY <2>1, <2>2 DEF Hubs, Cascades
<1>3. CASE q.op = "agent_delete"
  <2>1. After(q) = WithoutAgent
    BY <1>3 DEF After
  <2> QED
    BY <2>1 DEF WithoutAgent, Hubs, Cascades, Listed
<1>4. CASE q.op = "grant_set"
  BY <1>4 DEF After, Takes, Hubs, Cascades
<1>5. CASE q.op = "grant_unset"
  BY <1>5 DEF After, Takes, Hubs, Cascades
<1>6. CASE q.op = "token_issue"
  <2>1. Issued \in TokenIds
    BY <1>6 DEF Issuable, Issued
  <2>2. After(q) = [hub EXCEPT !.tokens[Issued] = "live"]
    BY <1>6 DEF After
  <2>3. hub.agent # Null
    BY <1>6 DEF Takes
  <2> QED
    BY <2>1, <2>2, <2>3 DEF Hubs, Cascades
<1>7. CASE q.op = "token_revoke"
  <2>1. q.arg \in TokenIds /\ Listed(hub, q.arg)
    BY <1>7, RequestsHaveOps DEF Takes
  <2>2. After(q) = [hub EXCEPT !.tokens[q.arg] = "revoked"]
    BY <1>7 DEF After
  <2>3. hub.agent # Null
    BY <2>1 DEF Cascaded, Cascades
  <2> QED
    BY <2>1, <2>2, <2>3 DEF Hubs, Cascades
<1> QED
  BY <1>0, <1>1, <1>2, <1>3, <1>4, <1>5, <1>6, <1>7 DEF Tasks

LEMMA WithoutAgentHub ==
  ASSUME hub \in Hubs
  PROVE  WithoutAgent \in Hubs /\ Cascades(WithoutAgent)
BY DEF WithoutAgent, Hubs, Cascades, Listed

\* So do the changes by hand: no roles for an agent that is not there.
LEMMA ByHandHub ==
  ASSUME hub \in Hubs, Cascaded, NEW h \in ByHand
  PROVE  h \in Hubs /\ Cascades(h)
<1>0. DefaultNote \in Notes /\ Null \notin Notes
  BY ConstantsAssumption
<1>1. CASE hub.agent = Null
  BY <1>0, <1>1 DEF ByHand, Hubs, Cascades
<1>2. CASE hub.agent # Null
  <2>1. CASE h = WithoutAgent
    BY <2>1, WithoutAgentHub
  <2>2. CASE h = [hub EXCEPT !.grant = ~@]
    BY <1>2, <2>2 DEF Hubs, Cascades
  <2>3. CASE \E n \in Notes : h = [hub EXCEPT !.agent = n]
    BY <1>0, <2>3 DEF Hubs, Cascades
  <2> QED
    BY <1>2, <2>1, <2>2, <2>3 DEF ByHand
<1> QED
  BY <1>1, <1>2

-----------------------------------------------------------------------------
(* Types, and what is left to apply                                        *)

States == [agent: Notes \cup {Null}, grant: BOOLEAN, token: TokenIds \cup {Null}]

LEMMA AdviceIsTyped ==
  ASSUME NEW a
  PROVE  hubDiag(a) \in Advice
BY DEF hubDiag, Advice

LEMMA ConfigTyped ==
  ASSUME TypeOK
  PROVE  /\ config.agent \in Notes \cup {Omitted, Null}
         /\ config.grant \in BOOLEAN /\ config.token \in BOOLEAN
         /\ config.grant \/ config.token => config.agent # Null
BY DEF TypeOK, Config

LEMMA PlannedTyped ==
  ASSUME NEW replace \in BOOLEAN
  PROVE  Planned(replace) \subseteq Tasks
BY DEF Planned, Tasks

\* A task is sent as the request of its name.
LEMMA RequestOfTyped ==
  ASSUME TInv, NEW t \in run.todo
  PROVE  RequestOf(t) \in Request /\ RequestOf(t).op = t /\ t \in Tasks
<1>1. t \in Tasks
  BY DEF TInv, TypeOK
<1>2. CASE t = "agent_create"
  <2>1. config.agent \in Notes \cup {Omitted}
    BY <1>2, ConfigTyped DEF TInv, Tasked
  <2> QED
    BY <1>1, <1>2, <2>1 DEF RequestOf, Request
<1>3. CASE t = "agent_update"
  <2>1. AgentPlanned \in Notes \cup {Omitted}
    BY <1>3, ConfigTyped DEF TInv, Tasked, AgentPlanned, TypeOK
  <2> QED
    BY <1>1, <1>3, <2>1 DEF RequestOf, Request
<1>4. CASE t = "token_revoke"
  <2>1. state.token \in TokenIds
    BY <1>4 DEF TInv, Tasked, TypeOK
  <2> QED
    BY <1>1, <1>4, <2>1 DEF RequestOf, Request
<1>5. CASE t \in {"agent_delete", "grant_unset", "grant_set", "token_issue"}
  BY <1>1, <1>5 DEF RequestOf, Request
<1> QED
  BY <1>1, <1>2, <1>3, <1>4, <1>5 DEF Tasks

\* What Apply guards, its request included.
LEMMA ApplyStarts ==
  ASSUME TInv, NEW t \in Tasks, NEW a \in Answer, Apply(t, a)
  PROVE  /\ run.pc = "apply" /\ t \in run.todo
         /\ RequestOf(t) \in Request /\ RequestOf(t).op = t
         /\ hub \in Hubs /\ Served(RequestOf(t)) \in Hubs
         /\ Cascades(Served(RequestOf(t)))
         /\ hub' \in Hubs /\ Cascaded'
         /\ t = "token_issue" => Issuable
<1>1. run.pc = "apply" /\ t \in run.todo /\ (t = "token_issue" => Issuable)
  BY DEF Apply, Issuable
<1>2. RequestOf(t) \in Request /\ RequestOf(t).op = t
  BY <1>1, RequestOfTyped
<1>3. hub \in Hubs /\ Cascaded
  BY DEF TInv, TypeOK, Hubs
<1>4. Served(RequestOf(t)) \in Hubs /\ Cascades(Served(RequestOf(t)))
  BY <1>1, <1>2, <1>3, ServedHub
<1>5. hub' \in {hub, Served(RequestOf(t))}
  BY <1>2, ExchangeMeans DEF Apply
<1> QED
  BY <1>1, <1>2, <1>3, <1>4, <1>5 DEF Cascaded, Cascades, Listed

\* The row that comes back fits the state.
LEMMA RecordedTyped ==
  ASSUME TInv, NEW t \in Tasks, hub' \in Hubs, t = "token_issue" => Issuable
  PROVE  /\ Recorded(t) \in States
         /\ t \in {"agent_create", "agent_update"} => Recorded(t).token = state.token
         /\ t \in {"grant_set", "grant_unset"} =>
              Recorded(t).token = state.token /\ Recorded(t).agent = state.agent
         /\ t = "agent_delete" => Recorded(t).token = state.token
         /\ t \in {"token_issue", "token_revoke"} =>
              Recorded(t).agent = state.agent
<1>0. state \in States
  BY DEF TInv, TypeOK, States
<1>1. CASE t = "agent_delete"
  BY <1>0, <1>1 DEF Recorded, States
<1>2. CASE t \in {"agent_create", "agent_update"}
  <2>1. Recorded(t) = [state EXCEPT !.agent = hub'.agent]
    BY <1>2 DEF Recorded
  <2> QED
    BY <1>0, <1>2, <2>1 DEF States, Hubs
<1>3. CASE t = "grant_set"
  BY <1>0, <1>3 DEF Recorded, States
<1>4. CASE t = "grant_unset"
  BY <1>0, <1>4 DEF Recorded, States
<1>5. CASE t = "token_issue"
  <2>1. Issued \in TokenIds
    BY <1>5 DEF Issuable, Issued
  <2> QED
    BY <1>0, <1>5, <2>1 DEF Recorded, States
<1>6. CASE t = "token_revoke"
  BY <1>0, <1>6 DEF Recorded, States
<1> QED
  BY <1>1, <1>2, <1>3, <1>4, <1>5, <1>6 DEF Tasks

-----------------------------------------------------------------------------
(* Every step keeps TInv                                                   *)

Budgets == [edits: 0..MaxEdits, drift: 0..MaxDrift, faults: 0..MaxFaults]

LEMMA FailTyped ==
  ASSUME TypeOK, Fail
  PROVE  spent' \in Budgets
BY ConstantsAssumption DEF TypeOK, Fail, Budgets

LEMMA ListsSpendTyped ==
  ASSUME TypeOK, NEW a, Listing(a) \/ FailedListing(a)
  PROVE  spent' \in Budgets
BY FailTyped DEF Listing, FailedListing, TypeOK, Budgets

LEMMA AbortTyped ==
  ASSUME TypeOK, NEW advice \in SUBSET Advice, Abort(advice)
  PROVE  /\ run' = NoRun /\ run'.todo = {} /\ run'.pc = "idle"
         /\ run' \in [pc: {"idle", "refresh", "apply"},
                      reading: SUBSET Resources, todo: SUBSET Tasks]
         /\ last' \in [ok: BOOLEAN, advice: SUBSET Advice] /\ ~last'.ok
BY DEF TypeOK, Abort, NoRun

\* Without tasks there is nothing Tasked asks for.
LEMMA NothingTasked ==
  ASSUME run'.todo = {}, run'.pc = "idle" => run' = NoRun
  PROVE  Tasked'
BY DEF Tasked

LEMMA ConnectTInv ==
  ASSUME TInv, NEW a \in Answer, Connect(a)
  PROVE  TInv'
<1>1. hub' = hub /\ spent' \in Budgets
  BY ListsSayNothingElse, ListsSpendTyped DEF Connect, TInv
<1>2. Cascaded'
  BY <1>1 DEF TInv, Cascaded, Cascades, Listed
<1>3. CASE Resolved(a)
  <2>1. Managed \in SUBSET Resources
    BY DEF Managed
  <2>2. /\ run' = [pc |-> "refresh", reading |-> Managed, todo |-> {}]
        /\ last' = [ok |-> FALSE, advice |-> {}] /\ raced' = FALSE
    BY <1>3 DEF Connect
  <2>3. TypeOK'
    BY <1>1, <2>1, <2>2 DEF TInv, TypeOK, Connect, Budgets
  <2>4. Tasked'
    BY <2>2, NothingTasked
  <2> QED
    BY <1>2, <2>3, <2>4 DEF TInv
<1>4. CASE ~Resolved(a)
  <2>1. Abort({"check endpoint and token"}) /\ raced' = raced
    BY <1>4 DEF Connect
  <2>2. {"check endpoint and token"} \in SUBSET Advice
    BY DEF Advice
  <2>3. TypeOK' /\ Tasked'
    BY <1>1, <2>1, <2>2, AbortTyped, NothingTasked
       DEF TInv, TypeOK, Connect, Budgets
  <2> QED
    BY <1>2, <2>3 DEF TInv
<1> QED
  BY <1>3, <1>4

LEMMA ReadTInv ==
  ASSUME TInv, NEW r \in Resources, NEW a \in Answer, Read(r, a)
  PROVE  TInv'
<1>1. hub' = hub /\ spent' \in Budgets
  BY ListsSayNothingElse, ListsSpendTyped DEF Read, TInv
<1>2. Cascaded'
  BY <1>1 DEF TInv, Cascaded, Cascades, Listed
<1>3. state' \in States
  <2>0. state \in States /\ hub \in Hubs /\ state' = ReadResult(r, a)
    BY DEF TInv, TypeOK, States, Hubs, Read
  <2>1. CASE ~Decoded(a) /\ ~IsNotFound(a)
    BY <2>0, <2>1 DEF ReadResult
  <2>2. CASE Decoded(a) \/ IsNotFound(a)
    <3>1. CASE r = "agent"
      BY <2>0, <2>2, <3>1 DEF ReadResult, States, Hubs
    <3>2. CASE r = "grant"
      <4>1. (Decoded(a) /\ hub.grant) \in BOOLEAN
        OBVIOUS
      <4>2. state' = [state EXCEPT !.grant = Decoded(a) /\ hub.grant]
        BY <2>0, <2>2, <3>2 DEF ReadResult
      <4> QED
        BY <2>0, <4>1, <4>2 DEF States
    <3>3. CASE r = "token"
      BY <2>0, <2>2, <3>3 DEF ReadResult, States
    <3> QED
      BY <3>1, <3>2, <3>3 DEF Resources
  <2> QED
    BY <2>1, <2>2
<1>4. CASE Decoded(a) \/ IsNotFound(a)
  <2>1. run' = [run EXCEPT !.reading = @ \ {r}] /\ last' = last
    BY <1>4 DEF Read
  <2>2. run.pc = "refresh" /\ run.todo = {}
    BY DEF Read, TInv, Tasked
  <2>3. TypeOK'
    BY <1>1, <1>3, <2>1 DEF TInv, TypeOK, Read, Budgets, States
  <2>4. run'.todo = {} /\ run'.pc = "refresh"
    BY <2>1, <2>2 DEF TInv, TypeOK
  <2> QED
    BY <1>2, <2>3, <2>4, NothingTasked DEF TInv
<1>5. CASE ~(Decoded(a) \/ IsNotFound(a))
  <2>1. Abort({hubDiag(a)}) /\ {hubDiag(a)} \in SUBSET Advice
    BY <1>5, AdviceIsTyped DEF Read
  <2>2. TypeOK' /\ Tasked'
    BY <1>1, <1>3, <2>1, AbortTyped, NothingTasked
       DEF TInv, TypeOK, Read, Budgets, States
  <2> QED
    BY <1>2, <2>2 DEF TInv
<1> QED
  BY <1>4, <1>5

LEMMA PlanTInv ==
  ASSUME TInv, NEW replace \in BOOLEAN, Plan(replace)
  PROVE  TInv'
<1>1. run' = [run EXCEPT !.pc = "apply", !.todo = Planned(replace)]
  BY DEF Plan
<1>2. run'.pc = "apply" /\ run'.todo = Planned(replace)
  BY <1>1 DEF TInv, TypeOK
<1>3. spent' \in Budgets /\ raced' \in BOOLEAN
  <2>0. spent \in Budgets /\ raced \in BOOLEAN
    BY DEF TInv, TypeOK, Budgets
  <2>1. CASE replace
    <3>1. /\ spent.edits < MaxEdits
          /\ spent' = [spent EXCEPT !.edits = spent.edits + 1] /\ raced' = TRUE
      BY <2>1 DEF Plan
    <3> QED
      BY <2>0, <3>1, ConstantsAssumption DEF Budgets
  <2>2. CASE ~replace
    BY <2>0, <2>2 DEF Plan
  <2> QED
    BY <2>1, <2>2
<1>4. TypeOK'
  <2>1. UNCHANGED <<hub, world, config, state, last, late>>
    BY DEF Plan
  <2>2. run' \in [pc: {"idle", "refresh", "apply"}, reading: SUBSET Resources,
                 todo: SUBSET Tasks]
    BY <1>1, PlannedTyped DEF TInv, TypeOK
  <2> QED
    BY <1>3, <2>1, <2>2 DEF TInv, TypeOK, Budgets
<1>5. Tasked'
  <2>1. UNCHANGED <<config, state>>
    BY DEF Plan
  <2>2. "agent_create" \in Planned(replace) => config.agent # Null
    BY DEF Planned
  <2>3. "agent_update" \in Planned(replace) =>
          /\ config.agent # Null /\ state.agent # Null
          /\ {"agent_create", "agent_delete"} \cap Planned(replace) = {}
    BY DEF Planned
  <2>4. "token_issue" \in Planned(replace) => state.token = Null
    BY DEF Planned
  <2>5. "token_revoke" \in Planned(replace) => state.token # Null
    <3>1. config.token \in BOOLEAN /\ (state.token # Null) \in BOOLEAN
      BY ConfigTyped DEF TInv
    <3> QED
      BY <3>1 DEF Planned
  <2> QED
    BY <1>2, <2>1, <2>2, <2>3, <2>4, <2>5 DEF Tasked
<1>6. Cascaded'
  BY DEF Plan, TInv, Cascaded, Cascades, Listed
<1> QED
  BY <1>4, <1>5, <1>6 DEF TInv

\* What a task leaves of itself, and of the state the others count on.
LEMMA ApplyTInv ==
  ASSUME TInv, NEW t \in Tasks, NEW a \in Answer, Apply(t, a)
  PROVE  TInv'
<1>1. /\ run.pc = "apply" /\ t \in run.todo
      /\ RequestOf(t) \in Request
      /\ hub' \in Hubs /\ Cascaded'
      /\ t = "token_issue" => Issuable
  BY ApplyStarts
<1>2. spent' \in Budgets /\ late' \in SUBSET Request
  <2>1. Exchange(RequestOf(t), a)
    BY DEF Apply
  <2>2. spent' = spent \/ Fail
    BY <2>1 DEF Exchange
  <2>3. late' = late \/ late' = late \cup {RequestOf(t)}
    BY <2>1 DEF Exchange
  <2> QED
    BY <1>1, <2>2, <2>3, FailTyped DEF TInv, TypeOK, Budgets
<1>3. UNCHANGED <<world, config, raced>>
  BY DEF Apply
<1>4. CASE Succeeds(t, a)
  <2>1. /\ state' = Recorded(t) /\ last' = last
        /\ run' = [run EXCEPT !.todo = @ \ {t}]
    BY <1>4 DEF Apply
  <2>2. run'.todo = run.todo \ {t} /\ run'.pc = "apply"
    BY <1>1, <2>1 DEF TInv, TypeOK
  <2>3. TypeOK'
    BY <1>1, <1>2, <1>3, <2>1, RecordedTyped
       DEF TInv, TypeOK, States, Hubs, Budgets
  <2>4. Tasked'
    <3>1. "token_issue" \in run'.todo => state'.token = Null
      <4> SUFFICES ASSUME "token_issue" \in run'.todo PROVE state'.token = Null
        OBVIOUS
      <4>1. state.token = Null /\ t # "token_issue"
        BY <2>2 DEF TInv, Tasked
      <4>2. CASE t = "token_revoke"
        BY <1>1, <4>1, <4>2 DEF TInv, Tasked
      <4>3. CASE t # "token_revoke"
        BY <1>1, <2>1, <4>1, <4>3, RecordedTyped DEF Tasks
      <4> QED
        BY <4>2, <4>3
    <3>2. "token_revoke" \in run'.todo => state'.token # Null
      <4> SUFFICES ASSUME "token_revoke" \in run'.todo PROVE state'.token # Null
        OBVIOUS
      <4>1. state.token # Null /\ t # "token_revoke"
        BY <2>2 DEF TInv, Tasked
      <4>2. CASE t = "token_issue"
        BY <1>1, <4>1, <4>2 DEF TInv, Tasked
      <4>3. CASE t # "token_issue"
        BY <1>1, <2>1, <4>1, <4>3, RecordedTyped DEF Tasks
      <4> QED
        BY <4>2, <4>3
    <3>3. "agent_create" \in run'.todo => config'.agent # Null
      BY <1>3, <2>2 DEF TInv, Tasked
    <3>4. "agent_update" \in run'.todo =>
            /\ config'.agent # Null /\ state'.agent # Null
            /\ {"agent_create", "agent_delete"} \cap run'.todo = {}
      <4> SUFFICES ASSUME "agent_update" \in run'.todo
                   PROVE  /\ config'.agent # Null /\ state'.agent # Null
                          /\ {"agent_create", "agent_delete"} \cap run'.todo = {}
        OBVIOUS
      <4>1. /\ config.agent # Null /\ state.agent # Null
            /\ {"agent_create", "agent_delete"} \cap run.todo = {}
            /\ t # "agent_update"
        BY <2>2 DEF TInv, Tasked
      <4>2. t \in {"grant_set", "grant_unset", "token_issue", "token_revoke"}
        BY <1>1, <4>1 DEF Tasks
      <4>3. state'.agent = state.agent
        BY <1>1, <2>1, <4>2, RecordedTyped
      <4> QED
        BY <1>3, <2>2, <4>1, <4>3
    <3> QED
      BY <2>2, <3>1, <3>2, <3>3, <3>4 DEF Tasked
  <2> QED
    BY <1>1, <2>3, <2>4 DEF TInv
<1>5. CASE ~Succeeds(t, a)
  <2>1. /\ run' = [run EXCEPT !.todo = @ \ ({t} \cup Blocked(t))]
        /\ last' = [last EXCEPT !.advice = @ \cup {hubDiag(a)}]
        /\ state' = state
    BY <1>5 DEF Apply
  <2>2. run'.todo \subseteq run.todo /\ run'.pc = "apply"
    BY <1>1, <2>1 DEF TInv, TypeOK
  <2>3. TypeOK'
    BY <1>1, <1>2, <1>3, <2>1, AdviceIsTyped DEF TInv, TypeOK, Hubs, Budgets
  <2>4. Tasked'
    BY <1>3, <2>1, <2>2 DEF TInv, Tasked
  <2> QED
    BY <1>1, <2>3, <2>4 DEF TInv
<1> QED
  BY <1>4, <1>5

\* The rest of a run, and what others do, by what each changes.
LEMMA OthersTInv ==
  ASSUME TInv,
         \/ Finish \/ Operator \/ Crash \/ Drift \/ Expire
         \/ \E q \in late : Executed(q)
  PROVE  TInv'
<1>1. CASE Finish
  <2>1. /\ run' = NoRun /\ last' = [last EXCEPT !.ok = last.advice = {}]
        /\ UNCHANGED <<hub, world, config, state, late, raced, spent>>
    BY <1>1 DEF Finish
  <2>2. run'.todo = {} /\ (last.advice = {}) \in BOOLEAN
    BY <2>1 DEF NoRun
  <2>3. TypeOK'
    BY <2>1, <2>2 DEF TInv, TypeOK, NoRun
  <2> QED
    BY <2>1, <2>2, <2>3, NothingTasked DEF TInv, Cascaded, Cascades, Listed
<1>2. CASE Import
  <2>1. /\ run.pc = "idle" /\ run' = run /\ hub.agent # Null
        /\ state' = [state EXCEPT !.agent = hub.agent]
        /\ last' = [last EXCEPT !.ok = FALSE]
        /\ UNCHANGED <<hub, world, config, late, raced, spent>>
    BY <1>2 DEF Import
  <2>2. TypeOK'
    BY <2>1 DEF TInv, TypeOK
  <2>3. run'.todo = {}
    BY <2>1 DEF TInv, Tasked, NoRun
  <2>4. Tasked'
    BY <2>1, <2>3, NothingTasked DEF TInv, Tasked
  <2> QED
    BY <2>1, <2>2, <2>4 DEF TInv, Cascaded, Cascades, Listed
<1>3. CASE Upgrade \/ Renew
  <2>1. /\ world' \in [supported: BOOLEAN, valid: BOOLEAN]
        /\ UNCHANGED <<hub, config, state, run, last, late, raced, spent>>
    BY <1>3 DEF Upgrade, Renew, TInv, TypeOK
  <2> QED
    BY <2>1 DEF TInv, TypeOK, Tasked, Cascaded, Cascades, Listed
<1>4. CASE \E c \in Configs : Configure(c)
  <2>1. PICK c \in Configs : Configure(c)
    BY <1>4
  <2>2. /\ run.pc = "idle" /\ run' = run /\ config' = c
        /\ last' = [last EXCEPT !.ok = FALSE]
        /\ spent.edits < MaxEdits
        /\ spent' = [spent EXCEPT !.edits = spent.edits + 1]
        /\ UNCHANGED <<hub, world, state, late, raced>>
    BY <2>1 DEF Configure
  <2>3. spent' \in Budgets
    BY <2>2, ConstantsAssumption DEF TInv, TypeOK, Budgets
  <2>4. TypeOK'
    BY <2>2, <2>3, ConstantsAssumption DEF TInv, TypeOK, Budgets
  <2>5. run'.todo = {}
    BY <2>2 DEF TInv, Tasked, NoRun
  <2>6. Tasked'
    BY <2>2, <2>5, NothingTasked DEF TInv, Tasked
  <2> QED
    BY <2>2, <2>4, <2>6 DEF TInv, Cascaded, Cascades, Listed
<1>5. CASE Crash
  <2>1. /\ Abort({}) /\ spent' \in Budgets
        /\ UNCHANGED <<hub, world, config, state, late, raced>>
    BY <1>5, FailTyped DEF Crash, TInv
  <2>2. TypeOK' /\ Tasked'
    BY <2>1, AbortTyped, NothingTasked DEF TInv, TypeOK, Budgets
  <2> QED
    BY <2>1, <2>2 DEF TInv, Cascaded, Cascades, Listed
<1>6. CASE Drift
  <2>1. hub \in Hubs /\ Cascaded /\ hub' \in ByHand
    BY <1>6 DEF Drift, TInv, TypeOK, Hubs
  <2>2. hub' \in Hubs /\ Cascaded'
    BY <2>1, ByHandHub DEF Cascaded, Cascades, Listed
  <2>3. /\ spent.drift < MaxDrift
        /\ spent' = [spent EXCEPT !.drift = spent.drift + 1] /\ raced' = TRUE
        /\ UNCHANGED <<world, config, state, run, last, late>>
    BY <1>6 DEF Drift
  <2>4. spent' \in Budgets
    BY <2>3, ConstantsAssumption DEF TInv, TypeOK, Budgets
  <2> QED
    BY <2>2, <2>3, <2>4 DEF TInv, TypeOK, Hubs, Budgets, Tasked
<1>7. CASE Expire
  <2>1. /\ world' \in [supported: BOOLEAN, valid: BOOLEAN]
        /\ UNCHANGED <<hub, config, state, run, last, late, raced>>
        /\ spent' \in Budgets
    BY <1>7, FailTyped DEF Expire, TInv, TypeOK
  <2> QED
    BY <2>1 DEF TInv, TypeOK, Budgets, Tasked, Cascaded, Cascades, Listed
<1>8. CASE \E q \in late : Executed(q)
  <2>1. PICK q \in late : Executed(q)
    BY <1>8
  <2>2. /\ hub \in Hubs /\ Cascaded /\ q \in Request
        /\ q.op = "token_issue" => Issuable
    BY <2>1 DEF TInv, TypeOK, Hubs, Executed, Issuable
  <2>3. hub' \in {hub, Served(q)}
    BY <2>1 DEF Executed
  <2>4. hub' \in Hubs /\ Cascaded'
    BY <2>2, <2>3, ServedHub DEF Cascaded, Cascades, Listed
  <2>5. /\ late' = late \ {q} /\ raced' \in BOOLEAN
        /\ UNCHANGED <<world, config, state, run, last, spent>>
    BY <2>1 DEF Executed, TInv, TypeOK
  <2> QED
    BY <2>4, <2>5 DEF TInv, TypeOK, Hubs, Tasked
<1> QED
  BY <1>1, <1>2, <1>3, <1>4, <1>5, <1>6, <1>7, <1>8 DEF Operator

LEMMA InitTInv ==
  ASSUME Init
  PROVE  TInv
<1>1. hub \in Hubs /\ Cascaded
  BY DEF Init, Hubs, Cascaded, Cascades, Listed
<1>2. run.todo = {} /\ run.pc = "idle" /\ run = NoRun
  BY DEF Init, NoRun
<1>3. config \in Config
  BY DEF Init, Config
<1>4. spent \in Budgets
  BY ConstantsAssumption DEF Init, Budgets
<1>5. /\ run \in [pc: {"idle", "refresh", "apply"}, reading: SUBSET Resources,
                 todo: SUBSET Tasks]
      /\ last \in [ok: BOOLEAN, advice: SUBSET Advice]
  BY DEF Init, NoRun
<1>6. /\ state \in States /\ world \in [supported: BOOLEAN, valid: BOOLEAN]
      /\ late \subseteq Request /\ raced \in BOOLEAN
  BY DEF Init, States
<1>7. TypeOK
  BY <1>1, <1>3, <1>4, <1>5, <1>6 DEF TypeOK, Hubs, Budgets, States
<1> QED
  BY <1>1, <1>2, <1>7 DEF TInv, Tasked

LEMMA NextTInv ==
  ASSUME TInv, [Next]_vars
  PROVE  TInv'
<1>1. CASE \E a \in Answer : Handle(a)
  <2>1. PICK a \in Answer : Handle(a)
    BY <1>1
  <2> QED
    BY <2>1, ConnectTInv, ReadTInv, ApplyTInv DEF Handle
<1>2. CASE \E replace \in BOOLEAN : Plan(replace)
  BY <1>2, PlanTInv
<1>3. CASE UNCHANGED vars
  BY <1>3 DEF vars, TInv, TypeOK, Tasked, Cascaded, Cascades, Listed
<1>4. CASE \/ Finish \/ Operator \/ Crash \/ Drift \/ Expire
           \/ \E q \in late : Executed(q)
  BY <1>4, OthersTInv
<1> QED
  BY <1>1, <1>2, <1>3, <1>4 DEF Next

LEMMA AlwaysTInv == Spec => []TInv
BY InitTInv, NextTInv, PTL DEF Spec

\* The types of the run's variables, of every request that is sent and of what
\* the hub and the state are left with (Create, Read, Update, Delete).
THEOREM TypeCorrect == Spec => []TypeOK
<1>1. TInv => TypeOK
  BY DEF TInv
<1> QED
  BY <1>1, AlwaysTInv, PTL
-----------------------------------------------------------------------------
(* Nothing is forgotten that is there                                      *)

\* What a task that succeeded has done to the hub.
LEMMA SuccessMeans ==
  ASSUME TInv, NEW t \in Tasks, NEW a \in Answer, Apply(t, a), Succeeds(t, a)
  PROVE  /\ state' = Recorded(t) /\ last' = last
         /\ run'.todo = run.todo \ {t} /\ run'.pc = "apply"
         /\ run.pc = "apply" /\ t \in run.todo /\ Needs(t) \cap run.todo = {}
         /\ hub' = Served(RequestOf(t))
         /\ t \notin {"agent_delete", "grant_unset", "token_revoke"} =>
              Takes(RequestOf(t))
<1>1. /\ run.pc = "apply" /\ t \in run.todo /\ RequestOf(t) \in Request
  BY ApplyStarts
<1>2. Exchange(RequestOf(t), a) /\ Needs(t) \cap run.todo = {}
  BY DEF Apply
<1>3. Admin(a) \/ IsNotFound(a)
  BY DEF Succeeds, Returned, Deletes, Decoded
<1>4. t \notin {"agent_delete", "grant_unset", "token_revoke"} => Admin(a)
  BY DEF Succeeds, Returned, Deletes, Decoded
<1>5. /\ hub' = Served(RequestOf(t))
      /\ Admin(a) => Takes(RequestOf(t))
  BY <1>1, <1>2, <1>3, ExchangeMeans
<1>6. /\ state' = Recorded(t) /\ last' = last
      /\ run' = [run EXCEPT !.todo = @ \ {t}]
  BY DEF Apply
<1> QED
  BY <1>1, <1>2, <1>4, <1>5, <1>6 DEF TInv, TypeOK

\* A deletion that succeeded leaves no agent, and nothing of it.
LEMMA AgentDeleted ==
  ASSUME TInv, NEW a \in Answer, Apply("agent_delete", a),
         Succeeds("agent_delete", a)
  PROVE  hub'.agent = Null /\ state' = [state EXCEPT !.agent = Null]
<1>1. "agent_delete" \in Tasks
  BY DEF Tasks
<1>2. /\ hub' = Served(RequestOf("agent_delete"))
      /\ state' = Recorded("agent_delete")
  BY <1>1, SuccessMeans
<1> QED
  BY <1>2 DEF Served, RequestOf, Takes, After, WithoutAgent, Recorded

LEMMA GrantUnset ==
  ASSUME TInv, NEW a \in Answer, Apply("grant_unset", a),
         Succeeds("grant_unset", a)
  PROVE  /\ ~hub'.grant /\ state' = [state EXCEPT !.grant = FALSE]
         /\ hub'.agent = hub.agent /\ hub'.tokens = hub.tokens
<1>1. "grant_unset" \in Tasks
  BY DEF Tasks
<1>2. /\ hub' = Served(RequestOf("grant_unset"))
      /\ state' = Recorded("grant_unset")
  BY <1>1, SuccessMeans
<1>3. hub \in Hubs
  BY DEF TInv, TypeOK, Hubs
<1> QED
  BY <1>2, <1>3 DEF TInv, Cascaded, Cascades, Served, RequestOf, Takes, After,
                    Recorded, Hubs

LEMMA TokenRevoked ==
  ASSUME TInv, NEW a \in Answer, Apply("token_revoke", a),
         Succeeds("token_revoke", a)
  PROVE  /\ state.token \in TokenIds
         /\ hub'.tokens[state.token] # "live"
         /\ state' = [state EXCEPT !.token = Null]
         /\ hub'.agent = hub.agent /\ hub'.grant = hub.grant
<1>1. "token_revoke" \in Tasks
  BY DEF Tasks
<1>2. /\ hub' = Served(RequestOf("token_revoke"))
      /\ state' = Recorded("token_revoke") /\ "token_revoke" \in run.todo
  BY <1>1, SuccessMeans
<1>3. hub \in Hubs /\ state.token \in TokenIds
  BY <1>2 DEF TInv, TypeOK, Tasked, Hubs
<1> QED
  BY <1>2, <1>3 DEF Served, RequestOf, Takes, After, Listed, Recorded, Hubs

\* The step that ForgottenOnlyWhenGone allows.
Remembers ==
  /\ state.agent # Null /\ state'.agent = Null => hub'.agent = Null
  /\ state.grant /\ ~state'.grant => ~hub'.grant
  /\ state.token # Null /\ state'.token # state.token
       => hub'.tokens[state.token] # "live"

LEMMA ReadRemembers ==
  ASSUME TInv, NEW r \in Resources, NEW a \in Answer, Read(r, a)
  PROVE  Remembers
<1>1. hub' = hub /\ ~IsNotFound(a) /\ state' = ReadResult(r, a)
  BY ListsSayNothingElse DEF Read
<1>2. state \in States
  BY DEF TInv, TypeOK, States
<1>3. CASE ~Decoded(a)
  BY <1>1, <1>3 DEF ReadResult, Remembers
<1>4. CASE Decoded(a)
  <2>1. CASE r = "agent"
    BY <1>1, <1>2, <1>4, <2>1 DEF ReadResult, Remembers, States
  <2>2. CASE r = "grant"
    <3>1. state' = [state EXCEPT !.grant = Decoded(a) /\ hub.grant]
      BY <1>1, <1>4, <2>2 DEF ReadResult
    <3>2. /\ state'.agent = state.agent /\ state'.token = state.token
          /\ state'.grant = (Decoded(a) /\ hub.grant)
      BY <1>2, <3>1 DEF States
    <3> QED
      BY <1>1, <1>4, <3>2 DEF Remembers
  <2>3. CASE r = "token"
    BY <1>1, <1>2, <1>4, <2>3 DEF ReadResult, Remembers, States, Listed
  <2> QED
    BY <2>1, <2>2, <2>3 DEF Resources
<1> QED
  BY <1>3, <1>4

LEMMA ApplyRemembers ==
  ASSUME TInv, NEW t \in Tasks, NEW a \in Answer, Apply(t, a)
  PROVE  Remembers
<1>0. state \in States
  BY DEF TInv, TypeOK, States
<1>1. CASE ~Succeeds(t, a)
  BY <1>1 DEF Apply, Remembers
<1>2. CASE Succeeds(t, a)
  <2>0. /\ state' = Recorded(t) /\ t \in run.todo
        /\ t = "token_issue" => state.token = Null
    BY <1>2, SuccessMeans DEF TInv, Tasked
  <2>1. CASE t = "agent_delete"
    BY <1>0, <1>2, <2>1, AgentDeleted DEF Remembers, States
  <2>2. CASE t \in {"agent_create", "agent_update"}
    <3>1. state' = [state EXCEPT !.agent = hub'.agent]
      BY <2>0, <2>2 DEF Recorded
    <3> QED
      BY <1>0, <3>1 DEF Remembers, States
  <2>3. CASE t = "grant_set"
    BY <1>0, <2>0, <2>3 DEF Recorded, Remembers, States
  <2>4. CASE t = "grant_unset"
    BY <1>0, <1>2, <2>4, GrantUnset DEF Remembers, States
  <2>5. CASE t = "token_issue"
    BY <1>0, <2>0, <2>5 DEF Recorded, Remembers, States
  <2>6. CASE t = "token_revoke"
    BY <1>0, <1>2, <2>6, TokenRevoked DEF Remembers, States
  <2> QED
    BY <2>1, <2>2, <2>3, <2>4, <2>5, <2>6 DEF Tasks
<1> QED
  BY <1>1, <1>2

LEMMA NextRemembers ==
  ASSUME TInv, Next
  PROVE  Remembers \/ UNCHANGED vars
<1>1. CASE \E a \in Answer : Handle(a)
  <2>1. PICK a \in Answer : Handle(a)
    BY <1>1
  <2>2. CASE Connect(a)
    BY <2>2 DEF Connect, Remembers
  <2> QED
    BY <2>1, <2>2, ReadRemembers, ApplyRemembers DEF Handle
<1>2. CASE Import
  BY <1>2 DEF Import, Remembers, TInv, TypeOK
<1>3. CASE \/ \E replace \in BOOLEAN : Plan(replace)
           \/ Finish \/ Upgrade \/ Renew \/ \E c \in Configs : Configure(c)
           \/ Crash \/ Drift \/ Expire \/ \E q \in late : Executed(q)
  <2>1. state' = state
    BY <1>3 DEF Plan, Finish, Upgrade, Renew, Configure, Crash, Drift, Expire,
                Executed
  <2> QED
    BY <2>1 DEF Remembers
<1> QED
  BY <1>1, <1>2, <1>3 DEF Next, Operator

\* No step of a run, whatever it was answered, drops an agent, a grant or a
\* token that the hub still has (IsNotFound; the Reads and Deletes).
THEOREM NothingForgotten == Spec => ForgottenOnlyWhenGone
<1>1. TInv /\ [Next]_vars =>
        [/\ state.agent # Null /\ state'.agent = Null => hub'.agent = Null
         /\ state.grant /\ ~state'.grant => ~hub'.grant
         /\ state.token # Null /\ state'.token # state.token
              => hub'.tokens[state.token] # "live"]_vars
  BY NextRemembers DEF Remembers
<1> QED
  BY <1>1, AlwaysTInv, PTL DEF Spec, ForgottenOnlyWhenGone
-----------------------------------------------------------------------------
(* What was applied is there                                               *)

AgentSeen == state.agent # Null => state.agent = hub.agent
GrantSeen == state.grant => hub.grant
TokenSeen == state.token # Null => Listed(hub, state.token)

\* What has been refreshed is what the hub has.
Refreshed ==
  run.pc = "refresh" /\ ~raced =>
    /\ "agent" \in run.reading \/ AgentSeen
    /\ "grant" \in run.reading \/ GrantSeen
    /\ "token" \in run.reading \/ TokenSeen

\* What is not yet as configured is still to be done, and nothing else is.
AgentDue ==
  IF config.agent = Null THEN state.agent = Null \/ "agent_delete" \in run.todo
  ELSE /\ "agent_delete" \notin run.todo
       /\ \/ state.agent = Null /\ "agent_create" \in run.todo
          \/ /\ state.agent # Null
             /\ "agent_update" \in run.todo \/ config.agent \in {state.agent, Omitted}
GrantDue ==
  IF config.grant THEN state.grant \/ "grant_set" \in run.todo
  ELSE ~state.grant \/ "grant_unset" \in run.todo
TokenDue ==
  IF config.token THEN state.token # Null \/ "token_issue" \in run.todo
  ELSE state.token = Null \/ "token_revoke" \in run.todo
Only ==
  /\ "grant_set" \in run.todo => config.grant
  /\ "grant_unset" \in run.todo => ~config.grant
  /\ "token_issue" \in run.todo => config.token
  /\ "token_revoke" \in run.todo => ~config.token

Track ==
  /\ AgentSeen /\ GrantSeen /\ TokenSeen
  /\ AgentDue /\ GrantDue /\ TokenDue /\ Only

\* Until something fails, a run that nobody disturbs is on the way to what is
\* configured, and the state on the way is the hub's.
OnTrack == run.pc = "apply" /\ ~raced /\ last.advice = {} => Track

OkAtRest == last.ok => run.pc = "idle"

AInv == TInv /\ Refreshed /\ OnTrack /\ OkAtRest /\ AppliedIsThere

LEMMA AtRest ==
  ASSUME run'.pc = "idle", ~last'.ok
  PROVE  Refreshed' /\ OnTrack' /\ OkAtRest' /\ AppliedIsThere'
BY DEF Refreshed, OnTrack, OkAtRest, AppliedIsThere

LEMMA ConnectAInv ==
  ASSUME AInv, NEW a \in Answer, Connect(a)
  PROVE  Refreshed' /\ OnTrack' /\ OkAtRest' /\ AppliedIsThere'
<1>1. CASE Resolved(a)
  <2>1. /\ run' = [pc |-> "refresh", reading |-> Managed, todo |-> {}]
        /\ last' = [ok |-> FALSE, advice |-> {}] /\ state' = state
    BY <1>1 DEF Connect
  <2>2. run'.pc = "refresh" /\ run'.reading = Managed /\ ~last'.ok
    BY <2>1
  <2>3. /\ "agent" \in Managed \/ state.agent = Null
        /\ "grant" \in Managed \/ ~state.grant
        /\ "token" \in Managed \/ state.token = Null
    BY DEF Managed, Resources
  <2> QED
    BY <2>1, <2>2, <2>3
       DEF Refreshed, OnTrack, OkAtRest, AppliedIsThere, AgentSeen, GrantSeen,
           TokenSeen
<1>2. CASE ~Resolved(a)
  <2>1. Abort({"check endpoint and token"})
    BY <1>2 DEF Connect
  <2>2. {"check endpoint and token"} \in SUBSET Advice
    BY DEF Advice
  <2> QED
    BY <2>1, <2>2, AbortTyped, AtRest DEF AInv, TInv
<1> QED
  BY <1>1, <1>2

LEMMA ReadAInv ==
  ASSUME AInv, NEW r \in Resources, NEW a \in Answer, Read(r, a)
  PROVE  Refreshed' /\ OnTrack' /\ OkAtRest' /\ AppliedIsThere'
<1>1. /\ hub' = hub /\ ~IsNotFound(a) /\ state' = ReadResult(r, a)
      /\ raced' = raced /\ run.pc = "refresh"
  BY ListsSayNothingElse DEF Read
<1>2. CASE ~Decoded(a)
  <2>1. Abort({hubDiag(a)}) /\ {hubDiag(a)} \in SUBSET Advice
    BY <1>1, <1>2, AdviceIsTyped DEF Read
  <2> QED
    BY <2>1, AbortTyped, AtRest DEF AInv, TInv
<1>3. CASE Decoded(a)
  <2>1. run' = [run EXCEPT !.reading = @ \ {r}] /\ last' = last
    BY <1>3 DEF Read
  <2>2. /\ run'.pc = "refresh" /\ run'.reading = run.reading \ {r}
        /\ ~last'.ok
    BY <1>1, <2>1 DEF AInv, TInv, TypeOK, OkAtRest
  <2>3. state \in States
    BY DEF AInv, TInv, TypeOK, States
  <2>4. ~raced => AgentSeen' \/ "agent" \in run'.reading
    <3>1. CASE r = "agent"
      BY <1>1, <1>3, <2>3, <3>1 DEF ReadResult, AgentSeen, States
    <3>2. CASE r # "agent"
      <4>1. state'.agent = state.agent
        BY <1>1, <1>3, <2>3, <3>2 DEF ReadResult, States, Resources
      <4> QED
        BY <1>1, <2>2, <3>2, <4>1 DEF AInv, Refreshed, AgentSeen
    <3> QED
      BY <3>1, <3>2
  <2>5. ~raced => GrantSeen' \/ "grant" \in run'.reading
    <3>1. CASE r = "grant"
      <4>1. state' = [state EXCEPT !.grant = Decoded(a) /\ hub.grant]
        BY <1>1, <1>3, <3>1 DEF ReadResult
      <4>2. state'.grant = (Decoded(a) /\ hub.grant)
        BY <2>3, <4>1 DEF States
      <4> QED
        BY <1>1, <4>2 DEF GrantSeen
    <3>2. CASE r # "grant"
      <4>1. state'.grant = state.grant
        BY <1>1, <1>3, <2>3, <3>2 DEF ReadResult, States, Resources
      <4> QED
        BY <1>1, <2>2, <3>2, <4>1 DEF AInv, Refreshed, GrantSeen
    <3> QED
      BY <3>1, <3>2
  <2>6. ~raced => TokenSeen' \/ "token" \in run'.reading
    <3>1. CASE r = "token"
      BY <1>1, <1>3, <2>3, <3>1 DEF ReadResult, TokenSeen, States, Listed
    <3>2. CASE r # "token"
      <4>1. state'.token = state.token
        BY <1>1, <1>3, <2>3, <3>2 DEF ReadResult, States, Resources
      <4> QED
        BY <1>1, <2>2, <3>2, <4>1 DEF AInv, Refreshed, TokenSeen, Listed
    <3> QED
      BY <3>1, <3>2
  <2> QED
    BY <1>1, <2>2, <2>4, <2>5, <2>6
       DEF Refreshed, OnTrack, OkAtRest, AppliedIsThere
<1> QED
  BY <1>2, <1>3

\* The plan asks for what is missing.
LEMMA PlanIsDue ==
  ASSUME TInv, Plan(FALSE)
  PROVE  AgentDue' /\ GrantDue' /\ TokenDue' /\ Only'
<1>1. /\ run' = [run EXCEPT !.pc = "apply", !.todo = Planned(FALSE)]
      /\ UNCHANGED <<config, state>>
  BY DEF Plan
<1>2. run'.todo = Planned(FALSE)
  BY <1>1 DEF TInv, TypeOK
<1>3. state.grant \in BOOLEAN
  BY DEF TInv, TypeOK
<1>4. config.grant \in BOOLEAN /\ config.token \in BOOLEAN
  BY ConfigTyped DEF TInv
<1>5. AgentDue'
  <2>1. config.agent = Null =>
          state.agent = Null \/ "agent_delete" \in Planned(FALSE)
    BY DEF Planned
  <2>2. config.agent # Null => "agent_delete" \notin Planned(FALSE)
    BY DEF Planned
  <2>3. config.agent # Null /\ state.agent = Null =>
          "agent_create" \in Planned(FALSE)
    BY DEF Planned
  <2>4. config.agent # Null /\ state.agent # Null =>
          \/ "agent_update" \in Planned(FALSE)
          \/ config.agent \in {state.agent, Omitted}
    BY DEF Planned, AgentPlanned
  <2> QED
    BY <1>1, <1>2, <2>1, <2>2, <2>3, <2>4 DEF AgentDue
<1>6. GrantDue'
  <2>1. config.grant /\ ~state.grant => "grant_set" \in Planned(FALSE)
    BY <1>3, <1>4 DEF Planned
  <2>2. ~config.grant /\ state.grant => "grant_unset" \in Planned(FALSE)
    BY <1>3, <1>4 DEF Planned
  <2> QED
    BY <1>1, <1>2, <2>1, <2>2 DEF GrantDue
<1>7. TokenDue'
  <2>1. config.token /\ state.token = Null => "token_issue" \in Planned(FALSE)
    BY <1>4 DEF Planned
  <2>2. ~config.token /\ state.token # Null => "token_revoke" \in Planned(FALSE)
    BY <1>4 DEF Planned
  <2> QED
    BY <1>1, <1>2, <2>1, <2>2 DEF TokenDue
<1>8. Only'
  <2>1. /\ "grant_set" \in Planned(FALSE) => config.grant
        /\ "grant_unset" \in Planned(FALSE) => ~config.grant
    BY DEF Planned
  <2>2. /\ "token_issue" \in Planned(FALSE) => config.token
        /\ "token_revoke" \in Planned(FALSE) => ~config.token
    BY DEF Planned
  <2> QED
    BY <1>1, <1>2, <2>1, <2>2 DEF Only
<1> QED
  BY <1>5, <1>6, <1>7, <1>8

LEMMA PlanAInv ==
  ASSUME AInv, NEW replace \in BOOLEAN, Plan(replace)
  PROVE  Refreshed' /\ OnTrack' /\ OkAtRest' /\ AppliedIsThere'
<1>1. /\ run.pc = "refresh" /\ run.reading = {} /\ last' = last
      /\ UNCHANGED <<hub, config, state>>
      /\ run' = [run EXCEPT !.pc = "apply", !.todo = Planned(replace)]
  BY DEF Plan
<1>2. run'.pc = "apply" /\ ~last'.ok
  BY <1>1 DEF AInv, TInv, TypeOK, OkAtRest
<1>3. CASE replace = TRUE
  BY <1>2, <1>3 DEF Plan, Refreshed, OnTrack, OkAtRest, AppliedIsThere
<1>4. CASE replace = FALSE
  <2>1. AgentDue' /\ GrantDue' /\ TokenDue' /\ Only'
    BY <1>4, PlanIsDue DEF AInv
  <2>2. raced' = raced
    BY <1>4 DEF Plan
  <2>3. ~raced => AgentSeen' /\ GrantSeen' /\ TokenSeen'
    BY <1>1 DEF AInv, Refreshed, AgentSeen, GrantSeen, TokenSeen, Listed
  <2> QED
    BY <1>2, <2>1, <2>2, <2>3
       DEF Refreshed, OnTrack, Track, OkAtRest, AppliedIsThere
<1> QED
  BY <1>3, <1>4

\* The agent is deleted after what depends on it, so nothing is left behind.
LEMMA DeleteStaysOnTrack ==
  ASSUME AInv, Track, NEW a \in Answer, Apply("agent_delete", a),
         Succeeds("agent_delete", a)
  PROVE  Track'
<1>1. hub'.agent = Null /\ state' = [state EXCEPT !.agent = Null]
  BY AgentDeleted DEF AInv
<1>2. /\ run'.todo = run.todo \ {"agent_delete"} /\ "agent_delete" \in run.todo
      /\ {"grant_unset", "token_revoke"} \cap run.todo = {}
  BY SuccessMeans DEF AInv, Tasks, Needs
<1>3. config' = config
  BY DEF Apply
<1>4. config.agent = Null /\ ~config.grant /\ ~config.token
  BY <1>2, ConfigTyped DEF AInv, TInv, Track, AgentDue
<1>5. ~state.grant /\ state.token = Null
  BY <1>2, <1>4 DEF Track, GrantDue, TokenDue
<1>6. state'.agent = Null /\ ~state'.grant /\ state'.token = Null
  BY <1>1, <1>5 DEF AInv, TInv, TypeOK
<1> QED
  BY <1>2, <1>3, <1>4, <1>6
     DEF Track, AgentSeen, GrantSeen, TokenSeen, AgentDue, GrantDue, TokenDue,
         Only

LEMMA WriteStaysOnTrack ==
  ASSUME AInv, Track, NEW t \in {"agent_create", "agent_update"},
         NEW a \in Answer, Apply(t, a), Succeeds(t, a)
  PROVE  Track'
<1>1. /\ run'.todo = run.todo \ {t} /\ t \in run.todo
      /\ hub' = Served(RequestOf(t)) /\ Takes(RequestOf(t))
      /\ state' = Recorded(t)
  BY SuccessMeans DEF AInv, Tasks
<1>2. config' = config
  BY DEF Apply
<1>3. hub \in Hubs /\ state \in States
  BY DEF AInv, TInv, TypeOK, Hubs, States
<1>4. hub' = After(RequestOf(t)) /\ RequestOf(t).op = t
  BY <1>1 DEF Served, RequestOf
<1>5. hub'.grant = hub.grant /\ hub'.tokens = hub.tokens
  BY <1>3, <1>4 DEF After, Hubs
<1>6. state' = [state EXCEPT !.agent = hub'.agent]
  BY <1>1 DEF Recorded
<1>7. /\ state'.agent = hub'.agent /\ state'.grant = state.grant
      /\ state'.token = state.token
  BY <1>3, <1>6 DEF States
<1>8. /\ config.agent # Null /\ hub'.agent # Null
      /\ config.agent \in {hub'.agent, Omitted}
  <2>0. DefaultNote # Null /\ Omitted # Null /\ config.agent # Null
    BY <1>1, ConstantsAssumption DEF AInv, TInv, Tasked
  <2>1. CASE t = "agent_create"
    <3>1. RequestOf(t).arg = config.agent
      BY <2>1 DEF RequestOf
    <3>2. hub' = [hub EXCEPT !.agent = IF config.agent = Omitted THEN DefaultNote
                                       ELSE config.agent]
      BY <1>4, <2>1, <3>1 DEF After
    <3> QED
      BY <1>3, <2>0, <3>2 DEF Hubs
  <2>2. CASE t = "agent_update"
    <3>1. RequestOf(t).arg = AgentPlanned
      BY <2>2 DEF RequestOf
    <3>2. hub' = [hub EXCEPT !.agent = IF AgentPlanned = Omitted THEN @
                                       ELSE AgentPlanned]
      BY <1>4, <2>2, <3>1 DEF After
    <3>3. hub.agent # Null /\ state.agent # Null /\ state.agent = hub.agent
      BY <1>1, <1>4, <2>2 DEF Takes, AInv, TInv, Tasked, Track, AgentSeen
    <3> QED
      BY <1>3, <2>0, <3>2, <3>3 DEF Hubs, AgentPlanned
  <2> QED
    BY <2>1, <2>2
<1>9. "agent_delete" \notin run'.todo
  BY <1>1, <1>8 DEF Track, AgentDue
<1>10. AgentSeen' /\ AgentDue'
  BY <1>2, <1>7, <1>8, <1>9 DEF AgentSeen, AgentDue
<1>11. GrantSeen' /\ TokenSeen'
  BY <1>5, <1>7 DEF Track, GrantSeen, TokenSeen, Listed
<1>12. GrantDue' /\ TokenDue' /\ Only'
  BY <1>1, <1>2, <1>7 DEF Track, GrantDue, TokenDue, Only
<1> QED
  BY <1>10, <1>11, <1>12 DEF Track

LEMMA GrantStaysOnTrack ==
  ASSUME AInv, Track, NEW t \in {"grant_set", "grant_unset"},
         NEW a \in Answer, Apply(t, a), Succeeds(t, a)
  PROVE  Track'
<1>1. /\ run'.todo = run.todo \ {t} /\ t \in run.todo
      /\ hub' = Served(RequestOf(t)) /\ state' = Recorded(t)
      /\ t = "grant_set" => Takes(RequestOf(t))
  BY SuccessMeans DEF AInv, Tasks
<1>2. config' = config
  BY DEF Apply
<1>3. hub \in Hubs /\ state \in States
  BY DEF AInv, TInv, TypeOK, Hubs, States
<1>4. /\ hub'.agent = hub.agent /\ hub'.tokens = hub.tokens
      /\ state'.agent = state.agent /\ state'.token = state.token
      /\ GrantSeen' /\ GrantDue'
  <2>1. CASE t = "grant_set"
    <3>1. hub' = [hub EXCEPT !.grant = TRUE]
      BY <1>1, <2>1 DEF Served, RequestOf, After
    <3>2. state' = [state EXCEPT !.grant = TRUE] /\ config.grant
      BY <1>1, <2>1 DEF Recorded, Track, Only
    <3> QED
      BY <1>2, <1>3, <3>1, <3>2 DEF Hubs, States, GrantSeen, GrantDue
  <2>2. CASE t = "grant_unset"
    <3>1. /\ ~hub'.grant /\ state' = [state EXCEPT !.grant = FALSE]
          /\ hub'.agent = hub.agent /\ hub'.tokens = hub.tokens
      BY <2>2, GrantUnset DEF AInv
    <3>2. ~config.grant
      BY <1>1, <2>2 DEF Track, Only
    <3> QED
      BY <1>2, <1>3, <3>1, <3>2 DEF States, GrantSeen, GrantDue
  <2> QED
    BY <2>1, <2>2
<1>5. AgentSeen' /\ TokenSeen'
  BY <1>4 DEF Track, AgentSeen, TokenSeen, Listed
<1>6. AgentDue' /\ TokenDue' /\ Only'
  BY <1>1, <1>2, <1>4 DEF Track, AgentDue, TokenDue, Only
<1> QED
  BY <1>4, <1>5, <1>6 DEF Track

LEMMA TokenStaysOnTrack ==
  ASSUME AInv, Track, NEW t \in {"token_issue", "token_revoke"},
         NEW a \in Answer, Apply(t, a), Succeeds(t, a)
  PROVE  Track'
<1>1. /\ run'.todo = run.todo \ {t} /\ t \in run.todo
      /\ hub' = Served(RequestOf(t)) /\ state' = Recorded(t)
      /\ t = "token_issue" => Takes(RequestOf(t))
  BY SuccessMeans DEF AInv, Tasks
<1>2. config' = config
  BY DEF Apply
<1>3. hub \in Hubs /\ state \in States
  BY DEF AInv, TInv, TypeOK, Hubs, States
<1>4. /\ hub'.agent = hub.agent /\ hub'.grant = hub.grant
      /\ state'.agent = state.agent /\ state'.grant = state.grant
      /\ TokenSeen' /\ TokenDue'
  <2>1. CASE t = "token_issue"
    <3>0. Issued \in TokenIds /\ Issued # Null
      BY <2>1, ConstantsAssumption DEF Apply, Issued
    <3>1. hub' = [hub EXCEPT !.tokens[Issued] = "live"]
      BY <1>1, <2>1 DEF Served, RequestOf, After
    <3>2. state' = [state EXCEPT !.token = Issued] /\ config.token
      BY <1>1, <2>1 DEF Recorded, Track, Only
    <3>3. hub'.tokens[Issued] = "live" /\ state'.token = Issued
      BY <1>3, <3>0, <3>1, <3>2 DEF Hubs, States
    <3> QED
      BY <1>2, <1>3, <3>0, <3>1, <3>2, <3>3
         DEF Hubs, States, TokenSeen, TokenDue, Listed
  <2>2. CASE t = "token_revoke"
    <3>1. /\ state' = [state EXCEPT !.token = Null]
          /\ hub'.agent = hub.agent /\ hub'.grant = hub.grant
      BY <2>2, TokenRevoked DEF AInv
    <3>2. ~config.token
      BY <1>1, <2>2 DEF Track, Only
    <3> QED
      BY <1>2, <1>3, <3>1, <3>2 DEF States, TokenSeen, TokenDue
  <2> QED
    BY <2>1, <2>2
<1>5. AgentSeen' /\ GrantSeen'
  BY <1>4 DEF Track, AgentSeen, GrantSeen
<1>6. AgentDue' /\ GrantDue' /\ Only'
  BY <1>1, <1>2, <1>4 DEF Track, AgentDue, GrantDue, Only
<1> QED
  BY <1>4, <1>5, <1>6 DEF Track

LEMMA ApplyAInv ==
  ASSUME AInv, NEW t \in Tasks, NEW a \in Answer, Apply(t, a)
  PROVE  Refreshed' /\ OnTrack' /\ OkAtRest' /\ AppliedIsThere'
<1>1. run.pc = "apply" /\ raced' = raced /\ ~last.ok
  BY DEF Apply, AInv, OkAtRest
<1>2. CASE Succeeds(t, a)
  <2>1. run'.pc = "apply" /\ last' = last
    BY <1>2, SuccessMeans DEF AInv
  <2>2. Track => Track'
    BY <1>2, DeleteStaysOnTrack, WriteStaysOnTrack, GrantStaysOnTrack,
       TokenStaysOnTrack DEF Tasks
  <2>3. OnTrack'
    BY <1>1, <2>1, <2>2 DEF AInv, OnTrack, Track
  <2> QED
    BY <1>1, <2>1, <2>3 DEF Refreshed, OkAtRest, AppliedIsThere
<1>3. CASE ~Succeeds(t, a)
  <2>1. /\ run' = [run EXCEPT !.todo = @ \ ({t} \cup Blocked(t))]
        /\ last' = [last EXCEPT !.advice = @ \cup {hubDiag(a)}]
    BY <1>3 DEF Apply
  <2>2. run'.pc = "apply" /\ last'.advice # {} /\ ~last'.ok
    BY <1>1, <2>1 DEF AInv, TInv, TypeOK
  <2> QED
    BY <2>2 DEF Refreshed, OnTrack, OkAtRest, AppliedIsThere
<1> QED
  BY <1>2, <1>3

\* Only here a run is reported to be a success.
LEMMA FinishAInv ==
  ASSUME AInv, Finish
  PROVE  Refreshed' /\ OnTrack' /\ OkAtRest' /\ AppliedIsThere'
<1>1. /\ run.pc = "apply" /\ run.todo = {}
      /\ run' = NoRun /\ last' = [last EXCEPT !.ok = last.advice = {}]
      /\ UNCHANGED <<hub, config, state, raced>>
  BY DEF Finish
<1>2. run'.pc = "idle" /\ last'.ok = (last.advice = {})
  BY <1>1 DEF NoRun, AInv, TInv, TypeOK
<1>3. last.advice = {} /\ ~raced => Fulfilled
  <2> SUFFICES ASSUME last.advice = {}, ~raced
               PROVE  Fulfilled
    OBVIOUS
  <2>1. Track
    BY <1>1 DEF AInv, OnTrack, Track
  <2>2. state.grant \in BOOLEAN /\ config.grant \in BOOLEAN
        /\ config.token \in BOOLEAN
    BY ConfigTyped DEF AInv, TInv, TypeOK
  <2> QED
    BY <1>1, <2>1, <2>2
       DEF Track, AgentSeen, GrantSeen, TokenSeen, AgentDue, GrantDue, TokenDue,
           Fulfilled
<1>4. AppliedIsThere'
  BY <1>1, <1>2, <1>3 DEF AppliedIsThere, Fulfilled, Listed
<1> QED
  BY <1>2, <1>4 DEF Refreshed, OnTrack, OkAtRest

\* A step of somebody else changes neither hub nor state nor configuration, or
\* no success is claimed after it.
LEMMA NothingClaimed ==
  ASSUME AInv, UNCHANGED <<config, state, run, last>>,
         (hub' = hub /\ raced' = raced) \/ raced' = TRUE
  PROVE  Refreshed' /\ OnTrack' /\ OkAtRest' /\ AppliedIsThere'
<1>1. OkAtRest'
  BY DEF AInv, OkAtRest
<1>2. CASE raced' = TRUE
  BY <1>1, <1>2 DEF Refreshed, OnTrack, AppliedIsThere
<1>3. CASE hub' = hub /\ raced' = raced
  BY <1>1, <1>3
     DEF AInv, Refreshed, OnTrack, Track, AppliedIsThere, Fulfilled,
         AgentSeen, GrantSeen, TokenSeen, AgentDue, GrantDue, TokenDue, Only,
         Listed
<1> QED
  BY <1>2, <1>3

LEMMA NextAInv ==
  ASSUME AInv, [Next]_vars
  PROVE  AInv'
<1>0. TInv'
  BY NextTInv DEF AInv
<1>1. CASE \E a \in Answer : Handle(a)
  <2>1. PICK a \in Answer : Handle(a)
    BY <1>1
  <2> QED
    BY <1>0, <2>1, ConnectAInv, ReadAInv, ApplyAInv DEF Handle, AInv
<1>2. CASE \E replace \in BOOLEAN : Plan(replace)
  BY <1>0, <1>2, PlanAInv DEF AInv
<1>3. CASE Finish
  BY <1>0, <1>3, FinishAInv DEF AInv
<1>4. CASE Import \/ \E c \in Configs : Configure(c)
  <2>1. run.pc = "idle" /\ run' = run /\ last' = [last EXCEPT !.ok = FALSE]
    BY <1>4 DEF Import, Configure
  <2>2. ~last'.ok
    BY <2>1 DEF AInv, TInv, TypeOK
  <2> QED
    BY <1>0, <2>1, <2>2, AtRest DEF AInv
<1>5. CASE Crash
  <2>1. Abort({})
    BY <1>5 DEF Crash
  <2> QED
    BY <1>0, <2>1, AbortTyped, AtRest DEF AInv, TInv
<1>6. CASE Upgrade \/ Renew \/ Drift \/ Expire \/ UNCHANGED vars
  <2>1. /\ UNCHANGED <<config, state, run, last>>
        /\ (hub' = hub /\ raced' = raced) \/ raced' = TRUE
    BY <1>6 DEF Upgrade, Renew, Drift, Expire, vars
  <2> QED
    BY <1>0, <2>1, NothingClaimed DEF AInv
<1>7. CASE \E q \in late : Executed(q)
  <2>1. /\ UNCHANGED <<config, state, run, last>>
        /\ raced' = (raced \/ hub' # hub)
    BY <1>7 DEF Executed
  <2>2. (hub' = hub /\ raced' = raced) \/ raced' = TRUE
    BY <2>1 DEF AInv, TInv, TypeOK
  <2> QED
    BY <1>0, <2>1, <2>2, NothingClaimed DEF AInv
<1> QED
  BY <1>1, <1>2, <1>3, <1>4, <1>5, <1>6, <1>7 DEF Next, Operator

\* A run that says it succeeded has done what the blocks say, on the hub as in
\* the state: every answer means what the handlers took it for.
THEOREM SuccessIsTrue == Spec => []AppliedIsThere
<1>1. Init => AInv
  <2> SUFFICES ASSUME Init PROVE AInv
    OBVIOUS
  <2>1. run.pc = "idle" /\ ~last.ok
    BY DEF Init, NoRun
  <2> QED
    BY <2>1, InitTInv DEF AInv, Refreshed, OnTrack, OkAtRest, AppliedIsThere
<1>2. AInv /\ [Next]_vars => AInv'
  BY NextAInv
<1>3. AInv => AppliedIsThere
  BY DEF AInv
<1> QED
  BY <1>1, <1>2, <1>3, PTL DEF Spec
=============================================================================
