------------------------------ MODULE Namespace -----------------------------
(***************************************************************************)
(* pmcp_agent (internal/provider/agent.go) in its place: whole runs of     *)
(* OpenTofu over an agent, a grant and a token that depend on it, through  *)
(* the admin client, against a hub whose agent_delete takes the grants and *)
(* tokens of the agent along.                                              *)
(*                                                                         *)
(* The other modules say of a request that it was answered, refused or     *)
(* lost.  Here it is an answer on the wire that the client classifies, and *)
(* a request that timed out may still be executed, at any later time.      *)
(*                                                                         *)
(* Abstractions.  Name and description are one value; the slug, which      *)
(* forces replacement, is fixed.  The grant is there or not (Grant has its *)
(* roles and the check before it), the token is a row or none (Token has   *)
(* the plaintext, metadata and rotation).  The hub and OpenTofu are        *)
(* external.                                                               *)
(***************************************************************************)
EXTENDS Client, FiniteSets

CONSTANTS
  Notes,        \* values of name and description
  DefaultNote,  \* what the hub resolves them to when agent_create omits them
  Omitted,      \* attributes left out of the block
  Configs,      \* the configurations the operator may write
  TokenIds,     \* ids that token_issue may return
  Null,
  MaxEdits,     \* bound: configuration edits, and runs with -replace
  MaxDrift,     \* bound: changes on the hub made outside the provider
  MaxFaults     \* bound: requests that go wrong, expired credentials, crashes

Config ==
  {c \in [agent: Notes \cup {Omitted, Null}, grant: BOOLEAN, token: BOOLEAN] :
     c.grant \/ c.token => c.agent # Null}

ASSUME ConstantsAssumption ==
  /\ Configs \subseteq Config /\ DefaultNote \in Notes
  /\ Null \notin Notes \cup TokenIds \cup {Omitted} /\ Omitted \notin Notes
  /\ MaxEdits \in Nat /\ MaxDrift \in Nat /\ MaxFaults \in Nat

Resources == {"agent", "grant", "token"}
Tasks == {"agent_delete", "agent_create", "agent_update", "grant_set",
          "grant_unset", "token_issue", "token_revoke"}

VARIABLES
  hub,     \* the agent, whether the pair has roles, and each token's row
  world,   \* whether the hub has agent_update and the credential is good
  config,  \* the three resource blocks
  state,   \* the objects in the state
  run,     \* the run in progress: what it has to read, and then to apply
  last,    \* how the last run ended, and what it told the operator
  late,    \* requests that timed out and may still be executed
  raced,   \* history: not only this run's own handlers changed the hub
  spent    \* the budgets used: edits, drift, faults

vars == <<hub, world, config, state, run, last, late, raced, spent>>

Request == [op: {"agent_delete", "grant_unset"}, arg: {Null}]
           \cup [op: {"agent_create", "agent_update"}, arg: Notes \cup {Omitted}]
           \cup [op: {"grant_set", "token_issue"}, arg: {Null}]
           \cup [op: {"token_revoke"}, arg: TokenIds]

Advice == {"upgrade the hub", "check endpoint and token", "failed"}

NoRun == [pc |-> "idle", reading |-> {}, todo |-> {}]

TypeOK ==
  /\ hub \in [agent: Notes \cup {Null}, grant: BOOLEAN,
              tokens: [TokenIds -> {"unissued", "live", "revoked", "gone"}]]
  /\ world \in [supported: BOOLEAN, valid: BOOLEAN]
  /\ config \in Config
  /\ state \in [agent: Notes \cup {Null}, grant: BOOLEAN,
                token: TokenIds \cup {Null}]
  /\ run \in [pc: {"idle", "refresh", "apply"}, reading: SUBSET Resources,
              todo: SUBSET Tasks]
  /\ last \in [ok: BOOLEAN, advice: SUBSET Advice]
  /\ late \subseteq Request
  /\ raced \in BOOLEAN
  /\ spent \in [edits: 0..MaxEdits, drift: 0..MaxDrift, faults: 0..MaxFaults]

Init ==
  /\ hub = [agent |-> Null, grant |-> FALSE,
            tokens |-> [i \in TokenIds |-> "unissued"]]
  /\ world \in [supported: BOOLEAN, valid: {TRUE}]
  /\ config = [agent |-> Null, grant |-> FALSE, token |-> FALSE]
  /\ state = [agent |-> Null, grant |-> FALSE, token |-> Null]
  /\ run = NoRun /\ last = [ok |-> FALSE, advice |-> {}]
  /\ late = {} /\ raced = FALSE
  /\ spent = [edits |-> 0, drift |-> 0, faults |-> 0]

Fail == spent.faults < MaxFaults /\ spent' = [spent EXCEPT !.faults = @ + 1]

-----------------------------------------------------------------------------
(* The hub's operations (external)                                         *)

Listed(h, i) == h.tokens[i] \in {"live", "revoked"}

Takes(q) ==
  CASE q.op = "agent_create" -> hub.agent = Null
    [] q.op = "agent_update" -> hub.agent # Null /\ world.supported
    [] q.op = "token_revoke" -> Listed(hub, q.arg)
    [] OTHER -> hub.agent # Null

\* The rows of a deleted agent's tokens go with it.
WithoutAgent ==
  [agent |-> Null, grant |-> FALSE,
   tokens |-> [i \in TokenIds |-> IF Listed(hub, i) THEN "gone"
                                  ELSE hub.tokens[i]]]

Issued == CHOOSE i \in TokenIds : hub.tokens[i] = "unissued"

After(q) ==
  CASE q.op = "agent_create" ->
         [hub EXCEPT !.agent = IF q.arg = Omitted THEN DefaultNote ELSE q.arg]
    [] q.op = "agent_update" ->
         [hub EXCEPT !.agent = IF q.arg = Omitted THEN @ ELSE q.arg]
    [] q.op = "agent_delete" -> WithoutAgent
    [] q.op = "grant_set" -> [hub EXCEPT !.grant = TRUE]
    [] q.op = "grant_unset" -> [hub EXCEPT !.grant = FALSE]
    [] q.op = "token_issue" -> [hub EXCEPT !.tokens[Issued] = "live"]
    [] q.op = "token_revoke" -> [hub EXCEPT !.tokens[q.arg] = "revoked"]

Served(q) == IF Takes(q) THEN After(q) ELSE hub

Honest(q) ==
  IF Takes(q) THEN Result(TRUE)
  ELSE IF q.op = "agent_update" /\ ~world.supported THEN UnknownOp
  ELSE IF q.op = "agent_create" THEN Invalid
  ELSE Absent

-----------------------------------------------------------------------------
(* One request and its answer                                              *)

Exchange(q, a) ==
  \/ /\ world.valid /\ a = Honest(q) /\ hub' = Served(q)
     /\ UNCHANGED <<late, spent>>
  \/ /\ ~world.valid /\ a = Status(401)
     /\ UNCHANGED <<hub, late, spent>>
  \/ /\ a \in Undelivered /\ Fail
     /\ UNCHANGED <<hub, late>>
  \/ /\ world.valid /\ Takes(q) /\ a \in Unread /\ Fail
     /\ hub' = Served(q)
     /\ UNCHANGED late
  \/ /\ a = Silence /\ late' = late \cup {q} /\ Fail
     /\ UNCHANGED hub

\* agent_list and token_list change nothing.
Listing(a) ==
  /\ a = IF world.valid THEN Result(TRUE) ELSE Status(401)
  /\ UNCHANGED <<hub, spent>>

FailedListing(a) ==
  /\ a \in Undelivered \cup Unread /\ Fail
  /\ UNCHANGED hub

-----------------------------------------------------------------------------
(* A run: the provider is configured, every object is read, and planned    *)

Abort(advice) ==
  run' = NoRun /\ last' = [ok |-> FALSE, advice |-> last.advice \cup advice]

Managed == {r \in Resources : CASE r = "agent" -> state.agent # Null
                                [] r = "grant" -> state.grant
                                [] r = "token" -> state.token # Null}

\* hubProvider.Configure and pmcp.New: one whoami, and no client without it.
Connect(a) ==
  /\ run.pc = "idle"
  /\ Listing(a) \/ FailedListing(a)
  /\ IF Resolved(a)
       THEN /\ run' = [pc |-> "refresh", reading |-> Managed, todo |-> {}]
            /\ last' = [ok |-> FALSE, advice |-> {}]
            /\ raced' = FALSE
       ELSE Abort({"check endpoint and token"}) /\ UNCHANGED raced
  /\ UNCHANGED <<world, config, state, late>>

\* Mutant: a Read that does not remove what went with the agent.
ReadKeeping(r, a) ==
  IF r = "agent" /\ Decoded(a) THEN [state EXCEPT !.agent = hub.agent]
  ELSE state

\* agentResource.Read, grantResource.Read and tokenResource.Read find the row in
\* the list, and remove the object when it is not there or is said to be absent.
ReadResult(r, a) ==
  IF ~Decoded(a) /\ ~IsNotFound(a) THEN state
  ELSE CASE r = "agent" ->
              [state EXCEPT !.agent = IF IsNotFound(a) THEN Null ELSE hub.agent]
         [] r = "grant" -> [state EXCEPT !.grant = Decoded(a) /\ hub.grant]
         [] r = "token" ->
              [state EXCEPT !.token = IF Decoded(a) /\ Listed(hub, @)
                                      THEN @ ELSE Null]

\* The graph visits the agent first.  An error ends the run before it applies.
Read(r, a) ==
  /\ run.pc = "refresh" /\ r \in run.reading
  /\ r # "agent" => "agent" \notin run.reading
  /\ Listing(a) \/ FailedListing(a)
  /\ state' = ReadResult(r, a)
  /\ IF Decoded(a) \/ IsNotFound(a)
       THEN run' = [run EXCEPT !.reading = @ \ {r}] /\ UNCHANGED last
       ELSE Abort({hubDiag(a)})
  /\ UNCHANGED <<world, config, late, raced>>

\* UseStateForUnknown keeps what the block leaves out.
AgentPlanned == IF config.agent = Omitted THEN state.agent ELSE config.agent

Planned(replace) ==
  (IF config.agent = Null THEN IF state.agent = Null THEN {} ELSE {"agent_delete"}
   ELSE IF state.agent = Null THEN {"agent_create"}
   ELSE IF replace THEN {"agent_delete", "agent_create"}
   ELSE IF AgentPlanned # state.agent THEN {"agent_update"} ELSE {})
  \cup (IF config.grant = state.grant THEN {}
        ELSE IF config.grant THEN {"grant_set"} ELSE {"grant_unset"})
  \cup (IF config.token = (state.token # Null) THEN {}
        ELSE IF config.token THEN {"token_issue"} ELSE {"token_revoke"})

\* With -replace the grant and the token keep their slugs, hence no change.
Plan(replace) ==
  /\ run.pc = "refresh" /\ run.reading = {}
  /\ IF replace
       THEN /\ config.agent # Null /\ state.agent # Null
            /\ spent.edits < MaxEdits
            /\ spent' = [spent EXCEPT !.edits = @ + 1] /\ raced' = TRUE
       ELSE UNCHANGED <<raced, spent>>
  /\ run' = [run EXCEPT !.pc = "apply", !.todo = Planned(replace)]
  /\ UNCHANGED <<hub, world, config, state, last, late>>

-----------------------------------------------------------------------------
(* The run applies its plan, in the order of the graph                     *)

Needs(t) ==
  CASE t = "agent_delete" -> {"grant_unset", "token_revoke"}
    [] t = "agent_create" -> {"agent_delete", "grant_unset", "token_revoke"}
    [] t \in {"grant_set", "token_issue"} ->
         {"agent_delete", "agent_create", "agent_update"}
    [] OTHER -> {}

\* agentResource.Create and Update send the slug and what the plan knows; Delete
\* of the grant is grant_set with no roles.
RequestOf(t) ==
  [op |-> t,
   arg |-> CASE t = "agent_create" -> config.agent
             [] t = "agent_update" -> AgentPlanned
             [] t = "token_revoke" -> state.token
             [] OTHER -> Null]

\* The client's method returned no error: `call' wants a payload that decodes,
\* AgentDelete ignores it.
Returned(t, a) == IF t = "agent_delete" THEN Admin(a) ELSE Decoded(a)

Deletes == {"agent_delete", "grant_unset", "token_revoke"}

\* Mutant: Update lets an operation the hub does not know pass.
SucceedsOnOldHub(t, a) ==
  Returned(t, a) \/ IF t \in Deletes THEN IsNotFound(a) ELSE MethodNotFound(a)

\* The handler shows no diagnostic: every Delete takes absence for success.
Succeeds(t, a) == Returned(t, a) \/ (t \in Deletes /\ IsNotFound(a))

\* Mutant: the plan, where the row was to be recorded.
RecordsPlan(t) ==
  CASE t = "agent_delete" -> [state EXCEPT !.agent = Null]
    [] t \in {"agent_create", "agent_update"} ->
         [state EXCEPT !.agent = config.agent]
    [] t = "grant_set" -> [state EXCEPT !.grant = TRUE]
    [] t = "grant_unset" -> [state EXCEPT !.grant = FALSE]
    [] t = "token_issue" -> [state EXCEPT !.token = Issued]
    [] t = "token_revoke" -> [state EXCEPT !.token = Null]

\* The row that came back, or no object.
Recorded(t) ==
  CASE t = "agent_delete" -> [state EXCEPT !.agent = Null]
    [] t \in {"agent_create", "agent_update"} ->
         [state EXCEPT !.agent = hub'.agent]
    [] t = "grant_set" -> [state EXCEPT !.grant = TRUE]
    [] t = "grant_unset" -> [state EXCEPT !.grant = FALSE]
    [] t = "token_issue" -> [state EXCEPT !.token = Issued]
    [] t = "token_revoke" -> [state EXCEPT !.token = Null]

\* What a failure keeps the run from doing.
Blocked(t) ==
  {u \in run.todo : t \in Needs(u) \/ \E w \in run.todo : t \in Needs(w) /\ w \in Needs(u)}

Apply(t, a) ==
  /\ run.pc = "apply" /\ t \in run.todo /\ Needs(t) \cap run.todo = {}
  /\ t = "token_issue" => \E i \in TokenIds : hub.tokens[i] = "unissued"
  /\ Exchange(RequestOf(t), a)
  /\ IF Succeeds(t, a)
       THEN /\ state' = Recorded(t)
            /\ run' = [run EXCEPT !.todo = @ \ {t}]
            /\ UNCHANGED last
       ELSE /\ run' = [run EXCEPT !.todo = @ \ ({t} \cup Blocked(t))]
            /\ last' = [last EXCEPT !.advice = @ \cup {hubDiag(a)}]
            /\ UNCHANGED state
  /\ UNCHANGED <<world, config, raced>>

Finish ==
  /\ run.pc = "apply" /\ run.todo = {}
  /\ run' = NoRun /\ last' = [last EXCEPT !.ok = last.advice = {}]
  /\ UNCHANGED <<hub, world, config, state, late, raced, spent>>

\* agentResource.ImportState, and the Read that follows it.
Import ==
  /\ run.pc = "idle" /\ world.valid
  /\ config.agent # Null /\ state.agent = Null /\ hub.agent # Null
  /\ state' = [state EXCEPT !.agent = hub.agent]
  /\ last' = [last EXCEPT !.ok = FALSE]
  /\ UNCHANGED <<hub, world, config, run, late, raced, spent>>

-----------------------------------------------------------------------------
(* The environment (external)                                              *)

Configure(c) ==
  /\ run.pc = "idle" /\ c # config /\ spent.edits < MaxEdits
  /\ config' = c
  /\ last' = [last EXCEPT !.ok = FALSE]
  /\ spent' = [spent EXCEPT !.edits = @ + 1]
  /\ UNCHANGED <<hub, world, state, run, late, raced>>

\* The run is killed between two requests, or while one is under way.
Crash ==
  /\ run.pc # "idle" /\ Fail
  /\ Abort({})
  /\ UNCHANGED <<hub, world, config, state, late, raced>>

ByHand ==
  IF hub.agent = Null THEN {[hub EXCEPT !.agent = DefaultNote]}
  ELSE {WithoutAgent, [hub EXCEPT !.grant = ~@]}
       \cup {[hub EXCEPT !.agent = n] : n \in Notes}

Drift ==
  /\ spent.drift < MaxDrift /\ spent' = [spent EXCEPT !.drift = @ + 1]
  /\ \E h \in ByHand : h # hub /\ hub' = h
  /\ raced' = TRUE
  /\ UNCHANGED <<world, config, state, run, last, late>>

\* A request that timed out reaches the hub after all, or never will.
Executed(q) ==
  /\ q \in late /\ late' = late \ {q}
  /\ q.op = "token_issue" => \E i \in TokenIds : hub.tokens[i] = "unissued"
  /\ hub' \in {hub, Served(q)}
  /\ raced' = (raced \/ hub' # hub)
  /\ UNCHANGED <<world, config, state, run, last, spent>>

Expire ==
  /\ world.valid /\ Fail
  /\ world' = [world EXCEPT !.valid = FALSE]
  /\ UNCHANGED <<hub, config, state, run, last, late, raced>>

\* The operator does what the diagnostics say.
Upgrade ==
  /\ "upgrade the hub" \in last.advice /\ ~world.supported
  /\ world' = [world EXCEPT !.supported = TRUE]
  /\ UNCHANGED <<hub, config, state, run, last, late, raced, spent>>

Renew ==
  /\ "check endpoint and token" \in last.advice /\ ~world.valid
  /\ world' = [world EXCEPT !.valid = TRUE]
  /\ UNCHANGED <<hub, config, state, run, last, late, raced, spent>>
-----------------------------------------------------------------------------

Handle(a) ==
  \/ Connect(a)
  \/ \E r \in Resources : Read(r, a)
  \/ \E t \in Tasks : Apply(t, a)

Operator ==
  \/ Import \/ Upgrade \/ Renew
  \/ \E c \in Configs : Configure(c)

Next ==
  \/ \E a \in Answer : Handle(a)
  \/ \E replace \in BOOLEAN : Plan(replace)
  \/ Finish \/ Operator \/ Crash \/ Drift \/ Expire
  \/ \E q \in late : Executed(q)

Spec == Init /\ [][Next]_vars

(***************************************************************************)
(* Fairness: runs are repeated and go on, a request that does not fail is  *)
(* answered, and the operator heeds what runs keep telling.                *)
(***************************************************************************)
Goes == (\E a \in Answer : Handle(a) /\ spent' = spent) \/ Plan(FALSE) \/ Finish

FairSpec == Spec /\ WF_vars(Goes) /\ SF_vars(Upgrade) /\ SF_vars(Renew)

-----------------------------------------------------------------------------
(* Properties                                                              *)

\* An object leaves the state only at an instant the hub has it not, whatever
\* an answer looks like: of all the ways a request can fail, "no such <family>
\* in this namespace" alone is taken for absence, and of "no such namespace",
\* a 404 or a revocation cut off, none is (IsNotFound; the Reads and Deletes).
ForgottenOnlyWhenGone ==
  [][/\ state.agent # Null /\ state'.agent = Null => hub'.agent = Null
     /\ state.grant /\ ~state'.grant => ~hub'.grant
     /\ state.token # Null /\ state'.token # state.token
          => hub'.tokens[state.token] # "live"]_vars

Fulfilled ==
  /\ config.agent = Null => state.agent = Null
  /\ config.agent # Null =>
       /\ state.agent # Null /\ state.agent = hub.agent
       /\ config.agent \in {hub.agent, Omitted}
  /\ config.grant = state.grant /\ (state.grant => hub.grant)
  /\ config.token = (state.token # Null)
  /\ state.token # Null => Listed(hub, state.token)

\* A run that reports success has done what the blocks say, on the hub as in the
\* state, unless somebody else was at work on it or the agent was replaced under
\* its dependents: no answer is taken for more than it says.
AppliedIsThere == last.ok /\ ~raced => Fulfilled

\* An agent whose creation was answered too late is to be imported; and the ids
\* are a bound.
Stuck ==
  \/ config.agent # Null /\ state.agent = Null /\ hub.agent # Null
  \/ \A i \in TokenIds : hub.tokens[i] # "unissued"

\* Repeated runs end with the hub as configured: after a deletion by hand or a
\* replacement, whose cascade no plan shows, after requests that were lost,
\* refused or executed late, with a credential that expired half way, and with
\* a hub too old for agent_update, because what hubDiag says of these is what
\* the operator has to do.
Converges == <>[](Fulfilled \/ Stuck)
=============================================================================
