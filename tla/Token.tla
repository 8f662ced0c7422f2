-------------------------------- MODULE Token -------------------------------
(***************************************************************************)
(* pmcp_token (internal/provider/token.go): one managed credential, its    *)
(* generations on the hub, the objects the OpenTofu state holds for it,    *)
(* and the consumer the plaintext is delivered to.                         *)
(*                                                                         *)
(* Every configurable attribute forces replacement, so a change of         *)
(* configuration is a Create and a Delete.  Under create_before_destroy    *)
(* the old object is deposed while its successor is created, and deleted   *)
(* after the consumers were updated; by default it is deleted first.       *)
(*                                                                         *)
(* Abstractions.  rotation, expires_in and the referent are one value, the *)
(* generation.  The referent is one agent.  A token that was revoked and   *)
(* one that expired are both `dead': still listed, no longer accepted.     *)
(* The hub and OpenTofu are external.                                      *)
(***************************************************************************)
EXTENDS Naturals, FiniteSets

CONSTANTS
  Ids,          \* the ids the hub can give to tokens (a bound)
  Generations,  \* the configurations of the block
  Unset,        \* the generation that sets neither rotation nor expires_in
  Null,
  MaxEdits,     \* bound: configuration edits
  MaxDrift,     \* bound: tokens and agents changed outside the provider
  MaxFaults     \* bound: requests that do not answer ok, and crashes

ASSUME ConstantsAssumption ==
  /\ Null \notin Ids /\ Null \notin Generations \cup {Unset}
  /\ MaxEdits \in Nat /\ MaxDrift \in Nat /\ MaxFaults \in Nat

\* As in Client.Admin: an effect and an answer, an error and no effect, or an
\* effect whose answer is lost.
Outcome == {"ok", "refused", "lost"}

Object ==
  [id: Ids, gen: Generations \cup {Unset}, secret: BOOLEAN, tainted: BOOLEAN]

ASSUME NullIsNoObject == Null \notin Object

VARIABLES
  tokens,    \* the hub's row of each id: "unissued", "live", "dead", "gone"
  agent,     \* whether the agent that the block names exists
  config,    \* the generation configured, or Null for no block
  order,     \* its lifecycle: the successor is created "first" or "last"
  current,   \* the object in the state, or Null
  deposed,   \* the objects replaced and not yet deleted
  op,        \* the handler in flight
  consumer,  \* the id of the plaintext delivered, or Null
  imported,  \* history: the ids whose plaintext the provider never saw
  orphans,   \* history: issued without the state learning of it
  lapsed,    \* history: ended by anybody but the provider
  unheard,   \* history: revoked by the provider, which saw an error
  spent      \* the budgets used: edits, drift, faults

hubVars == <<tokens, agent>>
block == <<config, order>>
stateVars == <<current, deposed>>
history == <<imported, orphans, lapsed, unheard>>
vars == <<hubVars, block, stateVars, op, consumer, history, spent>>

\* `prior' is the object deposed for the creation in flight, put back when the
\* creation leaves nothing; `then' is what follows a deletion.
Idle == [pc |-> "idle", obj |-> Null, prior |-> Null, then |-> "stop"]

TypeOK ==
  /\ tokens \in [Ids -> {"unissued", "live", "dead", "gone"}]
  /\ agent \in BOOLEAN
  /\ config \in Generations \cup {Null} /\ order \in {"first", "last"}
  /\ current \in Object \cup {Null}
  /\ deposed \subseteq Object
  /\ op \in [pc: {"idle", "issue", "list", "revoke"}, obj: Object \cup {Null},
             prior: Object \cup {Null}, then: {"stop", "create"}]
  /\ consumer \in Ids \cup {Null}
  /\ imported \subseteq Ids /\ orphans \subseteq Ids
  /\ lapsed \subseteq Ids /\ unheard \subseteq Ids
  /\ spent \in [edits: 0..MaxEdits, drift: 0..MaxDrift, faults: 0..MaxFaults]

Init ==
  /\ tokens = [i \in Ids |-> "unissued"] /\ agent = TRUE
  /\ config = Null /\ order \in {"first", "last"}
  /\ current = Null /\ deposed = {}
  /\ op = Idle /\ consumer = Null
  /\ imported = {} /\ orphans = {} /\ lapsed = {} /\ unheard = {}
  /\ spent = [edits |-> 0, drift |-> 0, faults |-> 0]

Fresh == {i \in Ids : tokens[i] = "unissued"}
\* An id is given out once; which one comes next tells nothing.
NextId == CHOOSE i \in Fresh : TRUE
Listed(i) == tokens[i] \in {"live", "dead"}

\* The objects in the state, and those the handler in flight holds.
InState == deposed \cup ({current} \ {Null})
Held == InState \cup ({op.obj, op.prior} \ {Null})
Tracked == {o.id : o \in Held}

Spend(o) ==
  IF o = "ok" THEN UNCHANGED spent
  ELSE /\ spent.faults < MaxFaults
       /\ spent' = [spent EXCEPT !.faults = @ + 1]

-----------------------------------------------------------------------------
(* Create                                                                  *)

\* The creation left no object: OpenTofu puts the deposed one back.
NothingCreated ==
  /\ current' = op.prior
  /\ deposed' = deposed \ {op.prior}
  /\ op' = Idle

\* token_issue.  The plaintext and the id are in hand from here on.
Issue(o) ==
  /\ op.pc = "issue" /\ Fresh # {} /\ Spend(o)
  /\ IF agent /\ o # "refused"
       THEN /\ tokens' = [tokens EXCEPT ![NextId] = "live"]
            /\ IF o = "ok"
                 THEN /\ op' = [op EXCEPT !.pc = "list",
                             !.obj = [id |-> NextId, gen |-> config,
                                      secret |-> TRUE, tainted |-> FALSE]]
                      /\ UNCHANGED <<stateVars, orphans>>
                 ELSE NothingCreated /\ orphans' = orphans \cup {NextId}
       ELSE NothingCreated /\ UNCHANGED <<tokens, orphans>>
  /\ UNCHANGED <<agent, block, consumer, imported, lapsed, unheard>>

\* Mutant: nothing recorded when the follow-up read fails.
ListThenRecord(o) ==
  /\ op.pc = "list" /\ Spend(o)
  /\ IF o = "ok" /\ Listed(op.obj.id)
       THEN current' = op.obj /\ op' = Idle /\ UNCHANGED deposed
       ELSE NothingCreated
  /\ UNCHANGED <<hubVars, block, consumer, history>>

\* token_list for the row's metadata.  When it fails, or the row is not there,
\* the object is recorded all the same and the creation failed: it is tainted.
List(o) ==
  /\ op.pc = "list" /\ Spend(o)
  /\ current' = [op.obj EXCEPT !.tainted = ~(o = "ok" /\ Listed(op.obj.id))]
  /\ op' = Idle
  /\ UNCHANGED <<hubVars, block, deposed, consumer, history>>

-----------------------------------------------------------------------------
(* Delete                                                                  *)

\* Mutant: every token of the agent revoked, rather than the row's own id.
RevokeAll(o) ==
  /\ op.pc = "revoke" /\ Spend(o)
  /\ tokens' = IF o = "refused" THEN tokens
               ELSE [i \in Ids |-> IF tokens[i] = "live" THEN "dead"
                                   ELSE tokens[i]]
  /\ IF o = "ok"
       THEN /\ current' = IF current = op.obj THEN Null ELSE current
            /\ deposed' = deposed \ {op.obj}
            /\ op' = IF op.then = "create"
                       THEN [Idle EXCEPT !.pc = "issue"] ELSE Idle
            /\ UNCHANGED unheard
       ELSE /\ op' = Idle /\ UNCHANGED stateVars
            /\ unheard' = IF o = "lost" THEN unheard \cup {op.obj.id}
                          ELSE unheard
  /\ UNCHANGED <<agent, block, consumer, imported, orphans, lapsed>>

\* Mutant: the object dropped whatever the error.
RevokeAndForget(o) ==
  /\ op.pc = "revoke" /\ Spend(o)
  /\ tokens' = IF o # "refused" /\ Listed(op.obj.id)
                 THEN [tokens EXCEPT ![op.obj.id] = "dead"] ELSE tokens
  /\ current' = IF current = op.obj THEN Null ELSE current
  /\ deposed' = deposed \ {op.obj}
  /\ op' = IF op.then = "create" THEN [Idle EXCEPT !.pc = "issue"] ELSE Idle
  /\ UNCHANGED <<agent, block, consumer, history>>

\* Mutant: an error for a token that is revoked already.
RevokeOnce(o) ==
  /\ op.pc = "revoke" /\ Spend(o)
  /\ tokens' = IF o # "refused" /\ Listed(op.obj.id)
                 THEN [tokens EXCEPT ![op.obj.id] = "dead"] ELSE tokens
  /\ op' = IF o = "ok" /\ op.then = "create"
             THEN [Idle EXCEPT !.pc = "issue"] ELSE Idle
  /\ IF o = "ok" /\ tokens[op.obj.id] # "dead"
       THEN /\ current' = IF current = op.obj THEN Null ELSE current
            /\ deposed' = deposed \ {op.obj}
       ELSE UNCHANGED stateVars
  /\ UNCHANGED <<agent, block, consumer, history>>

\* token_revoke of the object's own id.  A row that is not there any more is a
\* success; so is one already revoked.  Only a success drops the object.
Revoke(o) ==
  /\ op.pc = "revoke" /\ Spend(o)
  /\ tokens' = IF o # "refused" /\ Listed(op.obj.id)
                 THEN [tokens EXCEPT ![op.obj.id] = "dead"] ELSE tokens
  /\ IF o = "ok"
       THEN /\ current' = IF current = op.obj THEN Null ELSE current
            /\ deposed' = deposed \ {op.obj}
            /\ op' = IF op.then = "create"
                       THEN [Idle EXCEPT !.pc = "issue"] ELSE Idle
            /\ UNCHANGED unheard
       ELSE /\ op' = Idle /\ UNCHANGED stateVars
            /\ unheard' = IF o = "lost" THEN unheard \cup {op.obj.id}
                          ELSE unheard
  /\ UNCHANGED <<agent, block, consumer, imported, orphans, lapsed>>

-----------------------------------------------------------------------------
(* Read and import                                                         *)

\* Mutant: a revoked or expired row taken for drift.
Missing(i) == tokens[i] # "live"

Absent(i) == ~Listed(i)

\* Mutant: token set from the row, which has none.
ReadOverwriting ==
  /\ op.pc = "idle" /\ current # Null /\ Listed(current.id)
  /\ current' = [current EXCEPT !.secret = FALSE]
  /\ UNCHANGED <<hubVars, block, deposed, op, consumer, history, spent>>

\* Only a row absent from token_list leaves the state.  The plaintext, which
\* the hub cannot return, is kept.
Read ==
  /\ op.pc = "idle"
  /\ \E o \in InState :
       /\ Absent(o.id)
       /\ current' = IF current = o THEN Null ELSE current
       /\ deposed' = deposed \ {o}
  /\ UNCHANGED <<hubVars, block, op, consumer, history, spent>>

\* Mutant: what the row does not tell left unset after an import.
ImportIdOnly(i) ==
  /\ op.pc = "idle" /\ config # Null /\ current = Null
  /\ Listed(i) /\ i \notin Tracked
  /\ current' = [id |-> i, gen |-> Null, secret |-> FALSE, tainted |-> FALSE]
  /\ imported' = imported \cup {i}
  /\ UNCHANGED <<hubVars, block, deposed, op, consumer, orphans, lapsed,
                 unheard, spent>>

\* Import by id, and the Read that follows it: no plaintext, and neither
\* rotation nor expires_in, which have no wire counterpart.
Import(i) ==
  /\ op.pc = "idle" /\ config # Null /\ current = Null
  /\ Listed(i) /\ i \notin Tracked
  /\ current' = [id |-> i, gen |-> Unset, secret |-> FALSE, tainted |-> FALSE]
  /\ imported' = imported \cup {i}
  /\ UNCHANGED <<hubVars, block, deposed, op, consumer, orphans, lapsed,
                 unheard, spent>>

-----------------------------------------------------------------------------
(* OpenTofu (external)                                                     *)

\* The agent, a block of the same configuration, is created before the token.
ToReplace == current # Null /\ (current.tainted \/ current.gen # config)
Steady == current # Null /\ ~ToReplace
Delivered == IF current.secret THEN current.id ELSE Null

PlanCreate ==
  /\ op.pc = "idle" /\ config # Null /\ current = Null
  /\ agent /\ Fresh # {}
  /\ op' = [Idle EXCEPT !.pc = "issue"]
  /\ UNCHANGED <<hubVars, block, stateVars, consumer, history, spent>>

PlanReplace ==
  /\ op.pc = "idle" /\ config # Null /\ ToReplace
  /\ agent /\ Fresh # {}
  /\ IF order = "first"
       THEN /\ op' = [Idle EXCEPT !.pc = "issue", !.prior = current]
            /\ deposed' = deposed \cup {current} /\ current' = Null
       ELSE /\ op' = [Idle EXCEPT !.pc = "revoke", !.obj = current,
                                  !.then = "create"]
            /\ UNCHANGED stateVars
  /\ UNCHANGED <<hubVars, block, consumer, history, spent>>

\* The consumers are updated once there is an object to stay.
Deliver ==
  /\ op.pc = "idle" /\ config # Null /\ Steady
  /\ consumer # Delivered /\ consumer' = Delivered
  /\ UNCHANGED <<hubVars, block, stateVars, op, history, spent>>

\* A deposed object goes last, after the creation and after the consumers.
PlanDeposed ==
  /\ op.pc = "idle"
  /\ IF config = Null THEN consumer = Null
     ELSE Steady /\ consumer = Delivered
  /\ \E o \in deposed : op' = [Idle EXCEPT !.pc = "revoke", !.obj = o]
  /\ UNCHANGED <<hubVars, block, stateVars, consumer, history, spent>>

\* The block is gone: so are the references to it, then the object.
Withdraw ==
  /\ op.pc = "idle" /\ config = Null
  /\ consumer # Null /\ consumer' = Null
  /\ UNCHANGED <<hubVars, block, stateVars, op, history, spent>>

PlanDelete ==
  /\ op.pc = "idle" /\ config = Null /\ consumer = Null /\ current # Null
  /\ op' = [Idle EXCEPT !.pc = "revoke", !.obj = current]
  /\ UNCHANGED <<hubVars, block, stateVars, consumer, history, spent>>

Configure(c) ==
  /\ op.pc = "idle" /\ c # config /\ spent.edits < MaxEdits
  /\ config' = c
  /\ spent' = [spent EXCEPT !.edits = @ + 1]
  /\ UNCHANGED <<hubVars, order, stateVars, op, consumer, history>>

\* The run is killed.  An object just issued is not in the state yet; one just
\* deposed may or may not be recorded as such.
Crash ==
  /\ op.pc # "idle" /\ spent.faults < MaxFaults
  /\ op' = Idle
  /\ \/ UNCHANGED stateVars
     \/ /\ op.prior # Null
        /\ current' = op.prior /\ deposed' = deposed \ {op.prior}
  /\ orphans' = IF op.pc = "list" THEN orphans \cup {op.obj.id} ELSE orphans
  /\ spent' = [spent EXCEPT !.faults = @ + 1]
  /\ UNCHANGED <<hubVars, block, consumer, imported, lapsed, unheard>>

-----------------------------------------------------------------------------
(* The hub's other clients, and time (external)                            *)

DriftSpent ==
  /\ spent.drift < MaxDrift
  /\ spent' = [spent EXCEPT !.drift = @ + 1]

IssueByHand ==
  /\ agent /\ Fresh # {} /\ DriftSpent
  /\ tokens' = [tokens EXCEPT ![NextId] = "live"]
  /\ imported' = imported \cup {NextId}
  /\ UNCHANGED <<agent, block, stateVars, op, consumer, orphans, lapsed,
                 unheard>>

RevokedOrExpired ==
  /\ DriftSpent
  /\ \E i \in Ids :
       /\ tokens[i] = "live" /\ tokens' = [tokens EXCEPT ![i] = "dead"]
       /\ lapsed' = lapsed \cup {i}
  /\ UNCHANGED <<agent, block, stateVars, op, consumer, imported, orphans,
                 unheard>>

\* Deleting the agent deletes its tokens.
AgentDeleted ==
  /\ agent /\ DriftSpent
  /\ agent' = FALSE
  /\ tokens' = [i \in Ids |-> IF Listed(i) THEN "gone" ELSE tokens[i]]
  /\ lapsed' = lapsed \cup {i \in Ids : tokens[i] = "live"}
  /\ UNCHANGED <<block, stateVars, op, consumer, imported, orphans, unheard>>

\* The run recreates the agent before the token that names it.
AgentCreated ==
  /\ ~agent /\ op.pc = "idle"
  /\ agent' = TRUE
  /\ UNCHANGED <<tokens, block, stateVars, op, consumer, history, spent>>

-----------------------------------------------------------------------------

Step(o) == Issue(o) \/ List(o) \/ Revoke(o)
Run == PlanCreate \/ PlanReplace \/ Deliver \/ PlanDeposed \/ Withdraw
       \/ PlanDelete
Others == IssueByHand \/ RevokedOrExpired \/ AgentDeleted \/ AgentCreated

Next ==
  \/ Run \/ Read \/ Others \/ Crash
  \/ \E o \in Outcome : Step(o)
  \/ \E i \in Ids : Import(i)
  \/ \E c \in Generations \cup {Null} : Configure(c)

Spec == Init /\ [][Next]_vars

(***************************************************************************)
(* Fairness: `tofu apply' is run for as long as there is something to do,  *)
(* refreshing first, and a request sent again is eventually answered.      *)
(***************************************************************************)
FairSpec ==
  Spec /\ WF_vars(Run) /\ WF_vars(Read) /\ WF_vars(AgentCreated)
       /\ WF_vars(Step("ok"))

-----------------------------------------------------------------------------
(* Properties                                                              *)

\* A token issued by the provider and still accepted is in the state, or in the
\* hands of the handler that will put it there: a follow-up read that fails
\* orphans nothing.  Only an answer that never came, or a killed run, can.
NoInvisibleCredential ==
  \A i \in Ids : tokens[i] = "live" =>
    i \in Tracked \cup imported \cup orphans

\* Every object of an issued token keeps the plaintext, the only copy there
\* is, through every refresh, failed step and put-back of a deposed object.
PlaintextKept == \A o \in Held : o.secret <=> o.id \notin imported

\* Under the default ordering two generations never overlap: of the tokens the
\* provider issued or manages, leaving out the orphans, at most one is accepted,
\* however many revocations failed on the way.
OneLiveByDefault ==
  order = "last" =>
    Cardinality({i \in Ids : tokens[i] = "live"
                             /\ i \notin (imported \ Tracked) \cup orphans}) <= 1

\* An object leaves the state when it is done with and not before: its row is
\* gone, or its own revocation has just taken effect.  A revoked or expired row
\* that is still listed is not drift, an error drops nothing, and recording a
\* creation again, tainted, keeps its id.  Only a killed run loses one.
ForgottenOnlyWhenDone ==
  [][\A o \in Held : o \notin Held' =>
       \/ ~Listed(o.id)
       \/ op.pc = "revoke" /\ op.obj = o /\ tokens'[o.id] # "live"
       \/ \E p \in Held' : p.id = o.id
       \/ o.id \in orphans']_vars

\* A token whose plaintext the state has is accepted, or was ended by others, or
\* by a revocation that was not heard of: a row that every later plan takes for
\* settled, if the block is put back after that, is dead for no other reason.
DeadIsAccountedFor ==
  \A o \in Held : o.secret => tokens[o.id] = "live" \/ o.id \in lapsed \cup unheard

\* create_before_destroy is a guarantee: see Rotation.  Under the default order
\* nothing is promised, and nothing is mapped.
Promised(S) == IF order = "first" THEN S ELSE {}
Overlap == INSTANCE Rotation WITH
  None <- Null,
  issued <- Promised({i \in Ids : tokens[i] # "unissued"}),
  live <- Promised({i \in Ids : tokens[i] = "live"}),
  inUse <- IF order = "first" THEN consumer ELSE Null,
  lapsed <- Promised(lapsed),
  unheard <- Promised(unheard)
OverlapSpec == Overlap!Spec

\* Repeated runs settle: one object of the generation configured, delivered,
\* and no generation left behind -- or no block and nothing in the state.
\* The ids may run out first, which is this model's bound.
Settles ==
  <>[](Fresh = {} \/
       (op.pc = "idle" /\ deposed = {} /\
          IF config = Null THEN current = Null /\ consumer = Null
          ELSE Steady /\ consumer = Delivered))
=============================================================================
