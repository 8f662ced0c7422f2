-------------------------------- MODULE Grant -------------------------------
(***************************************************************************)
(* pmcp_grant (internal/provider/grant.go): the role set of one (agent,    *)
(* app) pair, and the resource addresses that may manage it.               *)
(*                                                                         *)
(* grant_set replaces the pair's set whole, and Delete is grant_set with   *)
(* an empty list: of two addresses for one pair -- a block renamed without *)
(* `moved', or written twice -- each overwrites the other.  OpenTofu runs  *)
(* the handlers of one apply concurrently, so a run is here one plan for   *)
(* every address and then their steps in any order.                        *)
(*                                                                         *)
(* Abstractions.  An entry is its text without any `:approval' suffix, and *)
(* the number of those suffixes.  The wire's list is a set.  An empty set  *)
(* stands for an omitted attribute: ValidateConfig refuses `[]'.           *)
(* The hub and OpenTofu are external.                                      *)
(***************************************************************************)
EXTENDS Naturals

CONSTANTS
  Addresses,    \* resource addresses for the pair
  Names,        \* role names the configurations use
  All,          \* the built-in role
  Inline,       \* inline items, as tool/<pattern>
  Configs,      \* the configurations the operator may write
  Null,
  MaxEdits,     \* bound: configuration edits
  MaxDrift,     \* bound: changes made outside the provider
  MaxFaults     \* bound: requests that do not answer ok, and crashes

Base == Names \cup {All} \cup Inline

\* Only an inline pattern may itself end in `:approval': the hub's role grammar
\* has no colon.
Entry == [base: Base, suffix: {0}] \cup [base: Inline, suffix: {1}]
Wire == [base: Base, suffix: {0, 1}] \cup [base: Inline, suffix: {2}]

Sets == [allow: SUBSET Entry, approval: SUBSET Entry]

\* ValidateConfig: at least one entry, and none in both modes.
ValidConfig(c) ==
  /\ c.allow \cup c.approval # {}
  /\ c.allow \cap c.approval = {}

ASSUME ConstantsAssumption ==
  /\ Configs \subseteq {c \in Sets : ValidConfig(c)}
  /\ All \notin Names \cup Inline /\ Names \cap Inline = {}
  /\ MaxEdits \in Nat /\ MaxDrift \in Nat /\ MaxFaults \in Nat

ASSUME NullIsNoObject == Null \notin Sets /\ \A S \in SUBSET Wire : Null # S

\* As in Client.Admin: an effect and an answer, an error and no effect, or an
\* effect whose answer is lost.
Outcome == {"ok", "refused", "lost"}

App == [kind: {"proxy", "tunnel"}, roles: SUBSET Names]

VARIABLES
  agent,   \* whether the agent exists
  app,     \* the app, with the roles it declares and its owner's, or Null
  grants,  \* the hub's entries for the pair, {} or Null for no key
  config,  \* what each address is configured to, or Null
  state,   \* the object in the state for each address, or Null
  op,      \* the handler in flight for each address
  unseen,  \* history: the pair's set changed and its manager does not know
  spent    \* the budgets used: edits, drift, faults

vars == <<agent, app, grants, config, state, op, unseen, spent>>

\* `raced': the app changed after the handler had looked at it.
Handler == [pc: {"idle", "check", "set", "unset"}, raced: BOOLEAN]
Idle == [pc |-> "idle", raced |-> FALSE]

TypeOK ==
  /\ agent \in BOOLEAN
  /\ app \in App \cup {Null}
  /\ grants = Null \/ grants \subseteq Wire
  /\ config \in [Addresses -> Configs \cup {Null}]
  /\ state \in [Addresses -> Sets \cup {Null}]
  /\ op \in [Addresses -> Handler]
  /\ unseen \in BOOLEAN
  /\ spent \in [edits: 0..MaxEdits, drift: 0..MaxDrift, faults: 0..MaxFaults]

Init ==
  /\ agent = TRUE
  /\ \E k \in {"proxy", "tunnel"} : app = [kind |-> k, roles |-> Names]
  /\ grants = Null
  /\ config = [x \in Addresses |-> Null] /\ state = config
  /\ op = [x \in Addresses |-> Idle]
  /\ unseen = FALSE
  /\ spent = [edits |-> 0, drift |-> 0, faults |-> 0]

AllIdle == \A x \in Addresses : op[x].pc = "idle"

\* No other address knows of the pair, or is about to write it.
Sole(x) == \A y \in Addresses \ {x} : state[y] = Null /\ op[y].pc = "idle"

Spend(o) ==
  IF o = "ok" THEN UNCHANGED spent
  ELSE /\ spent.faults < MaxFaults
       /\ spent' = [spent EXCEPT !.faults = @ + 1]

-----------------------------------------------------------------------------
(* The wire encoding                                                       *)

Suffix(e) == [base |-> e.base, suffix |-> e.suffix + 1]
CutSuffix(e) == [base |-> e.base, suffix |-> e.suffix - 1]
Suffixed(S) == {Suffix(e) : e \in S}
Stripped(S) == {CutSuffix(e) : e \in S}

\* Mutant: the suffix forgotten.
ToWireFlat(m) == m.allow \cup m.approval

\* Mutant: the suffix tested for and left in place.
FromWireRaw(w) ==
  [allow |-> {e \in w : e.suffix = 0}, approval |-> {e \in w : e.suffix > 0}]

\* rolesToWire and rolesFromWire: CutSuffix strips one suffix.
ToWire(m) == m.allow \cup Suffixed(m.approval)
FromWire(w) ==
  [allow |-> {e \in w : e.suffix = 0},
   approval |-> Stripped({e \in w : e.suffix > 0})]

\* An allowed inline entry that the wire cannot tell from an approval.
Ambiguous(m) == \E e \in m.allow : e.suffix > 0

-----------------------------------------------------------------------------
(* Create and Update: applyGrant                                           *)

\* Mutant: only one of the two sets checked.
NeededAllow(m) == {e.base : e \in m.allow} \ (Inline \cup {All})

\* The entries that have to be declared.
Needed(m) == {e.base : e \in m.allow \cup m.approval} \ (Inline \cup {All})

\* checkDeclaredRoles: app_get, then an undeclared role is a warning on a tunnel
\* app and an error on a proxied one, and grant_set is not sent.
Check(x, o) ==
  /\ op[x].pc = "check" /\ Spend(o)
  /\ op' = [op EXCEPT ![x] =
       IF /\ o = "ok" /\ app # Null
          /\ app.kind = "proxy" => Needed(config[x]) \subseteq app.roles
         THEN [pc |-> "set", raced |-> FALSE] ELSE Idle]
  /\ UNCHANGED <<agent, app, grants, config, state, unseen>>

\* Mutant: the entries added to those the pair has.
SetAdding(x, o) ==
  /\ op[x].pc = "set" /\ Spend(o)
  /\ LET takes == agent /\ app # Null IN
     /\ grants' = IF takes /\ o # "refused"
          THEN ToWire(config[x]) \cup (IF grants = Null THEN {} ELSE grants)
          ELSE grants
     /\ IF takes /\ o = "ok"
          THEN /\ state' = [state EXCEPT ![x] = config[x]]
               /\ unseen' = ~Sole(x)
          ELSE /\ UNCHANGED state
               /\ unseen' = (unseen \/ grants' # grants)
  /\ op' = [op EXCEPT ![x] = Idle]
  /\ UNCHANGED <<agent, app, config>>

\* grant_set replaces the set whole.  A failure records nothing: a creation
\* leaves no object and an update the prior one.
Set(x, o) ==
  /\ op[x].pc = "set" /\ Spend(o)
  /\ LET takes == agent /\ app # Null IN
     /\ grants' = IF takes /\ o # "refused" THEN ToWire(config[x]) ELSE grants
     /\ IF takes /\ o = "ok"
          THEN /\ state' = [state EXCEPT ![x] = config[x]]
               /\ unseen' = ~Sole(x)
          ELSE /\ UNCHANGED state
               /\ unseen' = (unseen \/ grants' # grants)
  /\ op' = [op EXCEPT ![x] = Idle]
  /\ UNCHANGED <<agent, app, config>>

-----------------------------------------------------------------------------
(* Delete                                                                  *)

\* grant_set of no roles, whoever set the ones there are.  The hub drops the
\* key or keeps it empty; an agent or app that is gone is a success.
Unset(x, o) ==
  /\ op[x].pc = "unset" /\ Spend(o)
  /\ IF agent /\ app # Null /\ o # "refused"
       THEN grants' \in {Null, {}} ELSE UNCHANGED grants
  /\ state' = IF o = "ok" THEN [state EXCEPT ![x] = Null] ELSE state
  /\ unseen' = (unseen \/ (grants' # grants /\ (state'[x] # Null \/ ~Sole(x))))
  /\ op' = [op EXCEPT ![x] = Idle]
  /\ UNCHANGED <<agent, app, config>>

-----------------------------------------------------------------------------
(* Read and import                                                         *)

\* The agent is absent, has no key for the app, or has one with no roles.
Gone == grants \in {Null, {}}

\* Mutant: only the absent agent removes the object.
ReadKeeping(x) ==
  /\ AllIdle /\ state[x] # Null
  /\ state' = [state EXCEPT ![x] = IF ~agent THEN Null
                                   ELSE IF Gone THEN @ ELSE FromWire(grants)]
  /\ unseen' = (unseen /\ ~Sole(x))
  /\ UNCHANGED <<agent, app, grants, config, op, spent>>

Read(x) ==
  /\ AllIdle /\ state[x] # Null
  /\ state' = [state EXCEPT ![x] = IF Gone THEN Null ELSE FromWire(grants)]
  /\ unseen' = (unseen /\ ~Sole(x))
  /\ UNCHANGED <<agent, app, grants, config, op, spent>>

\* Import of <agent>/<app>, and the Read that follows it.
Import(x) ==
  /\ AllIdle /\ state[x] = Null /\ config[x] # Null /\ ~Gone
  /\ state' = [state EXCEPT ![x] = FromWire(grants)]
  /\ unseen' = (unseen /\ ~Sole(x))
  /\ UNCHANGED <<agent, app, grants, config, op, spent>>

-----------------------------------------------------------------------------
(* OpenTofu (external)                                                     *)

Planned(x) ==
  IF config[x] = Null THEN IF state[x] = Null THEN "idle" ELSE "unset"
  ELSE IF state[x] = config[x] THEN "idle" ELSE "check"

\* One run.  The graph orders the agent and the app before the grant.
Run ==
  /\ AllIdle
  /\ \E x \in Addresses : Planned(x) # "idle"
  /\ \A x \in Addresses : Planned(x) = "check" => agent /\ app # Null
  /\ op' = [x \in Addresses |-> [pc |-> Planned(x), raced |-> FALSE]]
  /\ UNCHANGED <<agent, app, grants, config, state, unseen, spent>>

Configure(f) ==
  /\ AllIdle /\ f # config /\ spent.edits < MaxEdits
  /\ config' = f
  /\ spent' = [spent EXCEPT !.edits = @ + 1]
  /\ UNCHANGED <<agent, app, grants, state, op, unseen>>

Crash ==
  /\ ~AllIdle /\ spent.faults < MaxFaults
  /\ op' = [x \in Addresses |-> Idle]
  /\ spent' = [spent EXCEPT !.faults = @ + 1]
  /\ UNCHANGED <<agent, app, grants, config, state, unseen>>

\* The run creates again the agent or the app that its configuration declares.
Recreated ==
  /\ AllIdle /\ (~agent \/ app = Null)
  /\ \E x \in Addresses : config[x] # Null
  /\ agent' = TRUE
  /\ IF app = Null
       THEN \E k \in {"proxy", "tunnel"} : app' = [kind |-> k, roles |-> Names]
       ELSE UNCHANGED app
  /\ UNCHANGED <<grants, config, state, op, unseen, spent>>

-----------------------------------------------------------------------------
(* The hub's other clients (external)                                      *)

DriftSpent ==
  /\ spent.drift < MaxDrift
  /\ spent' = [spent EXCEPT !.drift = @ + 1]

Raced == op' = [x \in Addresses |-> [op[x] EXCEPT !.raced = op[x].pc = "set"]]

\* grant_set by somebody else.
GrantedByHand ==
  /\ DriftSpent /\ agent /\ app # Null
  /\ \E c \in Configs : grants' = ToWire(c)
  /\ unseen' = TRUE
  /\ UNCHANGED <<agent, app, config, state, op>>

\* A role leaves the app's map: an app_update, or another connection's roles.
RoleDropped ==
  /\ DriftSpent /\ app # Null
  /\ \E r \in app.roles : app' = [app EXCEPT !.roles = @ \ {r}]
  /\ Raced
  /\ UNCHANGED <<agent, grants, config, state, unseen>>

\* agent_delete and app_delete cascade to the grants.
AgentOrAppDeleted ==
  /\ DriftSpent /\ agent /\ app # Null
  /\ \/ agent' = FALSE /\ UNCHANGED app
     \/ app' = Null /\ UNCHANGED agent
  /\ grants' = Null /\ unseen' = TRUE
  /\ Raced
  /\ UNCHANGED <<config, state>>

-----------------------------------------------------------------------------

Step(x, o) == Check(x, o) \/ Set(x, o) \/ Unset(x, o)
Others == GrantedByHand \/ RoleDropped \/ AgentOrAppDeleted

Next ==
  \/ Run \/ Recreated \/ Others \/ Crash
  \/ \E x \in Addresses :
       Read(x) \/ Import(x) \/ \E o \in Outcome : Step(x, o)
  \/ \E f \in [Addresses -> Configs \cup {Null}] : Configure(f)

Spec == Init /\ [][Next]_vars

(***************************************************************************)
(* Fairness: runs go on, each refreshes every object before it plans, and  *)
(* a request sent again is eventually answered.                            *)
(***************************************************************************)
FairSpec ==
  /\ Spec
  /\ WF_vars(Run) /\ WF_vars(Recreated)
  /\ \A x \in Addresses : SF_vars(Read(x)) /\ WF_vars(Step(x, "ok"))

-----------------------------------------------------------------------------
(* Properties                                                              *)

GrantAsState ==
  \A x \in Addresses :
    state[x] # Null /\ ~unseen => grants = ToWire(state[x])

NoEmptyGrant ==
  \A x \in Addresses :
    state[x] # Null => state[x].allow \cup state[x].approval # {}

\* What the state says the pair is granted is what the hub enforces, unless the
\* set changed behind its one manager's back: no failed or lost grant_set, no
\* cascade and no refresh leaves the two apart unnoticed.  And it is never a
\* grant of nothing, which no configuration can ask for and every plan would
\* want to change: Read sees all three ways of being gone.
StateIsTheGrant == GrantAsState /\ NoEmptyGrant

\* A refresh after an apply changes nothing: the sets read back from the wire's
\* flat list are the ones configured, so the next plan is empty (the perpetual
\* diff that ValidateConfig's empty-set rule is there to prevent).
RefreshIsQuiet ==
  \A x \in Addresses :
    /\ state[x] # Null /\ state[x] = config[x]
    /\ ~unseen /\ ~Ambiguous(config[x])
    => ~Gone /\ FromWire(grants) = config[x]

\* An undeclared role reaches a proxied app's grant only when the app changed
\* between app_get and grant_set: the handler's own check lets none through,
\* in either set and whatever else the run is doing.
UndeclaredOnlyInARace ==
  [][\A x \in Addresses :
       op[x].pc = "set" /\ op'[x].pc = "idle" /\ state'[x] # state[x]
       /\ app.kind = "proxy" /\ ~op[x].raced
       => {e.base : e \in grants'} \ (Inline \cup {All}) \subseteq app.roles]_vars

\* Two addresses that want different sets, an entry the wire cannot express, an
\* undeclared role on a proxied app: no run settles these.
Stuck ==
  \/ \E x, y \in Addresses :
       config[x] # Null /\ config[y] # Null /\ config[x] # config[y]
  \/ \E x \in Addresses :
       /\ config[x] # Null
       /\ \/ Ambiguous(config[x])
          \/ app # Null /\ app.kind = "proxy"
             /\ ~(Needed(config[x]) \subseteq app.roles)

Settled ==
  /\ AllIdle
  /\ \A x \in Addresses : state[x] = config[x]
  /\ \A x \in Addresses : config[x] # Null => grants = ToWire(config[x])

\* Repeated runs settle on the configured set, granted on the hub, also when a
\* block was renamed and the Delete of its old address wiped, in the same run,
\* what the new one had set: the next refresh sees it gone.
Converges == <>[](Settled \/ Stuck)

-----------------------------------------------------------------------------
(* What the comments say and the code does not do                          *)

\* "Role names never contain a colon (admin.ts), so the suffix is unambiguous"
\* (rolesFromWire): what was applied is what is read back.
SuffixIsUnambiguous ==
  \A x \in Addresses :
    state[x] # Null /\ state[x] = config[x] /\ ~unseen =>
      FromWire(ToWire(config[x])) = config[x]
=============================================================================
