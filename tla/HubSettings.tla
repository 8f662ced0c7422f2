----------------------------- MODULE HubSettings ----------------------------
(***************************************************************************)
(* pmcp_hub_settings (internal/provider/hub_settings.go): the one pair of  *)
(* execution timeouts an owner has, and the resource addresses that may    *)
(* manage it.                                                              *)
(*                                                                         *)
(* There is no delete operation: Delete writes the default pair.  So of    *)
(* two addresses -- a block renamed without `moved', or written twice --   *)
(* one's Delete undoes the other's write.  Whose pair it is comes from the *)
(* credential alone: Read and Delete never look at the owner_id in the     *)
(* state.                                                                  *)
(*                                                                         *)
(* The hub and OpenTofu are external.                                      *)
(***************************************************************************)
EXTENDS Integers

CONSTANTS
  Addresses,    \* resource addresses of the settings
  Owners,       \* whom a credential may belong to
  Timeouts,     \* the numbers of milliseconds that are tried
  Configs,      \* the pairs the operator may write
  Null,
  MaxEdits,     \* bound: edits of configuration or credential
  MaxDrift,     \* bound: changes made outside the provider
  MaxFaults     \* bound: requests that do not answer ok, and crashes

MinTimeoutMs == 1000
DefaultTimeoutMs == 30000
HardMaxMs == 300000

Pair == [default: Timeouts, max: Timeouts]
Defaults == [default |-> DefaultTimeoutMs, max |-> DefaultTimeoutMs]

\* hubSettingsModel.
Model == [owner: Owners, pair: Pair]

ASSUME ConstantsAssumption ==
  /\ DefaultTimeoutMs \in Timeouts /\ Timeouts \subseteq Int
  /\ Configs \subseteq Pair
  /\ Null \notin Pair /\ Null \notin Model
  /\ MaxEdits \in Nat /\ MaxDrift \in Nat /\ MaxFaults \in Nat

\* As in Client.Admin: an effect and an answer, an error and no effect, or an
\* effect whose answer is lost.
Outcome == {"ok", "refused", "lost"}

VARIABLES
  hub,     \* each owner's pair; an absent row is the default one
  cred,    \* the owner the provider's credential belongs to
  config,  \* what each address is configured to, or Null
  state,   \* the object in the state for each address, or Null
  op,      \* the handler in flight for each address
  unseen,  \* history: an owner's pair changed and its manager does not know
  left,    \* history: owners whose object now shows another's pair
  spent    \* the budgets used: edits, drift, faults

vars == <<hub, cred, config, state, op, unseen, left, spent>>

TypeOK ==
  /\ hub \in [Owners -> Pair] /\ cred \in Owners
  /\ config \in [Addresses -> Configs \cup {Null}]
  /\ state \in [Addresses -> Model \cup {Null}]
  /\ op \in [Addresses -> {"idle", "write", "reset"}]
  /\ unseen \in [Owners -> BOOLEAN] /\ left \subseteq Owners
  /\ spent \in [edits: 0..MaxEdits, drift: 0..MaxDrift, faults: 0..MaxFaults]

Init ==
  /\ hub = [o \in Owners |-> Defaults] /\ cred \in Owners
  /\ config = [x \in Addresses |-> Null] /\ state = config
  /\ op = [x \in Addresses |-> "idle"]
  /\ unseen = [o \in Owners |-> FALSE] /\ left = {}
  /\ spent = [edits |-> 0, drift |-> 0, faults |-> 0]

AllIdle == \A x \in Addresses : op[x] = "idle"

\* No other address knows of the settings, or is about to write them.
Sole(x) == \A y \in Addresses \ {x} : state[y] = Null /\ op[y] = "idle"

Spend(o) ==
  IF o = "ok" THEN UNCHANGED spent
  ELSE /\ spent.faults < MaxFaults
       /\ spent' = [spent EXCEPT !.faults = @ + 1]

-----------------------------------------------------------------------------
(* The rule of the pair                                                    *)

\* Mutant: a bound excluded that the rule includes.
InRangeStrictly(t) == t >= MinTimeoutMs /\ t < HardMaxMs

\* timeoutRangeValidator.
InRange(t) == t >= MinTimeoutMs /\ t <= HardMaxMs

\* The validators of both attributes, and ValidateConfig.
ValidPair(p) == InRange(p.default) /\ InRange(p.max) /\ p.default <= p.max

\* hub_settings_update's own rule, all in one.
HubAccepts(p) ==
  1000 <= p.default /\ p.default <= p.max /\ p.max <= 300000

-----------------------------------------------------------------------------
(* The handlers                                                            *)

\* model: the owner is the credential's, whatever the state said.
Shown(pair) == [owner |-> cred, pair |-> pair]

\* The owner an object belonged to before x's handler touched it.
Leaves(x) == IF state[x] = Null THEN {} ELSE {state[x].owner} \ {cred}

\* hub_settings_update: both values in one write, or a refusal of the whole.
Update(p, o) ==
  hub' = IF HubAccepts(p) /\ o # "refused" THEN [hub EXCEPT ![cred] = p] ELSE hub

\* Create and Update: write; a failure leaves the prior state.
Write(x, o) ==
  /\ op[x] = "write" /\ Spend(o)
  /\ Update(config[x], o)
  /\ IF HubAccepts(config[x]) /\ o = "ok"
       THEN /\ state' = [state EXCEPT ![x] = Shown(config[x])]
            /\ unseen' = [unseen EXCEPT ![cred] = ~Sole(x)]
            /\ left' = left \cup Leaves(x)
       ELSE /\ unseen' = [unseen EXCEPT ![cred] = @ \/ hub' # hub]
            /\ UNCHANGED <<state, left>>
  /\ op' = [op EXCEPT ![x] = "idle"]
  /\ UNCHANGED <<cred, config>>

\* Mutant: the object forgotten, the pair left as it was.
ResetForgetting(x, o) ==
  /\ op[x] = "reset" /\ Spend(o)
  /\ hub' = hub
  /\ state' = IF o = "ok" THEN [state EXCEPT ![x] = Null] ELSE state
  /\ UNCHANGED <<unseen, left>>
  /\ op' = [op EXCEPT ![x] = "idle"]
  /\ UNCHANGED <<cred, config>>

\* Delete writes the default pair, and does not look at the state.
Reset(x, o) ==
  /\ op[x] = "reset" /\ Spend(o)
  /\ Update(Defaults, o)
  /\ IF o = "ok"
       THEN /\ state' = [state EXCEPT ![x] = Null]
            /\ unseen' = [unseen EXCEPT ![cred] = ~Sole(x)]
            /\ left' = left \cup Leaves(x)
       ELSE /\ unseen' = [unseen EXCEPT ![cred] = @ \/ hub' # hub]
            /\ UNCHANGED <<state, left>>
  /\ op' = [op EXCEPT ![x] = "idle"]
  /\ UNCHANGED <<cred, config>>

\* Mutant: the state kept, as if there were nothing to refresh.
ReadNothing(x) ==
  /\ AllIdle /\ state[x] # Null
  /\ state' = [state EXCEPT ![x].owner = cred]
  /\ unseen' = [unseen EXCEPT ![cred] = @ /\ ~Sole(x)]
  /\ left' = (left \cup Leaves(x)) \ {cred}
  /\ UNCHANGED <<hub, cred, config, op, spent>>

\* Read always finds a pair; a failed one changes nothing.
Read(x) ==
  /\ AllIdle /\ state[x] # Null
  /\ state' = [state EXCEPT ![x] = Shown(hub[cred])]
  /\ unseen' = [unseen EXCEPT ![cred] = @ /\ ~Sole(x)]
  /\ left' = (left \cup Leaves(x)) \ {cred}
  /\ UNCHANGED <<hub, cred, config, op, spent>>

\* ImportState takes no id but the credential's owner; the Read after it.
Import(x, id) ==
  /\ AllIdle /\ state[x] = Null /\ config[x] # Null
  /\ id = cred
  /\ state' = [state EXCEPT ![x] = Shown(hub[cred])]
  /\ unseen' = [unseen EXCEPT ![id] = @ /\ ~Sole(x)]
  /\ left' = left \ {id}
  /\ UNCHANGED <<hub, cred, config, op, spent>>

-----------------------------------------------------------------------------
(* OpenTofu, the operator and the hub's other clients (external)           *)

\* owner_id is computed and keeps its value: it is never a difference.
Planned(x) ==
  IF config[x] = Null THEN IF state[x] = Null THEN "idle" ELSE "reset"
  ELSE IF state[x] # Null /\ state[x].pair = config[x] THEN "idle" ELSE "write"

\* One run, refused as a whole while a configuration is invalid.
Run ==
  /\ AllIdle
  /\ \A x \in Addresses : config[x] # Null => ValidPair(config[x])
  /\ \E x \in Addresses : Planned(x) # "idle"
  /\ op' = [x \in Addresses |-> Planned(x)]
  /\ UNCHANGED <<hub, cred, config, state, unseen, left, spent>>

EditSpent ==
  /\ AllIdle /\ spent.edits < MaxEdits
  /\ spent' = [spent EXCEPT !.edits = @ + 1]

Configure(f) ==
  /\ EditSpent /\ f # config /\ config' = f
  /\ UNCHANGED <<hub, cred, state, op, unseen, left>>

\* The provider is given another owner's token.
Switch(o) ==
  /\ EditSpent /\ o # cred /\ cred' = o
  /\ UNCHANGED <<hub, config, state, op, unseen, left>>

\* The settings page, or the CLI.
Drift ==
  /\ spent.drift < MaxDrift
  /\ spent' = [spent EXCEPT !.drift = @ + 1]
  /\ \E o \in Owners, p \in Configs :
       /\ HubAccepts(p) /\ p # hub[o]
       /\ hub' = [hub EXCEPT ![o] = p]
       /\ unseen' = [unseen EXCEPT ![o] = TRUE]
  /\ UNCHANGED <<cred, config, state, op, left>>

Crash ==
  /\ ~AllIdle /\ spent.faults < MaxFaults
  /\ op' = [x \in Addresses |-> "idle"]
  /\ spent' = [spent EXCEPT !.faults = @ + 1]
  /\ UNCHANGED <<hub, cred, config, state, unseen, left>>

Step(x, o) == Write(x, o) \/ Reset(x, o)

Next ==
  \/ Run \/ Drift \/ Crash
  \/ \E x \in Addresses :
       \/ Read(x) \/ \E id \in Owners : Import(x, id)
       \/ \E o \in Outcome : Step(x, o)
  \/ \E f \in [Addresses -> Configs \cup {Null}] : Configure(f)
  \/ \E o \in Owners : Switch(o)

Spec == Init /\ [][Next]_vars

\* As in Grant: runs are repeated, each refreshes every object, requests sent
\* again are eventually answered.
FairSpec ==
  /\ Spec /\ WF_vars(Run)
  /\ \A x \in Addresses : SF_vars(Read(x)) /\ WF_vars(Step(x, "ok"))

-----------------------------------------------------------------------------
(* Properties                                                              *)

\* What the state says is what its owner's executions get, unless the pair
\* changed behind its one manager's back: no lost write, no other address and
\* no change of credential leaves the two apart unnoticed.
StateIsThePair ==
  \A x \in Addresses :
    state[x] # Null /\ ~unseen[state[x].owner] =>
      hub[state[x].owner] = state[x].pair

\* An owner whose settings no address manages any more has the default pair
\* ("destroy restores the pinned 30000/30000 pair"), unless it was changed
\* unseen or the credential was taken away from under the object.
DestroyRestores ==
  \A o \in Owners \ left :
    ~unseen[o] /\ (\A x \in Addresses : state[x] = Null \/ state[x].owner # o)
    => hub[o] = Defaults

\* The three validators refuse exactly what the hub would ("the hub refuses the
\* same input"): a plan that is shown is not refused at apply, and no pair the
\* hub takes is out of the operator's reach, at the boundaries too.
RefusedAsTheHubWould ==
  \A x \in Addresses :
    config[x] # Null => (ValidPair(config[x]) <=> HubAccepts(config[x]))

\* Two addresses that want different pairs, and an invalid one, never settle.
Stuck ==
  \/ \E x, y \in Addresses :
       config[x] # Null /\ config[y] # Null /\ config[x] # config[y]
  \/ \E x \in Addresses : config[x] # Null /\ ~ValidPair(config[x])

Settled ==
  /\ AllIdle
  /\ \A x \in Addresses :
       IF config[x] = Null THEN state[x] = Null
       ELSE /\ state[x] = [owner |-> cred, pair |-> config[x]]
            /\ hub[cred] = config[x]

\* Repeated runs settle on the configured pair, for the credential's owner,
\* also when the Delete of a renamed block's old address reset it in the same
\* run: the next refresh sees it.
Converges == <>[](Settled \/ Stuck)
=============================================================================
