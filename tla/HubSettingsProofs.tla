-------------------------- MODULE HubSettingsProofs -------------------------
(***************************************************************************)
(* Proofs about HubSettings, for every set of addresses, owners, numbers   *)
(* and configured pairs.  Each safety invariant is inductive beside the    *)
(* types: what makes it so is that every write of a pair either becomes    *)
(* the one object that knows of it, or is entered in `unseen'.             *)
(***************************************************************************)
EXTENDS HubSettings, TLAPS

\* The default pair is one the hub takes, so a Delete that is answered ok has
\* written it.
LEMMA DefaultsAccepted == Defaults \in Pair /\ HubAccepts(Defaults)
  BY ConstantsAssumption DEF Defaults, Pair, HubAccepts, DefaultTimeoutMs

LEMMA UpdateType ==
  ASSUME TypeOK, NEW p \in Pair, NEW o, Update(p, o)
  PROVE  hub' \in [Owners -> Pair]
  BY DEF TypeOK, Update

LEMMA SpendType ==
  ASSUME TypeOK, NEW o, Spend(o)
  PROVE  spent' \in [edits: 0..MaxEdits, drift: 0..MaxDrift, faults: 0..MaxFaults]
  BY ConstantsAssumption DEF TypeOK, Spend

-----------------------------------------------------------------------------
(* Types                                                                   *)

\* A handler that writes has a configured pair to write.
HasPair == \A x \in Addresses : op[x] = "write" => config[x] # Null

TInv == TypeOK /\ HasPair

LEMMA InitTypes == Init => TInv
  BY ConstantsAssumption, DefaultsAccepted DEF Init, TInv, TypeOK, HasPair

LEMMA WriteTypes ==
  ASSUME TInv, NEW x \in Addresses, NEW o \in Outcome, Write(x, o)
  PROVE  TInv'
  <1>1. spent' \in [edits: 0..MaxEdits, drift: 0..MaxDrift, faults: 0..MaxFaults]
    BY SpendType DEF Write, TInv
  <1>2. config[x] \in Pair
    BY ConstantsAssumption DEF Write, TInv, HasPair, TypeOK
  <1>3. hub' \in [Owners -> Pair]
    BY <1>2, UpdateType DEF Write, TInv
  <1>4. Shown(config[x]) \in Model
    BY <1>2 DEF Shown, Model, TInv, TypeOK
  <1>5. state' \in [Addresses -> Model \cup {Null}]
    BY <1>4 DEF Write, TInv, TypeOK
  <1>6. left' \subseteq Owners
    BY DEF Write, Leaves, TInv, TypeOK, Model
  <1>7. unseen' \in [Owners -> BOOLEAN]
    <2>1. Sole(x) \in BOOLEAN
      BY DEF Sole
    <2>2. QED
      BY <2>1 DEF Write, TInv, TypeOK
  <1>8. op' \in [Addresses -> {"idle", "write", "reset"}]
        /\ (\A y \in Addresses : op'[y] = "write" => op[y] = "write")
        /\ UNCHANGED <<cred, config>>
    BY DEF Write, TInv, TypeOK
  <1>9. QED
    BY <1>1, <1>3, <1>5, <1>6, <1>7, <1>8 DEF TInv, TypeOK, HasPair

LEMMA ResetTypes ==
  ASSUME TInv, NEW x \in Addresses, NEW o \in Outcome, Reset(x, o)
  PROVE  TInv'
  <1>1. spent' \in [edits: 0..MaxEdits, drift: 0..MaxDrift, faults: 0..MaxFaults]
    BY SpendType DEF Reset, TInv
  <1>2. hub' \in [Owners -> Pair]
    BY DefaultsAccepted, UpdateType DEF Reset, TInv
  <1>3. state' \in [Addresses -> Model \cup {Null}]
    BY DEF Reset, TInv, TypeOK
  <1>4. left' \subseteq Owners
    BY DEF Reset, Leaves, TInv, TypeOK, Model
  <1>5. unseen' \in [Owners -> BOOLEAN]
    <2>1. Sole(x) \in BOOLEAN
      BY DEF Sole
    <2>2. QED
      BY <2>1 DEF Reset, TInv, TypeOK
  <1>6. op' \in [Addresses -> {"idle", "write", "reset"}]
        /\ (\A y \in Addresses : op'[y] = "write" => op[y] = "write")
        /\ UNCHANGED <<cred, config>>
    BY DEF Reset, TInv, TypeOK
  <1>7. QED
    BY <1>1, <1>2, <1>3, <1>4, <1>5, <1>6 DEF TInv, TypeOK, HasPair

LEMMA ReadTypes ==
  ASSUME TInv, NEW x \in Addresses, NEW id \in Owners, Read(x) \/ Import(x, id)
  PROVE  TInv'
  <1>1. Shown(hub[cred]) \in Model
    BY DEF TInv, TypeOK, Shown, Model
  <1>2. state' \in [Addresses -> Model \cup {Null}]
    BY <1>1 DEF Read, Import, TInv, TypeOK
  <1>3. left' \subseteq Owners
    BY DEF Read, Import, Leaves, TInv, TypeOK, Model
  <1>4. unseen' \in [Owners -> BOOLEAN]
    <2>1. Sole(x) \in BOOLEAN
      BY DEF Sole
    <2>2. QED
      BY <2>1 DEF Read, Import, TInv, TypeOK
  <1>5. UNCHANGED <<hub, cred, config, op, spent>>
    BY DEF Read, Import
  <1>6. QED
    BY <1>2, <1>3, <1>4, <1>5 DEF TInv, TypeOK, HasPair

LEMMA RunTypes == ASSUME TInv, Run PROVE TInv'
  <1>1. \A x \in Addresses :
          /\ Planned(x) \in {"idle", "write", "reset"}
          /\ Planned(x) = "write" => config[x] # Null
    BY DEF Planned
  <1>2. QED
    BY <1>1 DEF Run, TInv, TypeOK, HasPair

LEMMA EditSpends ==
  ASSUME TInv, EditSpent
  PROVE  spent' \in [edits: 0..MaxEdits, drift: 0..MaxDrift, faults: 0..MaxFaults]
  BY ConstantsAssumption DEF EditSpent, TInv, TypeOK

LEMMA EditTypes ==
  ASSUME TInv,
         \/ \E f \in [Addresses -> Configs \cup {Null}] : Configure(f)
         \/ \E o \in Owners : Switch(o)
  PROVE  TInv'
  <1>1. EditSpent
    BY DEF Configure, Switch
  <1>2. QED
    BY <1>1, EditSpends DEF Configure, Switch, EditSpent, AllIdle, TInv, TypeOK, HasPair

LEMMA DriftTypes == ASSUME TInv, Drift PROVE TInv'
  <1>1. spent' \in [edits: 0..MaxEdits, drift: 0..MaxDrift, faults: 0..MaxFaults]
    BY ConstantsAssumption DEF Drift, TInv, TypeOK
  <1>2. PICK o \in Owners, p \in Configs : hub' = [hub EXCEPT ![o] = p]
                                           /\ unseen' = [unseen EXCEPT ![o] = TRUE]
    BY DEF Drift
  <1>3. p \in Pair
    BY ConstantsAssumption
  <1>4. QED
    BY <1>1, <1>2, <1>3 DEF Drift, TInv, TypeOK, HasPair

LEMMA CrashTypes == ASSUME TInv, Crash PROVE TInv'
  BY ConstantsAssumption DEF Crash, TInv, TypeOK, HasPair

LEMMA NextTypes == TInv /\ [Next]_vars => TInv'
  <1>1. ASSUME TInv, UNCHANGED vars PROVE TInv'
    BY <1>1 DEF TInv, TypeOK, HasPair, vars
  <1>2. ASSUME TInv, NEW x \in Addresses, Read(x) PROVE TInv'
    <2>1. cred \in Owners
      BY <1>2 DEF TInv, TypeOK
    <2>2. QED
      BY <1>2, <2>1, ReadTypes
  <1>3. QED
    BY <1>1, <1>2, WriteTypes, ResetTypes, ReadTypes, RunTypes, EditTypes, DriftTypes,
       CrashTypes DEF Next, Step

(***************************************************************************)
(* Every object has an owner and a pair, also after the credential changed *)
(* hands, for any addresses, owners and numbers.                           *)
(***************************************************************************)
THEOREM TypeCorrect == Spec => []TypeOK
  <1>1. TInv => TypeOK
    BY DEF TInv
  <1>2. QED
    BY InitTypes, NextTypes, <1>1, PTL DEF Spec

\* For every pair of integers, whatever numbers the operator may try.
LEMMA SameRule == ASSUME NEW p \in Pair PROVE ValidPair(p) <=> HubAccepts(p)
  <1>1. p.default \in Int /\ p.max \in Int
    BY ConstantsAssumption DEF Pair
  <1>2. QED
    BY <1>1 DEF ValidPair, InRange, HubAccepts, MinTimeoutMs, HardMaxMs

(***************************************************************************)
(* The validators refuse what the hub refuses, and nothing else.           *)
(***************************************************************************)
THEOREM SameRefusals == Spec => []RefusedAsTheHubWould
  <1>1. TypeOK => RefusedAsTheHubWould
    <2>1. ASSUME TypeOK, NEW x \in Addresses, config[x] # Null
          PROVE  config[x] \in Pair
      BY <2>1, ConstantsAssumption DEF TypeOK
    <2>2. QED
      BY <2>1, SameRule DEF RefusedAsTheHubWould
  <1>2. QED
    BY <1>1, TypeCorrect, PTL

-----------------------------------------------------------------------------
(* What the state says of the hub                                          *)

(***************************************************************************)
(* Both are inductive beside the types: a step that writes a pair either   *)
(* shows it in the one object that knows of it, or enters it in `unseen'.  *)
(***************************************************************************)
IInv == TInv /\ StateIsThePair /\ DestroyRestores

LEMMA InitInv == Init => IInv
  <1>1. Init => StateIsThePair /\ DestroyRestores
    BY DEF Init, StateIsThePair, DestroyRestores
  <1>2. QED
    BY <1>1, InitTypes DEF IInv

LEMMA Owned ==
  ASSUME TInv, NEW x \in Addresses, state[x] # Null
  PROVE  state[x].owner \in Owners /\ state[x].pair \in Pair
  BY DEF TInv, TypeOK, Model

\* A pair that was written and not heard of is remembered.
LEMMA Unheard ==
  ASSUME IInv, UNCHANGED <<state, left>>,
         \A o \in Owners : unseen[o] => unseen'[o],
         \A o \in Owners : hub'[o] # hub[o] => unseen'[o]
  PROVE  StateIsThePair' /\ DestroyRestores'
  <1>1. StateIsThePair'
    BY Owned DEF IInv, StateIsThePair
  <1>2. DestroyRestores'
    BY DEF IInv, DestroyRestores
  <1>3. QED
    BY <1>1, <1>2

\* What an answered write leaves: x's object, or none, about the owner the
\* credential belongs to, and the owner x's object was about before.
LEMMA Answered ==
  ASSUME IInv, NEW x \in Addresses, NEW v \in Model \cup {Null}, NEW p \in Pair,
         v # Null => v = [owner |-> cred, pair |-> p],
         v = Null => p = Defaults,
         hub' = [hub EXCEPT ![cred] = p],
         state' = [state EXCEPT ![x] = v],
         unseen' = [unseen EXCEPT ![cred] = ~Sole(x)],
         left' = left \cup Leaves(x)
  PROVE  StateIsThePair' /\ DestroyRestores'
  <1>0. /\ cred \in Owners /\ hub'[cred] = p /\ state'[x] = v
        /\ (unseen'[cred] <=> ~Sole(x))
        /\ \A o \in Owners \ {cred} : hub'[o] = hub[o] /\ unseen'[o] = unseen[o]
        /\ \A y \in Addresses \ {x} : state'[y] = state[y]
    <2>1. Sole(x) \in BOOLEAN
      BY DEF Sole
    <2>2. QED
      BY <2>1 DEF IInv, TInv, TypeOK
  <1>1. StateIsThePair'
    <2>1. SUFFICES ASSUME NEW y \in Addresses, state'[y] # Null, ~unseen'[state'[y].owner]
                   PROVE  hub'[state'[y].owner] = state'[y].pair
      BY DEF StateIsThePair
    <2>2. CASE y = x
      BY <1>0, <2>1, <2>2
    <2>3. CASE y # x
      <3>1. state'[y] = state[y] /\ ~Sole(x)
        BY <1>0, <2>1, <2>3 DEF Sole
      <3>2. state[y].owner \in Owners \ {cred}
        BY <1>0, <2>1, <3>1, Owned DEF IInv
      <3>3. QED
        BY <1>0, <2>1, <3>1, <3>2 DEF IInv, StateIsThePair
    <2>4. QED
      BY <2>2, <2>3
  <1>2. DestroyRestores'
    <2>1. SUFFICES ASSUME NEW o \in Owners \ left', ~unseen'[o],
                          \A y \in Addresses : state'[y] = Null \/ state'[y].owner # o
                   PROVE  hub'[o] = Defaults
      BY DEF DestroyRestores
    <2>2. CASE o = cred
      BY <1>0, <2>1, <2>2
    <2>3. CASE o # cred
      <3>1. state[x] = Null \/ state[x].owner # o
        BY <2>1, <2>3 DEF Leaves
      <3>2. \A y \in Addresses : state[y] = Null \/ state[y].owner # o
        BY <1>0, <2>1, <3>1
      <3>3. QED
        BY <1>0, <2>1, <2>3, <3>2 DEF IInv, DestroyRestores
    <2>4. QED
      BY <2>2, <2>3
  <1>3. QED
    BY <1>1, <1>2

LEMMA NoAnswer ==
  ASSUME IInv, NEW p, NEW o, Update(p, o), UNCHANGED <<state, left>>,
         unseen' = [unseen EXCEPT ![cred] = @ \/ hub' # hub]
  PROVE  StateIsThePair' /\ DestroyRestores'
  <1>1. \A w \in Owners : hub'[w] # hub[w] => w = cred /\ hub' # hub
    BY DEF Update, IInv, TInv, TypeOK
  <1>2. /\ unseen'[cred] = (unseen[cred] \/ hub' # hub)
        /\ \A w \in Owners \ {cred} : unseen'[w] = unseen[w]
    BY DEF IInv, TInv, TypeOK
  <1>3. QED
    BY <1>1, <1>2, Unheard

LEMMA WriteKeeps ==
  ASSUME IInv, NEW x \in Addresses, NEW o \in Outcome, Write(x, o)
  PROVE  StateIsThePair' /\ DestroyRestores'
  <1>1. CASE HubAccepts(config[x]) /\ o = "ok"
    <2>1. config[x] \in Pair
      BY ConstantsAssumption DEF Write, IInv, TInv, HasPair, TypeOK
    <2>2. Shown(config[x]) \in Model /\ Shown(config[x]) # Null
      BY <2>1, ConstantsAssumption DEF Shown, Model, IInv, TInv, TypeOK
    <2>3. /\ hub' = [hub EXCEPT ![cred] = config[x]]
          /\ state' = [state EXCEPT ![x] = Shown(config[x])]
          /\ unseen' = [unseen EXCEPT ![cred] = ~Sole(x)]
          /\ left' = left \cup Leaves(x)
      BY <1>1 DEF Write, Update
    <2>4. QED
      BY <2>1, <2>2, <2>3, Answered DEF Shown
  <1>2. CASE ~(HubAccepts(config[x]) /\ o = "ok")
    BY <1>2, NoAnswer DEF Write
  <1>3. QED
    BY <1>1, <1>2

LEMMA ResetKeeps ==
  ASSUME IInv, NEW x \in Addresses, NEW o \in Outcome, Reset(x, o)
  PROVE  StateIsThePair' /\ DestroyRestores'
  <1>1. CASE o = "ok"
    <2>1. /\ hub' = [hub EXCEPT ![cred] = Defaults]
          /\ state' = [state EXCEPT ![x] = Null]
          /\ unseen' = [unseen EXCEPT ![cred] = ~Sole(x)]
          /\ left' = left \cup Leaves(x)
      BY <1>1, DefaultsAccepted DEF Reset, Update
    <2>2. QED
      BY <2>1, DefaultsAccepted, Answered
  <1>2. CASE o # "ok"
    BY <1>2, NoAnswer DEF Reset
  <1>3. QED
    BY <1>1, <1>2

\* A read clears `unseen' only when nobody else could know better.
LEMMA ReadKeeps ==
  ASSUME IInv, NEW x \in Addresses, NEW id \in Owners, Read(x) \/ Import(x, id)
  PROVE  StateIsThePair' /\ DestroyRestores'
  <1>0. /\ cred \in Owners /\ hub' = hub /\ state'[x] = Shown(hub[cred])
        /\ (unseen'[cred] <=> unseen[cred] /\ ~Sole(x))
        /\ \A o \in Owners \ {cred} : unseen'[o] = unseen[o]
        /\ \A y \in Addresses \ {x} : state'[y] = state[y]
        /\ left' = (left \cup Leaves(x)) \ {cred}
    <2>1. Sole(x) \in BOOLEAN
      BY DEF Sole
    <2>2. CASE Read(x)
      BY <2>1, <2>2 DEF Read, IInv, TInv, TypeOK
    <2>3. CASE Import(x, id)
      BY <2>1, <2>3 DEF Import, Leaves, IInv, TInv, TypeOK
    <2>4. QED
      BY <2>2, <2>3
  <1>1. StateIsThePair'
    <2>1. SUFFICES ASSUME NEW y \in Addresses, state'[y] # Null, ~unseen'[state'[y].owner]
                   PROVE  hub'[state'[y].owner] = state'[y].pair
      BY DEF StateIsThePair
    <2>2. CASE y = x
      BY <1>0, <2>2 DEF Shown
    <2>3. CASE y # x
      <3>1. state'[y] = state[y] /\ ~Sole(x)
        BY <1>0, <2>1, <2>3 DEF Sole
      <3>2. state[y].owner \in Owners /\ ~unseen[state[y].owner]
        BY <1>0, <2>1, <3>1, Owned DEF IInv
      <3>3. QED
        BY <1>0, <2>1, <3>1, <3>2 DEF IInv, StateIsThePair
    <2>4. QED
      BY <2>2, <2>3
  <1>2. DestroyRestores'
    <2>1. SUFFICES ASSUME NEW o \in Owners \ left', ~unseen'[o],
                          \A y \in Addresses : state'[y] = Null \/ state'[y].owner # o
                   PROVE  hub'[o] = Defaults
      BY DEF DestroyRestores
    <2>2. o # cred
      BY <1>0, <2>1, ConstantsAssumption DEF Shown, Model, IInv, TInv, TypeOK
    <2>3. state[x] = Null \/ state[x].owner # o
      BY <1>0, <2>1, <2>2 DEF Leaves
    <2>4. QED
      BY <1>0, <2>1, <2>2, <2>3 DEF IInv, DestroyRestores
  <1>3. QED
    BY <1>1, <1>2

LEMMA DriftKeeps == ASSUME IInv, Drift PROVE StateIsThePair' /\ DestroyRestores'
  <1>1. PICK o \in Owners, p \in Configs : hub' = [hub EXCEPT ![o] = p]
                                           /\ unseen' = [unseen EXCEPT ![o] = TRUE]
    BY DEF Drift
  <1>2. \A w \in Owners : (unseen[w] => unseen'[w]) /\ (hub'[w] # hub[w] => unseen'[w])
    BY <1>1 DEF IInv, TInv, TypeOK
  <1>3. QED
    BY <1>2, Unheard DEF Drift

LEMMA NextInv == IInv /\ [Next]_vars => IInv'
  <1>1. ASSUME IInv, UNCHANGED <<hub, state, unseen, left>>
        PROVE  StateIsThePair' /\ DestroyRestores'
    BY <1>1 DEF IInv, StateIsThePair, DestroyRestores
  <1>2. ASSUME IInv,
               \/ UNCHANGED vars \/ Run \/ Crash
               \/ \E f \in [Addresses -> Configs \cup {Null}] : Configure(f)
               \/ \E o \in Owners : Switch(o)
        PROVE  StateIsThePair' /\ DestroyRestores'
    BY <1>1, <1>2 DEF vars, Run, Crash, Configure, Switch
  <1>3. ASSUME IInv, NEW x \in Addresses, Read(x) \/ \E id \in Owners : Import(x, id)
        PROVE  StateIsThePair' /\ DestroyRestores'
    <2>1. cred \in Owners
      BY <1>3 DEF IInv, TInv, TypeOK
    <2>2. QED
      BY <1>3, <2>1, ReadKeeps
  <1>4. ASSUME IInv, [Next]_vars PROVE StateIsThePair' /\ DestroyRestores'
    BY <1>2, <1>3, <1>4, WriteKeeps, ResetKeeps, DriftKeeps DEF Next, Step
  <1>5. QED
    BY <1>4, NextTypes DEF IInv

(***************************************************************************)
(* What an address shows is what its owner's executions get, unless the    *)
(* pair changed behind its one manager's back.                             *)
(***************************************************************************)
THEOREM StateShowsThePair == Spec => []StateIsThePair
  <1>1. IInv => StateIsThePair
    BY DEF IInv
  <1>2. QED
    BY InitInv, NextInv, <1>1, PTL DEF Spec

(***************************************************************************)
(* Settings that no address manages any more are the default ones, however *)
(* many writes and resets were lost, and in whatever order two addresses   *)
(* gave theirs.                                                            *)
(***************************************************************************)
THEOREM DestroyingRestores == Spec => []DestroyRestores
  <1>1. IInv => DestroyRestores
    BY DEF IInv
  <1>2. QED
    BY InitInv, NextInv, <1>1, PTL DEF Spec
=============================================================================
