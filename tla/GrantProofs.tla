----------------------------- MODULE GrantProofs ----------------------------
(***************************************************************************)
(* Proofs about Grant, for every set of addresses, entries and             *)
(* configurations, and every bound.                                        *)
(***************************************************************************)
EXTENDS Grant, TLAPS

-----------------------------------------------------------------------------
(* The wire encoding                                                       *)

(***************************************************************************)
(* An entry of the wire is its base and its suffixes, as many as its base  *)
(* can have.                                                               *)
(***************************************************************************)
LEMMA EntryShape ==
  /\ \A e \in Wire :
       /\ e = [base |-> e.base, suffix |-> e.suffix]
       /\ e.base \in Base /\ e.suffix \in {0, 1, 2}
       /\ e.suffix = 2 => e.base \in Inline
  /\ \A e \in Entry :
       /\ e = [base |-> e.base, suffix |-> e.suffix]
       /\ e.base \in Base /\ e.suffix \in {0, 1}
       /\ e.suffix = 1 => e.base \in Inline
  <1>1. ASSUME NEW B, NEW S, NEW e \in [base: B, suffix: S]
        PROVE  e = [base |-> e.base, suffix |-> e.suffix] /\ e.base \in B /\ e.suffix \in S
    OBVIOUS
  <1>2. QED
    BY <1>1 DEF Wire, Entry, Base

(***************************************************************************)
(* One suffix added to an entry makes an entry of the wire with a suffix,  *)
(* one stripped from such an entry makes an entry, and either undoes the   *)
(* other.                                                                  *)
(***************************************************************************)
LEMMA SuffixRoundTrip ==
  /\ \A e \in Entry : /\ Suffix(e) \in Wire /\ Suffix(e).suffix > 0
                      /\ CutSuffix(Suffix(e)) = e
  /\ \A e \in Wire : e.suffix > 0 => /\ CutSuffix(e) \in Entry
                                     /\ Suffix(CutSuffix(e)) = e
  <1>1. ASSUME NEW e \in Entry
        PROVE  /\ Suffix(e) \in Wire /\ Suffix(e).suffix > 0
               /\ CutSuffix(Suffix(e)) = e
    <2>1. /\ e = [base |-> e.base, suffix |-> e.suffix]
          /\ e.base \in Base /\ e.suffix \in {0, 1}
          /\ e.suffix = 1 => e.base \in Inline
      BY EntryShape
    <2>2. Suffix(e) \in Wire
      BY <2>1 DEF Suffix, Wire
    <2>3. Suffix(e).suffix = e.suffix + 1 /\ Suffix(e).base = e.base
      BY DEF Suffix
    <2>4. CutSuffix(Suffix(e)) = e
      BY <2>1, <2>3 DEF CutSuffix
    <2>5. QED
      BY <2>1, <2>2, <2>3, <2>4
  <1>2. ASSUME NEW e \in Wire, e.suffix > 0
        PROVE  CutSuffix(e) \in Entry /\ Suffix(CutSuffix(e)) = e
    <2>1. /\ e = [base |-> e.base, suffix |-> e.suffix]
          /\ e.base \in Base /\ e.suffix \in {0, 1, 2}
          /\ e.suffix = 2 => e.base \in Inline
      BY EntryShape
    <2>2. CutSuffix(e) \in Entry
      BY <1>2, <2>1 DEF CutSuffix, Entry
    <2>3. CutSuffix(e).suffix = e.suffix - 1 /\ CutSuffix(e).base = e.base
      BY DEF CutSuffix
    <2>4. Suffix(CutSuffix(e)) = e
      BY <2>1, <2>3 DEF Suffix
    <2>5. QED
      BY <2>2, <2>4
  <1>3. QED
    BY <1>1, <1>2

(***************************************************************************)
(* Encoding two sets gives entries of the wire, and at least one entry for *)
(* at least one entry.                                                     *)
(***************************************************************************)
LEMMA ToWireType ==
  ASSUME NEW m \in Sets
  PROVE  /\ ToWire(m) \subseteq Wire
         /\ m.allow \cup m.approval # {} => ToWire(m) # {}
  <1>1. m.allow \subseteq Entry /\ m.approval \subseteq Entry
    BY DEF Sets
  <1>2. Entry \subseteq Wire
    <2>1. ASSUME NEW e \in Entry
          PROVE  e \in Wire
      <3>1. /\ e = [base |-> e.base, suffix |-> e.suffix]
            /\ e.base \in Base /\ e.suffix \in {0, 1}
        BY EntryShape
      <3>2. QED
        BY <3>1 DEF Wire
    <2>2. QED
      BY <2>1
  <1>3. Suffixed(m.approval) \subseteq Wire
    BY <1>1, SuffixRoundTrip DEF Suffixed
  <1>4. m.approval # {} => Suffixed(m.approval) # {}
    BY DEF Suffixed
  <1>5. QED
    BY <1>1, <1>2, <1>3, <1>4 DEF ToWire

(***************************************************************************)
(* What is read back is two sets of entries, and empty only if the wire is.*)
(***************************************************************************)
LEMMA FromWireType ==
  ASSUME NEW w \in SUBSET Wire
  PROVE  /\ FromWire(w) \in Sets
         /\ w # {} => FromWire(w).allow \cup FromWire(w).approval # {}
  <1>1. {e \in w : e.suffix = 0} \subseteq Entry
    <2>1. ASSUME NEW e \in w, e.suffix = 0
          PROVE  e \in Entry
      <3>1. e = [base |-> e.base, suffix |-> e.suffix] /\ e.base \in Base
        BY EntryShape
      <3>2. QED
        BY <2>1, <3>1 DEF Entry
    <2>2. QED
      BY <2>1
  <1>2. Stripped({e \in w : e.suffix > 0}) \subseteq Entry
    BY SuffixRoundTrip DEF Stripped
  <1>3. FromWire(w) \in Sets
    BY <1>1, <1>2 DEF FromWire, Sets
  <1>4. ASSUME NEW e \in w
        PROVE  FromWire(w).allow \cup FromWire(w).approval # {}
    <2>1. e.suffix = 0 \/ e.suffix > 0
      BY EntryShape
    <2>2. CASE e.suffix = 0
      BY <2>2 DEF FromWire
    <2>3. CASE e.suffix > 0
      BY <2>3 DEF FromWire, Stripped
    <2>4. QED
      BY <2>1, <2>2, <2>3
  <1>5. QED
    BY <1>3, <1>4

(***************************************************************************)
(* What the provider reads back and would write again is what the hub has. *)
(***************************************************************************)
LEMMA WireRoundTrip ==
  ASSUME NEW w \in SUBSET Wire
  PROVE  ToWire(FromWire(w)) = w
  <1> DEFINE high == {e \in w : e.suffix > 0}
  <1>1. Suffixed(Stripped(high)) = high
    <2>1. \A e \in high : Suffix(CutSuffix(e)) = e
      BY SuffixRoundTrip
    <2>2. Suffixed(Stripped(high)) = {Suffix(CutSuffix(e)) : e \in high}
      BY DEF Suffixed, Stripped
    <2>3. QED
      BY <2>1, <2>2
  <1>2. w = {e \in w : e.suffix = 0} \cup high
    BY EntryShape
  <1>3. ToWire(FromWire(w)) = {e \in w : e.suffix = 0} \cup Suffixed(Stripped(high))
    BY DEF ToWire, FromWire
  <1>4. QED
    BY <1>1, <1>2, <1>3

(***************************************************************************)
(* Two sets are read back as they were written, unless an allowed inline   *)
(* entry ends in the suffix.                                               *)
(***************************************************************************)
LEMMA SetsRoundTrip ==
  ASSUME NEW m \in Sets, ~Ambiguous(m)
  PROVE  FromWire(ToWire(m)) = m
  <1> DEFINE high == Suffixed(m.approval)
  <1>1. m.allow \subseteq Entry /\ m.approval \subseteq Entry
        /\ m = [allow |-> m.allow, approval |-> m.approval]
    BY DEF Sets
  <1>2. \A e \in m.allow : e.suffix = 0
    BY <1>1, EntryShape DEF Ambiguous
  <1>3. \A e \in high : e.suffix > 0 /\ e.suffix # 0
    <2>1. \A e \in Entry : Suffix(e).suffix > 0 /\ Suffix(e).suffix # 0
      BY EntryShape DEF Suffix
    <2>2. QED
      BY <1>1, <2>1 DEF Suffixed
  <1>4. {e \in m.allow \cup high : e.suffix = 0} = m.allow
    BY <1>2, <1>3
  <1>5. {e \in m.allow \cup high : e.suffix > 0} = high
    BY <1>2, <1>3
  <1>6. Stripped(high) = m.approval
    <2>1. \A e \in m.approval : CutSuffix(Suffix(e)) = e
      BY <1>1, SuffixRoundTrip
    <2>2. Stripped(high) = {CutSuffix(Suffix(e)) : e \in m.approval}
      BY DEF Suffixed, Stripped
    <2>3. QED
      BY <2>1, <2>2
  <1>7. FromWire(m.allow \cup high) = m
    BY <1>1, <1>4, <1>5, <1>6 DEF FromWire
  <1>8. QED
    BY <1>7 DEF ToWire

-----------------------------------------------------------------------------
(* Types                                                                   *)

(***************************************************************************)
(* A handler that will write the pair has a configuration to write: the    *)
(* configurations change only between runs.                                *)
(***************************************************************************)
Configured ==
  \A x \in Addresses : op[x].pc \in {"check", "set"} => config[x] \in Configs

(***************************************************************************)
(* A configuration is two sets, not both empty, and not Null.              *)
(***************************************************************************)
LEMMA ConfigType ==
  ASSUME NEW c \in Configs
  PROVE  /\ c \in Sets /\ c # Null
         /\ c.allow \cup c.approval # {}
  BY ConstantsAssumption, NullIsNoObject DEF ValidConfig

LEMMA InitType == Init => TypeOK /\ Configured
  <1> SUFFICES ASSUME Init
               PROVE  TypeOK /\ Configured
    OBVIOUS
  <1>1. app \in App
    BY DEF Init, App
  <1>2. op \in [Addresses -> Handler]
    BY DEF Init, Idle, Handler
  <1>3. spent \in [edits: 0..MaxEdits, drift: 0..MaxDrift, faults: 0..MaxFaults]
    BY ConstantsAssumption DEF Init
  <1>4. TypeOK
    BY <1>1, <1>2, <1>3 DEF Init, TypeOK
  <1>5. Configured
    BY DEF Init, Idle, Configured
  <1>6. QED
    BY <1>4, <1>5

(***************************************************************************)
(* A request takes at most one fault from its bound.                       *)
(***************************************************************************)
LEMMA SpendType ==
  ASSUME TypeOK, NEW o, Spend(o)
  PROVE  spent' \in [edits: 0..MaxEdits, drift: 0..MaxDrift, faults: 0..MaxFaults]
  <1>1. CASE o = "ok"
    BY <1>1 DEF Spend, TypeOK
  <1>2. CASE o # "ok"
    BY <1>2, ConstantsAssumption DEF Spend, TypeOK
  <1>3. QED
    BY <1>1, <1>2

LEMMA CheckType ==
  ASSUME TypeOK, Configured, NEW x \in Addresses, NEW o, Check(x, o)
  PROVE  TypeOK' /\ Configured'
  <1>1. spent' \in [edits: 0..MaxEdits, drift: 0..MaxDrift, faults: 0..MaxFaults]
    BY SpendType DEF Check
  <1>2. PICK v \in {[pc |-> "set", raced |-> FALSE], Idle} :
          op' = [op EXCEPT ![x] = v]
    BY DEF Check
  <1>3. op' \in [Addresses -> Handler]
    <2>1. [pc |-> "set", raced |-> FALSE] \in Handler /\ Idle \in Handler
      BY DEF Idle, Handler
    <2>2. QED
      BY <1>2, <2>1 DEF TypeOK
  <1>4. TypeOK'
    BY <1>1, <1>3 DEF Check, TypeOK
  <1>5. Configured'
    BY <1>2 DEF Check, TypeOK, Configured, Idle
  <1>6. QED
    BY <1>4, <1>5

LEMMA SetType ==
  ASSUME TypeOK, Configured, NEW x \in Addresses, NEW o, Set(x, o)
  PROVE  TypeOK' /\ Configured'
  <1>1. spent' \in [edits: 0..MaxEdits, drift: 0..MaxDrift, faults: 0..MaxFaults]
    BY SpendType DEF Set
  <1>2. config[x] \in Configs /\ config[x] \in Sets
    BY ConfigType DEF Set, Configured
  <1>3. op' \in [Addresses -> Handler]
    BY DEF Set, TypeOK, Idle, Handler
  <1>4. grants' = Null \/ grants' \subseteq Wire
    BY <1>2, ToWireType DEF Set, TypeOK
  <1>5. state' \in [Addresses -> Sets \cup {Null}]
    BY <1>2 DEF Set, TypeOK
  <1>6. unseen' \in BOOLEAN
    BY DEF Set, Sole
  <1>7. TypeOK'
    BY <1>1, <1>3, <1>4, <1>5, <1>6 DEF Set, TypeOK
  <1>8. Configured'
    BY DEF Set, TypeOK, Configured, Idle
  <1>9. QED
    BY <1>7, <1>8

LEMMA UnsetType ==
  ASSUME TypeOK, Configured, NEW x \in Addresses, NEW o, Unset(x, o)
  PROVE  TypeOK' /\ Configured'
  <1>1. spent' \in [edits: 0..MaxEdits, drift: 0..MaxDrift, faults: 0..MaxFaults]
    BY SpendType DEF Unset
  <1>2. op' \in [Addresses -> Handler]
    BY DEF Unset, TypeOK, Idle, Handler
  <1>3. grants' = Null \/ grants' \subseteq Wire
    BY DEF Unset, TypeOK
  <1>4. state' \in [Addresses -> Sets \cup {Null}]
    BY DEF Unset, TypeOK
  <1>5. unseen' \in BOOLEAN
    BY DEF Unset, Sole
  <1>6. TypeOK'
    BY <1>1, <1>2, <1>3, <1>4, <1>5 DEF Unset, TypeOK
  <1>7. Configured'
    BY DEF Unset, TypeOK, Configured, Idle
  <1>8. QED
    BY <1>6, <1>7

(***************************************************************************)
(* A refresh or an import leaves an address with Null or with what the     *)
(* wire decodes to.                                                        *)
(***************************************************************************)
LEMMA ReadResult ==
  ASSUME TypeOK, NEW x \in Addresses, Read(x) \/ Import(x)
  PROVE  /\ state' \in [Addresses -> Sets \cup {Null}]
         /\ \A y \in Addresses \ {x} : state'[y] = state[y]
         /\ \/ state'[x] = Null
            \/ /\ ~Gone /\ grants \subseteq Wire
               /\ state'[x] = FromWire(grants) /\ FromWire(grants) \in Sets
         /\ unseen' = (unseen /\ ~Sole(x))
         /\ UNCHANGED <<agent, app, grants, config, op, spent>>
  <1>1. ~Gone => grants \subseteq Wire /\ FromWire(grants) \in Sets
    BY FromWireType DEF Gone, TypeOK
  <1>2. CASE Gone
    BY <1>2 DEF Read, Import, TypeOK
  <1>3. CASE ~Gone
    BY <1>1, <1>3 DEF Read, Import, TypeOK
  <1>4. QED
    BY <1>2, <1>3

LEMMA ReadType ==
  ASSUME TypeOK, Configured, NEW x \in Addresses, Read(x) \/ Import(x)
  PROVE  TypeOK' /\ Configured'
  <1>1. TypeOK'
    BY ReadResult DEF TypeOK
  <1>2. Configured'
    BY ReadResult DEF Configured
  <1>3. QED
    BY <1>1, <1>2

LEMMA TofuType ==
  ASSUME TypeOK, Configured,
         \/ Run \/ Crash \/ Recreated
         \/ \E f \in [Addresses -> Configs \cup {Null}] : Configure(f)
  PROVE  TypeOK' /\ Configured'
  <1>1. CASE Run
    <2>1. \A x \in Addresses :
            /\ Planned(x) \in {"idle", "check", "unset"}
            /\ Planned(x) = "check" => config[x] # Null
      BY DEF Planned
    <2>2. op' \in [Addresses -> Handler]
      BY <1>1, <2>1 DEF Run, Handler
    <2>3. TypeOK'
      BY <1>1, <2>2 DEF Run, TypeOK
    <2>4. Configured'
      BY <1>1, <2>1 DEF Run, TypeOK, Configured
    <2>5. QED
      BY <2>3, <2>4
  <1>2. CASE Crash
    BY <1>2, ConstantsAssumption
    DEF Crash, TypeOK, Configured, Idle, Handler
  <1>3. CASE Recreated
    <2>1. app' \in App \cup {Null}
      BY <1>3 DEF Recreated, App, TypeOK
    <2>2. QED
      BY <1>3, <2>1 DEF Recreated, TypeOK, Configured
  <1>4. CASE \E f \in [Addresses -> Configs \cup {Null}] : Configure(f)
    BY <1>4, ConstantsAssumption DEF Configure, AllIdle, TypeOK, Configured
  <1>5. QED
    BY <1>1, <1>2, <1>3, <1>4

LEMMA OthersType ==
  ASSUME TypeOK, Configured, Others
  PROVE  TypeOK' /\ Configured'
  <1>1. spent' \in [edits: 0..MaxEdits, drift: 0..MaxDrift, faults: 0..MaxFaults]
    BY ConstantsAssumption
    DEF Others, GrantedByHand, RoleDropped, AgentOrAppDeleted, DriftSpent, TypeOK
  <1>2. CASE GrantedByHand
    <2>1. grants' \subseteq Wire
      BY <1>2, ConfigType, ToWireType DEF GrantedByHand
    <2>2. QED
      BY <1>1, <1>2, <2>1 DEF GrantedByHand, TypeOK, Configured
  <1>3. ASSUME Raced
        PROVE  /\ op' \in [Addresses -> Handler]
               /\ \A x \in Addresses : op'[x].pc = op[x].pc
    BY <1>3 DEF Raced, TypeOK, Handler
  <1>4. CASE RoleDropped
    <2>1. app' \in App
      BY <1>4 DEF RoleDropped, TypeOK, App
    <2>2. QED
      BY <1>1, <1>3, <1>4, <2>1 DEF RoleDropped, TypeOK, Configured
  <1>5. CASE AgentOrAppDeleted
    <2>1. TypeOK'
      BY <1>1, <1>3, <1>5 DEF AgentOrAppDeleted, TypeOK
    <2>2. Configured'
      BY <1>3, <1>5 DEF AgentOrAppDeleted, Configured
    <2>3. QED
      BY <2>1, <2>2
  <1>6. QED
    BY <1>2, <1>4, <1>5 DEF Others

LEMMA NextType ==
  ASSUME TypeOK, Configured, [Next]_vars
  PROVE  TypeOK' /\ Configured'
  <1>1. CASE UNCHANGED vars
    BY <1>1 DEF vars, TypeOK, Configured
  <1>2. ASSUME NEW x \in Addresses, NEW o, Step(x, o)
        PROVE  TypeOK' /\ Configured'
    BY <1>2, CheckType, SetType, UnsetType DEF Step
  <1>3. ASSUME NEW x \in Addresses, Read(x) \/ Import(x)
        PROVE  TypeOK' /\ Configured'
    BY <1>3, ReadType
  <1>4. QED
    BY <1>1, <1>2, <1>3, TofuType, OthersType DEF Next

(***************************************************************************)
(* The state, the hub's entries and the handlers always have their types:  *)
(* only entries the encoding can make reach the hub, and only sets of      *)
(* entries the state.                                                      *)
(***************************************************************************)
THEOREM TypeCorrect == Spec => [](TypeOK /\ Configured)
  <1>1. TypeOK /\ Configured /\ [Next]_vars => (TypeOK /\ Configured)'
    BY NextType
  <1>2. QED
    BY InitType, <1>1, PTL DEF Spec

-----------------------------------------------------------------------------
(* What the state says of the hub                                          *)

(***************************************************************************)
(* The inductive invariant.  GrantAsState is inductive beside the types    *)
(* because every step that changes the pair's set either writes the state  *)
(* of its one manager as well or is remembered in unseen; RefreshIsQuiet   *)
(* follows from it and from the encoding.                                  *)
(***************************************************************************)
IInv == TypeOK /\ Configured /\ GrantAsState /\ NoEmptyGrant

LEMMA InitInv == Init => IInv
  BY InitType DEF Init, IInv, GrantAsState, NoEmptyGrant

(***************************************************************************)
(* A grant_set that succeeds writes the configuration to the state and to  *)
(* the hub, and what it leaves unknown to another manager is unseen.       *)
(***************************************************************************)
LEMMA SetInv ==
  ASSUME IInv, NEW x \in Addresses, NEW o, Set(x, o)
  PROVE  GrantAsState' /\ NoEmptyGrant'
  <1>1. config[x] \in Configs /\ state \in [Addresses -> Sets \cup {Null}]
    BY DEF Set, IInv, Configured, TypeOK
  <1>2. CASE agent /\ app # Null /\ o = "ok"
    <2>1. /\ grants' = ToWire(config[x])
          /\ state' = [state EXCEPT ![x] = config[x]]
          /\ unseen' = ~Sole(x)
      BY <1>2 DEF Set
    <2>2. GrantAsState'
      BY <1>1, <2>1 DEF GrantAsState, Sole
    <2>3. NoEmptyGrant'
      BY <1>1, <2>1, ConfigType DEF NoEmptyGrant, IInv
    <2>4. QED
      BY <2>2, <2>3
  <1>3. CASE ~(agent /\ app # Null /\ o = "ok")
    <2>1. state' = state /\ unseen' = (unseen \/ grants' # grants)
      BY <1>3 DEF Set
    <2>2. QED
      BY <2>1 DEF IInv, GrantAsState, NoEmptyGrant
  <1>4. QED
    BY <1>2, <1>3

(***************************************************************************)
(* Delete forgets its own object; when it empties the pair, another's      *)
(* object is left unseen.                                                  *)
(***************************************************************************)
LEMMA UnsetInv ==
  ASSUME IInv, NEW x \in Addresses, NEW o, Unset(x, o)
  PROVE  GrantAsState' /\ NoEmptyGrant'
  <1>1. state \in [Addresses -> Sets \cup {Null}]
    BY DEF IInv, TypeOK
  <1>2. /\ \A y \in Addresses : state'[y] = state[y] \/ state'[y] = Null
        /\ \A y \in Addresses \ {x} : state'[y] = state[y]
    BY <1>1 DEF Unset
  <1>3. ~unseen' => /\ ~unseen
                    /\ grants' = grants \/ (state'[x] = Null /\ Sole(x))
    BY DEF Unset
  <1>4. GrantAsState'
    BY <1>2, <1>3 DEF GrantAsState, Sole, IInv
  <1>5. NoEmptyGrant'
    BY <1>2 DEF NoEmptyGrant, IInv
  <1>6. QED
    BY <1>4, <1>5

(***************************************************************************)
(* A refresh brings its object in line with the hub, and drops it rather   *)
(* than let it hold nothing.                                               *)
(***************************************************************************)
LEMMA ReadInv ==
  ASSUME IInv, NEW x \in Addresses, Read(x) \/ Import(x)
  PROVE  GrantAsState' /\ NoEmptyGrant'
  <1>1. TypeOK
    BY DEF IInv
  <1>2. \/ state'[x] = Null
        \/ /\ ~Gone /\ grants \subseteq Wire
           /\ state'[x] = FromWire(grants)
    BY <1>1, ReadResult
  <1>3. /\ \A y \in Addresses \ {x} : state'[y] = state[y]
        /\ unseen' = (unseen /\ ~Sole(x))
        /\ grants' = grants
    BY <1>1, ReadResult
  <1>4. state'[x] # Null => ToWire(state'[x]) = grants
    BY <1>2, WireRoundTrip
  <1>5. state'[x] # Null => state'[x].allow \cup state'[x].approval # {}
    BY <1>2, FromWireType DEF Gone
  <1>6. GrantAsState'
    BY <1>3, <1>4 DEF GrantAsState, Sole, IInv
  <1>7. NoEmptyGrant'
    BY <1>3, <1>5 DEF NoEmptyGrant, IInv
  <1>8. QED
    BY <1>6, <1>7

(***************************************************************************)
(* Nothing else writes the state, and what changes the pair is unseen.     *)
(***************************************************************************)
LEMMA OtherInv ==
  ASSUME IInv,
         \/ Run \/ Recreated \/ Others \/ Crash
         \/ \E x \in Addresses, o \in Outcome : Check(x, o)
         \/ \E f \in [Addresses -> Configs \cup {Null}] : Configure(f)
         \/ UNCHANGED vars
  PROVE  GrantAsState' /\ NoEmptyGrant'
  <1>1. /\ state' = state
        /\ unseen' \/ (unseen' = unseen /\ grants' = grants)
    BY DEF Run, Recreated, Others, GrantedByHand, RoleDropped,
           AgentOrAppDeleted, Crash, Check, Configure, vars
  <1>2. QED
    BY <1>1 DEF IInv, GrantAsState, NoEmptyGrant

LEMMA NextInv == IInv /\ [Next]_vars => IInv'
  <1> SUFFICES ASSUME IInv, [Next]_vars
               PROVE  IInv'
    OBVIOUS
  <1>1. TypeOK' /\ Configured'
    BY NextType DEF IInv
  <1>2. GrantAsState' /\ NoEmptyGrant'
    BY SetInv, UnsetInv, ReadInv, OtherInv DEF Next, Step
  <1>3. QED
    BY <1>1, <1>2 DEF IInv

(***************************************************************************)
(* The object of a pair's one manager says what the hub enforces, whatever *)
(* answers were lost, and never a grant of nothing.                        *)
(***************************************************************************)
THEOREM StateFollowsTheHub == Spec => []StateIsTheGrant
  <1>1. IInv => StateIsTheGrant
    BY DEF IInv, StateIsTheGrant
  <1>2. QED
    BY InitInv, NextInv, <1>1, PTL DEF Spec

(***************************************************************************)
(* After an apply a refresh reads back the configured sets: no perpetual   *)
(* diff, but for an allowed inline entry that ends in the suffix.          *)
(***************************************************************************)
THEOREM RefreshesAreQuiet == Spec => []RefreshIsQuiet
  <1>1. IInv => RefreshIsQuiet
    <2> SUFFICES ASSUME IInv, NEW x \in Addresses,
                        state[x] # Null, state[x] = config[x],
                        ~unseen, ~Ambiguous(config[x])
                 PROVE  ~Gone /\ FromWire(grants) = config[x]
      BY DEF RefreshIsQuiet
    <2>1. config[x] \in Configs
      BY DEF IInv, TypeOK
    <2>2. config[x] \in Sets /\ config[x].allow \cup config[x].approval # {}
      BY <2>1, ConfigType
    <2>3. grants = ToWire(config[x])
      BY DEF IInv, GrantAsState
    <2>4. grants \in SUBSET Wire /\ grants # {}
      BY <2>2, <2>3, ToWireType
    <2>5. ~Gone
      BY <2>4, NullIsNoObject DEF Gone
    <2>6. FromWire(grants) = config[x]
      BY <2>2, <2>3, SetsRoundTrip
    <2>7. QED
      BY <2>5, <2>6
  <1>2. QED
    BY InitInv, NextInv, <1>1, PTL DEF Spec

(***************************************************************************)
(* An allowed inline entry that ends in the suffix is never read back as   *)
(* it was written: the reach of finding `grant_suffix' is exact.           *)
(***************************************************************************)
LEMMA RoundTripExactly ==
  ASSUME NEW m \in Sets
  PROVE  FromWire(ToWire(m)) = m <=> ~Ambiguous(m)
  <1>1. ASSUME Ambiguous(m) PROVE FromWire(ToWire(m)) # m
    <2>1. PICK e \in m.allow : e.suffix > 0
      BY <1>1 DEF Ambiguous
    <2>2. e \in Entry /\ e.suffix # 0
      BY <2>1, EntryShape DEF Sets
    <2>3. e \notin FromWire(ToWire(m)).allow
      BY <2>2 DEF FromWire
    <2>4. QED
      BY <2>1, <2>3
  <1>2. QED
    BY <1>1, SetsRoundTrip

(***************************************************************************)
(* What a comment of rolesFromWire claims fails for an applied grant if    *)
(* and only if one of its allowed entries ends in the suffix.              *)
(***************************************************************************)
THEOREM SuffixBoundary ==
  Spec => [](SuffixIsUnambiguous <=>
               ~ \E x \in Addresses :
                   /\ state[x] # Null /\ state[x] = config[x] /\ ~unseen
                   /\ Ambiguous(config[x]))
  <1>1. ASSUME TypeOK, NEW x \in Addresses, state[x] # Null, state[x] = config[x]
        PROVE  FromWire(ToWire(config[x])) = config[x] <=> ~Ambiguous(config[x])
    <2>1. config[x] \in Sets
      BY <1>1 DEF TypeOK
    <2>2. QED
      BY <2>1, RoundTripExactly
  <1>2. TypeOK =>
          (SuffixIsUnambiguous <=>
             ~ \E x \in Addresses :
                 /\ state[x] # Null /\ state[x] = config[x] /\ ~unseen
                 /\ Ambiguous(config[x]))
    BY <1>1 DEF SuffixIsUnambiguous
  <1>3. QED
    BY <1>2, TypeCorrect, PTL

-----------------------------------------------------------------------------
(* The declared-roles check                                                *)

(***************************************************************************)
(* Between app_get and grant_set, the check's verdict stands as long as    *)
(* the app did not change.                                                 *)
(***************************************************************************)
Checked ==
  \A x \in Addresses :
    op[x].pc = "set" /\ ~op[x].raced /\ app # Null /\ app.kind = "proxy"
    => Needed(config[x]) \subseteq app.roles

(***************************************************************************)
(* A handler's write does not touch the other addresses' handlers.         *)
(***************************************************************************)
LEMMA CheckedStep ==
  ASSUME TypeOK, Checked, NEW x \in Addresses, NEW o, Step(x, o)
  PROVE  Checked'
  <1>1. op \in [Addresses -> Handler]
    BY DEF TypeOK
  <1>2. CASE Check(x, o)
    <2>1. /\ \A y \in Addresses \ {x} : op'[y] = op[y]
          /\ UNCHANGED <<app, config>>
      BY <1>1, <1>2 DEF Check
    <2>2. op'[x].pc = "set" =>
            (app.kind = "proxy" => Needed(config[x]) \subseteq app.roles)
      BY <1>1, <1>2 DEF Check, Idle
    <2>3. QED
      BY <2>1, <2>2 DEF Checked, Needed
  <1>3. CASE Set(x, o) \/ Unset(x, o)
    <2>1. /\ op' = [op EXCEPT ![x] = Idle]
          /\ UNCHANGED <<app, config>>
      BY <1>3 DEF Set, Unset
    <2>2. QED
      BY <1>1, <2>1 DEF Checked, Needed, Idle
  <1>4. QED
    BY <1>2, <1>3 DEF Step

LEMMA CheckedInv ==
  ASSUME TypeOK, Checked, [Next]_vars
  PROVE  Checked'
  <1>1. op \in [Addresses -> Handler]
    BY DEF TypeOK
  <1>2. ASSUME NEW x \in Addresses, Read(x) \/ Import(x)
        PROVE  Checked'
    BY <1>2, ReadResult DEF Checked, Needed
  <1>3. CASE Run
    <2>1. \A x \in Addresses : op'[x].pc # "set"
      BY <1>3 DEF Run, Planned
    <2>2. QED
      BY <2>1 DEF Checked
  <1>4. CASE Crash
    BY <1>4 DEF Crash, Idle, Checked
  <1>5. CASE Recreated \/ \E f \in [Addresses -> Configs \cup {Null}] : Configure(f)
    <2>1. \A x \in Addresses : op'[x].pc = "idle"
      BY <1>5 DEF Recreated, Configure, AllIdle
    <2>2. QED
      BY <2>1 DEF Checked
  <1>6. CASE RoleDropped \/ AgentOrAppDeleted
    <2>1. \A x \in Addresses :
            /\ op'[x].pc = op[x].pc
            /\ op[x].pc = "set" => op'[x].raced
      BY <1>1, <1>6 DEF RoleDropped, AgentOrAppDeleted, Raced, Handler
    <2>2. QED
      BY <2>1 DEF Checked
  <1>7. CASE GrantedByHand \/ UNCHANGED vars
    BY <1>7 DEF GrantedByHand, vars, Checked, Needed
  <1>8. QED
    BY <1>2, <1>3, <1>4, <1>5, <1>6, <1>7, CheckedStep DEF Next, Others

(***************************************************************************)
(* The entries' bases survive the encoding: the suffix never hides a role  *)
(* from what the check looked at.                                          *)
(***************************************************************************)
LEMMA WireBases ==
  ASSUME NEW m \in Sets
  PROVE  {e.base : e \in ToWire(m)} = {e.base : e \in m.allow \cup m.approval}
  <1>1. \A e \in m.approval : Suffix(e).base = e.base
    BY DEF Suffix
  <1>2. {e.base : e \in Suffixed(m.approval)} = {e.base : e \in m.approval}
    BY <1>1 DEF Suffixed
  <1>3. QED
    BY <1>2 DEF ToWire

(***************************************************************************)
(* An undeclared role reaches a proxied app's grant only when the app      *)
(* changed between app_get and grant_set.                                  *)
(***************************************************************************)
THEOREM UndeclaredOnlyInRaces == Spec => UndeclaredOnlyInARace
  <1>1. Init => TypeOK /\ Configured /\ Checked
    BY InitType DEF Init, Idle, Checked
  <1>2. TypeOK /\ Configured /\ Checked /\ [Next]_vars
          => (TypeOK /\ Configured /\ Checked)'
    BY NextType, CheckedInv
  <1>3. TypeOK /\ Configured /\ Checked /\ [Next]_vars =>
          [\A x \in Addresses :
             op[x].pc = "set" /\ op'[x].pc = "idle" /\ state'[x] # state[x]
             /\ app.kind = "proxy" /\ ~op[x].raced
             => {e.base : e \in grants'} \ (Inline \cup {All}) \subseteq app.roles]_vars
    <2> SUFFICES ASSUME TypeOK, Configured, Checked, Next, NEW x \in Addresses,
                        op[x].pc = "set", op'[x].pc = "idle",
                        state'[x] # state[x], app.kind = "proxy", ~op[x].raced
                 PROVE  {e.base : e \in grants'} \ (Inline \cup {All})
                          \subseteq app.roles
      OBVIOUS
    <2>1. op \in [Addresses -> Handler] /\ state \in [Addresses -> Sets \cup {Null}]
      BY DEF TypeOK
    <2>2. \E o \in Outcome : Set(x, o)
      <3>1. ASSUME NEW y \in Addresses, NEW o \in Outcome, Step(y, o)
            PROVE  Set(x, o)
        BY <2>1, <3>1 DEF Step, Check, Set, Unset
      <3>2. ASSUME NEW y \in Addresses, Read(y) \/ Import(y)
            PROVE  FALSE
        BY <3>2, ReadResult
      <3>3. CASE Run \/ Recreated \/ Others \/ Crash
                 \/ \E f \in [Addresses -> Configs \cup {Null}] : Configure(f)
        BY <3>3 DEF Run, Recreated, Others, GrantedByHand, RoleDropped,
                    AgentOrAppDeleted, Crash, Configure
      <3>4. QED
        BY <3>1, <3>2, <3>3 DEF Next
    <2>3. app # Null /\ grants' = ToWire(config[x])
      BY <2>1, <2>2 DEF Set
    <2>4. config[x] \in Sets
      BY ConfigType DEF Configured
    <2>5. Needed(config[x]) \subseteq app.roles
      BY <2>3 DEF Checked
    <2>6. QED
      BY <2>3, <2>4, <2>5, WireBases DEF Needed
  <1>4. QED
    BY <1>1, <1>2, <1>3, PTL DEF Spec, UndeclaredOnlyInARace

=============================================================================
