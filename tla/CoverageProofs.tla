--------------------------- MODULE CoverageProofs ---------------------------
(***************************************************************************)
(* Proofs about Coverage, for every contract, every set of scenarios and   *)
(* every set of targets that two repositories may add or take away.        *)
(***************************************************************************)
EXTENDS Coverage, TLAPS

(***************************************************************************)
(* What both gates have let through, at every step: the provider's main is *)
(* green against its own pin, and a contract that declares a field         *)
(* declares its operation.                                                 *)
(***************************************************************************)
Closed(contract) ==
  \A t \in contract : t = Target(t.op, t.field) /\ Operation(t.op) \in contract

GateInv == ProviderGreen /\ Closed(pin) /\ Closed(fixture)

LEMMA InitGate == Init => GateInv
  BY ConstantsAssumption DEF Init, GateInv, Closed

\* What a step may do: one repository's commit, checked by its gate, or
\* nothing.
LEMMA OneRepository ==
  ASSUME GateInv, [Next]_vars
  PROVE  \/ /\ UNCHANGED fixture /\ ProviderGreen'
            /\ pin' \in {pin, fixture}
         \/ UNCHANGED provider /\ HubGreen'
         \/ UNCHANGED <<provider, fixture>>
  BY DEF Next, vars, provider, Ship, StageAhead, Withdraw, Excuse, Bump, Land, Retire,
         ProviderCommit, HubCommit

LEMMA FixtureClosed ==
  ASSUME Closed(fixture), [Next]_vars
  PROVE  Closed(fixture')
  <1> USE DEF Closed
  <1>1. CASE UNCHANGED fixture
    BY <1>1
  <1>2. ASSUME NEW t \in Features, Land(t) PROVE Closed(fixture')
    <2>1. PICK new \in Bundles(t) : fixture' = fixture \cup new
      BY <1>2 DEF Land
    <2>2. \A u \in new : u = Target(u.op, u.field) /\ Operation(u.op) \in fixture \cup new
      BY <1>2, <2>1, ConstantsAssumption DEF Bundles, Land, Operation, Target, IsOp
    <2>3. QED
      BY <2>1, <2>2
  <1>3. ASSUME NEW t \in Features, Retire(t) PROVE Closed(fixture')
    <2>1. CASE IsOp(t)
      BY <1>3, <2>1 DEF Retire, Operation, Target
    <2>2. CASE ~IsOp(t)
      <3>1. \A op : Operation(op) # t
        BY <2>2 DEF IsOp, Operation, Target
      <3>2. QED
        BY <1>3, <2>2, <3>1 DEF Retire
    <2>3. QED
      BY <2>1, <2>2
  <1>4. QED
    BY <1>1, <1>2, <1>3
    DEF Next, vars, Ship, StageAhead, Withdraw, Excuse, Bump, ProviderCommit

LEMMA NextGate ==
  ASSUME GateInv, [Next]_vars
  PROVE  GateInv'
  <1>1. Closed(fixture')
    BY FixtureClosed DEF GateInv
  <1>2. Closed(pin')
    BY OneRepository DEF GateInv, provider
  <1>3. ProviderGreen'
    BY OneRepository DEF GateInv, provider, ProviderGreen
  <1>4. QED
    BY <1>1, <1>2, <1>3 DEF GateInv, Closed

\* Both gates have passed what is on the mains, whose fixtures declare a field
\* only with its operation.
THEOREM GateInvariant == Spec => []GateInv
  <1>1. QED
    BY InitGate, NextGate, PTL DEF Spec

(***************************************************************************)
(* PinCovered: nothing the pin declares of a managed operation rests on a  *)
(* staged entry.  Expiry empties the intersection of the entries and the   *)
(* pin, and every exemption of the other rules is for an element of it.    *)
(***************************************************************************)
LEMMA GreenCovers ==
  ASSUME GateInv
  PROVE  PinCovered
  <1>1. staged \cap pin = {}
    BY DEF GateInv, ProviderGreen, Check, expiryViolations
  <1>2. ASSUME NEW t \in pin, t.op \notin unmanaged
        PROVE  Supports(t)
    <2>1. Operation(t.op) \in pin /\ t \notin staged /\ Operation(t.op) \notin staged
      BY <1>1 DEF GateInv, Closed
    <2>2. t.op \in ReachedOps(calls)
      BY <1>2, <2>1 DEF GateInv, ProviderGreen, Check, Totality, IsOp, Operation, Target
    <2>3. IsOp(t) \/ t \in Sent(calls)
      BY <1>2, <2>1, <2>2 DEF GateInv, ProviderGreen, Check, FieldCoverage
    <2>4. QED
      BY <2>2, <2>3 DEF Supports
  <1>3. ASSUME NEW c \in Recorded(calls), NEW t \in Required \cap pin, t.op = c.op
        PROVE  t.field \in c.args
    <2>1. Operation(c.op) \in pin /\ t \notin staged
      BY <1>1, <1>3 DEF GateInv, Closed
    <2>2. validateArgs(pin, staged, c)
      BY <2>1 DEF GateInv, ProviderGreen, Check, validate
    <2>3. QED
      BY <1>3, <2>1, <2>2 DEF validateArgs
  <1>4. QED
    BY <1>2, <1>3 DEF PinCovered, Covered

\* Nothing that the pin declares of a managed operation rests on an entry.
THEOREM CoveragePinCovered == Spec => []PinCovered
  BY GateInvariant, GreenCovers, PTL

(***************************************************************************)
(* Type correctness: the budget, and what may be staged or excused.        *)
(***************************************************************************)
Small ==
  /\ unmanaged \subseteq unmanagedReasons \cup Excusable
  /\ staged \subseteq Features
  /\ commits \in 0 .. MaxCommits

LEMMA NextSmall ==
  ASSUME Small, [Next]_vars
  PROVE  Small'
  <1> USE ConstantsAssumption DEF Small, Spend
  <1>1. ASSUME NEW t \in Features, Ship(t) PROVE Small'
    BY <1>1 DEF Ship
  <1>2. ASSUME NEW t \in Features, StageAhead(t) PROVE Small'
    BY <1>2 DEF StageAhead
  <1>3. ASSUME NEW t \in Features, Withdraw(t) PROVE Small'
    BY <1>3 DEF Withdraw
  <1>4. ASSUME NEW t \in Features, Land(t) \/ Retire(t) PROVE Small'
    BY <1>4 DEF Land, Retire, HubCommit, provider
  <1>5. ASSUME NEW o \in Excusable, Excuse(o) PROVE Small'
    <2>1. unmanaged' \subseteq unmanaged \cup {o}
      BY <1>5 DEF Excuse
    <2>2. QED
      BY <1>5, <2>1 DEF Excuse
  <1>6. CASE Bump
    BY <1>6 DEF Bump
  <1>7. QED
    BY <1>1, <1>2, <1>3, <1>4, <1>5, <1>6 DEF Next, vars

LEMMA SmallAlways == Spec => []Small
  <1>1. Init => Small
    BY ConstantsAssumption DEF Init, Small
  <1>2. QED
    BY <1>1, NextSmall, PTL DEF Spec

\* The types of the tables, the entries and the fixtures.
THEOREM CoverageTypeOK == Spec => []TypeOK
  <1>1. GateInv /\ Small => TypeOK
    <2>1. ASSUME GateInv PROVE DOMAIN calls = DOMAIN want
      BY <2>1 DEF GateInv, ProviderGreen, Check, OpsOf
    <2>2. QED
      BY <2>1 DEF GateInv, Closed, Small, TypeOK
  <1>2. QED
    BY <1>1, SmallAlways, GateInvariant, PTL

(***************************************************************************)
(* PinnedStays.  A target that the pin declares of a managed operation is  *)
(* supported (GreenCovers), so some call carries it; had the hub's commit  *)
(* dropped it, that call would pass the hub's gate only under an entry,    *)
(* and what is pinned has none.                                            *)
(***************************************************************************)
LEMMA CarriedStays ==
  ASSUME GateInv, [Next]_vars, NEW t \in fixture \cap pin, t.op \notin unmanaged
  PROVE  t \in fixture'
  <1>1. CASE UNCHANGED fixture
    BY <1>1
  <1>2. CASE UNCHANGED provider /\ HubGreen'
    <2>1. t = Target(t.op, t.field) /\ Operation(t.op) \in pin /\ Supports(t)
      BY GreenCovers DEF PinCovered, Covered, GateInv, Closed
    <2>2. t \notin staged /\ Operation(t.op) \notin staged
      BY <2>1 DEF GateInv, ProviderGreen, Check, expiryViolations
    <2>3. \A c \in Recorded(calls) : validate(fixture', staged, c)
      BY <1>2 DEF provider, HubGreen, Check
    <2>4. ASSUME NEW c \in Recorded(calls), c.op = t.op
          PROVE  Operation(t.op) \in fixture' /\ validateArgs(fixture', staged, c)
      BY <2>2, <2>3, <2>4 DEF validate
    <2>5. CASE IsOp(t)
      <3>1. PICK c \in Recorded(calls) : c.op = t.op
        BY <2>1, <2>5 DEF Supports, ReachedOps
      <3>2. QED
        BY <2>1, <2>4, <2>5, <3>1 DEF IsOp, Operation, Target
    <2>6. CASE ~IsOp(t)
      <3>1. PICK c \in Recorded(calls) : \E f \in c.args : t = Target(c.op, f)
        BY <2>1, <2>6 DEF Supports, Sent
      <3>2. c.op = t.op /\ t.field \in c.args
        BY <3>1 DEF Target
      <3>3. QED
        BY <2>1, <2>2, <2>4, <3>2 DEF validateArgs
    <2>7. QED
      BY <2>5, <2>6
  <1>3. QED
    BY <1>1, <1>2, OneRepository

\* The hub's gate does not let go of what is pinned and managed.
THEOREM CoveragePinnedStays == Spec => PinnedStays
  <1>1. GateInv /\ [Next]_vars =>
          [\A t \in fixture \cap pin : t.op \notin unmanaged => t \in fixture']_vars
    BY CarriedStays
  <1>2. QED
    BY <1>1, GateInvariant, PTL DEF Spec, PinnedStays

(***************************************************************************)
(* HubBrokenByStalePin.  Every rule of Check but expiry speaks of one      *)
(* operation at a time.  For an operation on which pin and fixture agree,  *)
(* the new main passes at the hub because it passes here; for one about    *)
(* which the provider says what it said, because it passed at the hub.     *)
(***************************************************************************)
Agree(op) == Declared(pin', op) = Declared(fixture, op)

LEMMA DeclaredIn ==
  ASSUME NEW S, NEW T, NEW op, Declared(S, op) = Declared(T, op)
  PROVE  \A t : t.op = op => (t \in S <=> t \in T)
  BY DEF Declared

LEMMA SameAnswers ==
  ASSUME NEW op, Answer(op)' = Answer(op)
  PROVE  /\ \A c : c.op = op => (c \in Recorded(calls') <=> c \in Recorded(calls))
         /\ \A t : t.op = op => (t \in staged' <=> t \in staged)
         /\ op \in unmanaged' <=> op \in unmanaged
  <1>1. Answer(op)'.calls = Answer(op).calls
    BY Zenon
  <1>2. Answer(op)'.staged = Answer(op).staged
    BY Zenon
  <1>3. Answer(op)'.unmanaged = Answer(op).unmanaged
    BY Zenon
  <1>4. QED
    BY <1>1, <1>2, <1>3 DEF Answer

LEMMA HubStaysGreen ==
  ASSUME GateInv, HubGreen, UNCHANGED fixture, ProviderGreen',
         \A op : Agree(op) \/ Answer(op)' = Answer(op)
  PROVE  HubGreen'
  <1> USE DEF Operation, Target
  <1>1. \A op : Operation(op).op = op
    OBVIOUS
  <1>2. ASSUME NEW c \in Recorded(calls') PROVE validate(fixture, staged', c)
    <2>1. CASE Agree(c.op)
      <3>1. \A t : t.op = c.op => (t \in pin' <=> t \in fixture)
        BY <2>1, DeclaredIn DEF Agree
      <3>2. validate(pin', staged', c)
        BY DEF ProviderGreen, Check
      <3>3. QED
        BY <3>1, <3>2 DEF validate, validateArgs
    <2>2. CASE Answer(c.op)' = Answer(c.op)
      <3>1. c \in Recorded(calls) /\ \A t : t.op = c.op => (t \in staged' <=> t \in staged)
        BY <2>2, SameAnswers
      <3>2. validate(fixture, staged, c)
        BY <3>1 DEF HubGreen, Check
      <3>3. QED
        BY <3>1, <3>2 DEF validate, validateArgs
    <2>3. QED
      BY <2>1, <2>2
  <1>3. ASSUME NEW t \in fixture
        PROVE  /\ \/ IsOp(t) \/ t \in Sent(calls') \/ t \in staged'
                  \/ t.op \notin ReachedOps(calls') \/ t.op \in unmanaged'
                  \/ Operation(t.op) \in staged'
               /\ IsOp(t) => \/ t.op \in ReachedOps(calls') \/ t.op \in unmanaged'
                             \/ t \in staged'
    <2>1. CASE Agree(t.op)
      <3>1. t \in pin'
        BY <2>1, DeclaredIn DEF Agree
      <3>2. QED
        BY <3>1 DEF ProviderGreen, Check, FieldCoverage, Totality
    <2>2. CASE Answer(t.op)' = Answer(t.op)
      <3>1. /\ \A c : c.op = t.op => (c \in Recorded(calls') <=> c \in Recorded(calls))
            /\ \A u : u.op = t.op => (u \in staged' <=> u \in staged)
            /\ t.op \in unmanaged' <=> t.op \in unmanaged
        BY <2>2, SameAnswers
      <3>2. t.op \in ReachedOps(calls') <=> t.op \in ReachedOps(calls)
        BY <3>1 DEF ReachedOps
      <3>3. t \in Sent(calls') <=> t \in Sent(calls)
        <4>1. \A c : t \in {Target(c.op, f) : f \in c.args} => c.op = t.op
          OBVIOUS
        <4>2. QED
          BY <3>1, <4>1 DEF Sent
      <3>4. QED
        BY <3>1, <3>2, <3>3 DEF HubGreen, Check, FieldCoverage, Totality
    <2>3. QED
      BY <2>1, <2>2
  <1>4. OpsOf(calls') = want'
    BY DEF ProviderGreen, Check
  <1>5. QED
    BY <1>2, <1>3, <1>4 DEF HubGreen, Check, FieldCoverage, Totality

\* A commit here breaks the hub only over an operation its pin has old.
THEOREM CoverageHubBrokenByStalePin == Spec => HubBrokenByStalePin
  <1> DEFINE Stale ==
        HubGreen /\ ~HubGreen' =>
          \E op \in {t.op : t \in fixture \cup pin'} :
            Declared(pin', op) # Declared(fixture, op) /\ Answer(op)' # Answer(op)
  <1>1. ASSUME GateInv, [Next]_vars PROVE [Stale]_vars
    <2>1. SUFFICES ASSUME HubGreen, ~HubGreen' PROVE Stale
      OBVIOUS
    <2>2. UNCHANGED fixture /\ ProviderGreen'
      <3>1. UNCHANGED <<provider, fixture>> => HubGreen'
        BY <2>1 DEF provider, HubGreen
      <3>2. QED
        BY <1>1, <2>1, <3>1, OneRepository
    <2>3. PICK op : ~Agree(op) /\ Answer(op)' # Answer(op)
      BY <1>1, <2>1, <2>2, HubStaysGreen
    <2>4. op \in {t.op : t \in fixture \cup pin'}
      BY <2>3 DEF Agree, Declared
    <2>5. QED
      BY <2>3, <2>4 DEF Agree
  <1>2. QED
    BY <1>1, GateInvariant, PTL DEF Spec, HubBrokenByStalePin

(***************************************************************************)
(* NoLockout.  Every gate of a handoff but the pin's own opens by itself:  *)
(* what makes a step fail has to be something else than the handoff.       *)
(***************************************************************************)

\* A field more in the calls, or a call more: the others are as they were.
LEMMA SupportAdds ==
  ASSUME NEW t
  PROVE  /\ ~IsOp(t) => Recorded(WithSupport(t)) =
              {IF c.op = t.op THEN Call(t.op, c.args \cup {t.field}) ELSE c :
                 c \in Recorded(calls)}
         /\ IsOp(t) =>
              /\ Recorded(calls) \subseteq Recorded(WithSupport(t))
              /\ Recorded(WithSupport(t)) \subseteq
                   Recorded(calls) \cup {Call(t.op, Schema[t.op])}
  <1> DEFINE More(c) == IF c.op = t.op THEN Call(t.op, c.args \cup {t.field}) ELSE c
  <1> DEFINE cs == WithSupport(t)
  <1>1. ASSUME NEW c
        PROVE  c \in Recorded(calls) <=>
                 \E r \in DOMAIN calls : \E p \in DOMAIN calls[r] :
                   \E i \in DOMAIN calls[r][p] : c = calls[r][p][i]
    BY DEF Recorded
  <1>2. ASSUME NEW c
        PROVE  c \in Recorded(cs) <=>
                 \E r \in DOMAIN cs : \E p \in DOMAIN cs[r] :
                   \E i \in DOMAIN cs[r][p] : c = cs[r][p][i]
    BY DEF Recorded
  <1>3. ASSUME ~IsOp(t)
        PROVE  Recorded(cs) = {More(c) : c \in Recorded(calls)}
    <2>1. /\ DOMAIN cs = DOMAIN calls
          /\ \A r \in DOMAIN calls : DOMAIN cs[r] = DOMAIN calls[r]
          /\ \A r \in DOMAIN calls : \A p \in DOMAIN calls[r] :
               DOMAIN cs[r][p] = DOMAIN calls[r][p]
          /\ \A r \in DOMAIN calls : \A p \in DOMAIN calls[r] :
               \A i \in DOMAIN calls[r][p] : cs[r][p][i] = More(calls[r][p][i])
      BY <1>3 DEF WithSupport
    <2> HIDE DEF cs, More
    <2>2. QED
      BY <1>1, <1>2, <2>1
  <1>4. ASSUME IsOp(t)
        PROVE  /\ Recorded(calls) \subseteq Recorded(cs)
               /\ Recorded(cs) \subseteq Recorded(calls) \cup {Call(t.op, Schema[t.op])}
    <2>1. /\ DOMAIN cs = DOMAIN calls
          /\ \A r \in DOMAIN calls : DOMAIN cs[r] = DOMAIN calls[r]
          /\ \A r \in DOMAIN calls : \A p \in DOMAIN calls[r] :
               \/ cs[r][p] = calls[r][p]
               \/ cs[r][p] = Extended(calls[r][p], Call(t.op, Schema[t.op]))
      BY <1>4 DEF WithSupport
    <2>2. ASSUME NEW s, NEW e
          PROVE  /\ DOMAIN s \subseteq DOMAIN Extended(s, e)
                 /\ \A i \in DOMAIN s : Extended(s, e)[i] = s[i]
                 /\ \A i \in DOMAIN Extended(s, e) :
                      Extended(s, e)[i] = e \/ i \in DOMAIN s
      BY DEF Extended
    <2> HIDE DEF cs
    <2>3. QED
      BY <1>1, <1>2, <2>1, <2>2
  <1>5. QED
    BY <1>3, <1>4

\* What has an entry is not pinned: expiry.
LEMMA StagedIsAhead ==
  ASSUME GateInv, Small, NEW t \in staged
  PROVE  t = Target(t.op, t.field) /\ t \notin pin
  BY ConstantsAssumption DEF GateInv, ProviderGreen, Check, expiryViolations, Small

\* Support for a staged target adds a call, or a field to calls, that the entry
\* lets through, and takes nothing away that the pin wants covered.
LEMMA Shippable == ASSUME GateInv, Small PROVE ShipPasses
  <1>1. SUFFICES ASSUME NEW t \in staged
                 PROVE  Check(pin, WithSupport(t), OpsOf(WithSupport(t)), unmanaged,
                              staged, TRUE)
    BY DEF ShipPasses
  <1> DEFINE cs == WithSupport(t)
  <1>2. t = Target(t.op, t.field) /\ t \notin pin
    BY StagedIsAhead
  <1>3. /\ expiryViolations(pin, staged) = {}
        /\ \A c \in Recorded(calls) : validate(pin, staged, c)
        /\ FieldCoverage(pin, ReachedOps(calls), Sent(calls), unmanaged, staged)
        /\ Totality(pin, ReachedOps(calls), unmanaged, staged)
        /\ Closed(pin)
    BY DEF GateInv, ProviderGreen, Check
  <1>4. CASE ~IsOp(t)
    <2> DEFINE More(c) == IF c.op = t.op THEN Call(t.op, c.args \cup {t.field}) ELSE c
    <2>1. Recorded(cs) = {More(c) : c \in Recorded(calls)}
      BY <1>4, SupportAdds
    <2>2. \A c : More(c).op = c.op /\ c.args \subseteq More(c).args
                 /\ \A f \in More(c).args : f \in c.args \/ Target(c.op, f) = t
      BY <1>2 DEF Call
    <2> HIDE DEF More, cs
    <2>3. ASSUME NEW d \in Recorded(cs) PROVE validate(pin, staged, d)
      <3>1. PICK c \in Recorded(calls) : d = More(c)
        BY <2>1
      <3>2. validate(pin, staged, c)
        BY <1>3
      <3>3. QED
        BY <2>2, <3>1, <3>2 DEF validate, validateArgs
    <2>4. ReachedOps(cs) = ReachedOps(calls) /\ Sent(calls) \subseteq Sent(cs)
      BY <2>1, <2>2 DEF ReachedOps, Sent
    <2>5. QED
      BY <1>3, <2>3, <2>4 DEF Check, FieldCoverage, Totality, cs
  <1>5. CASE IsOp(t)
    <2> DEFINE d == Call(t.op, Schema[t.op])
    <2>1. /\ Recorded(calls) \subseteq Recorded(cs)
          /\ Recorded(cs) \subseteq Recorded(calls) \cup {d}
      BY <1>5, SupportAdds
    <2>2. Operation(t.op) = t /\ d.op = t.op
      BY <1>2, <1>5 DEF IsOp, Operation, Target, Call
    <2> HIDE DEF d, cs
    <2>3. \A c \in Recorded(cs) : validate(pin, staged, c)
      BY <1>2, <1>3, <2>1, <2>2 DEF validate
    <2>4. /\ ReachedOps(calls) \subseteq ReachedOps(cs)
          /\ ReachedOps(cs) \subseteq ReachedOps(calls) \cup {t.op}
          /\ Sent(calls) \subseteq Sent(cs)
      BY <2>1, <2>2 DEF ReachedOps, Sent
    <2>5. \A u \in pin : u.op # t.op
      BY <1>2, <1>3, <2>2 DEF Closed
    <2>6. FieldCoverage(pin, ReachedOps(cs), Sent(cs), unmanaged, staged)
      BY <1>3, <2>4, <2>5 DEF FieldCoverage
    <2>7. Totality(pin, ReachedOps(cs), unmanaged, staged)
      BY <1>3, <2>4 DEF Totality
    <2>8. QED
      BY <1>3, <2>3, <2>6, <2>7 DEF Check, cs
  <1>6. QED
    BY <1>4, <1>5

\* What lands is excused by its entry until it is pinned.
LEMMA Landable == ASSUME GateInv, Small PROVE LandPasses
  <1>1. SUFFICES ASSUME NEW t \in staged \ fixture, HubGreen, NEW new \in Bundles(t),
                        IsOp(t) \/ Operation(t.op) \in fixture,
                        \A c \in Recorded(calls) :
                          IsOp(t) /\ c.op = t.op => validateArgs(fixture \cup new, staged, c)
                 PROVE  Check(fixture \cup new, calls, want, unmanaged, staged, FALSE)
    BY DEF LandPasses
  <1>2. t = Target(t.op, t.field)
    BY StagedIsAhead
  <1>3. /\ OpsOf(calls) = want
        /\ \A c \in Recorded(calls) : validate(fixture, staged, c)
        /\ FieldCoverage(fixture, ReachedOps(calls), Sent(calls), unmanaged, staged)
        /\ Totality(fixture, ReachedOps(calls), unmanaged, staged)
    BY <1>1 DEF HubGreen, Check
  <1>4. CASE ~IsOp(t)
    <2>1. new = {t}
      BY <1>4 DEF Bundles
    <2>2. \A op : Operation(op) # t
      BY <1>4 DEF IsOp, Operation, Target
    <2>3. \A c \in Recorded(calls) : validate(fixture \cup new, staged, c)
      BY <1>3, <2>1, <2>2 DEF validate, validateArgs
    <2>4. FieldCoverage(fixture \cup new, ReachedOps(calls), Sent(calls), unmanaged, staged)
      BY <1>3, <2>1 DEF FieldCoverage
    <2>5. Totality(fixture \cup new, ReachedOps(calls), unmanaged, staged)
      BY <1>3, <1>4, <2>1 DEF Totality
    <2>6. QED
      BY <1>3, <2>3, <2>4, <2>5 DEF Check
  <1>5. CASE IsOp(t)
    <2>1. Operation(t.op) = t
      BY <1>2, <1>5 DEF IsOp, Operation, Target
    <2>2. /\ t \in new
          /\ \A u \in new : u.op = t.op /\ (IsOp(u) => u = t)
      <3>1. PICK more \in SUBSET {u \in Features : u.op = t.op /\ ~IsOp(u)} :
              new = {Operation(t.op)} \cup {Target(t.op, f) : f \in Schema[t.op]} \cup more
        BY <1>5 DEF Bundles
      <3>2. QED
        BY <2>1, <3>1, <1>2, <1>5 DEF Target, IsOp
    <2>3. ASSUME NEW c \in Recorded(calls) PROVE validate(fixture \cup new, staged, c)
      <3>1. CASE c.op = t.op
        BY <1>1, <1>5, <2>1, <2>2, <3>1 DEF validate
      <3>2. CASE c.op # t.op
        <4>1. Operation(c.op).op = c.op
          BY DEF Operation, Target
        <4>2. Operation(c.op) \in fixture \cup new <=> Operation(c.op) \in fixture
          BY <2>2, <3>2, <4>1
        <4>3. validate(fixture, staged, c)
          BY <1>3
        <4>4. validateArgs(fixture, staged, c) => validateArgs(fixture \cup new, staged, c)
          BY <2>2, <3>2 DEF validateArgs
        <4>5. QED
          BY <4>2, <4>3, <4>4 DEF validate
      <3>3. QED
        BY <3>1, <3>2
    <2>4. FieldCoverage(fixture \cup new, ReachedOps(calls), Sent(calls), unmanaged, staged)
      BY <1>3, <2>1, <2>2 DEF FieldCoverage
    <2>5. Totality(fixture \cup new, ReachedOps(calls), unmanaged, staged)
      BY <1>3, <2>2 DEF Totality
    <2>6. QED
      BY <1>3, <2>3, <2>4, <2>5 DEF Check
  <1>6. QED
    BY <1>4, <1>5

\* The bump drops every entry the hub has caught up with: what is left to pass
\* on is what the calls themselves cover.
LEMMA Bumpable == ASSUME GateInv PROVE BumpPasses
  <1> DEFINE rest == staged \ fixture
  <1> DEFINE Pinnable == Check(fixture, calls, want, unmanaged, rest, TRUE)
  <1>1. OpsOf(calls) = want /\ Closed(fixture) /\ expiryViolations(fixture, rest) = {}
    BY DEF GateInv, ProviderGreen, Check, expiryViolations
  <1>2. ASSUME Pinnable PROVE HubGreen /\ Covered(fixture)
    <2>1. /\ \A c \in Recorded(calls) : validate(fixture, rest, c)
          /\ FieldCoverage(fixture, ReachedOps(calls), Sent(calls), unmanaged, rest)
          /\ Totality(fixture, ReachedOps(calls), unmanaged, rest)
      BY <1>2 DEF Check
    <2>2. HubGreen
      <3>1. \A c \in Recorded(calls) : validate(fixture, staged, c)
        BY <2>1 DEF validate, validateArgs
      <3>2. QED
        BY <1>1, <2>1, <3>1 DEF HubGreen, Check, FieldCoverage, Totality
    <2>3. \A t \in fixture : t \notin rest /\ Operation(t.op) \in fixture /\ Operation(t.op) \notin rest
      BY <1>1 DEF Closed
    <2>4. \A t \in fixture : Operation(t.op).op = t.op /\ IsOp(Operation(t.op))
      BY DEF Operation, Target, IsOp
    <2>5. ASSUME NEW t \in fixture, t.op \notin unmanaged PROVE Supports(t)
      <3>1. t.op \in ReachedOps(calls)
        BY <2>1, <2>3, <2>4, <2>5 DEF Totality
      <3>2. QED
        BY <2>1, <2>3, <2>5, <3>1 DEF FieldCoverage, Supports
    <2>6. ASSUME NEW c \in Recorded(calls), NEW t \in Required \cap fixture, t.op = c.op
          PROVE  t.field \in c.args
      BY <2>1, <2>3, <2>6 DEF validate, validateArgs
    <2>7. QED
      BY <2>2, <2>5, <2>6 DEF Covered
  <1>3. ASSUME HubGreen, Covered(fixture) PROVE Pinnable
    <2>1. \A c \in Recorded(calls) : validate(fixture, staged, c)
      BY <1>3 DEF HubGreen, Check
    <2>2. \A c \in Recorded(calls) : validate(fixture, rest, c)
      BY <1>3, <2>1 DEF validate, validateArgs, Covered
    <2>3. FieldCoverage(fixture, ReachedOps(calls), Sent(calls), unmanaged, rest)
      BY <1>3 DEF Covered, Supports, FieldCoverage
    <2>4. Totality(fixture, ReachedOps(calls), unmanaged, rest)
      BY <1>3 DEF Covered, Supports, Totality
    <2>5. QED
      BY <1>1, <2>2, <2>3, <2>4 DEF Check
  <1>4. QED
    BY <1>2, <1>3 DEF BumpPasses

\* Neither gate keeps a handoff waiting for the other repository: support for
\* what is staged always passes here, what is staged passes at a green hub, and
\* the pin can follow exactly when the hub is green and covered.
THEOREM CoverageNoLockout == Spec => []NoLockout
  <1>1. GateInv /\ Small => NoLockout
    BY Shippable, Landable, Bumpable DEF NoLockout
  <1>2. QED
    BY <1>1, GateInvariant, SmallAlways, PTL
=============================================================================
