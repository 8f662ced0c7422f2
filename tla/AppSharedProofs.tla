--------------------------- MODULE AppSharedProofs --------------------------
(***************************************************************************)
(* Facts about the operators of AppShared that the proofs about the two    *)
(* app resources rest on: what a plan, the wire and the row make of role   *)
(* maps and of the common attributes.                                      *)
(***************************************************************************)
EXTENDS AppShared, TLAPS

\* A role map is a function on some of the names.
LEMMA RoleMapsFunctions ==
  ASSUME NEW F, NEW m \in RoleMaps(F)
  PROVE  /\ DOMAIN m \in SUBSET RoleNames
         /\ m = [r \in DOMAIN m |-> m[r]]
         /\ \A r \in DOMAIN m : m[r] \in F
  BY DEF RoleMaps

LEMMA NoRolesStored == NoRoles \in Stored
  BY DEF NoRoles, Stored, RoleMaps

\* What the wire carries of any map can be stored.
LEMMA WireStored ==
  ASSUME NEW F, NEW m \in RoleMaps(F) PROVE ToWire(m) \in Stored
  <1>1. DOMAIN m \in SUBSET RoleNames
    BY RoleMapsFunctions
  <1>2. \A r \in DOMAIN m : (IF m[r] \in Patterns THEN m[r] ELSE Null)
                              \in Patterns \cup {Null}
    OBVIOUS
  <1>3. QED
    BY <1>1, <1>2 DEF ToWire, Stored, RoleMaps

LEMMA KeptRolesType ==
  ASSUME NEW c \in Written \cup {Null}, NEW p \in Stored \cup {Null}
  PROVE  KeptRoles(c, p) \in Written \cup {Null}
  <1>1. CASE c = Null
    BY <1>1 DEF KeptRoles, Stored, Written, RoleMaps
  <1>2. CASE c # Null
    <2>1. /\ DOMAIN c \in SUBSET RoleNames
          /\ \A r \in DOMAIN c : c[r] \in Patterns \cup {EmptyList, Null}
      BY <1>2, RoleMapsFunctions DEF Written
    <2>2. \A r \in DOMAIN c : Family(p, r) \in Patterns \cup {Null}
      BY RoleMapsFunctions DEF Family, Stored
    <2>3. \A r \in DOMAIN c :
            Kept(c[r], Family(p, r)) \in Patterns \cup {EmptyList, Null}
      BY <2>1, <2>2 DEF Kept
    <2>4. QED
      BY <1>2, <2>1, <2>3 DEF KeptRoles, Written, RoleMaps
  <1>3. QED
    BY <1>1, <1>2

LEMMA KeptRolesWritten ==
  ASSUME NEW c \in Written \cup {Null}, NEW p \in Stored
  PROVE  KeptRoles(c, p) \in Written
  <1>1. p \in Written
    BY DEF Stored, Written, RoleMaps
  <1>2. CASE c = Null
    BY <1>1, <1>2 DEF KeptRoles
  <1>3. CASE c # Null
    <2>1. KeptRoles(c, p) = [r \in DOMAIN c |-> Kept(c[r], Family(p, r))]
      BY <1>3 DEF KeptRoles
    <2>2. /\ DOMAIN c \in SUBSET RoleNames
          /\ \A r \in DOMAIN c : c[r] \in Patterns \cup {EmptyList, Null}
      BY <1>3, RoleMapsFunctions DEF Written
    <2>3. \A r \in DOMAIN c : Family(p, r) \in Patterns \cup {Null}
      BY RoleMapsFunctions DEF Family, Stored
    <2>4. QED
      BY <2>1, <2>2, <2>3 DEF Kept, Written, RoleMaps
  <1>4. QED
    BY <1>2, <1>3

LEMMA ResolvableRolesType ==
  ASSUME NEW c \in Written \cup {Null} PROVE ResolvableRoles(c) \in RolesCreated
  <1>1. CASE c = Null
    BY <1>1 DEF ResolvableRoles, RolesCreated
  <1>2. CASE c # Null
    <2>1. /\ DOMAIN c \in SUBSET RoleNames
          /\ \A r \in DOMAIN c : c[r] \in Patterns \cup {EmptyList, Null}
      BY <1>2, RoleMapsFunctions DEF Written
    <2>2. \A r \in DOMAIN c :
            Resolvable(c[r]) \in Patterns \cup {EmptyList, Unknown}
      BY <2>1 DEF Resolvable
    <2>3. QED
      BY <1>2, <2>1, <2>2 DEF ResolvableRoles, RolesCreated, RoleMaps
  <1>3. QED
    BY <1>1, <1>2

LEMMA RolesOfCreatedType ==
  ASSUME NEW p \in RolesCreated PROVE RolesOfCreated(p) \in Stored
  BY NoRolesStored, WireStored DEF RolesCreated, RolesOfCreated

\* What plans, requests and rows make of the common attributes has their type.
LEMMA CommonTypes ==
  /\ \A c \in CommonWritten, s \in Common : KeptCommon(c, s) \in CommonUpdated
  /\ \A c \in CommonWritten : ResolvableCommon(c) \in CommonCreated
  /\ \A p \in CommonCreated : CommonOfCreated(p) \in Common
  /\ \A h \in Common, p \in CommonUpdated : CommonPatched(h, p) \in Common
  /\ \A h \in Common : CommonDrifted(h) \subseteq Common
  BY DefaultAssumption
  DEF Common, CommonWritten, CommonUpdated, CommonCreated, KeptCommon, Kept,
      ResolvableCommon, Resolvable, CommonOfCreated, CommonPatched, Sent,
      CommonDrifted

-----------------------------------------------------------------------------
(* What comes back                                                         *)

\* A map without empty families is stored as it was written.
LEMMA WireKeeps ==
  ASSUME NEW m \in Written, ~HasEmptyFamily(m)
  PROVE  ToWire(m) = m
  <1>1. /\ m = [r \in DOMAIN m |-> m[r]]
        /\ \A r \in DOMAIN m : m[r] \in Patterns \cup {EmptyList, Null}
    BY RoleMapsFunctions DEF Written
  <1>2. m # Null
    BY ValuesAssumption
  <1>3. \A r \in DOMAIN m : m[r] \in Patterns \cup {Null}
    BY <1>1, <1>2 DEF HasEmptyFamily
  <1>4. \A r \in DOMAIN m : (IF m[r] \in Patterns THEN m[r] ELSE Null) = m[r]
    BY <1>3
  <1>5. QED
    BY <1>1, <1>4 DEF ToWire

\* The plan asks for an empty family only if the configuration does: what the
\* refresh read has none.
LEMMA PlanAsks ==
  ASSUME NEW c \in Written \cup {Null}, NEW p \in Stored \cup {Null},
         ~HasEmptyFamily(c)
  PROVE  ~HasEmptyFamily(KeptRoles(c, p))
  <1>1. ASSUME NEW m \in Stored \cup {Null} PROVE ~HasEmptyFamily(m)
    <2>1. m # Null => \A r \in DOMAIN m : m[r] \in Patterns \cup {Null}
      BY RoleMapsFunctions DEF Stored
    <2>2. QED
      BY <2>1, ValuesAssumption DEF HasEmptyFamily
  <1>2. CASE c = Null
    BY <1>1, <1>2 DEF KeptRoles
  <1>3. CASE c # Null
    <2>1. KeptRoles(c, p) = [r \in DOMAIN c |-> Kept(c[r], Family(p, r))]
      BY <1>3 DEF KeptRoles
    <2>2. \A r \in DOMAIN c : c[r] # EmptyList
      BY <1>3 DEF HasEmptyFamily
    <2>3. \A r : Family(p, r) # EmptyList
      BY <1>1, ValuesAssumption DEF Family, HasEmptyFamily
    <2>4. QED
      BY <2>1, <2>2, <2>3 DEF HasEmptyFamily, Kept
  <1>4. QED
    BY <1>2, <1>3

\* A map that is configured is planned.
LEMMA KeptGiven ==
  ASSUME NEW c \in Written \cup {Null}, NEW p \in Stored \cup {Null},
         KeptRoles(c, p) = Null
  PROVE  c = Null
  <1>1. SUFFICES ASSUME c # Null PROVE FALSE
    OBVIOUS
  <1>2. KeptRoles(c, p) = [r \in DOMAIN c |-> Kept(c[r], Family(p, r))]
    BY <1>1 DEF KeptRoles
  <1>3. /\ DOMAIN c \in SUBSET RoleNames
        /\ \A r \in DOMAIN c : c[r] \in Patterns \cup {EmptyList, Null}
    BY <1>1, RoleMapsFunctions DEF Written
  <1>4. \A r : Family(p, r) \in Patterns \cup {Null}
    BY RoleMapsFunctions DEF Family, Stored
  <1>5. KeptRoles(c, p) \in Written
    BY <1>2, <1>3, <1>4 DEF Kept, Written, RoleMaps
  <1>6. QED
    BY <1>5, ValuesAssumption

\* A created map comes back as it was planned, unless a family of it is empty.
LEMMA CreateEchoes ==
  ASSUME NEW c \in Written \cup {Null}, ~HasEmptyFamily(c)
  PROVE  EchoesRoles(ResolvableRoles(c), RolesOfCreated(ResolvableRoles(c)))
  <1> DEFINE p == ResolvableRoles(c)
  <1>1. CASE c = Null
    BY <1>1 DEF EchoesRoles, ResolvableRoles, RolesOfCreated
  <1>2. CASE c # Null
    <2>1. p = [r \in DOMAIN c |-> Resolvable(c[r])]
      BY <1>2 DEF ResolvableRoles
    <2>2. /\ DOMAIN c \in SUBSET RoleNames
          /\ \A r \in DOMAIN c : c[r] \in Patterns \cup {EmptyList, Null}
      BY <1>2, RoleMapsFunctions DEF Written
    <2>3. \A r \in DOMAIN c : Resolvable(c[r]) \in Patterns \cup {Unknown}
      BY <1>2, <2>2 DEF HasEmptyFamily, Resolvable
    <2>4. \A r \in DOMAIN p : p[r] \in {ToWire(p)[r], Unknown}
      BY <2>1, <2>3, ValuesAssumption DEF ToWire
    <2>5. DOMAIN ToWire(p) = DOMAIN p
      BY DEF ToWire
    <2>6. p \in RoleMaps(Patterns \cup {EmptyList, Unknown})
      BY <2>1, <2>2, <2>3 DEF RoleMaps
    <2>7. p # Unknown /\ p # Null /\ ToWire(p) # Null
      <3>1. ToWire(p) \in Written
        <4>1. ToWire(p) \in Stored
          BY <2>6, WireStored
        <4>2. QED
          BY <4>1 DEF Stored, Written, RoleMaps
      <3>2. QED
        BY <2>6, <3>1, ValuesAssumption
    <2>8. QED
      BY <2>4, <2>5, <2>7 DEF EchoesRoles, RolesOfCreated
  <1>3. QED
    BY <1>1, <1>2

-----------------------------------------------------------------------------
(* What fits a configuration is no diff from it                            *)

FitsCommon(c, m) ==
  c.plain \in {m.plain, Null} /\ c.aliases \in {m.aliases, Null}

LEMMA CommonSettled ==
  ASSUME NEW c \in CommonWritten, NEW m \in Common, FitsCommon(c, m)
  PROVE  KeptCommon(c, m) = m
  BY DEF FitsCommon, KeptCommon, Kept, Common

LEMMA RolesSettled ==
  ASSUME NEW c \in Written \cup {Null}, NEW m \in Stored \cup {Null},
         c # Null => Shows(c, m)
  PROVE  KeptRoles(c, m) = m
  <1>1. CASE c = Null
    BY <1>1 DEF KeptRoles
  <1>2. CASE c # Null
    <2>1. /\ m # Null /\ DOMAIN c = DOMAIN m
          /\ \A r \in DOMAIN m : c[r] \in {m[r], Null}
      BY <1>2 DEF Shows
    <2>2. m = [r \in DOMAIN m |-> m[r]]
      BY <2>1, RoleMapsFunctions DEF Stored
    <2>3. \A r \in DOMAIN m : Kept(c[r], Family(m, r)) = m[r]
      BY <2>1 DEF Kept, Family
    <2>4. QED
      BY <1>2, <2>1, <2>2, <2>3 DEF KeptRoles
  <1>3. QED
    BY <1>1, <1>2

\* And what is no diff shows what is configured.
LEMMA SettledShows ==
  ASSUME NEW c \in Written \cup {Null}, NEW m \in Stored \cup {Null},
         c # Null, KeptRoles(c, m) = m
  PROVE  Shows(c, m)
  <1>1. m = [r \in DOMAIN c |-> Kept(c[r], Family(m, r))]
    BY DEF KeptRoles
  <1>2. m # Null
    BY KeptGiven
  <1>3. QED
    BY <1>1, <1>2 DEF Shows, Kept

\* An object that comes back as an update planned it fits the block, and so
\* does one that comes back as a creation planned it.
LEMMA UpdateFitsCommon ==
  ASSUME NEW c \in CommonWritten, NEW s \in Common, NEW m \in Common,
         EchoesCommon(KeptCommon(c, s), m)
  PROVE  FitsCommon(c, m)
  <1>1. KeptCommon(c, s).plain = m.plain /\ KeptCommon(c, s).aliases = m.aliases
    BY CommonTypes, ValuesAssumption DEF EchoesCommon, CommonUpdated
  <1>2. QED
    BY <1>1 DEF KeptCommon, Kept, FitsCommon

LEMMA CreateFitsCommon ==
  ASSUME NEW c \in CommonWritten, NEW m \in Common,
         EchoesCommon(ResolvableCommon(c), m)
  PROVE  FitsCommon(c, m)
  BY ValuesAssumption
  DEF EchoesCommon, ResolvableCommon, Resolvable, FitsCommon, CommonWritten

LEMMA UpdateShows ==
  ASSUME NEW c \in Written \cup {Null}, NEW s \in Stored \cup {Null}, NEW m,
         c # Null, EchoesRoles(KeptRoles(c, s), m)
  PROVE  Shows(c, m)
  <1> DEFINE p == KeptRoles(c, s)
  <1>1. p = [r \in DOMAIN c |-> Kept(c[r], Family(s, r))]
    BY DEF KeptRoles
  <1>2. p \in Written
    BY KeptRolesType, KeptGiven
  <1>3. p # Null /\ p # Unknown
    BY <1>2, ValuesAssumption
  <1>4. m # Null /\ DOMAIN p = DOMAIN m
    BY <1>3 DEF EchoesRoles
  <1>5. \A r \in DOMAIN p : p[r] # Unknown
    BY <1>2, RoleMapsFunctions, ValuesAssumption DEF Written
  <1>6. \A r \in DOMAIN p : p[r] = m[r]
    BY <1>3, <1>5 DEF EchoesRoles
  <1>7. DOMAIN p = DOMAIN c /\ \A r \in DOMAIN c : c[r] \in {p[r], Null}
    BY <1>1 DEF Kept
  <1>8. QED
    BY <1>4, <1>6, <1>7 DEF Shows

LEMMA CreateShows ==
  ASSUME NEW c \in Written \cup {Null}, NEW m,
         c # Null, EchoesRoles(ResolvableRoles(c), m)
  PROVE  Shows(c, m)
  <1> DEFINE p == [r \in DOMAIN c |-> Resolvable(c[r])]
  <1>1. EchoesRoles(p, m)
    BY DEF ResolvableRoles
  <1>2. /\ DOMAIN c \in SUBSET RoleNames
        /\ \A r \in DOMAIN c : c[r] \in Patterns \cup {EmptyList, Null}
    BY RoleMapsFunctions DEF Written
  <1>3. p \in RoleMaps(Patterns \cup {EmptyList, Unknown})
    <2>1. \A r \in DOMAIN c :
            Resolvable(c[r]) \in Patterns \cup {EmptyList, Unknown}
      BY <1>2 DEF Resolvable
    <2>2. QED
      BY <1>2, <2>1 DEF RoleMaps
  <1>4. p # Null /\ p # Unknown
    BY <1>3, ValuesAssumption
  <1>5. m # Null /\ DOMAIN p = DOMAIN m
        /\ \A r \in DOMAIN p : p[r] \in {m[r], Unknown}
    BY <1>1, <1>4 DEF EchoesRoles
  <1>6. \A r \in DOMAIN c : Resolvable(c[r]) \in {m[r], Unknown}
    BY <1>5
  <1>7. \A r \in DOMAIN c : c[r] \in {m[r], Null}
    BY <1>2, <1>6, ValuesAssumption DEF Resolvable
  <1>8. QED
    BY <1>5, <1>7 DEF Shows

-----------------------------------------------------------------------------
(* What does come back                                                     *)

\* A created object has what its plan showed, unless a map of aliases is empty.
LEMMA CreateEchoesCommon ==
  ASSUME NEW c \in CommonWritten, c.aliases # EmptyList
  PROVE  EchoesCommon(ResolvableCommon(c), CommonOfCreated(ResolvableCommon(c)))
  BY ValuesAssumption
  DEF EchoesCommon, ResolvableCommon, Resolvable, CommonOfCreated, Sent,
      CommonWritten

\* So has an updated one, and but for aliases that were null and that the plan
\* left to the hub.
LEMMA UpdateEchoesCommon ==
  ASSUME NEW c \in CommonWritten, NEW s \in Common, NEW h \in Common,
         c.aliases # EmptyList,
         KeptCommon(c, s).aliases = Null => h.aliases = Null
  PROVE  EchoesCommon(KeptCommon(c, s), CommonPatched(h, KeptCommon(c, s)))
  BY ValuesAssumption
  DEF EchoesCommon, KeptCommon, Kept, CommonPatched, Sent, CommonWritten, Common
=============================================================================
