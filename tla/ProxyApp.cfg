SPECIFICATION FairSpec
CONSTANTS
  v1 = v1
  v2 = v2
  r1 = r1
  r2 = r2
  a1 = a1
  reader = reader
  p = p
  Null = Null
  Unknown = Unknown
  EmptyList = EmptyList
  Foreign = Foreign
  Versions <- MCVersions
  Plain <- MCPlain
  Aliases <- MCAliases
  RoleNames <- MCRoleNames
  Patterns <- MCPatterns
  DefaultPlain = r1
  Configs <- MCConfigs
  Outcomes = {"ok", "refused", "lost"}
  MaxEdits = 3
  MaxDrift = 2
  MaxFaults = 2
  MaxMishaps = 3
INVARIANTS
  WitnessEverAccepted
  WitnessTrue
  StateMirrorsRow
  AppliedMeansSettled
  EmptyPlanMeansLive
PROPERTIES
  SealingSpec
  Converges
  FieldsLeftAlone
  ForgottenOnlyWhenGone
CHECK_DEADLOCK FALSE
