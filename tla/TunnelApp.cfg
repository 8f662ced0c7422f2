SPECIFICATION FairSpec
CONSTANTS
  reader = reader
  p = p
  r1 = r1
  r2 = r2
  a1 = a1
  Null = Null
  Unknown = Unknown
  EmptyList = EmptyList
  RoleNames <- MCRoleNames
  Patterns <- MCPatterns
  Plain <- MCPlain
  Aliases <- MCAliases
  DefaultPlain = r1
  Configs <- MCConfigs
  MaxEdits = 3
  MaxDrift = 2
  MaxFaults = 2
INVARIANTS
  StateMirrorsRow
  AppliedMeansSettled
PROPERTIES
  Converges
  OwnerRolesLeftAlone
  ContradictedOnlyByOthers
CHECK_DEADLOCK FALSE
