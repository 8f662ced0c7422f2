SPECIFICATION Spec
CONSTANTS
  reader = reader
  p = p
  r1 = r1
  r2 = r2
  a1 = a1
  Null = Null
  Unknown = Unknown
  EmptyList = EmptyList
  RoleNames <- MCRoleNames
  Patterns <- MCPatterns
  Plain <- MCPlain
  Aliases <- MCAliases
  DefaultPlain = r1
  Configs <- MCNotEmpty
  MaxEdits = 2
  MaxDrift = 0
  MaxFaults = 0
INVARIANT
  ApplyReplacesRoles
CHECK_DEADLOCK FALSE
