SPECIFICATION FairSpec
CONSTANTS
  x1 = x1
  x2 = x2
  reader = reader
  writer = writer
  tool = tool
  All = all
  Null = Null
  Addresses <- MCAddresses
  Names <- MCNames
  Inline <- MCInline
  Configs <- MCConfigs
  MaxEdits = 2
  MaxDrift = 2
  MaxFaults = 1
INVARIANTS
  TypeOK
  StateIsTheGrant
  RefreshIsQuiet
PROPERTIES
  Converges
  UndeclaredOnlyInARace
CHECK_DEADLOCK FALSE
