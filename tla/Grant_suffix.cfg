SPECIFICATION Spec
CONSTANTS
  x1 = x1
  x2 = x2
  reader = reader
  writer = writer
  tool = tool
  All = all
  Null = Null
  Addresses <- MCAddresses
  Names <- MCNames
  Inline <- MCInline
  Configs <- MCConfigs
  MaxEdits = 1
  MaxDrift = 0
  MaxFaults = 0
INVARIANTS
  SuffixIsUnambiguous
CHECK_DEADLOCK FALSE
