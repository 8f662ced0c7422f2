SPECIFICATION FairSpec
CONSTANTS
  n1 = n1
  n2 = n2
  t1 = t1
  t2 = t2
  t3 = t3
  Notes <- MCNotes
  DefaultNote = n1
  Omitted = Omitted
  Configs <- MCConfigs
  TokenIds <- MCTokenIds
  Null = Null
  MaxEdits = 2
  MaxDrift = 1
  MaxFaults = 2
INVARIANTS
  TypeOK
  AppliedIsThere
PROPERTIES
  ForgottenOnlyWhenGone
  Converges
CHECK_DEADLOCK FALSE
