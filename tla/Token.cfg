SPECIFICATION FairSpec
CONSTANTS
  t1 = t1
  t2 = t2
  t3 = t3
  t4 = t4
  g1 = g1
  Unset = Unset
  Null = Null
  Ids <- MCIds
  Generations <- MCGenerations
  MaxEdits = 3
  MaxDrift = 1
  MaxFaults = 2
INVARIANTS
  TypeOK
  NoInvisibleCredential
  PlaintextKept
  OneLiveByDefault
  DeadIsAccountedFor
PROPERTIES
  ForgottenOnlyWhenDone
  OverlapSpec
  Settles
CHECK_DEADLOCK FALSE
