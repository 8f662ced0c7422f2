SPECIFICATION FairSpec
CONSTANTS
  x1 = x1
  x2 = x2
  alice = alice
  bob = bob
  Null = Null
  Addresses <- MCAddresses
  Owners <- MCOwners
  Timeouts <- MCTimeouts
  Configs <- MCConfigs
  MaxEdits = 2
  MaxDrift = 2
  MaxFaults = 1
INVARIANTS
  StateIsThePair
  DestroyRestores
  RefusedAsTheHubWould
CHECK_DEADLOCK FALSE
PROPERTIES
  Converges
