SPECIFICATION FairSpec
CONSTANTS
  Whole = Whole
  Scenarios <- MCScenarios
  Home <- MCHome
  Schema <- MCSchema
  Required <- MCRequired
  Pinned <- MCPinned
  Features <- MCFeatures
  Excusable <- MCExcusable
  MaxCommits = 3
INVARIANTS
  PinCovered
  NoLockout
PROPERTIES
  PinnedStays
  HubBrokenByStalePin
  Lands
CHECK_DEADLOCK FALSE
