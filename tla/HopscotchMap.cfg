SPECIFICATION FairSpec
CONSTANTS
  Keys <- MCKeys
  hash <- MCHash
  NoKey = NoKey
  Capacities = {1, 8, 16}
  Reserves = {0, 5}
  MaxKeys = 6
INVARIANTS
  HopExact
  FindExact
PROPERTIES
  ImplementsIndex
  EmplaceReturns
