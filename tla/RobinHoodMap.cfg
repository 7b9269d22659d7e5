SPECIFICATION Spec
CONSTANTS
  Keys <- MCKeys
  hash <- MCHash
  NoKey = NoKey
  Capacities = {1, 8}
  Reserves = {0, 5}
  MaxKeys = 6
INVARIANTS
  FindExact
  SizeExact
  ProbeEnds
PROPERTIES
  ImplementsIndex
