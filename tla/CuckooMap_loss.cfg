SPECIFICATION Spec
CONSTANTS
  Keys <- MCKeys
  h1 <- MCh1
  h2 <- MCh2
  NoKey = NoKey
  Capacities = {1, 4}
  Reserves = {0, 2}
  MaxKicks = 14
  MaxKeys = 5
PROPERTIES
  NothingLost
