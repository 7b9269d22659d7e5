SPECIFICATION Spec
CONSTANTS
  p1 = p1
  p2 = p2
  Null = Null
  Empty = Empty
  Bad = Bad
  NoFilter = NoFilter
  PageSize = 17
  ByteBits = 2
  Paths = {p1, p2}
  Types <- MCTypes
  Contents <- MCContents
  Header = TRUE
  Statements <- MCStatements
  Filters <- MCFilters
  LikeMatch <- MCLikeMatch
  IntRange = 256
  PoolThreads = 2
  MaxCalls = 3
  MaxRewrites = 1
INVARIANTS TypeOK PagesFit
PROPERTIES ImplementsTables
CHECK_DEADLOCK FALSE
