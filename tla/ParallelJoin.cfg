SPECIFICATION FairSpec
CONSTANTS
  a = a
  b = b
  c = c
  d = d
  Null = Null
  Keys = {a, b, c, d}
  HashSize = 8
  Hash <- MCHash
  FilterBits = {0, 1, 2}
  Tag <- MCTag
  NumPartitions = 2
  PageRows = 2
  DirectorySizes = {2, 4, 8}
  Jobs <- MCJobs
  MaxJoins = 2
INVARIANTS
  TypeOK
  MorselsDisjoint
  CollectedExactlyOnce
  MergeRaceFree
  DirectoryExact
  NoFalseNegative
  EmittedExactlyOnce
PROPERTIES
  NoOverwrite
  ImplementsJoin
  JoinTerminates
