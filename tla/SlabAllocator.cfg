SPECIFICATION Spec
CONSTANTS
  t1 = t1
  t2 = t2
  t3 = t3
  Tuples = {t1, t2, t3}
  Partitions = {0, 1}
  PartOf <- MCPartOf
  TupleSize = 2
  SmallSize = 5
  LargeSize = 10
  MaxTuples = 7
INVARIANTS
  TypeOK
  ChunksDisjoint
  CountsMatchMemory
  OnlyTailsWasted
PROPERTIES
  MallocOnlyWhenFull
  ImplementsCollector
