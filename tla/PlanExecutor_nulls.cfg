SPECIFICATION Spec
CONSTANTS
  Null = Null
  PageSize = 17
  ByteBits = 2
  Plans <- MCPlans
  PageValues = 2
  ColumnIds = 2
  TableIds = 4
  PageIds = 8
  NumThreads = 3
  Unwritten = 0
INVARIANT ResultReadsBack
CHECK_DEADLOCK FALSE
