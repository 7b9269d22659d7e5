SPECIFICATION Spec
CONSTANTS
  Null = Null
  PageSize = 17
  ByteBits = 2
  Plans <- MCLongPlans
  PageValues = 2
  ColumnIds = 2
  TableIds = 4
  PageIds = 8
  NumThreads = 3
  Unwritten = 0
INVARIANT LongStringsApart
CHECK_DEADLOCK FALSE
