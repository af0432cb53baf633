SPECIFICATION Spec
CONSTANTS
  Ids = {1, 2, 3}
  SecondTicks = 2
  MaxTime = 5
  CommitLag = 1
  Limits = {0, 9}
  MaxLimit = 2
  DefaultLimit = 1
INVARIANTS
  TypeOK
  NoDuplicates
  MissedShareSecond
  OffsetDrift
PROPERTY
  PagingEnds
CHECK_DEADLOCK FALSE
