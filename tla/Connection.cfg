SPECIFICATION Spec
CONSTANTS
  Publishers = {p1}
  Users = {u1}
  BatchSize = 2
  MaxConns = 4
  MaxLosses = 2
INVARIANTS
  TypeOK
  CurrentIsWatched
  ClosedStaysClosed
  BatchAtomic
PROPERTY
  WatchersEnd
CHECK_DEADLOCK FALSE
