SPECIFICATION Spec
CONSTANTS
  i1 = i1
  i2 = i2
  i3 = i3
  m1 = m1
  NoItem = NoItem
  Items = {i1, i2, i3}
  Messages = {m1}
  MsgOf <- MCMsgOf
  RetryHeader <- MCRetryHeader
  BadPayload = {i2}
  InitWorkers = 1
  QueueFactor = 2
  MaxRetry = 1
  Sizes = {0, 2}
  MaxGoroutines = 2
  MaxResizes = 2
INVARIANTS
  TypeOK
  WaitGroupExact
  NeverUnderProvisioned
  ItemHeldOnce
  RetryBudgetSpent
  CompletedIsRecorded
PROPERTIES
  ImplementsContract
CHECK_DEADLOCK FALSE
