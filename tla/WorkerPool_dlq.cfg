SPECIFICATION Spec
CONSTANTS
  i1 = i1
  i2 = i2
  i3 = i3
  m1 = m1
  NoItem = NoItem
  Items = {i1}
  Messages = {m1}
  MsgOf <- MCMsgOf
  RetryHeader <- MCRetryHeader
  BadPayload = {}
  InitWorkers = 1
  QueueFactor = 2
  MaxRetry = 1
  Sizes = {}
  MaxGoroutines = 1
  MaxResizes = 0
INVARIANT
  ExhaustedIsDeadLettered
CHECK_DEADLOCK FALSE
