SPECIFICATION TCSpec
CONSTANTS
  i1 = i1
  i2 = i2
  i3 = i3
  m1 = m1
  NoItem = NoItem
  Items = {i1}
  Messages = {m1}
  MsgOf <- MCMsgOf
  RetryHeader <- MCRetryHeader
  BadPayload = {}
  Malformed = {}
  MessageTTL = 0
  InitWorkers = 1
  QueueFactor = 1
  MaxRetry = 0
  Sizes = {}
  MaxGoroutines = 1
  MaxResizes = 0
INVARIANT
  GracefulStopDrains
CHECK_DEADLOCK FALSE
