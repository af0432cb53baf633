SPECIFICATION TCSpec
CONSTANTS
  i1 = i1
  i2 = i2
  i3 = i3
  m1 = m1
  NoItem = NoItem
  Items = {i1, i2, i3}
  Messages = {m1}
  MsgOf <- MCMsgOf
  RetryHeader <- MCRetryHeader
  BadPayload = {}
  Malformed = {i3}
  MessageTTL = 0
  InitWorkers = 1
  QueueFactor = 1
  MaxRetry = 0
  Sizes = {}
  MaxGoroutines = 1
  MaxResizes = 0
PROPERTIES
  ReadyIsConsumed
  StopReleases
CHECK_DEADLOCK FALSE
