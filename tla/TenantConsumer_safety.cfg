SPECIFICATION TCSpec
CONSTANTS
  i1 = i1
  i2 = i2
  i3 = i3
  m1 = m1
  NoItem = NoItem
  Items = {i1, i2, i3}
  Messages = {m1}
  MsgOf <- MCMsgOf
  RetryHeader <- MCRetryHeader
  BadPayload = {}
  Malformed = {}
  MessageTTL = 1
  InitWorkers = 1
  QueueFactor = 1
  MaxRetry = 0
  Sizes = {2}
  MaxGoroutines = 2
  MaxResizes = 1
INVARIANTS
  TCTypeOK
  UnackedTracked
  SingleOwner
  LossBounded
SYMMETRY MCSymmetry
CHECK_DEADLOCK FALSE
