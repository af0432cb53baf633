SPECIFICATION Spec
CONSTANTS
  Publishers = {}
  Users = {}
  BatchSize = 2
  MaxConns = 3
  MaxLosses = 1
PROPERTY
  ReconnectsEventually
CHECK_DEADLOCK FALSE
