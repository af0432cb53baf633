SPECIFICATION Spec
CONSTANTS
  Callers = {c1, c2}
  Msgs = {m1}
  Envs <- MCEnvs
  RowWorkers = {1, 4}
  Width = 3
  LongWidth = 6
  Millisecond = 3
  MaxCap = 25
  DefaultDefault = 2
  DefaultMax = 2
  DefaultTTL = 3
  MaxStarts = 2
  MaxCalls = 3
  Unset = Unset
  Garbage = Garbage
  None = None
  Absent = Absent
INVARIANTS
  TypeOK
  DeadLetterHome
  NotDiscarded
  TTLAsConfigured
CHECK_DEADLOCK FALSE
