SPECIFICATION Spec
CONSTANTS
  c1 = c1
  c2 = c2
  c3 = c3
  c4 = c4
  read = read
  write = write
  Calls = {c1, c2, c3, c4}
  Tools = {read, write}
  KeyOf <- MCKeyOf
  ReadOnly = {read}
  MaxAttempts = 2
  FailureThreshold = 2
  CoolDown = 1
INVARIANTS
  ExecutesWithinPolicy
PROPERTIES
  RefusalsHaveCause
  CallsSettle
  RefusalsEnd
CHECK_DEADLOCK FALSE
