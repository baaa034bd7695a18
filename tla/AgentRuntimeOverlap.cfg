SPECIFICATION Spec
CONSTANTS
  Starter = run
  Resumers = {r1, r2}
  Plans <- MCPlans
  None = None
INVARIANTS
  ProgressIsRecorded
PROPERTIES
  CallsSettle
CHECK_DEADLOCK FALSE
