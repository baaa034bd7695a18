SPECIFICATION Spec
CONSTANTS
  Starter = run
  Resumers = {r1, r2}
  Plans <- MCPlans
  None = None
PROPERTY
  ResumeActsOnWaitingRun
CHECK_DEADLOCK FALSE
