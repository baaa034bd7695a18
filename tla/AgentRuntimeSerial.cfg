SPECIFICATION SerialSpec
CONSTANTS
  Starter = run
  Resumers = {r1, r2, r3}
  Plans <- MCPlans
  None = None
INVARIANTS
  ResultsInStepOrder
  EffectsRunOnce
  CompletedRunIsWhole
  QuietRunIsResumableOrAtItsEnd
PROPERTIES
  SettledStepsDoNotRun
  KeepsLifecycle
CHECK_DEADLOCK FALSE
