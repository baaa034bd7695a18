SPECIFICATION Spec
CONSTANTS
  run1 = run1  run2 = run2  eval1 = eval1  eval2 = eval2  cli = cli  note = note
  Calls <- MCCalls
  Processes = {1, 2, 3}
  Home <- MCHome
  Kind <- MCKind
  Requirement <- MCRequirement
  Before <- MCBefore
  MaxHistory = 2
  Groups <- MCGroups
  MaxFaults = 1
  Torn = Torn
  None = None
INVARIANTS
  LastSessionIsFound
  NothingLeaks
  ArtifactsTellTheOutcome
  HistoriesAreRecent
  LoadsAgree
CHECK_DEADLOCK FALSE
