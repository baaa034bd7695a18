SPECIFICATION Spec
CONSTANTS
  Nodes = {1, 2, 3, 4, 5}
  Graphs <- MCGraphs
  MaxConcurrency = 2
  apis = apis
  files = files
  Keys = {apis, files}
  KeyLimit <- MCKeyLimit
  NoKey = NoKey
  NoLimit = NoLimit
  NoParent = NoParent
INVARIANTS
  NodesRunOnceAfterDependencies
  WorkIsBounded
  OutcomeIsHonest
PROPERTIES
  SettledRunIsFrozen
  RunSettles
CHECK_DEADLOCK FALSE
