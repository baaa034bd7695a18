SPECIFICATION Spec
CONSTANTS
  N = 4
  MaxStarts = 1
  ReplyErrors = {"none", "PLAN_ARGS_JSON_INVALID", "STRUCTURED_PARSE_FAILED", "OTHER"}
  CallLists <- MCCallLists
  Surroundings <- MCSurroundings
  Replying <- MCReplying
  MaxSteps = 3
  Words = {"graph", "json", "explain", "markdown", "concrete", "count", "keyword", "generate"}
  RequestTypes = {"blog-title-generation", "text-analysis", "keyword-analysis", "graph-explanation", "text-counting"}
  MaxWords = 4
  Scenarios <- MCScenarios
  Limits <- MCLimits
  PlanningTimes <- MCPlanningTimes
  TimedTools = {"a", "b"}
  Gaps = {1}
  Delays = {0, 1}
  MaxScenarios = 3
  MaxCalls = 3
  TaskNodes <- MCTaskNodes
  MaxTasks = 2
  SignalWords <- MCSignalWords
  Mentioned <- MCMentioned
  ModelContracts <- MCModelContracts
  MaxSignals = 4
  Missing = Missing
INVARIANTS
  PlansAreSound
  CreatedPlansResolve
  VerdictsAreHonest
  FeasibilityIsHonest
  MeasurementsAreTrue
CHECK_DEADLOCK FALSE
