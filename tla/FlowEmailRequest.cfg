SPECIFICATION Spec
CONSTANTS
  N = 1
  MaxStarts = 1
  ReplyErrors = {"none", "PLAN_ARGS_JSON_INVALID", "STRUCTURED_PARSE_FAILED", "OTHER"}
  CallLists <- MCCallLists
  Surroundings <- MCSurroundings
  Replying <- MCReplying
  MaxSteps = 0
  Words = {"graph", "json", "explain", "markdown", "concrete", "count", "keyword", "generate"}
  RequestTypes = {"blog-title-generation", "text-analysis", "keyword-analysis", "graph-explanation", "text-counting"}
  MaxWords = 0
  Scenarios <- MCScenarios
  Limits <- MCLimits
  PlanningTimes <- MCPlanningTimes
  TimedTools = {"a", "b"}
  Gaps = {1}
  Delays = {0, 1}
  MaxScenarios = 0
  MaxCalls = 0
  TaskNodes <- MCTaskNodes
  MaxTasks = 0
  SignalWords <- MCSignalWords
  Mentioned <- MCMentioned
  ModelContracts <- MCModelContracts
  MaxSignals = 4
  Missing = Missing
INVARIANT
  EmailRequestIsRefused
CHECK_DEADLOCK FALSE
