SPECIFICATION MCSpec
CONSTANTS
  Blocks <- MCBlocks
  Inputs <- MCInputs
  Outputs <- MCOutputs
  OwnIds <- MCOwnIds
  Labels = {"first"}
  States = {"drawn"}
  None = None
  MaxNodes = 2
  MaxNumber = 3
  Options = {0, 3}
INVARIANTS
  DocumentIsSound
  StreamTellsDocument
  VisualsHaveSubjects
  GeneratedIdsAreFresh
  StreamEndsWithResult
  RetriesLearn
CHECK_DEADLOCK FALSE
