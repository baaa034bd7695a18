SPECIFICATION Spec
CONSTANTS
  Blocks <- MCBlocks
  Inputs <- MCInputs
  Outputs <- MCOutputs
  Kind <- MCKind
  Rank <- MCRank
  Config <- MCConfig
  None = None
  Generated <- MCGenerated
  Preset <- MCPreset
  MaxNodes = 3
  MaxEdges = 3
  MaxPackets = 1
CHECK_DEADLOCK FALSE
INVARIANTS
  PacketsFitTheirPorts
  NoWriteIsLost
  NodesReadThisRun
