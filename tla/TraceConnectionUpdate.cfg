SPECIFICATION Spec
CONSTANTS
  Configs <- MCConfigs
  MaxEvents = 8
  MaxUpdates = 2
  MaxThrows = 0
PROPERTY
  UpdateKeepsBuffered
CHECK_DEADLOCK FALSE
