SPECIFICATION Spec
CONSTANTS
  Configs <- MCConfigs
  MaxEvents = 8
  MaxUpdates = 2
  MaxThrows = 1
INVARIANTS
  EventsKeepOrder
  DropsAreReported
  
PROPERTIES
  BufferedEventsLeave
CHECK_DEADLOCK FALSE
