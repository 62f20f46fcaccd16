CONSTANTS
  Requests <- CgiRequests
  Buffer = 2
  Capacity = 2
  MaxOutput = 3
  MaxWorkers = 2
  PingPong = TRUE
  Faults = {}
CHECK_DEADLOCK FALSE
SPECIFICATION FairSpec
PROPERTY CgiFinishes
