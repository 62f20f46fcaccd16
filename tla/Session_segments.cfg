CONSTANTS
  Requests <- MixedRequests
  Buffer = 2
  Capacity = 3
  MaxOutput = 4
  MaxWorkers = 3
  PingPong = FALSE
  Faults = {"fork", "exec", "file", "hangup", "terminate"}
CHECK_DEADLOCK FALSE
SPECIFICATION Spec
INVARIANTS OneReader StallsOnlyOnFullBuffers InStep CgiComplete
