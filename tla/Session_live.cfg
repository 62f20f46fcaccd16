CONSTANTS
  Requests <- MostlyShort
  Buffer = 2
  Capacity = 3
  MaxOutput = 3
  MaxWorkers = 2
  PingPong = TRUE
  Faults = {"fork", "file"}
CHECK_DEADLOCK FALSE
SPECIFICATION FairSpec
INVARIANT RequestsWholeInOrder
PROPERTIES CgiFinishes RequestsAnswered SessionEnds
