CONSTANTS
  Pid = {p1, p2}
  Conn = {c1, c2}
  Server = Server
  Watcher = Watcher
  Failed = Failed
  Script = Script
  None = None
  Backlog = 2
  Faults = {"fork", "accept"}
  Interrupts = {"TERM"}
  JobControl = TRUE
CHECK_DEADLOCK FALSE
SPECIFICATION Spec
SYMMETRY Symmetry
INVARIANTS TypeOK SessionIsolation RegisteredUnlessOverrun
PROPERTIES ChildrenTerminated ImplementsConnections
