CONSTANTS
  Pid = {p1}
  Conn = {c1}
  Server = Server
  Watcher = Watcher
  Failed = Failed
  Script = Script
  None = None
  Backlog = 1
  Faults = {"fork"}
  Interrupts = {"TERM"}
  JobControl = FALSE
CHECK_DEADLOCK FALSE
SPECIFICATION Spec
INVARIANT OnlyChildrenTerminated
