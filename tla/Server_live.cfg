CONSTANTS
  Pid = {p1}
  Conn = {c1, c2}
  Server = Server
  Watcher = Watcher
  Failed = Failed
  Script = Script
  None = None
  Backlog = 1
  Faults = {"fork", "bind", "accept"}
  Interrupts = {"INT"}
  JobControl = FALSE
CHECK_DEADLOCK FALSE
SPECIFICATION FairSpec
INVARIANT WaitFindsZombie
PROPERTIES StopSignalStops QueueDrains ConnectionReleased PortReleased
