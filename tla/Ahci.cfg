SPECIFICATION Spec
CONSTANTS
  Ports = {0, 3}
  Links = {"PM", "SATA"}
  Placement = 5
  Requests <- Near
  MaxSpin = 2
INVARIANTS TypeOK ReceiverFirst MemoryApart CommandAsRequested
PROPERTIES MovedWhenStopped ErrorIsItsOwn SetUpNears DrivesComeUp
CHECK_DEADLOCK FALSE
