SPECIFICATION Spec
CONSTANTS
  Ports = {0}
  Links = {"SATA"}
  Placement = 5
  Requests <- Far
  MaxSpin = 1
INVARIANTS SectorReached
