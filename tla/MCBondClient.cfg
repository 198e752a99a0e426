SPECIFICATION Spec
CONSTANTS
  Paths = {dish, phone, stick}
  Metered = {phone, stick}
  Starlink = {dish}
  SendMode = "primary"
  DataLimit = 2
  MaxPackets = 5
INVARIANTS
  CleanExit
  CapHolds
PROPERTIES
  StoppedEnds
  ServesUntilStopped
CHECK_DEADLOCK FALSE
