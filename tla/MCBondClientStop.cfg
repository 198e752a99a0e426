SPECIFICATION Spec
CONSTANTS
  Paths = {dish, phone}
  Metered = {phone}
  Starlink = {dish}
  SendMode = "primary"
  DataLimit = 2
  MaxPackets = 3
PROPERTY
  StartReturnsAfterStop
CHECK_DEADLOCK FALSE
