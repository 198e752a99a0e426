SPECIFICATION Spec
CONSTANTS
  Paths = {wifi, phone}
  Metered = {phone}
  Starlink = {}
  SendMode = "primary"
  DataLimit = 2
  MaxPackets = 3
PROPERTY
  CapSparesUnmetered
CHECK_DEADLOCK FALSE
