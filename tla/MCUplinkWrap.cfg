SPECIFICATION Spec
CONSTANTS
  W = 1
  SeqMod = 8
  IdleTimeout = 2
  Paths = {starlink, mobile}
  MaxSeq = 6
  MaxFlight = 3
  MaxDelay = 1
  MaxLag = 4
  Horizon = 1
INVARIANT
  AtMostOnce
CHECK_DEADLOCK FALSE
