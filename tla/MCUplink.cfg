SPECIFICATION Spec
CONSTANTS
  W = 2
  SeqMod = 32
  IdleTimeout = 1
  Paths = {starlink, mobile}
  MaxSeq = 9
  MaxFlight = 2
  MaxDelay = 1
  MaxLag = 8
  Horizon = 2
INVARIANTS
  AtMostOnce
  NoFreshLoss
PROPERTY
  KeepsPromise
SYMMETRY PathSymmetry
CHECK_DEADLOCK FALSE
