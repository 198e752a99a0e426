SPECIFICATION Spec
CONSTANTS
  germany = germany
  finland = finland
  Regions <- MCRegions
  DefaultRegion = germany
  SavedRegion = finland
  MaxAttempts = 1
  Choosable = {"region"}
  MaxClicks = 3
INVARIANTS
  NoGoneConnectionShown
  DashboardMeansSignedIn
PROPERTIES
  DashboardCatchesUp
  BusyEnds
CHECK_DEADLOCK FALSE
