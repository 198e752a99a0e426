SPECIFICATION WebSpec
CONSTANTS
  ann = ann
  bob = bob
  t1 = t1
  t2 = t2
  eth = eth
  usb = usb
  game1 = game1
  game2 = game2
  sub1 = sub1
  click1 = click1
  report1 = report1
  report2 = report2
  report3 = report3
  worker1 = worker1
  worker2 = worker2
  Accounts <- MCAccounts
  Tokens <- MCTokens
  Owner <- MCOwner
  NoToken = NoToken
  Kept = 2
  MaxFailovers = 3
  MaxRecorded = 3
  MaxVisits = 2
  MaxPolls = 2
  MaxMounts = 2
  MaxRuns = 2
  MaxSamples = 2
  MaxOpenings = 2
  Subs <- MCSubs
  Clicks <- MCClicks
  MaxRows = 2
  MaxKeys = 2
  MaxTabs = 1
  MaxDevices = 2
  NoSub = NoSub
  Duration = 2
  Baseline = 2
  MaxTests = 2
  MaxPings = 2
  MaxReadings = 3
  Votable <- MCVotable
  MaxVotes = 2
  MaxOthers = 1
  MaxFormPages = 2
  MaxEntries = 2
  Ifaces <- MCIfaces
  MaxChanges = 2
  NoCards = NoCards
  NoIface = NoIface
  MaxOutages = 2
  Workers <- MCWorkers
  Reports <- MCReports
  WorkerOf <- MCWorkerOf
  MaxTurns = 3
  Slots <- MCSlots
INVARIANTS
  WebIInv
  SignedInIsSelf
  AnnouncedOnce
  EverySampleAccounted
  ConfigWorks
  AccessEnds
  CountedOnce
PROPERTIES
  LiveSessionStays
  SessionLive
  StreamLive
  PingLive
  BillingLive
  JitterLive
  InterfacesLive
  OutagesLive
CHECK_DEADLOCK FALSE
