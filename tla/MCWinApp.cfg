SPECIFICATION Spec
CONSTANTS
  h1 = h1
  h2 = h2
  a1 = a1
  a2 = a2
  Hosts <- MCHosts
  Adapters <- MCAdapters
  MaxStarts = 2
  MaxExits = 1
  Flaky <- MCFlaky
INVARIANTS
  NoRemnants
  PinsKept
PROPERTIES
  ConnectingEnds
  IsAppLife
