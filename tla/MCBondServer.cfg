SPECIFICATION Spec
CONSTANTS
  gamer = gamer
  other = other
  dish = dish
  phone = phone
  wifi = wifi
  s1 = s1
  s2 = s2
  t1 = t1
  l1 = l1
  l2 = l2
  Clients = {gamer, other}
  Addrs = {dish, phone, wifi}
  Sessions = {s1, s2, t1}
  Listeners = {l1, l2}
  Holder <- MCHolder
  Peer <- MCPeer
  Port <- MCPort
  Asks <- MCAsks
  Data = {1}
  DefaultMode = "primary"
  PathTTL = 0
  Horizon = 1
  MaxRestarts = 1
  MaxArrivals = 4
  NoAddr = NoAddr
  NoSession = NoSession
  Initiation = 0
SYMMETRY MCSymmetry
INVARIANTS
  ReplyReachesOwner
  AnswerFindsAWay
  HandedOverOnce
PROPERTIES
  ModeSticks
  IsRelay
CHECK_DEADLOCK FALSE
