SPECIFICATION Spec
CONSTANTS
  Paths = {dish, phone}
  Dish = dish
  SendMode = "primary"
  ReplyMode = "primary"
  Stall = 1
  PathTTL = 2
  MaxChanges = 3
  Busy = FALSE
  NoPath = NoPath
INVARIANTS
  HeardIsAnswered
  MobileRestsUntilStall
PROPERTY
  FailoverWorks
