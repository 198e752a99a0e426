SPECIFICATION Spec
CONSTANTS
  Paths = {dish, phone}
  Dish = dish
  SendMode = "primary"
  ReplyMode = "primary"
  Stall = 1
  PathTTL = 2
  MaxChanges = 2
  Busy = TRUE
  NoPath = NoPath
PROPERTY
  ReturnsToPrimary
