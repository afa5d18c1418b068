SPECIFICATION FairSpec
CONSTANTS
  Order = {o1}
  Item = {i1}
  Handler = {h1, h2, c1}
  Cron = {c1}
  NoOrder = NoOrder
  RollLength = 1
  MaxVersion = 7
  MaxEdits = 0
  Methods <- Cash
  Baskets <- OneOfEach
  Ops <- LifeOps
PROPERTIES
  StatusFollowsMap
  DeliveredIsClosed
CHECK_DEADLOCK FALSE
