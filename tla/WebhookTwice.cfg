SPECIFICATION Spec
CONSTANTS
  Order = {o1}
  Item = {i1, i2}
  Handler = {h1, h2}
  Cron = {}
  NoOrder = NoOrder
  RollLength = 1
  MaxVersion = 4
  MaxEdits = 0
  Methods <- Online
  Baskets <- TwoCarpets
  Ops <- WebhookOps
SYMMETRY Symmetry
INVARIANTS
  MoneyAddsUp
CHECK_DEADLOCK FALSE
