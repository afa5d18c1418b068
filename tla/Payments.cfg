SPECIFICATION Spec
CONSTANTS
  Order = {o1}
  Item = {i1, i2}
  Handler = {h1, c1}
  Cron = {c1}
  NoOrder = NoOrder
  RollLength = 2
  MaxVersion = 3
  MaxEdits = 1
  Methods <- Online
  Baskets <- MixedCarts
  Ops <- PaymentOps
SYMMETRY Symmetry
INVARIANTS
  MoneyAddsUp
CHECK_DEADLOCK FALSE
