SPECIFICATION Spec
CONSTANTS
  Order = {o1, o2}
  Item = {i1}
  Handler = {h1, h2}
  Cron = {}
  NoOrder = NoOrder
  RollLength = 3
  MaxVersion = 4
  MaxEdits = 0
  Methods <- Cash
  Baskets <- RollCarts
  Ops <- SaleOps
SYMMETRY Symmetry
INVARIANTS
  RollCoversReservations
  RollLengthConserved
  CutExactlyOnce
  CancelledLeavesNothing
CHECK_DEADLOCK FALSE
