SPECIFICATION Spec
CONSTANTS
  Order = {o1}
  Item = {i1}
  Handler = {h1, h2}
  Cron = {}
  NoOrder = NoOrder
  RollLength = 1
  MaxVersion = 4
  MaxEdits = 0
  Methods <- Cash
  Baskets <- OneOfEach
  Ops <- AllButEditOps
SYMMETRY Symmetry
INVARIANTS
  CancelledLeavesNothing
CHECK_DEADLOCK FALSE
