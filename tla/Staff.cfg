SPECIFICATION Spec
CONSTANTS
  Order = {o1}
  Item = {i1}
  Handler = {h1, h2}
  Cron = {}
  NoOrder = NoOrder
  RollLength = 1
  MaxVersion = 4
  MaxEdits = 1
  Methods <- Cash
  Baskets <- OneCarpet
  Ops <- StaffOps
SYMMETRY Symmetry
INVARIANTS
  RefundOncePerEdition
  RefundIsDecided
PROPERTIES
  FinishedStaysFinished
CHECK_DEADLOCK FALSE
