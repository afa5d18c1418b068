SPECIFICATION Spec
CONSTANTS
  Order = {o1, o2}
  Item = {i1, i2}
  Handler = {h1, h2}
  Cron = {}
  NoOrder = NoOrder
  RollLength = 0
  MaxVersion = 4
  MaxEdits = 0
  Methods <- Cash
  Baskets <- ReadyCarts
  Ops <- SaleAndReturnOps
SYMMETRY Symmetry
INVARIANTS
  TypeOK
  WritesAreSound
  NoDoubleAllocation
  OffShelfIffKept
  SoldIffHandedOver
PROPERTIES
  StockPromise
CHECK_DEADLOCK FALSE
