SPECIFICATION Spec
CONSTANTS
  Chat = {c0}
  Worker = {w1, w2}
  Session = {s1}
  Order = {o1}
  NoChat = NoChat
  NoOrder = NoOrder
  ResultPages = {1, 2}
  MaxPrompts = 1
  Day = {1, 2}
  Booking = {b1}
  Caller = {r1, r2}
  Default = 1
  Capacities = {0}
  Key = {k1, k2}
  Asker = {a1, a2}
  Limit = 1
  Attempts = 2
  MaxDeaths = 2
  MaxRetries = 2
  Production = FALSE
  Webhook = TRUE
INVARIANTS
  ServicesTypeOK
  PromptAnsweredOnce
  SlotsAddUp
  ResultStays
PROPERTIES
  PreviewEnds
  StopsForGood
CHECK_DEADLOCK FALSE
