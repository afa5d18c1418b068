SPECIFICATION Spec
CONSTANTS
  Numbered = {k1}
  Barcode = {b1, b2}
  Desk = {w1, w2}
  NoCarpet = NoCarpet
  Designs = {FALSE}
  Uses <- EachAlone
  Fan = {f1, f2}
  Model = {m1, m2}
  Visitor = {v1, v2}
  Price = {1, 2}
  NoPrice = NoPrice
  PriceWays = {"update", "tariff", "import", "sync", "create", "remove"}
  MaxOffers = 2
  MaxDrift = 1
  Parts = {"shelves", "likes", "prices", "lists", "search"}
  Numbers <- Boundaries
  Letters = {"a", "b"}
  MaxWord = 3
  Synonym <- Meanings
  Indexes <- UpToTwo
  Shelves <- UpToThree
  Wanted <- AskedFor
INVARIANTS
  ShopWindowTypeOK
  OneSyncAtATime
  SyncMatchesFile
  SyncFailureExplained
  LikesCounted
  
  ListIsFresh
  ReadsRight
  RankingDeterministic
PROPERTIES
  LockComesFree
CHECK_DEADLOCK FALSE
