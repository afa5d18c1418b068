SPECIFICATION Spec
CONSTANTS
  Numbered = {k1}
  Barcode = {b1, b2}
  Desk = {w1, w2}
  NoCarpet = NoCarpet
  Designs = {FALSE}
  Uses <- NoUses
  Fan = {f1, f2}
  Model = {m1, m2}
  Visitor = {v1, v2}
  Price = {1, 2}
  NoPrice = NoPrice
  PriceWays = {"update", "tariff"}
  MaxOffers = 2
  MaxDrift = 1
  Parts = {"prices"}
  Numbers <- NoNumbers
  Letters = {"a", "b"}
  MaxWord = 3
  Synonym <- Meanings
  Indexes <- NoIndex
  Shelves <- NoShelves
  Wanted <- AskedFor
PROPERTIES
  ReturnedPriceFixed
CHECK_DEADLOCK FALSE
