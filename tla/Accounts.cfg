SPECIFICATION Spec
CONSTANTS
  User = {u0, u1}
  Chat = {c0, c1}
  Link = {l1}
  CourierLink = {i1}
  Worker = {w1, w2}
  NoChat = NoChat
  OwnerChat = c0
  OwnerRow = u0
  Person <- SamePerson
  MaxAsks = 1
  OpGroups <- Groups
  Account = {a1}
  Device = {d1, d2}
  Token = {t1, t2, t3}
  Request = {w1, w2}
  Customer = {d1, d2}
  Email = {e1, e2}
  Phone = {p1, p2}
  Clerk = {w1, w2}
  NoEmail = NoEmail
  NoPhone = NoPhone
  Digits <- SameDigits
  MaxCodes = 2
  WayGroups <- Ways
  Parts = {"roles", "sessions", "registration"}
SYMMETRY Symmetry
INVARIANTS
  AccountsTypeOK
  DecidedOnce
  LinkingRefusedOnlyIfCrossed
  RotatedOnceUnlessRaced
  EndedStaysEnded
  CodeWorksOnce
PROPERTIES
  LinkKeepsFirst
  AccountKeepsEmail
CHECK_DEADLOCK FALSE
