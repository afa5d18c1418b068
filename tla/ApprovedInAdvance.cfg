SPECIFICATION Spec
CONSTANTS
  User = {u0, u1}
  Chat = {c0, c1}
  Link = {}
  CourierLink = {}
  Worker = {w1}
  NoChat = NoChat
  OwnerChat = c0
  OwnerRow = u0
  Person <- SamePerson
  MaxAsks = 1
  OpGroups <- WithProfileLink
  Account = {a1}
  Device = {d1, d2}
  Token = {t1, t2, t3}
  Request = {r1, r2, r3}
  Customer = {n1, n2}
  Email = {e1, e2}
  Phone = {p1, p2}
  Clerk = {k1, k2}
  NoEmail = NoEmail
  NoPhone = NoPhone
  Digits <- SameDigits
  MaxCodes = 2
  WayGroups <- NoWays
  Parts = {"roles"}
INVARIANTS
  PreApprovedBecomesAdmin
CHECK_DEADLOCK FALSE
