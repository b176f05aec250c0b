SPECIFICATION Spec
CONSTANTS
  c1 = c1
  c2 = c2
  Null = Null
  Clients = {c1, c2}
  Urls <- BothOrNone
  MaxConn = 2
  MaxSeq = 0
  Lists <- SomeLists
  MaxOutbox = 2
INVARIANTS TypeOK HeldIsSubscribed HeartbeatsKeepUser
CHECK_DEADLOCK FALSE
