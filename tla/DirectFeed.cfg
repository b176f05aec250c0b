SPECIFICATION Spec
CONSTANTS
  c1 = c1
  Null = Null
  Throwing = {}
  Clients = {c1}
  Urls <- BothFeeds
  MaxConn = 2
  MaxSeq = 3
INVARIANTS TypeOK SequenceFollowsConnection
PROPERTY KeepsContract
