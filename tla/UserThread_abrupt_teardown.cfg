SPECIFICATION Spec
CONSTANTS
  c1 = c1
  c2 = c2
  Null = Null
  Clients = {c1}
  Urls <- MarketFeed
  MaxConn = 2
  MaxSeq = 1
  Offsets = {0, 4}
  ForeignPids = {}
  DrainCounts = {1}
  DrainedTeardown = FALSE
  Throwing = {}
  MaxQueue = 3
PROPERTY FirstFrameAccepted
