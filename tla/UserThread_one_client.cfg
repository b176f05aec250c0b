SPECIFICATION FairSpec
CONSTANTS
  c1 = c1
  c2 = c2
  Null = Null
  Clients = {c1}
  Urls <- UserFeed
  MaxConn = 2
  MaxSeq = 3
  Offsets = {0, 8}
  ForeignPids = {5}
  DrainCounts = {0, 2}
  DrainedTeardown = TRUE
  Throwing = {"CONNECTED", "ERROR"}
  MaxQueue = 2
PROPERTIES KeepsContract CallReturns ConnectionAnnounced ClosureAnnounced
