SPECIFICATION Spec
CONSTANTS
  c1 = c1
  c2 = c2
  Null = Null
  Clients = {c1, c2}
  Urls <- MarketFeeds
  MaxConn = 2
  MaxSeq = 0
  Offsets = {0, 4}
  ForeignPids = {}
  DrainCounts = {1}
  DrainedTeardown = TRUE
  Throwing = {"CONNECTED", "ERROR"}
  MaxQueue = 2
INVARIANTS TypeOK RoutedToOwner
PROPERTIES CalledForItsWriter FirstFrameAccepted KeepsContract
SYMMETRY Symmetry
