SPECIFICATION Spec
CONSTANTS
  Channels = {"l2_data", "candles", "user"}
  Numbers = {5, 6, 7}
  MaxEvents = 2
  MaxFrames = 3
  MaxTotal = 4
INVARIANTS
  TypeOK
  OnceInOrder
  OnlyOwnEventsLost
  GapIsSticky
CHECK_DEADLOCK FALSE
