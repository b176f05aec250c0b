SPECIFICATION FairSpec
CONSTANTS
  OwnData = {0, 1}
  OwnCtrl = {2}
  Others = {}
  MaxRecords = 5
INVARIANTS TypeOK FileIsFaithful CompleteAtJoin
PROPERTY DestructorReturns
CHECK_DEADLOCK FALSE
