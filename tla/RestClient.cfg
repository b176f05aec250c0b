SPECIFICATION Spec
CONSTANTS
  OrderIds = {o1, o2}
  MaxCancels = 2
  MaxPages = 3
INVARIANTS
  SidesAreChecked
  LegsAreKept
  ReadsBack
  ReportsAreTrue
  EveryIdAnswered
  OnlyBarePagesMissing
  WholeUnlessFailed
  CommandsAreTrue
PROPERTY CallEnds
