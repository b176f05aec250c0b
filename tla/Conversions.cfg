SPECIFICATION ConversionSpec
CONSTANTS
  Seconds = {1, 2}
  Fractions <- SampledFractions
  Wholes <- SampledWholes
  Nanos <- SampledNanos
  Increments <- SampledIncrements
INVARIANTS RoundTrip WithinOneUnit PriceKept PriceNear
PROPERTIES OrderKept PriceOrderKept
CHECK_DEADLOCK FALSE
