SPECIFICATION DrawSpec
CONSTANTS
  W = 16
  Rates <- SomeRates
  Unit = 4
  Ranges <- SomeRanges
  Throttles = {0, 1, 5}
  Second = 5
  BitsPerByte = 2
  Sizes = {0, 3, 7}
  MaxResamples = 1
INVARIANTS
  DrawTypeOK
  StreamsIndependent
  DrawsUnbiased
  SiteInUnit
  SerializationExact
