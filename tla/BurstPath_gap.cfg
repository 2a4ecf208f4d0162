SPECIFICATION Spec
CONSTANTS
  Powers = {1, 3}
  FullScale = 3
  Relative = 3
  HalfWindow = 3
  Settling = 1
  TrailingSamples = 2
  SquelchInput = 2
  SquelchBuffer = 3
  AirHorizon = 10
  EstimationLength = 2
INVARIANT GapsUnmodified
CHECK_DEADLOCK FALSE
