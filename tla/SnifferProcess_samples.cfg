SPECIFICATION Spec
CONSTANTS
  CommandLines <- McMultiLines
  MaxSignals = 0
INVARIANT TwoSamplesPerSymbol
CHECK_DEADLOCK FALSE
