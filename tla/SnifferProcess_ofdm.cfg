SPECIFICATION Spec
CONSTANTS
  CommandLines <- McOfdmLines
  MaxSignals = 0
INVARIANT OfdmRejected
CHECK_DEADLOCK FALSE
