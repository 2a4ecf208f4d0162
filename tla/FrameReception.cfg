SPECIFICATION Spec
CONSTANT
  Setups <- McSetups
INVARIANTS
  TypeOK
  ErrorsCorrected
  ValidMeansSent
  SurvivorIsNearest
CHECK_DEADLOCK FALSE
