SPECIFICATION FairSpec
CONSTANTS
  CommandLines <- McLines
  MaxSignals = 2
INVARIANTS
  TypeOK
  PlanHolds
  ModesNeedConditions
  ChannelsReceived
  SingleAlwaysFits
  OutputIsFifo
  CleanExit
PROPERTY
  Ends
CHECK_DEADLOCK FALSE
