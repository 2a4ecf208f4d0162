SPECIFICATION Spec
CONSTANTS
  PreambleBits = 3
  SfdBits = 3
  OnAirPhrBits = 2
  RegisterBits = 4
  Sfd = 4
  FrameLength <- MCFrameLength
  AirHorizon = 12
INVARIANTS
  TypeOK
  DetectionsAreStarts
CHECK_DEADLOCK FALSE
