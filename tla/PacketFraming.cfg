SPECIFICATION FairFramingSpec
CONSTANTS
  OctetBits = 2
  MaxOctets = 3
  Levels = {1, 2, 3, 4, 5, 6, 7, 8}
  Threshold = 0
  Horizon = 9
  Streams <- MCStreams
  InputBuffer = 4
  OutputBuffer = 4
  HeaderBits = 3
  WhiteBuffer = 4
  PackedBuffer = 4
  IntHalf = 6
INVARIANTS
  ThrowsOnlyAfterWrap
  PdusAreFrames
  PdusDewhitened
  RssiIsOwn
PROPERTY
  DeliversFrames
CHECK_DEADLOCK FALSE
