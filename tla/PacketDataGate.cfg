SPECIFICATION FairSpec
CONSTANTS
  OctetBits = 2
  MaxOctets = 2
  Levels = {1, 3, 4}
  Threshold = 2
  Horizon = 7
  MaxTags = 3
  MaxReadings = 4
  Streams <- MCStreams
  InputBuffer = 4
  OutputBuffer = 3
  IntHalf = 4
INVARIANTS
  TypeOK
  NoOverrun
  PacketsIntact
  OnlyPacketBits
  DetectionsHandled
  TagsOnTheirItemsBeforeWrap
  PacketRssiIsSecondReading
  TruncationReported
PROPERTY
  AllItemsRead
CHECK_DEADLOCK FALSE
