SPECIFICATION Spec
CONSTANTS
  OctetBits = 2
  MaxOctets = 2
  Levels = {}
  Threshold = 0
  Horizon = 8
  MaxTags = 3
  MaxReadings = 0
  Streams <- MCDetections
  InputBuffer = 5
  OutputBuffer = 3
  IntHalf = 3
INVARIANT
  TagsOnTheirItems
CHECK_DEADLOCK FALSE
