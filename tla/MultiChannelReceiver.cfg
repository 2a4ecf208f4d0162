SPECIFICATION ReceiverSpec
CONSTANTS
  Channels = {c1, c2}
  Frames = {f1, f2}
  PrependSection = TRUE
  PrependInterface = TRUE
  MaxFrames = 2
  Window = 2
  History = 2
  MaxHeard = 4
  Latency = 1
  MaxTime = 3
INVARIANTS
  ReceiverTypeOK
  FramesRecorded
  DescribedForOneChannel
  ReadableOnceOpened
  DuplicatesCounted
  CopyReported
  RetransmissionPasses
SYMMETRY McSymmetry
CHECK_DEADLOCK FALSE
