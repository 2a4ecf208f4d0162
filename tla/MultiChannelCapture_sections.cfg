SPECIFICATION Spec
CONSTANTS
  Channels = {c1, c2}
  Frames = {f1}
  PrependSection = TRUE
  PrependInterface = TRUE
  MaxFrames = 2
INVARIANT InterfacesDescribed
CHECK_DEADLOCK FALSE
