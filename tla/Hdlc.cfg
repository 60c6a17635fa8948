SPECIFICATION Spec
CONSTANTS
  Payloads <- Frames
  ECONET_MTU = 8
  BitsSize = 25
  MaxFrames = 2
  MaxNoise = 2
  MaxFaults = 1
INVARIANTS NothingMadeUp IdleMeansNoFrame
PROPERTIES FramesGetThrough
CHECK_DEADLOCK FALSE
